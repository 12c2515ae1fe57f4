SPECIFICATION Spec
CONSTANTS
  Requests = {r1, r2}
  Streaming = {}
  Candidates = 2
  MaxAttempts = 2
  FailureThreshold = 2
  OpenDuration = 1
  HalfOpenMaxProbes = 1
  MaxInFlight = 1
  MaxWaiting = 0
  KeyCount = 2
  MaximumRetryAfter = 1
  DefaultCooldown = 1
  Endings = {}
  MaxGeneration = 1
  MaxVersion = 1
  Errors <- KeyErrors
INVARIANTS CallsBounded
PROPERTIES RefusedKeyAvoided
SYMMETRY Symmetry
