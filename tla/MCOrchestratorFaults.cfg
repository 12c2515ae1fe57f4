SPECIFICATION FairSpec
CONSTANTS
  Requests = {r1, r2}
  Streaming = {r2}
  Candidates = 1
  MaxAttempts = 2
  FailureThreshold = 2
  OpenDuration = 1
  HalfOpenMaxProbes = 1
  MaxInFlight = 1
  MaxWaiting = 1
  KeyCount = 1
  MaximumRetryAfter = 1
  DefaultCooldown = 1
  Endings = {"canceled", "deadline"}
  MaxGeneration = 3
  MaxVersion = 1
  Errors <- FaultErrors
INVARIANTS OutsideHoldsNothing HealthyStaysClosed
PROPERTIES UsesBreaker RequestEnds
