SPECIFICATION FairSpec
CONSTANTS
  Calls = {c1, c2, c3}
  FailureThreshold = 2
  OpenDuration = 2
  HalfOpenMaxProbes = 2
  MaxGeneration = 6
  Outcomes <- MCOutcomes
PROPERTIES ImplementsPolicy NeverWedged
