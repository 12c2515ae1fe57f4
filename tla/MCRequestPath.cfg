CONSTANTS
  NumRequests = 2
  Asks <- MCAsks
  Definitions <- MCDefinitions
  Limit = 1
  MaxInFlight = 1
  MaxDisturbances = 2
  MaxPolicyVersion = 2
SPECIFICATION Spec
INVARIANTS
  CachedAnswersMatch
  CallIsAccounted
  SlotsBounded
  EventsValid
  OwnEventKept
PROPERTIES
  EverythingEnds
  PolicyConverges
CHECK_DEADLOCK FALSE
