CONSTANTS
  Instances = {i1, i2}
  Requests = {r1}
  L1TTL = 2
  L2TTL = 2
  LoadTime = 1
  MaxCalls = 1
  MaxFaults = 1
SYMMETRY Symmetry
SPECIFICATION Spec
INVARIANTS StaleBounded
PROPERTY PromotionCurrent
