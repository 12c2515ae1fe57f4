SPECIFICATION PlaneFairSpec
CONSTANTS
  i1 = i1
  i2 = i2
  u1 = u1
  u2 = u2
  u3 = u3
  Kind = "runtime"
  Instances = {i1, i2}
  Updates = {u1, u2, u3}
  MaxRestarts = 1
  Handler <- MCHandler
INVARIANTS NoLostUpdate
PROPERTIES Converges
