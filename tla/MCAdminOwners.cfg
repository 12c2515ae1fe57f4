SPECIFICATION Spec
CONSTANTS
  Principals = {p1, p2}
  Sessions = {s1, s2}
INVARIANTS OwnerRemains
