SPECIFICATION FairSpec
CONSTANTS
  Events = {e1}
  Workers = {w1, w2}
  Ids = {i1, i2}
  Losses = {"entry", "everything"}
  MaxFaults = 3
INVARIANTS NothingLost
PROPERTIES RecordedOnce StoredWithGroup
