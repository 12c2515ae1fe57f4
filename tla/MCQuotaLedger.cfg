SPECIFICATION FairSpec
CONSTANTS
  p1 = p1
  p2 = p2
  Groups = {g1, g2}
  Policies = {p1, p2}
  MaxPeriod = 1
  Limit <- MCLimit
  Overage <- MCOverage
  Estimates <- MCEstimates
  Events <- MCEvents
INVARIANTS LedgerBalances RequestLimitHolds OverrunIsUsersOwn
PROPERTIES ReservationsClose
