CONSTANTS
  g1 = g1 g2 = g2 r1 = r1 r2 = r2
  Guests = {g1}
  Dispatcher = NoGuest
  Reqs = {r1}
  Sup = Sup
  Ttl <- ShortTtl
  BudgetMax = 1
  Window = 2
  StaleAfter = 1
  Ops = {}
  MaxOps = 0
  Faults = {"exit"}
  MaxFaults = 1
  MaxSpawns = 6
  MaxTime = 4
  NoGuest = NoGuest
  Free = Free
SPECIFICATION FairSpec
PROPERTY ExpiredRoleStops
CHECK_DEADLOCK FALSE
