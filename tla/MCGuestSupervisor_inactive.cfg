CONSTANTS
  g1 = g1 g2 = g2 r1 = r1 r2 = r2
  Guests = {g1}
  Dispatcher = NoGuest
  Reqs = {r1}
  Sup = Sup
  Ttl <- NoTtl
  BudgetMax = 1
  Window = 2
  StaleAfter = 1
  Ops = {"deactivate"}
  MaxOps = 1
  Faults = {"exit"}
  MaxFaults = 1
  MaxSpawns = 7
  MaxTime = 1
  NoGuest = NoGuest
  Free = Free
SPECIFICATION FairSpec
PROPERTY InactiveStops
