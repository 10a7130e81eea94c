CONSTANTS
  g1 = g1 g2 = g2 r1 = r1 r2 = r2
  Guests = {g1}
  Dispatcher = g1
  Reqs = {r1}
  Sup = Sup
  Ttl <- NoTtl
  BudgetMax = 1
  Window = 2
  StaleAfter = 1
  Ops = {"demand"}
  MaxOps = 2
  Faults = {"spawn"}
  MaxFaults = 1
  MaxSpawns = 6
  MaxTime = 1
  NoGuest = NoGuest
  Free = Free
SPECIFICATION Spec
PROPERTY SupervisorSpawnsOnce
