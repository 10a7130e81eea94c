CONSTANTS
  g1 = g1 g2 = g2 r1 = r1 r2 = r2
  Guests = {g1}
  Dispatcher = g1
  Reqs = {r1}
  Sup = Sup
  Ttl <- ShortTtl
  BudgetMax = 1
  Window = 2
  StaleAfter = 1
  Ops = {"demand", "restart", "heal", "activate", "deactivate", "remove"}
  MaxOps = 1
  Faults = {"spawn", "exit", "wedge", "crash", "mark"}
  MaxFaults = 1
  MaxSpawns = 7
  MaxTime = 3
  NoGuest = NoGuest
  Free = Free
SPECIFICATION FairSpec
INVARIANTS TypeOK WindowBudget
PROPERTIES OnDemandSpawnsOnce Recovers
CHECK_DEADLOCK FALSE
