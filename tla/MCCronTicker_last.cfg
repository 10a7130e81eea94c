CONSTANTS
  h1 = h1 h2 = h2
  Hotels = {h1, h2}
  Offset <- Stagger
  OptedIn = {h1}
  Schedule = {2, 3}
  NextFire <- Twice
  Ops = {}
  MaxOps = 0
  Faults = {"crash", "lose", "again", "deserted"}
  MaxFaults = 0
  MaxTime = 4
  NoJob = NoJob
SPECIFICATION Spec
INVARIANT AnnouncedFiresOnce
