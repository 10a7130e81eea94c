CONSTANTS
  None = None
  Tasks = {m1, m2}
  GatedTasks = {m2}
  Named = {m1}
  Tools = {look, rule}
  Gated = {look}
  Locked = {rule}
  Observes = {look}
  Direct = Direct
  QueueCap = 1
  IterationCap = 2
  MaxTier = 1
  MaxCommands = 1
  MaxFaults = 1
  MaxRestarts = 1
SPECIFICATION FairSpec
INVARIANTS TypeOK OneHome FinalIsFinal NothingRunsUnasked
PROPERTIES TurnsEndTold TurnsEnd
CHECK_DEADLOCK FALSE
