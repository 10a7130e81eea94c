CONSTANTS
  None = None
  Tasks = {m1, m2}
  GatedTasks = {m2}
  Named = {m1}
  Tools = {look, rule}
  Gated = {look}
  Locked = {rule}
  Observes = {look}
  Direct = Direct
  QueueCap = 1
  IterationCap = 2
  MaxTier = 1
  MaxCommands = 1
  MaxFaults = 0
  MaxRestarts = 0
SPECIFICATION Spec
PROPERTY NotOverwritten
CHECK_DEADLOCK FALSE
