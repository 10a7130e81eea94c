CONSTANTS
  None = None
  Tasks = {m1, m2}
  GatedTasks = {}
  Named = {m1}
  Tools = {look, rule}
  Gated = {look}
  Locked = {rule}
  Observes = {look}
  Direct = Direct
  QueueCap = 1
  IterationCap = 2
  MaxTier = 1
  MaxCommands = 0
  MaxFaults = 0
  MaxRestarts = 0
SPECIFICATION Spec
INVARIANT EvictedStaysEvicted
CHECK_DEADLOCK FALSE
