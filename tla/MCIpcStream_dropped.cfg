CONSTANTS
  Uses <- DroppedUses
  MaxReqs = 2
  MaxTasks = 1
  MaxNews = 1
SPECIFICATION Spec
INVARIANT NoForeignReply
CHECK_DEADLOCK FALSE
