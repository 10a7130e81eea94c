CONSTANTS
  Uses <- MemoryUses
  MaxReqs = 2
  MaxTasks = 1
  MaxNews = 1
SPECIFICATION FairSpec
PROPERTY MemoryRefreshAnswered
CHECK_DEADLOCK FALSE
