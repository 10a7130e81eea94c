CONSTANTS
  Uses <- MixedUses
  MaxReqs = 3
  MaxTasks = 2
  MaxNews = 1
SPECIFICATION FairSpec
INVARIANTS TypeOK OwnReply StaleIsOwed TasksInOrder
PROPERTY Answered
CHECK_DEADLOCK FALSE
