SPECIFICATION FairSpec
CONSTANTS
  OwnTasks = {"own"}
  QueueSize = 1
  FlushCounts = {0,1,2}
  DropCounts = {0,1}
  UseSleep = TRUE
  MaxMessages = 3
INVARIANTS TypeOK Accounted
PROPERTIES OutboxKept QueueDrains FlushEnds
