SPECIFICATION Spec
CONSTANTS
  OwnTasks = {}
  QueueSize = 2
  FlushCounts = {1}
  DropCounts = {}
  UseSleep = FALSE
  MaxMessages = 4
PROPERTIES DropsOldest
