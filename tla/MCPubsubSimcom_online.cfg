SPECIFICATION FairSpec
CONSTANTS
  Options <- MCOptions
  QueueSize = 2
  Lines = 1
  Faults = 2
  Commands = 2
INVARIANTS TypeOK PortReturned NeverStranded SubscribedWhenSettled
PROPERTY HeardInTheEnd
CHECK_DEADLOCK FALSE
