SPECIFICATION FairSpec
CONSTANTS
  Options <- MCOptions
  Threshold = 2
  ProbeLimit = 2
  Lines = 1
  Faults = 1
  Commands = 1
INVARIANTS TypeOK LossIsKnown NeverStranded
PROPERTY OnlineInTheEnd
CHECK_DEADLOCK FALSE
