SPECIFICATION FairSpec
CONSTANTS
  AutoConnect = TRUE
  Reconnect = TRUE
  AttemptMax = 0
  Devices <- MCDevices
  UserCommands = {"connect", "disconnect", "stop", "start"}
  EventBound = 3
  Disturbances = 2
INVARIANTS TypeOK NoGhostLink
PROPERTIES NewsArrives OnlineInTheEnd
