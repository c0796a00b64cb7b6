SPECIFICATION FairSpec
CONSTANTS
  AutoConnect = TRUE
  Reconnect = TRUE
  AttemptMax = 0
  Devices <- MCPlainDevice
  UserCommands = {}
  EventBound = 3
  Disturbances = 2
PROPERTIES AttemptsGoOn
