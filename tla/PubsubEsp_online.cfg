SPECIFICATION Spec
CONSTANTS
  EventQueueSize = 4
  Subscriptions = 1
  AttemptLimit = 3
  ImmediateRetry = FALSE
  AutoConnect = TRUE
  ReuseConnection = FALSE
  UseNtp = TRUE
  BrokerHeartbeat = TRUE
  Disturbances = 3
INVARIANTS TypeOK FlagAgrees NeverStranded SubscribedWhenSettled WatchdogInTime
PROPERTIES OfflineEnds EventuallyOnline
