SPECIFICATION Spec
CONSTANTS
  EventQueueSize = 4
  Subscriptions = 1
  AttemptLimit = 0
  ImmediateRetry = FALSE
  AutoConnect = TRUE
  ReuseConnection = FALSE
  UseNtp = TRUE
  BrokerHeartbeat = TRUE
  Disturbances = 1
PROPERTY StopArmsNoRetry
