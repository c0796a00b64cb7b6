-------------------------- MODULE PubsubEspProofs --------------------------
(***************************************************************************)
(* Proofs about PubsubEsp for every queue size, attempt limit, number of   *)
(* subscriptions and of disturbances, and every setting of the options:    *)
(* types and the flag of the connection first, then the retries and the    *)
(* subscriptions: a leaf that is offline has a retry armed, the watchdog   *)
(* is in time, and a session that was announced is subscribed.             *)
(***************************************************************************)
EXTENDS PubsubEsp, TLAPS

-----------------------------------------------------------------------------
(* What the operators shared by the actions do to the types.               *)

\* One disturbance less is still within the bound.
LEMMA DisturbTyped ==
  ASSUME budget \in 0..Disturbances, Disturb
  PROVE  budget' \in 0..Disturbances
  BY PubsubAssumption DEF Disturb

\* Counting an attempt keeps the counter within its saturation bound.
LEMMA BumpTyped ==
  ASSUME NEW n \in 0..MaxAttempts
  PROVE  Bump(n) \in 0..MaxAttempts
  BY PubsubAssumption DEF Bump, MaxAttempts

\* eventQueueSend never overfills event_queue.
LEMMA QueueTyped ==
  ASSUME NEW e \in Events, QueueOK, EventQueueSend(e)
  PROVE  QueueOK'
  <1>1. event_queue' \in Seq(Events) /\ Len(event_queue') <= EventQueueSize
    BY PubsubAssumption DEF EventQueueSend, QueueOK
  <1>2. event_lost' \in BOOLEAN
    BY DEF EventQueueSend, QueueOK
  <1> QED
    BY <1>1, <1>2 DEF QueueOK

\* A session that ends leaves the client and the queue typed.
LEMMA SessionEndsTyped ==
  ASSUME NEW c \in {"down", "connecting"}, QueueOK, SessionEnds(c)
  PROVE  QueueOK' /\ ClientOK'
  <1>1. QueueOK'
    BY QueueTyped DEF SessionEnds, Events
  <1>2. client' \in {"down", "connecting", "up", "closing"}
    BY DEF SessionEnds
  <1>3. acks' \in 0..Subscriptions
    BY PubsubAssumption DEF SessionEnds
  <1>4. subscribed' \in BOOLEAN
    BY DEF SessionEnds
  <1> QED
    BY <1>1, <1>2, <1>3, <1>4 DEF ClientOK

\* Dropping a stale connection and connecting leaves both typed.
LEMMA OpenClientTyped ==
  ASSUME QueueOK, ClientOK, OpenClient
  PROVE  QueueOK' /\ ClientOK'
  <1>1. CASE client = "up" /\ ~ReuseConnection
    BY <1>1, SessionEndsTyped DEF OpenClient
  <1>2. CASE ~(client = "up" /\ ~ReuseConnection)
    BY <1>2 DEF OpenClient, ClientOK, QueueOK
  <1> QED
    BY <1>1, <1>2

\* mqttClient.disconnect() leads from a client state to a client state.
LEMMA ClientDisconnectTyped ==
  ASSUME ClientOK
  PROVE  ClientDisconnect(client) \in {"down", "connecting", "up", "closing"}
  BY DEF ClientDisconnect, ClientOK

\* pubsubScheduleReconnect goes on at next or reboots.
LEMMA ScheduleTyped ==
  ASSUME RetryOK, NEW due \in BOOLEAN, NEW att, NEW next \in Sections,
         ScheduleReconnect(att, due, next)
  PROVE  /\ pc' \in Sections
         /\ reconnect_due' \in BOOLEAN /\ reconnect_timer' \in BOOLEAN
  <1>1. pc' \in Sections
    BY DEF ScheduleReconnect, Sections
  <1>2. reconnect_due' \in BOOLEAN
    BY DEF ScheduleReconnect
  <1>3. reconnect_timer' \in BOOLEAN
    BY DEF ScheduleReconnect, RetryOK
  <1> QED
    BY <1>1, <1>2, <1>3

\* The same when the call depends on pubsub_autoconnect.
LEMMA ScheduleIfTyped ==
  ASSUME RetryOK, NEW due \in BOOLEAN, NEW att, NEW next \in Sections,
         ScheduleIfAutoConnect(att, due, next)
  PROVE  /\ pc' \in Sections
         /\ reconnect_due' \in BOOLEAN /\ reconnect_timer' \in BOOLEAN
  <1>1. CASE AutoConnect
    BY <1>1, ScheduleTyped DEF ScheduleIfAutoConnect
  <1>2. CASE ~AutoConnect
    BY <1>2 DEF ScheduleIfAutoConnect, RetryOK
  <1> QED
    BY <1>1, <1>2

\* pubsubConnect changes the retry state, connecting and the client only.
LEMMA ConnectTyped ==
  ASSUME RetryOK, QueueOK, ClientOK,
         NEW canRun, NEW due \in BOOLEAN, NEW dial \in Sections,
         NEW next \in Sections, Connect(canRun, due, dial, next)
  PROVE  /\ pc' \in Sections /\ connecting' \in BOOLEAN
         /\ RetryOK' /\ QueueOK' /\ ClientOK'
  <1>1. connecting' \in BOOLEAN
    BY DEF Connect
  <1>2. attempt_count' \in 0..MaxAttempts
    BY BumpTyped DEF Connect, RetryOK
  <1>3. CASE MustWait(canRun)
    <2>1. /\ ScheduleReconnect(Bump(attempt_count), due, next)
          /\ UNCHANGED clientVars
      BY <1>3 DEF Connect
    <2>2. QueueOK' /\ ClientOK'
      BY <2>1 DEF clientVars, ClientOK, QueueOK
    <2> QED
      BY <1>1, <1>2, <2>1, <2>2, ScheduleTyped DEF RetryOK
  <1>4. CASE ~MustWait(canRun)
    <2>1. /\ pc' = dial /\ reconnect_due' = due
          /\ UNCHANGED reconnect_timer /\ OpenClient
      BY <1>4 DEF Connect
    <2> QED
      BY <1>1, <1>2, <2>1, OpenClientTyped DEF RetryOK
  <1> QED
    BY <1>3, <1>4

\* pubsubOnDisconnect clears two flags and may arm a retry.
LEMMA OnDisconnectTyped ==
  ASSUME RetryOK, NEW next \in Sections, OnDisconnect(next)
  PROVE  /\ pc' \in Sections /\ RetryOK'
         /\ connected' = FALSE /\ connecting' = FALSE
  BY ScheduleIfTyped DEF OnDisconnect, RetryOK

-----------------------------------------------------------------------------
(* The type invariant, one lemma per task.                                 *)

\* Groups of variables an action leaves alone stay typed.
LEMMA UnchangedTyped ==
  ASSUME TypeOK
  PROVE  /\ UNCHANGED loopVars => LoopOK'
         /\ UNCHANGED flagVars => FlagsOK'
         /\ UNCHANGED retryVars => RetryOK'
         /\ UNCHANGED clientVars => QueueOK' /\ ClientOK'
         /\ UNCHANGED <<beat, envVars>> => EnvOK'
  BY DEF TypeOK, LoopOK, FlagsOK, RetryOK, QueueOK, ClientOK, EnvOK,
         loopVars, flagVars, retryVars, clientVars, envVars

\* The steps of AsyncMqttClient and of the timer keep every variable typed.
LEMMA ClientTaskTyped ==
  ASSUME TypeOK, ClientTask \/ TimerFires
  PROVE  TypeOK'
  <1> USE DEF TypeOK
  <1>1. CASE ClientUp
    <2>1. QueueOK'
      BY <1>1, QueueTyped DEF ClientUp, Events
    <2>2. ClientOK'
      BY <1>1 DEF ClientUp, ClientOK
    <2> QED
      BY <1>1, <2>1, <2>2, UnchangedTyped DEF ClientUp
  <1>2. CASE ClientFails
    <2>1. EnvOK'
      BY <1>2, DisturbTyped DEF ClientFails, EnvOK
    <2> QED
      BY <1>2, <2>1, SessionEndsTyped, UnchangedTyped DEF ClientFails
  <1>3. CASE ClientDrops
    <2>1. EnvOK'
      BY <1>3, DisturbTyped DEF ClientDrops, EnvOK
    <2> QED
      BY <1>3, <2>1, SessionEndsTyped, UnchangedTyped DEF ClientDrops
  <1>4. CASE ClientClosed
    BY <1>4, SessionEndsTyped, UnchangedTyped DEF ClientClosed
  <1>5. CASE ClientAck
    <2>1. QueueOK'
      BY <1>5, QueueTyped DEF ClientAck, Events
    <2>2. ClientOK'
      BY <1>5, PubsubAssumption DEF ClientAck, ClientOK
    <2> QED
      BY <1>5, <2>1, <2>2, UnchangedTyped DEF ClientAck
  <1>6. CASE TimerFires
    <2>1. RetryOK'
      BY <1>6 DEF TimerFires, RetryOK
    <2> QED
      BY <1>6, <2>1, UnchangedTyped DEF TimerFires
  <1> QED
    BY <1>1, <1>2, <1>3, <1>4, <1>5, <1>6 DEF ClientTask

\* The sections of loop() keep every variable typed.
LEMMA LoopTaskTyped ==
  ASSUME TypeOK, LoopTask
  PROVE  TypeOK'
  <1> USE DEF TypeOK
  <1>1. CASE LoopStarts
    <2>1. LoopOK'
      BY <1>1 DEF LoopStarts, LoopOK, Sections
    <2> QED
      BY <1>1, <2>1, UnchangedTyped DEF LoopStarts
  <1>2. CASE LoopHeartbeat
    <2>1. LoopOK'
      BY <1>2 DEF LoopHeartbeat, LoopOK, Sections
    <2>2. ClientOK'
      BY <1>2, ClientDisconnectTyped DEF LoopHeartbeat, ClientOK
    <2>3. QueueOK'
      BY <1>2 DEF LoopHeartbeat, QueueOK
    <2> QED
      BY <1>2, <2>1, <2>2, <2>3, UnchangedTyped DEF LoopHeartbeat
  <1>3. CASE LoopReconnect
    <2>1. CASE ip_connected /\ reconnect_due
      <3>1. Connect(TRUE, FALSE, "dial_loop", "notify")
        BY <1>3, <2>1 DEF LoopReconnect
      <3>2. /\ pc' \in Sections /\ connecting' \in BOOLEAN
            /\ RetryOK' /\ QueueOK' /\ ClientOK'
        BY <3>1, ConnectTyped DEF Sections
      <3>3. LoopOK' /\ FlagsOK'
        BY <1>3, <3>2 DEF LoopReconnect, LoopOK, FlagsOK
      <3> QED
        BY <1>3, <3>2, <3>3, UnchangedTyped DEF LoopReconnect
    <2>2. CASE ~(ip_connected /\ reconnect_due)
      <3>1. LoopOK' /\ FlagsOK'
        BY <1>3, <2>2 DEF LoopReconnect, LoopOK, FlagsOK, Sections
      <3> QED
        BY <1>3, <2>2, <3>1, UnchangedTyped DEF LoopReconnect
    <2> QED
      BY <2>1, <2>2
  <1>4. CASE DialReturns
    <2>1. CASE client = "up"
      <3>1. LoopOK' /\ RetryOK'
        BY <1>4, <2>1 DEF DialReturns, LoopOK, RetryOK, Sections
      <3> QED
        BY <1>4, <3>1, UnchangedTyped DEF DialReturns
    <2>2. CASE client # "up"
      <3>1. /\ pc' \in Sections
            /\ reconnect_due' \in BOOLEAN /\ reconnect_timer' \in BOOLEAN
        BY <1>4, <2>2, ScheduleIfTyped DEF DialReturns, RetryOK, Sections
      <3>2. LoopOK' /\ RetryOK'
        BY <1>4, <3>1 DEF DialReturns, LoopOK, RetryOK
      <3> QED
        BY <1>4, <3>2, UnchangedTyped DEF DialReturns
    <2> QED
      BY <2>1, <2>2
  <1>5. CASE LoopNotify
    <2>1. CASE connected /\ ~notified /\ OnConnect
      <3>1. LoopOK'
        BY <2>1 DEF OnConnect, LoopOK, Sections
      <3>6. FlagsOK'
        BY <2>1 DEF OnConnect, FlagsOK
      <3>7. reconnect_due' \in BOOLEAN /\ reconnect_timer' \in BOOLEAN
        BY <2>1 DEF OnConnect, RetryOK
      <3>8. attempt_count' \in 0..MaxAttempts
        BY <2>1, PubsubAssumption DEF OnConnect, MaxAttempts
      <3>2. RetryOK'
        BY <3>7, <3>8 DEF RetryOK
      <3>3. QueueOK'
        BY <2>1 DEF OnConnect, QueueOK
      <3>9. acks' \in 0..Subscriptions /\ client' = client
        BY <2>1, PubsubAssumption DEF OnConnect, ClientOK
      <3>10. subscribed' \in BOOLEAN
        BY <2>1 DEF OnConnect, ClientOK
      <3>4. ClientOK'
        BY <3>9, <3>10 DEF ClientOK
      <3>5. EnvOK'
        BY <2>1 DEF OnConnect, EnvOK, envVars
      <3> QED
        BY <3>1, <3>2, <3>3, <3>4, <3>5, <3>6
    <2>2. CASE /\ notified /\ ~connected
               /\ OnDisconnect("event") /\ notified' = FALSE
               /\ UNCHANGED <<run, stopping, beat, clientVars, envVars>>
      <3>1. /\ pc' \in Sections /\ RetryOK'
            /\ connected' = FALSE /\ connecting' = FALSE
        BY <2>2, OnDisconnectTyped DEF Sections
      <3>2. LoopOK' /\ FlagsOK'
        BY <2>2, <3>1 DEF LoopOK, FlagsOK
      <3> QED
        BY <2>2, <3>1, <3>2, UnchangedTyped
    <2>3. CASE /\ connected = notified
               /\ pc' = "event"
               /\ UNCHANGED <<run, stopping, flagVars, retryVars, beat,
                              clientVars, envVars>>
      <3>1. LoopOK'
        BY <2>3 DEF LoopOK, Sections
      <3> QED
        BY <2>3, <3>1, UnchangedTyped
    <2> QED
      BY <1>5, <2>1, <2>2, <2>3 DEF LoopNotify
  <1>6. CASE ProcessEvent
    <2>1. run' \in BOOLEAN /\ stopping' \in BOOLEAN
      BY <1>6 DEF ProcessEvent, EndOfPass, LoopOK
    <2>2. EnvOK'
      BY <1>6, UnchangedTyped DEF ProcessEvent
    <2>3. CASE event_queue = <<>>
      <3>1. LoopOK'
        BY <1>6, <2>1, <2>3 DEF ProcessEvent, LoopOK, Sections
      <3> QED
        BY <1>6, <2>2, <2>3, <3>1, UnchangedTyped DEF ProcessEvent
    <2>4. CASE event_queue # <<>>
      <3>6. event_queue' = Tail(event_queue) /\ event_lost' = event_lost
        BY <1>6, <2>4 DEF ProcessEvent
      <3>7. event_queue' \in Seq(Events) /\ Len(event_queue') <= EventQueueSize
        BY <2>4, <3>6, PubsubAssumption DEF QueueOK
      <3>1. QueueOK'
        BY <3>6, <3>7 DEF QueueOK
      <3>2. acks' = acks /\ subscribed' = subscribed
        BY <1>6, <2>4 DEF ProcessEvent
      <3>3. CASE /\ Head(event_queue) = "CONNECT"
                 /\ connected' = TRUE /\ pc' = "main"
                 /\ UNCHANGED <<connecting, notified, retryVars, client>>
        <4>1. LoopOK' /\ ClientOK'
          BY <2>1, <3>2, <3>3 DEF LoopOK, ClientOK, Sections
        <4>2. FlagsOK'
          BY <3>3 DEF FlagsOK
        <4> QED
          BY <2>2, <3>1, <3>3, <4>1, <4>2, UnchangedTyped
      <3>4. CASE /\ Head(event_queue) = "DISCONNECT"
                 /\ client' = ClientDisconnect(client)
                 /\ OnDisconnect("main")
                 /\ UNCHANGED notified
        <4>1. /\ pc' \in Sections /\ RetryOK'
              /\ connected' = FALSE /\ connecting' = FALSE
          BY <3>4, OnDisconnectTyped DEF Sections
        <4>2. LoopOK' /\ FlagsOK'
          BY <2>1, <3>4, <4>1 DEF LoopOK, FlagsOK
        <4>3. ClientOK'
          BY <3>2, <3>4, ClientDisconnectTyped DEF ClientOK
        <4> QED
          BY <2>2, <3>1, <4>1, <4>2, <4>3
      <3>5. CASE /\ Head(event_queue) = "SUBSCRIBE_DONE"
                 /\ pc' = "main"
                 /\ UNCHANGED <<flagVars, retryVars, client>>
        <4>1. LoopOK' /\ ClientOK'
          BY <2>1, <3>2, <3>5 DEF LoopOK, ClientOK, Sections
        <4> QED
          BY <2>2, <3>1, <3>5, <4>1, UnchangedTyped
      <3> QED
        BY <1>6, <2>4, <3>3, <3>4, <3>5 DEF ProcessEvent
    <2> QED
      BY <2>3, <2>4
  <1>7. CASE DialCmdReturns
    <2>1. LoopOK'
      BY <1>7 DEF DialCmdReturns, LoopOK, Sections
    <2> QED
      BY <1>7, <2>1, UnchangedTyped DEF DialCmdReturns
  <1>8. CASE Reboots
    <2>1. LoopOK' /\ FlagsOK'
      BY <1>8 DEF Reboots, LoopOK, FlagsOK, Sections
    <2>6. attempt_count' \in 0..MaxAttempts /\ acks' \in 0..Subscriptions
      BY <1>8, PubsubAssumption DEF Reboots, MaxAttempts
    <2>2. RetryOK'
      BY <1>8, <2>6 DEF Reboots, RetryOK
    <2>7. event_queue' \in Seq(Events) /\ Len(event_queue') <= EventQueueSize
      BY <1>8, PubsubAssumption DEF Reboots
    <2>3. QueueOK'
      BY <1>8, <2>7 DEF Reboots, QueueOK
    <2>4. ClientOK'
      BY <1>8, <2>6 DEF Reboots, ClientOK
    <2>5. EnvOK'
      BY <1>8 DEF Reboots, EnvOK
    <2> QED
      BY <2>1, <2>2, <2>3, <2>4, <2>5
  <1> QED
    BY <1>1, <1>2, <1>3, <1>4, <1>5, <1>6, <1>7, <1>8 DEF LoopTask

\* Commands and the other leaves keep every variable typed.
LEMMA OthersTyped ==
  ASSUME TypeOK, Others
  PROVE  TypeOK'
  <1> USE DEF TypeOK
  <1>1. CASE IpConnect
    <2>1. /\ pc' \in Sections
          /\ reconnect_due' \in BOOLEAN /\ reconnect_timer' \in BOOLEAN
      <3>1. CASE run
        BY <1>1, <3>1, ScheduleIfTyped DEF IpConnect, RetryOK, Sections
      <3>2. CASE ~run
        BY <1>1, <3>2 DEF IpConnect, LoopOK, RetryOK
      <3> QED
        BY <3>1, <3>2
    <2>2. LoopOK' /\ RetryOK'
      BY <1>1, <2>1 DEF IpConnect, LoopOK, RetryOK
    <2>3. EnvOK'
      BY <1>1 DEF IpConnect, EnvOK
    <2> QED
      BY <1>1, <2>2, <2>3, UnchangedTyped DEF IpConnect
  <1>2. CASE IpDisconnect
    <2>1. budget' \in 0..Disturbances
      BY <1>2, DisturbTyped DEF IpDisconnect, EnvOK
    <2>2. EnvOK'
      BY <1>2, <2>1 DEF IpDisconnect, EnvOK
    <2> QED
      BY <1>2, <2>2, UnchangedTyped DEF IpDisconnect
  <1>3. CASE TimeSource
    <2>1. QueueOK' /\ ClientOK'
      <3>1. CASE connecting /\ ForceDisconnect
        BY <3>1, SessionEndsTyped, UnchangedTyped DEF ForceDisconnect
      <3>2. CASE UNCHANGED clientVars
        BY <3>2, UnchangedTyped
      <3> QED
        BY <1>3, <3>1, <3>2 DEF TimeSource
    <2>2. RetryOK'
      BY <1>3 DEF TimeSource, RetryOK
    <2>3. budget' \in 0..Disturbances
      BY <1>3, DisturbTyped DEF TimeSource, EnvOK
    <2>4. EnvOK'
      BY <1>3, <2>3 DEF TimeSource, EnvOK
    <2> QED
      BY <1>3, <2>1, <2>2, <2>4, UnchangedTyped DEF TimeSource
  <1>4. CASE BrokerBeats
    <2>1. EnvOK'
      BY <1>4 DEF BrokerBeats, EnvOK, envVars
    <2> QED
      BY <1>4, <2>1, UnchangedTyped DEF BrokerBeats
  <1>5. CASE BeatExpires
    <2>1. budget' \in 0..Disturbances
      BY <1>5, DisturbTyped DEF BeatExpires, EnvOK
    <2>2. EnvOK'
      BY <1>5, <2>1 DEF BeatExpires, EnvOK
    <2> QED
      BY <1>5, <2>2, UnchangedTyped DEF BeatExpires
  <1>6. CASE CmdConnect
    <2>1. /\ pc' \in Sections /\ connecting' \in BOOLEAN
          /\ RetryOK' /\ QueueOK' /\ ClientOK'
      <3>1. CASE ip_connected
        BY <1>6, <3>1, ConnectTyped DEF CmdConnect, RetryOK, Sections
      <3>2. CASE ~ip_connected
        BY <1>6, <3>2, UnchangedTyped DEF CmdConnect, LoopOK, FlagsOK
      <3> QED
        BY <3>1, <3>2
    <2>2. LoopOK' /\ FlagsOK'
      BY <1>6, <2>1 DEF CmdConnect, LoopOK, FlagsOK
    <2>3. EnvOK'
      BY <1>6, DisturbTyped DEF CmdConnect, EnvOK
    <2> QED
      BY <2>1, <2>2, <2>3
  <1>7. CASE CmdDisconnect
    <2>1. ClientOK'
      BY <1>7, ClientDisconnectTyped DEF CmdDisconnect, ClientOK
    <2>2. QueueOK'
      BY <1>7 DEF CmdDisconnect, QueueOK
    <2>3. EnvOK'
      BY <1>7, DisturbTyped DEF CmdDisconnect, EnvOK
    <2> QED
      BY <1>7, <2>1, <2>2, <2>3, UnchangedTyped DEF CmdDisconnect
  <1>8. CASE CmdClean
    <2>1. /\ pc' \in Sections
          /\ reconnect_due' \in BOOLEAN /\ reconnect_timer' \in BOOLEAN
      <3>1. CASE MustWait(run)
        BY <1>8, <3>1, ScheduleTyped DEF CmdClean, RetryOK, Sections
      <3>2. CASE ~MustWait(run)
        BY <1>8, <3>2 DEF CmdClean, RetryOK, Sections
      <3> QED
        BY <3>1, <3>2
    <2>2. attempt_count' \in 0..MaxAttempts
      BY <1>8, BumpTyped DEF CmdClean, RetryOK
    <2>3. connecting' = TRUE
      BY <1>8 DEF CmdClean
    <2>4. FlagsOK'
      BY <1>8, <2>3 DEF CmdClean, FlagsOK
    <2>5. LoopOK' /\ RetryOK'
      BY <1>8, <2>1, <2>2 DEF CmdClean, LoopOK, RetryOK
    <2>6. ClientOK'
      BY <1>8, ClientDisconnectTyped DEF CmdClean, ClientOK
    <2>7. QueueOK'
      BY <1>8 DEF CmdClean, QueueOK
    <2>8. EnvOK'
      BY <1>8, DisturbTyped DEF CmdClean, EnvOK
    <2> QED
      BY <2>4, <2>5, <2>6, <2>7, <2>8
  <1>9. CASE CmdStop
    <2>1. LoopOK'
      BY <1>9 DEF CmdStop, LoopOK, Sections
    <2>2. ClientOK'
      BY <1>9, ClientDisconnectTyped DEF CmdStop, ClientOK
    <2>3. QueueOK'
      BY <1>9 DEF CmdStop, QueueOK
    <2>4. EnvOK'
      BY <1>9, DisturbTyped DEF CmdStop, EnvOK
    <2> QED
      BY <1>9, <2>1, <2>2, <2>3, <2>4, UnchangedTyped DEF CmdStop
  <1>10. CASE CmdStart
    <2>1. /\ pc' \in Sections /\ connecting' \in BOOLEAN
          /\ RetryOK' /\ QueueOK' /\ ClientOK'
      <3>1. CASE AutoConnect /\ ip_connected /\ ~connecting
        BY <1>10, <3>1, ConnectTyped DEF CmdStart, RetryOK, Sections
      <3>2. CASE ~(AutoConnect /\ ip_connected /\ ~connecting)
        BY <1>10, <3>2, UnchangedTyped DEF CmdStart, LoopOK, FlagsOK
      <3> QED
        BY <3>1, <3>2
    <2>2. FlagsOK'
      BY <1>10, <2>1 DEF CmdStart, FlagsOK
    <2>3. run' \in BOOLEAN
      BY <1>10 DEF CmdStart
    <2>4. LoopOK'
      BY <1>10, <2>1, <2>3 DEF CmdStart, LoopOK
    <2> QED
      BY <1>10, <2>1, <2>2, <2>4, UnchangedTyped DEF CmdStart
  <1> QED
    BY <1>1, <1>2, <1>3, <1>4, <1>5, <1>6, <1>7, <1>8, <1>9, <1>10 DEF Others

\* Type correctness: every variable keeps to its range in every behaviour.
THEOREM TypeCorrect == Spec => []TypeOK
  <1>1. Init => TypeOK
    <2> SUFFICES ASSUME Init PROVE TypeOK
      OBVIOUS
    <2>1. attempt_count \in 0..MaxAttempts /\ acks \in 0..Subscriptions
      BY PubsubAssumption DEF Init, MaxAttempts
    <2>2. RetryOK
      BY <2>1 DEF Init, RetryOK
    <2>3. event_queue \in Seq(Events) /\ Len(event_queue) <= EventQueueSize
      BY PubsubAssumption DEF Init
    <2>4. QueueOK
      BY <2>3 DEF Init, QueueOK
    <2>5. ClientOK
      BY <2>1 DEF Init, ClientOK
    <2>6. budget \in 0..Disturbances
      BY PubsubAssumption DEF Init
    <2>7. LoopOK /\ FlagsOK /\ EnvOK
      BY <2>6 DEF Init, LoopOK, FlagsOK, EnvOK, Sections
    <2> QED
      BY <2>2, <2>4, <2>5, <2>7 DEF TypeOK
  <1>2. TypeOK /\ [Next]_vars => TypeOK'
    <2> SUFFICES ASSUME TypeOK, [Next]_vars PROVE TypeOK'
      OBVIOUS
    <2>1. CASE Next
      BY <2>1, LoopTaskTyped, ClientTaskTyped, OthersTyped DEF Next
    <2>2. CASE UNCHANGED vars
      BY <2>2, UnchangedTyped DEF TypeOK, vars
    <2> QED
      BY <2>1, <2>2
  <1> QED
    BY <1>1, <1>2, PTL DEF Spec

-----------------------------------------------------------------------------
(* The last connection event of a queue.                                   *)

\* A connection event put at the end of the queue is its last word.
LEMMA AppendWord ==
  ASSUME NEW q \in Seq(Events), NEW e \in {"CONNECT", "DISCONNECT"}
  PROVE  ~Quiet(Append(q, e)) /\ LastWord(Append(q, e), e)
  <1> DEFINE n == Len(q) + 1
  <1>1. n \in DOMAIN Append(q, e) /\ Append(q, e)[n] = e
    BY DEF Events
  <1>2. \A j \in DOMAIN Append(q, e) : ~(j > n)
    BY DEF Events
  <1> QED
    BY <1>1, <1>2 DEF Quiet, LastWord

\* An acknowledgement does not change what the queue says.
LEMMA AppendAck ==
  ASSUME NEW q \in Seq(Events), NEW w \in {"CONNECT", "DISCONNECT"}
  PROVE  /\ Quiet(Append(q, "SUBSCRIBE_DONE")) <=> Quiet(q)
         /\ LastWord(q, w) => LastWord(Append(q, "SUBSCRIBE_DONE"), w)
  <1> DEFINE r == Append(q, "SUBSCRIBE_DONE")
  <1>1. DOMAIN r = 1..(Len(q) + 1) /\ DOMAIN q = 1..Len(q) /\ Len(q) \in Nat
    BY DEF Events
  <1>2. r[Len(q) + 1] = "SUBSCRIBE_DONE" /\ \A i \in DOMAIN q : r[i] = q[i]
    BY DEF Events
  <1> HIDE DEF r
  <1>3. Quiet(r) <=> Quiet(q)
    BY <1>1, <1>2 DEF Quiet
  <1>4. ASSUME LastWord(q, w) PROVE LastWord(r, w)
    <2>1. PICK i \in DOMAIN q : q[i] = w /\ \A j \in DOMAIN q : j > i => q[j] = "SUBSCRIBE_DONE"
      BY <1>4 DEF LastWord
    <2>2. i \in DOMAIN r /\ r[i] = w
      BY <1>1, <1>2, <2>1
    <2>3. \A j \in DOMAIN r : j > i => r[j] = "SUBSCRIBE_DONE"
      BY <1>1, <1>2, <2>1
    <2> QED
      BY <2>2, <2>3 DEF LastWord
  <1> QED
    BY <1>3, <1>4 DEF r

\* Consuming an event leaves the last word, unless it was the last word.
LEMMA TailWord ==
  ASSUME NEW q \in Seq(Events), q # <<>>, NEW w \in {"CONNECT", "DISCONNECT"}
  PROVE  /\ LastWord(q, w) /\ ~Quiet(Tail(q)) => LastWord(Tail(q), w)
         /\ LastWord(q, w) /\ Quiet(Tail(q)) => Head(q) = w
         /\ Head(q) = "SUBSCRIBE_DONE" => (Quiet(Tail(q)) <=> Quiet(q))
         /\ Head(q) # "SUBSCRIBE_DONE" => ~Quiet(q)
  <1> DEFINE r == Tail(q)
  <1>1. /\ Len(q) \in Nat \ {0} /\ DOMAIN q = 1..Len(q)
        /\ DOMAIN r = 1..(Len(q) - 1)
        /\ \A i \in DOMAIN r : r[i] = q[i + 1]
        /\ Head(q) = q[1]
    BY DEF Events
  <1> HIDE DEF r
  <1>2. ASSUME LastWord(q, w)
        PROVE  /\ ~Quiet(r) => LastWord(r, w)
               /\ Quiet(r) => Head(q) = w
    <2>1. PICK i \in DOMAIN q : q[i] = w /\ \A j \in DOMAIN q : j > i => q[j] = "SUBSCRIBE_DONE"
      BY <1>2 DEF LastWord
    <2>2. CASE i = 1
      <3>1. \A j \in DOMAIN r : r[j] = "SUBSCRIBE_DONE"
        BY <1>1, <2>1, <2>2
      <3> QED
        BY <1>1, <2>1, <2>2, <3>1 DEF Quiet
    <2>3. CASE i # 1
      <3>1. i - 1 \in DOMAIN r /\ r[i - 1] = w
        BY <1>1, <2>1, <2>3
      <3>2. \A j \in DOMAIN r : j > i - 1 => r[j] = "SUBSCRIBE_DONE"
        BY <1>1, <2>1, <2>3
      <3> QED
        BY <3>1, <3>2 DEF LastWord, Quiet
    <2> QED
      BY <2>2, <2>3
  <1>3. Head(q) = "SUBSCRIBE_DONE" => (Quiet(r) <=> Quiet(q))
    <2>1. \A i \in DOMAIN q : i = 1 \/ i - 1 \in DOMAIN r
      BY <1>1
    <2>2. \A i \in DOMAIN r : i + 1 \in DOMAIN q
      BY <1>1
    <2>3. ASSUME Head(q) = "SUBSCRIBE_DONE", Quiet(r), NEW i \in DOMAIN q PROVE q[i] = "SUBSCRIBE_DONE"
      BY <1>1, <2>1, <2>3 DEF Quiet
    <2>4. ASSUME Quiet(q), NEW i \in DOMAIN r PROVE r[i] = "SUBSCRIBE_DONE"
      BY <1>1, <2>2, <2>4 DEF Quiet
    <2> QED
      BY <2>3, <2>4 DEF Quiet
  <1>4. Head(q) # "SUBSCRIBE_DONE" => ~Quiet(q)
    BY <1>1 DEF Quiet
  <1> QED
    BY <1>2, <1>3, <1>4 DEF r

-----------------------------------------------------------------------------
(* pubsub_connected follows the client.  FlagAgrees is not inductive: what *)
(* is true while events are queued (FlagInv) has to be carried along.      *)

\* The client's last word and the flag are untouched, or it starts closing.
LEMMA FlagKept ==
  ASSUME FlagInv,
         UNCHANGED <<event_queue, event_lost, connected>>,
         \/ client' = client
         \/ client' = "closing"
         \/ client = "down" /\ client' = "connecting"
  PROVE  FlagInv'
  BY DEF FlagInv, NoConnEvents

\* A session that ends has the last word, whatever the flag says.
LEMMA FlagAfterEnd ==
  ASSUME QueueOK, NEW c \in {"down", "connecting"}, SessionEnds(c)
  PROVE  FlagInv'
  <1>1. CASE Len(event_queue) < EventQueueSize
    <2>1. event_queue' = Append(event_queue, "DISCONNECT")
      BY <1>1 DEF SessionEnds, EventQueueSend
    <2>2. ~NoConnEvents' /\ LastWord(event_queue', "DISCONNECT")
      BY <2>1, AppendWord DEF QueueOK, NoConnEvents
    <2> QED
      BY <2>2 DEF SessionEnds, FlagInv
  <1>2. CASE ~(Len(event_queue) < EventQueueSize)
    <2>1. event_lost'
      BY <1>2 DEF SessionEnds, EventQueueSend
    <2> QED
      BY <2>1 DEF FlagInv
  <1> QED
    BY <1>1, <1>2

\* Dropping a stale connection ends its session, connecting changes nothing.
LEMMA FlagAfterOpen ==
  ASSUME QueueOK, FlagInv, OpenClient, connected' = connected
  PROVE  FlagInv'
  <1>1. CASE client = "up" /\ ~ReuseConnection
    BY <1>1, FlagAfterEnd DEF OpenClient
  <1>2. CASE ~(client = "up" /\ ~ReuseConnection)
    <2>1. /\ UNCHANGED <<event_queue, event_lost, connected>>
          /\ client' = client \/ (client = "down" /\ client' = "connecting")
      BY <1>2 DEF OpenClient
    <2> QED
      BY <2>1, FlagKept
  <1> QED
    BY <1>1, <1>2

\* pubsubConnect never changes the flag.
LEMMA FlagAfterConnect ==
  ASSUME QueueOK, FlagInv, connected' = connected,
         NEW canRun, NEW due, NEW dial, NEW next, Connect(canRun, due, dial, next)
  PROVE  FlagInv'
  <1>1. CASE MustWait(canRun)
    <2>1. UNCHANGED clientVars
      BY <1>1 DEF Connect
    <2> QED
      BY <2>1, FlagKept DEF clientVars
  <1>2. CASE ~MustWait(canRun)
    BY <1>2, FlagAfterOpen DEF Connect
  <1> QED
    BY <1>1, <1>2

\* mqttClient.disconnect() starts closing or leaves the client alone.
LEMMA FlagAfterDisconnect ==
  ASSUME FlagInv, UNCHANGED <<event_queue, event_lost, connected>>,
         client' = ClientDisconnect(client)
  PROVE  FlagInv'
  BY FlagKept DEF ClientDisconnect

\* The client's own steps: each ends with the client's last word in the queue.
LEMMA FlagClientTask ==
  ASSUME TypeOK, FlagInv, ClientTask
  PROVE  FlagInv'
  <1> USE DEF TypeOK
  <1>1. CASE ClientUp
    <2>1. CASE Len(event_queue) < EventQueueSize
      <3>1. event_queue' = Append(event_queue, "CONNECT") /\ client' = "up"
        BY <1>1, <2>1 DEF ClientUp, EventQueueSend
      <3>2. ~NoConnEvents' /\ LastWord(event_queue', "CONNECT")
        BY <3>1, AppendWord DEF QueueOK, NoConnEvents
      <3> QED
        BY <3>1, <3>2 DEF FlagInv
    <2>2. CASE ~(Len(event_queue) < EventQueueSize)
      <3>1. event_lost'
        BY <1>1, <2>2 DEF ClientUp, EventQueueSend
      <3> QED
        BY <3>1 DEF FlagInv
    <2> QED
      BY <2>1, <2>2
  <1>2. CASE ClientFails \/ ClientDrops \/ ClientClosed
    BY <1>2, FlagAfterEnd DEF ClientFails, ClientDrops, ClientClosed
  <1>3. CASE ClientAck
    <2>1. client = "up" /\ client' = client /\ connected' = connected
      BY <1>3 DEF ClientAck, flagVars
    <2>2. CASE Len(event_queue) < EventQueueSize
      <3>1. /\ event_queue' = Append(event_queue, "SUBSCRIBE_DONE")
            /\ event_lost' = event_lost
        BY <1>3, <2>2 DEF ClientAck, EventQueueSend
      <3>2. /\ NoConnEvents' <=> NoConnEvents
            /\ LastWord(event_queue, "CONNECT") => LastWord(event_queue', "CONNECT")
        BY <3>1, AppendAck DEF QueueOK, NoConnEvents
      <3> QED
        BY <2>1, <3>1, <3>2 DEF FlagInv
    <2>3. CASE ~(Len(event_queue) < EventQueueSize)
      <3>1. event_queue' = event_queue /\ (event_lost => event_lost')
        BY <1>3, <2>3 DEF ClientAck, EventQueueSend
      <3> QED
        BY <2>1, <3>1 DEF FlagInv, NoConnEvents
    <2> QED
      BY <2>2, <2>3
  <1> QED
    BY <1>1, <1>2, <1>3 DEF ClientTask

\* processEvent: the flag takes over what the consumed event said.
LEMMA FlagProcessEvent ==
  ASSUME TypeOK, FlagInv, ProcessEvent
  PROVE  FlagInv'
  <1> USE DEF TypeOK
  <1>1. CASE event_queue = <<>>
    <2>1. UNCHANGED flagVars /\ UNCHANGED clientVars
      BY <1>1 DEF ProcessEvent
    <2> QED
      BY <2>1, FlagKept DEF flagVars, clientVars
  <1>2. CASE event_queue # <<>>
    <2> DEFINE q == event_queue
    <2>1. /\ event_queue' = Tail(q) /\ event_lost' = event_lost
          /\ q \in Seq(Events)
      BY <1>2 DEF ProcessEvent, QueueOK
    <2>2. /\ LastWord(q, "CONNECT") /\ ~Quiet(Tail(q)) => LastWord(Tail(q), "CONNECT")
          /\ LastWord(q, "CONNECT") /\ Quiet(Tail(q)) => Head(q) = "CONNECT"
          /\ LastWord(q, "DISCONNECT") /\ ~Quiet(Tail(q)) => LastWord(Tail(q), "DISCONNECT")
          /\ LastWord(q, "DISCONNECT") /\ Quiet(Tail(q)) => Head(q) = "DISCONNECT"
          /\ Head(q) = "SUBSCRIBE_DONE" => (Quiet(Tail(q)) <=> Quiet(q))
          /\ Head(q) # "SUBSCRIBE_DONE" => ~Quiet(q)
      BY <1>2, <2>1, TailWord
    <2>3. CASE Head(q) = "CONNECT" /\ connected' = TRUE /\ client' = client
      BY <2>1, <2>2, <2>3 DEF FlagInv, NoConnEvents
    <2>4. CASE /\ Head(q) = "DISCONNECT" /\ connected' = FALSE
               /\ client' = ClientDisconnect(client)
      BY <2>1, <2>2, <2>4 DEF FlagInv, NoConnEvents, ClientDisconnect
    <2>5. CASE /\ Head(q) = "SUBSCRIBE_DONE" /\ connected' = connected
               /\ client' = client
      BY <2>1, <2>2, <2>5 DEF FlagInv, NoConnEvents
    <2> QED
      BY <1>2, <2>3, <2>4, <2>5 DEF ProcessEvent, OnDisconnect, flagVars
  <1> QED
    BY <1>1, <1>2

\* The other sections of loop().
LEMMA FlagLoopTask ==
  ASSUME TypeOK, FlagInv, LoopTask
  PROVE  FlagInv'
  <1> USE DEF TypeOK
  <1>1. CASE LoopStarts \/ DialReturns \/ DialCmdReturns
    BY <1>1, FlagKept DEF LoopStarts, DialReturns, DialCmdReturns, flagVars, clientVars
  <1>2. CASE LoopHeartbeat
    <2>1. /\ UNCHANGED <<event_queue, event_lost, connected>>
          /\ client' = client \/ client' = ClientDisconnect(client)
      BY <1>2 DEF LoopHeartbeat, flagVars
    <2> QED
      BY <2>1, FlagKept, FlagAfterDisconnect
  <1>3. CASE LoopReconnect
    <2>1. connected' = connected
      BY <1>3 DEF LoopReconnect
    <2>2. CASE ip_connected /\ reconnect_due
      BY <1>3, <2>1, <2>2, FlagAfterConnect DEF LoopReconnect
    <2>3. CASE ~(ip_connected /\ reconnect_due)
      BY <1>3, <2>1, <2>3, FlagKept DEF LoopReconnect, clientVars
    <2> QED
      BY <2>2, <2>3
  <1>4. CASE LoopNotify
    <2>1. CASE OnConnect
      BY <2>1, FlagKept DEF OnConnect
    <2>2. CASE ~connected /\ OnDisconnect("event") /\ UNCHANGED clientVars
      BY <2>2 DEF OnDisconnect, clientVars, FlagInv, NoConnEvents
    <2>3. CASE UNCHANGED flagVars /\ UNCHANGED clientVars
      BY <2>3, FlagKept DEF flagVars, clientVars
    <2> QED
      BY <1>4, <2>1, <2>2, <2>3 DEF LoopNotify
  <1>5. CASE ProcessEvent
    BY <1>5, FlagProcessEvent
  <1>6. CASE Reboots
    <2>1. event_queue' = <<>> /\ connected' = FALSE /\ client' = "down"
      BY <1>6 DEF Reboots
    <2>2. NoConnEvents'
      BY <2>1 DEF NoConnEvents, Quiet
    <2> QED
      BY <2>1, <2>2 DEF FlagInv
  <1> QED
    BY <1>1, <1>2, <1>3, <1>4, <1>5, <1>6 DEF LoopTask

\* Commands and the other leaves.
LEMMA FlagOthers ==
  ASSUME TypeOK, FlagInv, Others
  PROVE  FlagInv'
  <1> USE DEF TypeOK
  <1>1. CASE IpConnect \/ IpDisconnect \/ BrokerBeats \/ BeatExpires
    BY <1>1, FlagKept
    DEF IpConnect, IpDisconnect, BrokerBeats, BeatExpires, flagVars, clientVars
  <1>2. CASE TimeSource
    <2>1. connected' = connected
      BY <1>2 DEF TimeSource, flagVars
    <2>2. CASE ForceDisconnect
      BY <2>1, <2>2, FlagAfterEnd, FlagKept DEF ForceDisconnect, clientVars
    <2>3. CASE UNCHANGED clientVars
      BY <2>1, <2>3, FlagKept DEF clientVars
    <2> QED
      BY <1>2, <2>2, <2>3 DEF TimeSource
  <1>3. CASE CmdConnect
    <2>1. connected' = connected
      BY <1>3 DEF CmdConnect
    <2>2. CASE ip_connected
      BY <1>3, <2>1, <2>2, FlagAfterConnect DEF CmdConnect
    <2>3. CASE ~ip_connected
      BY <1>3, <2>1, <2>3, FlagKept DEF CmdConnect, clientVars
    <2> QED
      BY <2>2, <2>3
  <1>4. CASE CmdDisconnect \/ CmdStop
    BY <1>4, FlagAfterDisconnect DEF CmdDisconnect, CmdStop, flagVars
  <1>5. CASE CmdClean
    <2>1. /\ UNCHANGED <<event_queue, event_lost, connected>>
          /\ \/ client = "down" /\ client' = "connecting"
             \/ client' = ClientDisconnect(client)
      BY <1>5 DEF CmdClean
    <2> QED
      BY <2>1, FlagKept, FlagAfterDisconnect
  <1>6. CASE CmdStart
    <2>1. connected' = connected
      BY <1>6 DEF CmdStart
    <2>2. CASE AutoConnect /\ ip_connected /\ ~connecting
      BY <1>6, <2>1, <2>2, FlagAfterConnect DEF CmdStart
    <2>3. CASE ~(AutoConnect /\ ip_connected /\ ~connecting)
      BY <1>6, <2>1, <2>3, FlagKept DEF CmdStart, clientVars
    <2> QED
      BY <2>2, <2>3
  <1> QED
    BY <1>1, <1>2, <1>3, <1>4, <1>5, <1>6 DEF Others

\* The strengthening is an invariant.
LEMMA FlagInvariant == Spec => []FlagInv
  <1>1. Init => FlagInv
    <2> SUFFICES ASSUME Init PROVE FlagInv
      OBVIOUS
    <2>1. NoConnEvents
      BY DEF Init, NoConnEvents, Quiet
    <2> QED
      BY <2>1 DEF Init, FlagInv
  <1>2. TypeOK /\ FlagInv /\ [Next]_vars => FlagInv'
    <2> SUFFICES ASSUME TypeOK, FlagInv, [Next]_vars PROVE FlagInv'
      OBVIOUS
    <2>1. CASE TimerFires
      BY <2>1, FlagKept DEF TimerFires, flagVars, clientVars
    <2>2. CASE UNCHANGED vars
      BY <2>2, FlagKept DEF vars, flagVars, clientVars
    <2> QED
      BY <2>1, <2>2, FlagClientTask, FlagLoopTask, FlagOthers DEF Next
  <1> QED
    BY <1>1, <1>2, TypeCorrect, PTL DEF Spec

\* Unless event_queue overflowed, pubsub_connected says what the client says
\* as soon as the connection events are consumed (abstract_pubsub.h relies on
\* it in isConnected(), and leaf_pubsub_mqtt_esp.h in every publish).
THEOREM FlagFollowsClient == Spec => []FlagAgrees
  <1>1. FlagInv => FlagAgrees
    BY DEF FlagInv, FlagAgrees
  <1> QED
    BY <1>1, FlagInvariant, PTL

-----------------------------------------------------------------------------
(* Retries: an offline leaf has one armed.                                 *)

\* The client has given up and the leaf has consumed the news of it.
Offline == client = "down" /\ NoConnEvents /\ ~event_lost

\* A retry is due, or the timer will make one due.
Armed == reconnect_due \/ reconnect_timer

\* Why NeverStranded and WatchdogInTime hold: the section that consumed the
\* news armed the retry and looked at the attempt counter, and whoever takes
\* the retry dials or arms the next one.
RetryInv ==
  AutoConnect /\ Offline /\ pc # "reboot" =>
    /\ connecting \/ (run /\ ip_connected) => Armed
    /\ AttemptLimit > 0 => attempt_count < AttemptLimit

-----------------------------------------------------------------------------
(* What the operators shared by the actions do to the retry state.         *)

\* An offline leaf's flag is unset.
LEMMA OfflineUnset ==
  ASSUME FlagInv, Offline
  PROVE  ~connected
  BY DEF FlagInv, Offline

\* A session that ends has news that is yet to be consumed.
LEMMA EndIsNews ==
  ASSUME QueueOK, NEW c, SessionEnds(c)
  PROVE  ~Offline'
  <1>1. CASE Len(event_queue) < EventQueueSize
    <2>1. event_queue' = Append(event_queue, "DISCONNECT")
      BY <1>1 DEF SessionEnds, EventQueueSend
    <2> QED
      BY <2>1, AppendWord DEF QueueOK, NoConnEvents, Offline
  <1>2. CASE ~(Len(event_queue) < EventQueueSize)
    BY <1>2 DEF SessionEnds, EventQueueSend, Offline
  <1> QED
    BY <1>1, <1>2

\* pubsubScheduleReconnect reboots or arms a retry below the limit.
LEMMA ScheduleArms ==
  ASSUME NEW att \in Nat, NEW due \in BOOLEAN, NEW next,
         ScheduleReconnect(att, due, next), attempt_count' = att
  PROVE  RetryInv'
  <1>1. CASE AttemptLimit > 0 /\ att >= AttemptLimit
    BY <1>1 DEF ScheduleReconnect, RetryInv
  <1>2. CASE ~(AttemptLimit > 0 /\ att >= AttemptLimit)
    <2>1. Armed'
      BY <1>2, PubsubAssumption DEF ScheduleReconnect, Armed
    <2>2. AttemptLimit > 0 => attempt_count' < AttemptLimit
      BY <1>2, PubsubAssumption
    <2> QED
      BY <2>1, <2>2 DEF RetryInv
  <1> QED
    BY <1>1, <1>2

\* The same when the call depends on pubsub_autoconnect.
LEMMA ScheduleIfArms ==
  ASSUME RetryOK, NEW due \in BOOLEAN, NEW next,
         ScheduleIfAutoConnect(attempt_count, due, next), UNCHANGED attempt_count
  PROVE  RetryInv'
  <1>1. attempt_count \in Nat
    BY PubsubAssumption DEF RetryOK, MaxAttempts
  <1>2. CASE AutoConnect
    BY <1>1, <1>2, ScheduleArms DEF ScheduleIfAutoConnect
  <1>3. CASE ~AutoConnect
    BY <1>3 DEF RetryInv
  <1> QED
    BY <1>2, <1>3

\* pubsubConnect dials, or puts the attempt off with the retry armed.
LEMMA ConnectArms ==
  ASSUME RetryOK, QueueOK, NEW canRun, NEW due \in BOOLEAN, NEW dial, NEW next,
         Connect(canRun, due, dial, next)
  PROVE  RetryInv'
  <1>1. CASE MustWait(canRun)
    <2>1. Bump(attempt_count) \in Nat
      BY BumpTyped, PubsubAssumption DEF RetryOK, MaxAttempts
    <2>2. /\ ScheduleReconnect(Bump(attempt_count), due, next)
          /\ attempt_count' = Bump(attempt_count)
      BY <1>1 DEF Connect
    <2> QED
      BY <2>1, <2>2, ScheduleArms
  <1>2. CASE ~MustWait(canRun)
    <2>1. OpenClient
      BY <1>2 DEF Connect
    <2>2. CASE client = "up" /\ ~ReuseConnection
      BY <2>1, <2>2, EndIsNews DEF OpenClient, RetryInv
    <2>3. CASE ~(client = "up" /\ ~ReuseConnection)
      <3>1. client' # "down"
        BY <2>1, <2>3 DEF OpenClient
      <3> QED
        BY <3>1 DEF RetryInv, Offline
    <2> QED
      BY <2>2, <2>3
  <1> QED
    BY <1>1, <1>2

\* Steps that neither take a retry nor bring the leaf offline.
LEMMA RetryKept ==
  ASSUME RetryInv, UNCHANGED <<attempt_count, event_lost>>, Armed => Armed',
         pc = "reboot" => pc' = "reboot", client' = "down" => client = "down",
         NoConnEvents' => NoConnEvents, connecting' => connecting,
         run' /\ ip_connected' => (run /\ ip_connected) \/ connecting
  PROVE  RetryInv'
  BY DEF RetryInv, Offline

\* mqttClient.disconnect() brings no client down at once.
LEMMA DisconnectNotDown ==
  ASSUME ClientDisconnect(client) = "down"
  PROVE  client = "down"
  BY DEF ClientDisconnect

-----------------------------------------------------------------------------
(* Every step keeps RetryInv.                                              *)

\* The client's steps and the timer's.
LEMMA RetryClientTask ==
  ASSUME TypeOK, RetryInv, ClientTask \/ TimerFires
  PROVE  RetryInv'
  <1> USE DEF TypeOK
  <1>1. CASE ClientUp
    BY <1>1 DEF ClientUp, RetryInv, Offline
  <1>2. CASE ClientFails \/ ClientDrops \/ ClientClosed
    BY <1>2, EndIsNews DEF ClientFails, ClientDrops, ClientClosed, RetryInv
  <1>3. CASE ClientAck
    BY <1>3 DEF ClientAck, RetryInv, Offline
  <1>4. CASE TimerFires
    BY <1>4, RetryKept
    DEF TimerFires, Armed, NoConnEvents, loopVars, flagVars, clientVars, envVars
  <1> QED
    BY <1>1, <1>2, <1>3, <1>4 DEF ClientTask

\* One event consumed: the news of a disconnection arms the retry.
LEMMA RetryProcessEvent ==
  ASSUME TypeOK, FlagInv', RetryInv, ProcessEvent
  PROVE  RetryInv'
  <1> USE DEF TypeOK
  <1>1. run' => run
    BY DEF ProcessEvent, EndOfPass
  <1>2. CASE event_queue = <<>>
    BY <1>1, <1>2, RetryKept
    DEF ProcessEvent, Armed, NoConnEvents, flagVars, retryVars, clientVars, envVars
  <1>3. CASE event_queue # <<>>
    <2> DEFINE q == event_queue
    <2>1. /\ event_queue' = Tail(q) /\ event_lost' = event_lost
          /\ q \in Seq(Events) /\ UNCHANGED envVars /\ pc = "event"
      BY <1>3 DEF ProcessEvent, QueueOK
    <2>2. Head(q) = "SUBSCRIBE_DONE" => (Quiet(Tail(q)) <=> Quiet(q))
      BY <1>3, <2>1, TailWord
    <2>3. CASE Head(q) = "CONNECT" /\ connected' = TRUE
      <3>1. ~Offline'
        BY <2>3 DEF FlagInv, Offline
      <3> QED
        BY <3>1 DEF RetryInv
    <2>4. CASE OnDisconnect("main")
      BY <2>4, ScheduleIfArms DEF OnDisconnect, RetryOK
    <2>5. CASE /\ Head(q) = "SUBSCRIBE_DONE" /\ pc' = "main"
               /\ UNCHANGED <<flagVars, retryVars, client>>
      BY <1>1, <2>1, <2>2, <2>5, RetryKept
      DEF Armed, NoConnEvents, flagVars, retryVars, envVars
    <2> QED
      BY <1>3, <2>3, <2>4, <2>5 DEF ProcessEvent
  <1> QED
    BY <1>2, <1>3

\* The sections of loop().
LEMMA RetryLoopTask ==
  ASSUME TypeOK, FlagInv', RetryInv, LoopTask
  PROVE  RetryInv'
  <1> USE DEF TypeOK
  <1>1. CASE LoopStarts \/ DialCmdReturns
    BY <1>1, RetryKept
    DEF LoopStarts, DialCmdReturns, Armed, NoConnEvents, flagVars, retryVars,
        clientVars, envVars
  <1>2. CASE LoopHeartbeat
    <2>1. client' = "down" => client = "down"
      BY <1>2, DisconnectNotDown DEF LoopHeartbeat
    <2> QED
      BY <1>2, <2>1, RetryKept
      DEF LoopHeartbeat, Armed, NoConnEvents, flagVars, retryVars, envVars
  <1>3. CASE LoopReconnect
    <2>1. CASE ip_connected /\ reconnect_due
      BY <1>3, <2>1, ConnectArms DEF LoopReconnect
    <2>2. CASE ~(ip_connected /\ reconnect_due)
      BY <1>3, <2>2, RetryKept
      DEF LoopReconnect, Armed, NoConnEvents, retryVars, clientVars, envVars
    <2> QED
      BY <2>1, <2>2
  <1>4. CASE DialReturns
    <2>1. CASE client = "up"
      BY <1>4, <2>1 DEF DialReturns, RetryInv, Offline, clientVars
    <2>2. CASE client # "up"
      BY <1>4, <2>2, ScheduleIfArms DEF DialReturns, RetryOK
    <2> QED
      BY <2>1, <2>2
  <1>5. CASE LoopNotify
    <2>1. CASE connected /\ OnConnect
      <3>1. connected'
        BY <2>1 DEF OnConnect
      <3>2. ~Offline'
        BY <3>1 DEF FlagInv, Offline
      <3> QED
        BY <3>2 DEF RetryInv
    <2>2. CASE OnDisconnect("event")
      BY <2>2, ScheduleIfArms DEF OnDisconnect, RetryOK
    <2>3. CASE /\ pc = "notify"
               /\ UNCHANGED <<run, stopping, flagVars, retryVars, beat, clientVars,
                              envVars>>
      BY <2>3, RetryKept
      DEF Armed, NoConnEvents, flagVars, retryVars, clientVars, envVars
    <2> QED
      BY <1>5, <2>1, <2>2, <2>3 DEF LoopNotify
  <1>6. CASE ProcessEvent
    BY <1>6, RetryProcessEvent
  <1>7. CASE Reboots
    BY <1>7, PubsubAssumption DEF Reboots, RetryInv
  <1> QED
    BY <1>1, <1>2, <1>3, <1>4, <1>5, <1>6, <1>7 DEF LoopTask

\* Commands and the other leaves.
LEMMA RetryOthers ==
  ASSUME TypeOK, RetryInv, Others
  PROVE  RetryInv'
  <1> USE DEF TypeOK
  <1>1. CASE IpConnect
    <2>1. CASE run
      BY <1>1, <2>1, ScheduleIfArms DEF IpConnect, RetryOK
    <2>2. CASE ~run
      BY <1>1, <2>2, RetryKept
      DEF IpConnect, Armed, NoConnEvents, flagVars, clientVars
    <2> QED
      BY <2>1, <2>2
  <1>2. CASE IpDisconnect \/ BrokerBeats \/ BeatExpires
    BY <1>2, RetryKept
    DEF IpDisconnect, BrokerBeats, BeatExpires, Armed, NoConnEvents, loopVars,
        flagVars, retryVars, clientVars, envVars
  <1>3. CASE TimeSource
    <2>1. CASE ForceDisconnect /\ reconnect_due'
      <3>1. CASE client = "down"
        <4>1. Armed' /\ UNCHANGED <<attempt_count, pc, clientVars>>
          BY <1>3, <2>1, <3>1 DEF TimeSource, ForceDisconnect, Armed, loopVars
        <4> QED
          BY <4>1 DEF RetryInv, Offline, NoConnEvents, clientVars
      <3>2. CASE client # "down"
        BY <2>1, <3>2, EndIsNews DEF ForceDisconnect, RetryInv
      <3> QED
        BY <3>1, <3>2
    <2>2. CASE UNCHANGED clientVars /\ (reconnect_due => reconnect_due')
      BY <1>3, <2>2, RetryKept
      DEF TimeSource, Armed, NoConnEvents, loopVars, flagVars, clientVars
    <2> QED
      BY <1>3, <2>1, <2>2 DEF TimeSource
  <1>4. CASE CmdConnect
    <2>1. CASE ip_connected
      BY <1>4, <2>1, ConnectArms DEF CmdConnect, RetryOK
    <2>2. CASE ~ip_connected
      BY <1>4, <2>2, RetryKept
      DEF CmdConnect, Armed, NoConnEvents, retryVars, clientVars
    <2> QED
      BY <2>1, <2>2
  <1>5. CASE CmdDisconnect \/ CmdStop
    <2>1. client' = "down" => client = "down"
      BY <1>5, DisconnectNotDown DEF CmdDisconnect, CmdStop
    <2> QED
      BY <1>5, <2>1, RetryKept
      DEF CmdDisconnect, CmdStop, Armed, NoConnEvents, loopVars, flagVars, retryVars
  <1>6. CASE CmdClean
    <2>1. CASE MustWait(run)
      <3>1. Bump(attempt_count) \in Nat
        BY BumpTyped, PubsubAssumption DEF RetryOK, MaxAttempts
      <3>2. /\ ScheduleReconnect(Bump(attempt_count), reconnect_due, "main")
            /\ attempt_count' = Bump(attempt_count)
        BY <1>6, <2>1 DEF CmdClean
      <3> QED
        BY <3>1, <3>2, ScheduleArms DEF RetryOK
    <2>2. CASE ~MustWait(run)
      <3>1. client' # "down"
        BY <1>6, <2>2, DisconnectNotDown DEF CmdClean
      <3> QED
        BY <3>1 DEF RetryInv, Offline
    <2> QED
      BY <2>1, <2>2
  <1>7. CASE CmdStart
    <2>1. CASE AutoConnect /\ ip_connected /\ ~connecting
      BY <1>7, <2>1, ConnectArms DEF CmdStart, RetryOK
    <2>2. CASE ~AutoConnect
      BY <2>2 DEF RetryInv
    <2>3. CASE ~ip_connected \/ connecting
      BY <1>7, <2>3, RetryKept
      DEF CmdStart, Armed, NoConnEvents, retryVars, clientVars, envVars
    <2> QED
      BY <2>1, <2>2, <2>3
  <1> QED
    BY <1>1, <1>2, <1>3, <1>4, <1>5, <1>6, <1>7 DEF Others

\* The strengthening is an invariant.
LEMMA RetryInvariant == Spec => []RetryInv
  <1>1. Init => RetryInv
    BY PubsubAssumption DEF Init, RetryInv
  <1>2. TypeOK /\ FlagInv' /\ RetryInv /\ [Next]_vars => RetryInv'
    <2> SUFFICES ASSUME TypeOK, FlagInv', RetryInv, [Next]_vars PROVE RetryInv'
      OBVIOUS
    <2>1. CASE UNCHANGED vars
      BY <2>1, RetryKept
      DEF vars, Armed, NoConnEvents, loopVars, flagVars, retryVars, clientVars, envVars
    <2> QED
      BY <2>1, RetryClientTask, RetryLoopTask, RetryOthers DEF Next
  <1> QED
    BY <1>1, <1>2, TypeCorrect, FlagInvariant, PTL DEF Spec

\* A running leaf with a network, and without a connection, an attempt or an
\* event to come, retries: no order of timer, callbacks, commands and news of
\* the network strands it (pubsubScheduleReconnect, pubsubConnect).
THEOREM RetryIsArmed == Spec => []NeverStranded
  <1>1. RetryInv => NeverStranded
    BY DEF RetryInv, NeverStranded, Offline, Armed
  <1> QED
    BY <1>1, RetryInvariant, PTL

\* At the end of a pass the attempts of an offline leaf are fewer than
\* pubsub_connect_attempt_limit, however attempts and commands interleave.
THEOREM WatchdogIsInTime == Spec => []WatchdogInTime
  <1>1. RetryInv => WatchdogInTime
    BY DEF RetryInv, WatchdogInTime, Offline
  <1> QED
    BY <1>1, RetryInvariant, PTL

-----------------------------------------------------------------------------
(* A connection the client makes is one after a disconnection: the queue   *)
(* of events never holds a CONNECT on top of a connection.                 *)

\* The connection event before place i of q is a DISCONNECT, or there is none.
Follows(q, i) ==
  \E j \in DOMAIN q :
    /\ j < i /\ q[j] = "DISCONNECT"
    /\ \A k \in DOMAIN q : j < k /\ k < i => q[k] = "SUBSCRIBE_DONE"
Leads(q, i) == \A k \in DOMAIN q : k < i => q[k] = "SUBSCRIBE_DONE"

\* Every CONNECT queued finds pubsub_connected unset when its turn comes.
Alternate(q, up) ==
  \A i \in DOMAIN q : q[i] = "CONNECT" => Follows(q, i) \/ (~up /\ Leads(q, i))
Alternates == ~event_lost => Alternate(event_queue, connected)

\* Clearing the flag takes nothing from it.
LEMMA AlternateCleared ==
  ASSUME NEW q, NEW up \in BOOLEAN, Alternate(q, up)
  PROVE  Alternate(q, FALSE)
  BY DEF Alternate

\* A CONNECT may join a queue whose last word is DISCONNECT, or that has none
\* while the flag is unset; any other event may always.
LEMMA AppendAlternate ==
  ASSUME NEW q \in Seq(Events), NEW e \in Events, NEW up \in BOOLEAN,
         Alternate(q, up),
         e = "CONNECT" => (Quiet(q) /\ ~up) \/ LastWord(q, "DISCONNECT")
  PROVE  Alternate(Append(q, e), up)
  <1> DEFINE r == Append(q, e)
  <1>1. /\ Len(q) \in Nat /\ DOMAIN q = 1..Len(q) /\ DOMAIN r = 1..(Len(q) + 1)
        /\ r[Len(q) + 1] = e /\ \A i \in DOMAIN q : r[i] = q[i]
    BY DEF Events
  <1> HIDE DEF r
  <1>2. ASSUME NEW i \in DOMAIN q, Follows(q, i) PROVE Follows(r, i)
    <2>1. PICK j \in DOMAIN q :
            /\ j < i /\ q[j] = "DISCONNECT"
            /\ \A k \in DOMAIN q : j < k /\ k < i => q[k] = "SUBSCRIBE_DONE"
      BY <1>2 DEF Follows
    <2>2. \A k \in DOMAIN r : j < k /\ k < i => r[k] = "SUBSCRIBE_DONE"
      BY <1>1, <2>1
    <2>3. j \in DOMAIN r /\ r[j] = "DISCONNECT"
      BY <1>1, <2>1
    <2> QED
      BY <2>1, <2>2, <2>3 DEF Follows
  <1>3. ASSUME NEW i \in DOMAIN q, Leads(q, i) PROVE Leads(r, i)
    <2>1. \A k \in DOMAIN r : k < i => r[k] = "SUBSCRIBE_DONE"
      BY <1>1, <1>3 DEF Leads
    <2> QED
      BY <2>1 DEF Leads
  <1>4. ASSUME e = "CONNECT", LastWord(q, "DISCONNECT") PROVE Follows(r, Len(q) + 1)
    <2>1. PICK j \in DOMAIN q :
            q[j] = "DISCONNECT" /\ \A k \in DOMAIN q : k > j => q[k] = "SUBSCRIBE_DONE"
      BY <1>4 DEF LastWord
    <2>2. \A k \in DOMAIN r : j < k /\ k < Len(q) + 1 => r[k] = "SUBSCRIBE_DONE"
      BY <1>1, <2>1
    <2>3. j \in DOMAIN r /\ j < Len(q) + 1 /\ r[j] = "DISCONNECT"
      BY <1>1, <2>1
    <2> QED
      BY <2>2, <2>3 DEF Follows
  <1>5. ASSUME Quiet(q) PROVE Leads(r, Len(q) + 1)
    <2>1. \A k \in DOMAIN r : k < Len(q) + 1 => r[k] = "SUBSCRIBE_DONE"
      BY <1>1, <1>5 DEF Quiet
    <2> QED
      BY <2>1 DEF Leads
  <1>6. ASSUME NEW i \in DOMAIN r, r[i] = "CONNECT"
        PROVE  Follows(r, i) \/ (~up /\ Leads(r, i))
    <2>1. CASE i \in DOMAIN q
      BY <1>1, <1>2, <1>3, <1>6, <2>1 DEF Alternate
    <2>2. CASE i \notin DOMAIN q
      <3>1. i = Len(q) + 1 /\ e = "CONNECT"
        BY <1>1, <1>6, <2>2
      <3> QED
        BY <1>4, <1>5, <3>1
    <2> QED
      BY <2>1, <2>2
  <1>7. Alternate(r, up)
    BY <1>6 DEF Alternate
  <1> QED
    BY <1>7 DEF r

\* Consuming an event: what is left alternates with the flag it sets.
LEMMA TailAlternate ==
  ASSUME NEW q \in Seq(Events), q # <<>>, NEW up \in BOOLEAN, Alternate(q, up)
  PROVE  /\ Head(q) = "CONNECT" => ~up /\ Alternate(Tail(q), TRUE)
         /\ Head(q) = "DISCONNECT" => Alternate(Tail(q), FALSE)
         /\ Head(q) = "SUBSCRIBE_DONE" => Alternate(Tail(q), up)
  <1> DEFINE r == Tail(q)
  <1>1. /\ Len(q) \in Nat \ {0} /\ DOMAIN q = 1..Len(q)
        /\ DOMAIN r = 1..(Len(q) - 1)
        /\ \A i \in DOMAIN r : r[i] = q[i + 1]
        /\ Head(q) = q[1]
    BY DEF Events
  <1> HIDE DEF r
  <1>2. ASSUME Head(q) = "CONNECT" PROVE ~up
    <2>1. 1 \in DOMAIN q /\ ~Follows(q, 1)
      BY <1>1 DEF Follows
    <2> QED
      BY <1>1, <1>2, <2>1 DEF Alternate
  <1>3. ASSUME NEW i \in DOMAIN r, Follows(q, i + 1)
        PROVE  Follows(r, i) \/ (Head(q) = "DISCONNECT" /\ Leads(r, i))
    <2>1. PICK j \in DOMAIN q :
            /\ j < i + 1 /\ q[j] = "DISCONNECT"
            /\ \A k \in DOMAIN q : j < k /\ k < i + 1 => q[k] = "SUBSCRIBE_DONE"
      BY <1>3 DEF Follows
    <2>2. CASE j = 1
      <3>1. \A k \in DOMAIN r : k < i => r[k] = "SUBSCRIBE_DONE"
        BY <1>1, <2>1, <2>2
      <3> QED
        BY <1>1, <2>1, <2>2, <3>1 DEF Leads
    <2>3. CASE j # 1
      <3>1. j - 1 \in DOMAIN r /\ j - 1 < i /\ r[j - 1] = "DISCONNECT"
        BY <1>1, <2>1, <2>3
      <3>2. \A k \in DOMAIN r : j - 1 < k /\ k < i => r[k] = "SUBSCRIBE_DONE"
        BY <1>1, <2>1, <2>3
      <3> QED
        BY <3>1, <3>2 DEF Follows
    <2> QED
      BY <2>2, <2>3
  <1>4. ASSUME NEW i \in DOMAIN r, Leads(q, i + 1)
        PROVE  Head(q) = "SUBSCRIBE_DONE" /\ Leads(r, i)
    <2>1. Head(q) = "SUBSCRIBE_DONE"
      BY <1>1, <1>4 DEF Leads
    <2>2. \A k \in DOMAIN r : k < i => r[k] = "SUBSCRIBE_DONE"
      BY <1>1, <1>4 DEF Leads
    <2> QED
      BY <2>1, <2>2 DEF Leads
  <1>5. ASSUME NEW i \in DOMAIN r, r[i] = "CONNECT"
        PROVE  \/ Follows(r, i)
               \/ Head(q) = "DISCONNECT" /\ Leads(r, i)
               \/ Head(q) = "SUBSCRIBE_DONE" /\ ~up /\ Leads(r, i)
    <2>1. i + 1 \in DOMAIN q /\ q[i + 1] = "CONNECT"
      BY <1>1, <1>5
    <2> QED
      BY <1>3, <1>4, <2>1 DEF Alternate
  <1>6. /\ Head(q) = "CONNECT" => Alternate(r, TRUE)
        /\ Head(q) = "DISCONNECT" => Alternate(r, FALSE)
        /\ Head(q) = "SUBSCRIBE_DONE" => Alternate(r, up)
    BY <1>5 DEF Alternate
  <1> QED
    BY <1>2, <1>6 DEF r

\* A step that leaves the queue alone and never sets the flag.
LEMMA AlternatesKept ==
  ASSUME Alternates, connected \in BOOLEAN, UNCHANGED <<event_queue, event_lost>>,
         connected' = connected \/ connected' = FALSE
  PROVE  Alternates'
  BY AlternateCleared DEF Alternates

\* A session that ends adds a DISCONNECT, or the event is lost.
LEMMA AlternatesAfterEnd ==
  ASSUME QueueOK, Alternates, connected \in BOOLEAN, NEW c, SessionEnds(c),
         connected' = connected
  PROVE  Alternates'
  BY AppendAlternate
  DEF SessionEnds, EventQueueSend, QueueOK, Alternates, Events

\* So may pubsubConnect, when it drops a "stale" connection.
LEMMA AlternatesAfterConnect ==
  ASSUME QueueOK, Alternates, connected \in BOOLEAN, connected' = connected,
         NEW canRun, NEW due, NEW dial, NEW next, Connect(canRun, due, dial, next)
  PROVE  Alternates'
  BY AlternatesKept, AlternatesAfterEnd DEF Connect, OpenClient, clientVars

\* Every step keeps the queue alternating: the client connects only when it is
\* not connected, and then the last word is DISCONNECT (FlagInv).
LEMMA AlternatesStep ==
  ASSUME TypeOK, FlagInv, Alternates, [Next]_vars
  PROVE  Alternates'
  <1>0. connected \in BOOLEAN /\ QueueOK
    BY DEF TypeOK, FlagsOK
  <1>1. CASE ClientUp
    <2>1. /\ client = "connecting" /\ connected' = connected
          /\ EventQueueSend("CONNECT")
      BY <1>1 DEF ClientUp, flagVars
    <2>2. ~event_lost => (Quiet(event_queue) /\ ~connected)
                         \/ LastWord(event_queue, "DISCONNECT")
      BY <2>1 DEF FlagInv, NoConnEvents
    <2>3. CASE event_lost
      BY <2>1, <2>3 DEF EventQueueSend, Alternates
    <2>4. CASE ~event_lost
      BY <1>0, <2>1, <2>2, <2>4, AppendAlternate
      DEF EventQueueSend, QueueOK, Alternates, Events
    <2> QED
      BY <2>3, <2>4
  <1>2. CASE ClientFails \/ ClientDrops \/ ClientClosed
    BY <1>0, <1>2, AlternatesAfterEnd
    DEF ClientFails, ClientDrops, ClientClosed, flagVars
  <1>3. CASE ClientAck
    <2>1. connected' = connected /\ EventQueueSend("SUBSCRIBE_DONE")
      BY <1>3 DEF ClientAck, flagVars
    <2> QED
      BY <1>0, <2>1, AppendAlternate
      DEF EventQueueSend, QueueOK, Alternates, Events
  <1>4. CASE TimerFires \/ LoopStarts \/ DialReturns \/ DialCmdReturns \/ LoopHeartbeat
    BY <1>0, <1>4, AlternatesKept
    DEF TimerFires, LoopStarts, DialReturns, DialCmdReturns, LoopHeartbeat,
        flagVars, clientVars
  <1>5. CASE LoopReconnect
    BY <1>0, <1>5, AlternatesKept, AlternatesAfterConnect
    DEF LoopReconnect, clientVars
  <1>6. CASE LoopNotify
    BY <1>0, <1>6, AlternatesKept
    DEF LoopNotify, OnConnect, OnDisconnect, flagVars, clientVars
  <1>7. CASE ProcessEvent
    <2>1. CASE event_queue = <<>>
      BY <1>0, <1>7, <2>1, AlternatesKept DEF ProcessEvent, flagVars, clientVars
    <2>2. CASE event_queue # <<>>
      <3>1. event_queue' = Tail(event_queue) /\ event_lost' = event_lost
        BY <1>7, <2>2 DEF ProcessEvent
      <3>2. \/ Head(event_queue) = "CONNECT" /\ connected' = TRUE
            \/ Head(event_queue) = "DISCONNECT" /\ connected' = FALSE
            \/ Head(event_queue) = "SUBSCRIBE_DONE" /\ connected' = connected
        BY <1>7, <2>2 DEF ProcessEvent, OnDisconnect, flagVars
      <3> QED
        BY <1>0, <2>2, <3>1, <3>2, TailAlternate DEF QueueOK, Alternates
    <2> QED
      BY <2>1, <2>2
  <1>8. CASE Reboots
    <2>1. Quiet(event_queue')
      BY <1>8 DEF Reboots, Quiet
    <2> QED
      BY <2>1 DEF Alternates, Alternate, Quiet
  <1>9. CASE IpConnect \/ IpDisconnect \/ BrokerBeats \/ BeatExpires \/ CmdDisconnect
             \/ CmdClean \/ CmdStop
    BY <1>0, <1>9, AlternatesKept
    DEF IpConnect, IpDisconnect, BrokerBeats, BeatExpires, CmdDisconnect, CmdClean,
        CmdStop, flagVars, clientVars
  <1>10. CASE TimeSource
    BY <1>0, <1>10, AlternatesKept, AlternatesAfterEnd
    DEF TimeSource, ForceDisconnect, flagVars, clientVars
  <1>11. CASE CmdConnect \/ CmdStart
    BY <1>0, <1>11, AlternatesKept, AlternatesAfterConnect
    DEF CmdConnect, CmdStart, clientVars
  <1>12. CASE UNCHANGED vars
    BY <1>0, <1>12, AlternatesKept DEF vars, flagVars, clientVars
  <1> QED
    BY <1>1, <1>2, <1>3, <1>4, <1>5, <1>6, <1>7, <1>8, <1>9, <1>10, <1>11, <1>12
    DEF Next, ClientTask, LoopTask, Others

-----------------------------------------------------------------------------
(* A session that was announced is subscribed.                             *)

\* loop() compares the flags before it takes an event: when a CONNECT is
\* consumed, the connection before it has been announced as lost.
Compared == pc = "event" => connected = notified

\* Only the loop task moves pc or the flags, and it compares them last.
LEMMA ComparedStep ==
  ASSUME TypeOK, Compared, [Next]_vars
  PROVE  Compared'
  <1>1. CASE ClientTask \/ TimerFires \/ BeatExpires
    BY <1>1
    DEF ClientTask, ClientUp, ClientFails, ClientDrops, ClientClosed, ClientAck,
        TimerFires, BeatExpires, Compared, loopVars, flagVars
  <1>2. CASE LoopNotify
    <2>1. connected \in BOOLEAN /\ notified \in BOOLEAN
      BY DEF TypeOK, FlagsOK
    <2>2. CASE connected /\ OnConnect
      BY <2>1, <2>2 DEF OnConnect, Compared
    <2>3. CASE OnDisconnect("event") /\ notified' = FALSE
      BY <2>3 DEF OnDisconnect, Compared
    <2>4. CASE connected = notified /\ UNCHANGED flagVars
      BY <2>4 DEF Compared, flagVars
    <2> QED
      BY <1>2, <2>2, <2>3, <2>4 DEF LoopNotify
  <1>3. CASE LoopStarts \/ LoopHeartbeat \/ DialCmdReturns \/ Reboots
    BY <1>3 DEF LoopStarts, LoopHeartbeat, DialCmdReturns, Reboots, Compared
  <1>4. CASE LoopReconnect \/ DialReturns \/ ProcessEvent
    <2>1. pc' # "event"
      BY <1>4
      DEF LoopReconnect, DialReturns, ProcessEvent, Connect, OnDisconnect,
          ScheduleIfAutoConnect, ScheduleReconnect
    <2> QED
      BY <2>1 DEF Compared
  <1>5. CASE Others /\ ~BeatExpires
    <2>1. pc' # "event"
      BY <1>5
      DEF Others, IpConnect, IpDisconnect, TimeSource, BrokerBeats, CmdConnect,
          CmdDisconnect, CmdClean, CmdStop, CmdStart, Connect,
          ScheduleIfAutoConnect, ScheduleReconnect, loopVars
    <2> QED
      BY <2>1 DEF Compared
  <1>6. CASE UNCHANGED vars
    BY <1>6 DEF vars, loopVars, flagVars, Compared
  <1> QED
    BY <1>1, <1>2, <1>3, <1>4, <1>5, <1>6 DEF Next, LoopTask

\* The antecedent and the history variable, by what a step does to the client.
LEMMA SettledKept ==
  ASSUME SubscribedWhenSettled, event_lost' = event_lost,
         client' = "up" => client = "up", connected' => connected,
         notified' => notified, NoConnEvents' => NoConnEvents,
         client' = "up" /\ subscribed => subscribed'
  PROVE  SubscribedWhenSettled'
  BY DEF SubscribedWhenSettled

\* A client that is not up, a flag unset or news in the queue promise nothing.
LEMMA Unsettled ==
  ASSUME client' # "up" \/ ~connected' \/ ~notified' \/ ~NoConnEvents' \/ event_lost'
  PROVE  SubscribedWhenSettled'
  BY DEF SubscribedWhenSettled

\* pubsubConnect never leads to a client that was not up before.
LEMMA SettledAfterConnect ==
  ASSUME SubscribedWhenSettled, UNCHANGED <<connected, notified>>,
         NEW canRun, NEW due, NEW dial, NEW next, Connect(canRun, due, dial, next)
  PROVE  SubscribedWhenSettled'
  BY SettledKept, Unsettled
  DEF Connect, OpenClient, SessionEnds, clientVars, NoConnEvents

\* Consuming an event: a CONNECT was not announced yet, whatever went before.
LEMMA SettledProcessEvent ==
  ASSUME TypeOK, Alternates, Compared, SubscribedWhenSettled, ProcessEvent
  PROVE  SubscribedWhenSettled'
  <1>1. CASE event_queue = <<>>
    BY <1>1, SettledKept DEF ProcessEvent, NoConnEvents, flagVars, clientVars
  <1>2. CASE event_queue # <<>>
    <2>1. /\ event_queue' = Tail(event_queue) /\ subscribed' = subscribed
          /\ event_lost' = event_lost /\ event_queue \in Seq(Events)
          /\ connected \in BOOLEAN /\ pc = "event"
      BY <1>2 DEF ProcessEvent, TypeOK, QueueOK, FlagsOK
    <2>2. CASE Head(event_queue) = "CONNECT" /\ notified' = notified
      <3>1. ~event_lost => ~connected
        BY <1>2, <2>1, <2>2, TailAlternate DEF Alternates
      <3>2. event_lost' \/ ~notified'
        BY <2>1, <2>2, <3>1 DEF Compared
      <3> QED
        BY <3>2, Unsettled
    <2>3. CASE OnDisconnect("main")
      BY <2>3, Unsettled DEF OnDisconnect
    <2>4. CASE /\ Head(event_queue) = "SUBSCRIBE_DONE"
               /\ UNCHANGED <<flagVars, client>>
      <3>1. NoConnEvents' => NoConnEvents
        BY <1>2, <2>1, <2>4, TailWord DEF NoConnEvents
      <3> QED
        BY <2>1, <2>4, <3>1, SettledKept DEF flagVars
    <2> QED
      BY <1>2, <2>2, <2>3, <2>4 DEF ProcessEvent
  <1> QED
    BY <1>1, <1>2

\* Every step of the composition.
LEMMA SettledStep ==
  ASSUME TypeOK, Alternates, Compared, SubscribedWhenSettled, [Next]_vars
  PROVE  SubscribedWhenSettled'
  <1>1. CASE ClientUp
    <2>1. event_queue \in Seq(Events) /\ EventQueueSend("CONNECT")
      BY <1>1 DEF ClientUp, TypeOK, QueueOK
    <2>2. event_lost' \/ ~NoConnEvents'
      BY <2>1, AppendWord DEF EventQueueSend, NoConnEvents
    <2> QED
      BY <2>2, Unsettled
  <1>2. CASE ClientFails \/ ClientDrops \/ ClientClosed
    BY <1>2, Unsettled DEF ClientFails, ClientDrops, ClientClosed, SessionEnds
  <1>3. CASE ClientAck
    <2>1. /\ event_queue \in Seq(Events) /\ EventQueueSend("SUBSCRIBE_DONE")
          /\ UNCHANGED <<flagVars, client, subscribed>>
      BY <1>3 DEF ClientAck, TypeOK, QueueOK
    <2>2. NoConnEvents' => NoConnEvents
      <3>1. "CONNECT" \in {"CONNECT", "DISCONNECT"}
        OBVIOUS
      <3>2. Quiet(Append(event_queue, "SUBSCRIBE_DONE")) <=> Quiet(event_queue)
        BY <2>1, <3>1, AppendAck
      <3> QED
        BY <2>1, <3>2 DEF EventQueueSend, NoConnEvents
    <2>3. event_lost' = event_lost \/ event_lost'
      BY <2>1 DEF EventQueueSend, TypeOK, QueueOK
    <2> QED
      BY <2>1, <2>2, <2>3, SettledKept, Unsettled DEF flagVars
  <1>4. CASE TimerFires \/ LoopStarts \/ DialReturns \/ DialCmdReturns
    BY <1>4, SettledKept
    DEF TimerFires, LoopStarts, DialReturns, DialCmdReturns, NoConnEvents, flagVars,
        clientVars
  <1>5. CASE LoopHeartbeat
    BY <1>5, SettledKept DEF LoopHeartbeat, ClientDisconnect, NoConnEvents, flagVars
  <1>6. CASE LoopReconnect
    BY <1>6, SettledKept, SettledAfterConnect DEF LoopReconnect, NoConnEvents, clientVars
  <1>7. CASE LoopNotify
    <2>1. CASE OnConnect
      BY <2>1 DEF OnConnect, SubscribedWhenSettled
    <2>2. CASE OnDisconnect("event")
      BY <2>2, Unsettled DEF OnDisconnect
    <2>3. CASE UNCHANGED <<flagVars, clientVars>>
      BY <2>3, SettledKept DEF NoConnEvents, flagVars, clientVars
    <2> QED
      BY <1>7, <2>1, <2>2, <2>3 DEF LoopNotify
  <1>8. CASE ProcessEvent
    BY <1>8, SettledProcessEvent
  <1>9. CASE Reboots
    BY <1>9, Unsettled DEF Reboots
  <1>10. CASE IpConnect \/ IpDisconnect \/ BrokerBeats \/ BeatExpires
    BY <1>10, SettledKept
    DEF IpConnect, IpDisconnect, BrokerBeats, BeatExpires, NoConnEvents, flagVars,
        clientVars
  <1>11. CASE CmdDisconnect \/ CmdClean \/ CmdStop
    <2>1. UNCHANGED <<connected, notified, event_queue, event_lost, subscribed>>
      BY <1>11 DEF CmdDisconnect, CmdClean, CmdStop, flagVars
    <2>2. client' = "up" => client = "up"
      BY <1>11 DEF CmdDisconnect, CmdClean, CmdStop, ClientDisconnect
    <2> QED
      BY <2>1, <2>2, SettledKept DEF NoConnEvents, flagVars
  <1>12. CASE TimeSource
    <2>1. CASE ForceDisconnect /\ client # "down"
      BY <2>1, Unsettled DEF ForceDisconnect, SessionEnds
    <2>2. CASE UNCHANGED clientVars
      BY <1>12, <2>2, SettledKept DEF TimeSource, NoConnEvents, flagVars, clientVars
    <2> QED
      BY <1>12, <2>1, <2>2 DEF TimeSource, ForceDisconnect
  <1>13. CASE CmdConnect \/ CmdStart
    <2>1. UNCHANGED <<connected, notified>>
      BY <1>13 DEF CmdConnect, CmdStart
    <2>2. CASE UNCHANGED clientVars
      BY <2>1, <2>2, SettledKept DEF NoConnEvents, clientVars
    <2>3. CASE Connect(run, reconnect_due, "dial_cmd", "main")
      BY <2>1, <2>3, SettledAfterConnect
    <2>4. CASE Connect(TRUE, reconnect_due, "dial_cmd", "main")
      BY <2>1, <2>4, SettledAfterConnect
    <2> QED
      BY <1>13, <2>2, <2>3, <2>4 DEF CmdConnect, CmdStart
  <1>14. CASE UNCHANGED vars
    BY <1>14, SettledKept DEF vars, NoConnEvents, flagVars, clientVars
  <1> QED
    BY <1>1, <1>2, <1>3, <1>4, <1>5, <1>6, <1>7, <1>8, <1>9, <1>10, <1>11, <1>12,
       <1>13, <1>14
    DEF Next, ClientTask, LoopTask, Others

\* A session the leaf has announced carries its subscriptions, however fast
\* connections come and go: none is taken for the one before it, so that
\* pubsubOnConnect, which subscribes, runs for each.
THEOREM SettledIsSubscribed == Spec => []SubscribedWhenSettled
  <1> DEFINE Inv == Alternates /\ Compared /\ SubscribedWhenSettled
  <1>1. Init => Inv
    <2> SUFFICES ASSUME Init PROVE Inv
      OBVIOUS
    <2>1. Quiet(event_queue)
      BY DEF Init, Quiet
    <2>2. Alternates
      BY <2>1 DEF Alternates, Alternate, Quiet
    <2> QED
      BY <2>2 DEF Init, Compared, SubscribedWhenSettled
  <1>2. TypeOK /\ FlagInv /\ Inv /\ [Next]_vars => Inv'
    BY AlternatesStep, ComparedStep, SettledStep
  <1>3. Inv => SubscribedWhenSettled
    OBVIOUS
  <1> QED
    BY <1>1, <1>2, <1>3, TypeCorrect, FlagInvariant, PTL DEF Spec
=============================================================================
