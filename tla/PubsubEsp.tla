------------------------------ MODULE PubsubEsp ------------------------------
(***************************************************************************)
(* The MQTT connection of a stacx device over ESP WiFi: the connection     *)
(* half of AbstractPubsubLeaf (src/abstract_pubsub.h) as specialised by    *)
(* PubsubEspAsyncMQTTLeaf (src/leaf_pubsub_mqtt_esp.h), ESP32 build.       *)
(*                                                                         *)
(* Three tasks share the leaf's flags.                                     *)
(*   - The Arduino loop task runs the leaf's loop() once per pass.  pc is  *)
(*     the next section of loop() to run; at "main" the other leaves run,  *)
(*     so commands and the IP leaf's notifications happen there.  The task *)
(*     may be preempted between two sections, and really blocks in         *)
(*     delay(500) ("dial_loop", "dial_cmd").                               *)
(*   - The AsyncTCP task runs AsyncMqttClient (external).  Its callbacks   *)
(*     only put an event on event_queue, which drops it when full.         *)
(*   - The Ticker task fires pubsub_reconnect_timer.                       *)
(*                                                                         *)
(* Abstractions: last_broker_heartbeat is kept as an age ("none", "fresh"  *)
(* or "late"); the broker's answers and the network are nondeterministic;  *)
(* Disturbances bounds how often the network, the broker, the clock and    *)
(* the user interfere in one behaviour.                                    *)
(***************************************************************************)
EXTENDS Naturals, Sequences

CONSTANTS
  EventQueueSize,   \* slots of event_queue (10 in the code)
  Subscriptions,    \* topics subscribed by pubsubOnConnect, each acknowledged
  AttemptLimit,     \* pubsub_connect_attempt_limit, 0 = no watchdog
  ImmediateRetry,   \* pubsub_reconnect_interval_sec = 0
  AutoConnect,      \* pubsub_autoconnect
  ReuseConnection,  \* pubsub_reuse_connection
  UseNtp,           \* USE_NTP build option
  BrokerHeartbeat,  \* pubsub_broker_heartbeat_topic is set
  Disturbances      \* environment: bound on faults and commands

ASSUME PubsubAssumption ==
  /\ EventQueueSize \in Nat \ {0}
  /\ Subscriptions \in Nat
  /\ AttemptLimit \in Nat
  /\ Disturbances \in Nat
  /\ ImmediateRetry \in BOOLEAN /\ AutoConnect \in BOOLEAN
  /\ ReuseConnection \in BOOLEAN /\ UseNtp \in BOOLEAN
  /\ BrokerHeartbeat \in BOOLEAN

VARIABLES
  pc,               \* the next section of the loop task
  run,              \* Leaf::run and Leaf::started
  stopping,         \* this pass of loop() was called by stop()
  connected,        \* pubsub_connected
  connecting,       \* pubsub_connecting
  notified,         \* pubsub_connect_notified
  reconnect_due,    \* pubsub_reconnect_due
  reconnect_timer,  \* pubsub_reconnect_timer.active()
  attempt_count,    \* pubsub_connect_attempt_count, saturating
  beat,             \* age of last_broker_heartbeat
  event_queue,      \* event_queue
  event_lost,       \* history: a CONNECT or DISCONNECT found the queue full
  client,           \* state of mqttClient
  acks,             \* subscriptions the broker has yet to acknowledge
  subscribed,       \* history: the current session of client has our topics
  ip_connected,     \* ipLeaf->isConnected()
  time_source,      \* ipLeaf->getTimeSource() != 0
  slow_timer,       \* environment: the retry interval outlasts an attempt
  budget            \* disturbances left

loopVars   == <<pc, run, stopping>>
flagVars   == <<connected, connecting, notified>>
retryVars  == <<reconnect_due, reconnect_timer, attempt_count>>
clientVars == <<event_queue, event_lost, client, acks, subscribed>>
envVars    == <<ip_connected, time_source, slow_timer, budget>>
vars == <<loopVars, flagVars, retryVars, beat, clientVars, envVars>>

Events == {"CONNECT", "DISCONNECT", "SUBSCRIBE_DONE"}
Sections == {"main", "heartbeat", "reconnect", "dial_loop", "notify", "event",
             "dial_cmd", "reboot"}

\* The counter is compared with 1 and with the limit only: it saturates above.
MaxAttempts == AttemptLimit + 2
Bump(n) == IF n < MaxAttempts THEN n + 1 ELSE n

LoopOK  == pc \in Sections /\ run \in BOOLEAN /\ stopping \in BOOLEAN
FlagsOK == connected \in BOOLEAN /\ connecting \in BOOLEAN /\ notified \in BOOLEAN
RetryOK == /\ reconnect_due \in BOOLEAN /\ reconnect_timer \in BOOLEAN
           /\ attempt_count \in 0..MaxAttempts
QueueOK == /\ event_queue \in Seq(Events) /\ Len(event_queue) <= EventQueueSize
           /\ event_lost \in BOOLEAN
ClientOK == /\ client \in {"down", "connecting", "up", "closing"}
            /\ acks \in 0..Subscriptions /\ subscribed \in BOOLEAN
EnvOK   == /\ beat \in {"none", "fresh", "late"}
           /\ ip_connected \in BOOLEAN /\ time_source \in BOOLEAN
           /\ slow_timer \in BOOLEAN /\ budget \in 0..Disturbances

TypeOK == LoopOK /\ FlagsOK /\ RetryOK /\ QueueOK /\ ClientOK /\ EnvOK

\* The state after setup() and start(): the network is not up yet.
Init ==
  /\ pc = "main" /\ run = TRUE /\ stopping = FALSE
  /\ connected = FALSE /\ connecting = FALSE /\ notified = FALSE
  /\ reconnect_due = FALSE /\ reconnect_timer = FALSE /\ attempt_count = 0
  /\ beat = "none"
  /\ event_queue = <<>> /\ event_lost = FALSE
  /\ client = "down" /\ acks = 0 /\ subscribed = FALSE
  /\ ip_connected = FALSE /\ time_source = FALSE /\ slow_timer \in BOOLEAN
  /\ budget = Disturbances

Disturb == budget > 0 /\ budget' = budget - 1

-----------------------------------------------------------------------------
(* AsyncMqttClient: what its calls and callbacks do, as the leaf uses it.  *)

\* Mutant: the queue is taken to be full one slot too late.
EventQueueSendLate(e) ==
  IF Len(event_queue) <= EventQueueSize
  THEN event_queue' = Append(event_queue, e) /\ UNCHANGED event_lost
  ELSE event_lost' = TRUE /\ UNCHANGED event_queue

\* eventQueueSend: xQueueGenericSend with no timeout, result ignored.
EventQueueSend(e) ==
  IF Len(event_queue) < EventQueueSize
  THEN event_queue' = Append(event_queue, e) /\ UNCHANGED event_lost
  ELSE /\ event_lost' = (event_lost \/ e # "SUBSCRIBE_DONE")
       /\ UNCHANGED event_queue

\* The session ends: onDisconnect is called, what was subscribed is gone.
SessionEnds(next) ==
  /\ client' = next /\ acks' = 0 /\ subscribed' = FALSE
  /\ EventQueueSend("DISCONNECT")

\* mqttClient.disconnect(): asks for a graceful close.
ClientDisconnect(c) == IF c \in {"up", "connecting"} THEN "closing" ELSE c

\* mqttClient.disconnect(true): closes now, calling onDisconnect.
ForceDisconnect ==
  IF client = "down" THEN UNCHANGED clientVars ELSE SessionEnds("down")

\* The tail of pubsubConnect: drop a "stale" connection, then connect().
OpenClient ==
  IF client = "up" /\ ~ReuseConnection THEN SessionEnds("connecting")
  ELSE /\ client' = IF client = "down" THEN "connecting" ELSE client
       /\ UNCHANGED <<event_queue, event_lost, acks, subscribed>>

ClientUp ==
  /\ client = "connecting" /\ ip_connected
  /\ client' = "up"
  /\ EventQueueSend("CONNECT")
  /\ UNCHANGED <<loopVars, flagVars, retryVars, beat, acks, subscribed, envVars>>

\* A refused or timed out attempt: certain without a network.
ClientFails ==
  /\ client = "connecting"
  /\ IF ip_connected THEN Disturb ELSE UNCHANGED budget
  /\ SessionEnds("down")
  /\ UNCHANGED <<loopVars, flagVars, retryVars, beat, ip_connected, time_source,
                 slow_timer>>

\* The connection breaks: certain without a network.
ClientDrops ==
  /\ client = "up"
  /\ IF ip_connected THEN Disturb ELSE UNCHANGED budget
  /\ SessionEnds("down")
  /\ UNCHANGED <<loopVars, flagVars, retryVars, beat, ip_connected, time_source,
                 slow_timer>>

ClientClosed ==
  /\ client = "closing"
  /\ SessionEnds("down")
  /\ UNCHANGED <<loopVars, flagVars, retryVars, beat, envVars>>

ClientAck ==
  /\ client = "up" /\ acks > 0
  /\ acks' = acks - 1
  /\ EventQueueSend("SUBSCRIBE_DONE")
  /\ UNCHANGED <<loopVars, flagVars, retryVars, beat, client, subscribed, envVars>>

-----------------------------------------------------------------------------
(* Retry: the timer, the watchdog and one connection attempt.              *)

\* Mutant: the watchdog lets one attempt too many pass.
ScheduleReconnectLenient(att, due, next) ==
  IF AttemptLimit > 0 /\ att > AttemptLimit
  THEN pc' = "reboot" /\ reconnect_due' = due /\ UNCHANGED reconnect_timer
  ELSE /\ pc' = next
       /\ reconnect_due' = (due \/ ImmediateRetry)
       /\ reconnect_timer' = (reconnect_timer \/ ~ImmediateRetry)

\* pubsubScheduleReconnect.  att and due are the values when it is called;
\* next is where the loop task goes on unless the watchdog reboots it.
ScheduleReconnect(att, due, next) ==
  IF AttemptLimit > 0 /\ att >= AttemptLimit
  THEN pc' = "reboot" /\ reconnect_due' = due /\ UNCHANGED reconnect_timer
  ELSE /\ pc' = next
       /\ reconnect_due' = (due \/ ImmediateRetry)
       /\ reconnect_timer' = (reconnect_timer \/ ~ImmediateRetry)

ScheduleIfAutoConnect(att, due, next) ==
  IF AutoConnect THEN ScheduleReconnect(att, due, next)
  ELSE pc' = next /\ reconnect_due' = due /\ UNCHANGED reconnect_timer

\* pubsubReconnectTimerCallback.
TimerFires ==
  /\ reconnect_timer
  /\ slow_timer => /\ client \in {"down", "up"}
                   /\ client = "up" => notified
                   /\ \A i \in DOMAIN event_queue : event_queue[i] = "SUBSCRIBE_DONE"
  /\ reconnect_timer' = FALSE /\ reconnect_due' = TRUE
  /\ UNCHANGED <<loopVars, flagVars, attempt_count, beat, clientVars, envVars>>

\* pubsubConnect puts off the first attempt until the clock is set.
MustWait(canRun) == ~canRun \/ (UseNtp /\ ~time_source /\ attempt_count = 0)

\* pubsubConnect with the network up: returns at next, or waits in dial.
\* The caller has left reconnect_due = due.
Connect(canRun, due, dial, next) ==
  /\ connecting' = TRUE
  /\ attempt_count' = Bump(attempt_count)
  /\ IF MustWait(canRun)
     THEN ScheduleReconnect(Bump(attempt_count), due, next) /\ UNCHANGED clientVars
     ELSE /\ pc' = dial
          /\ reconnect_due' = due /\ UNCHANGED reconnect_timer
          /\ OpenClient

-----------------------------------------------------------------------------
(* The sections of loop().                                                 *)

LoopStarts ==
  /\ pc = "main" /\ run
  /\ pc' = "heartbeat"
  /\ UNCHANGED <<run, stopping, flagVars, retryVars, beat, clientVars, envVars>>

\* No broker heartbeat for pubsub_broker_keepalive_sec: pubsubDisconnect.
LoopHeartbeat ==
  /\ pc = "heartbeat"
  /\ pc' = "reconnect"
  /\ client' = IF connected /\ beat = "late" THEN ClientDisconnect(client) ELSE client
  /\ UNCHANGED <<run, stopping, flagVars, retryVars, beat, event_queue,
                 event_lost, acks, subscribed, envVars>>

LoopReconnect ==
  /\ pc = "reconnect"
  /\ IF ip_connected /\ reconnect_due
     THEN Connect(TRUE, FALSE, "dial_loop", "notify")
     ELSE /\ pc' = "notify"
          /\ UNCHANGED <<connecting, retryVars, clientVars>>
  /\ UNCHANGED <<run, stopping, connected, notified, beat, envVars>>

\* After delay(500) the attempt counts as failed unless connected() already.
DialReturns ==
  /\ pc = "dial_loop"
  /\ IF client = "up"
     THEN pc' = "notify" /\ UNCHANGED <<reconnect_due, reconnect_timer>>
     ELSE ScheduleIfAutoConnect(attempt_count, reconnect_due, "notify")
  /\ UNCHANGED <<run, stopping, flagVars, attempt_count, beat, clientVars, envVars>>

\* pubsubOnConnect: subscribes only if mqttClient still has the connection.
OnConnect ==
  /\ connecting' = FALSE /\ notified' = TRUE
  /\ reconnect_timer' = FALSE /\ attempt_count' = 0
  /\ beat' = IF BrokerHeartbeat THEN "fresh" ELSE beat
  /\ IF client = "up" THEN acks' = Subscriptions /\ subscribed' = TRUE
     ELSE UNCHANGED <<acks, subscribed>>
  /\ pc' = "event"
  /\ UNCHANGED <<run, stopping, connected, reconnect_due, event_queue,
                 event_lost, client, envVars>>

\* Mutant: the flag survives the disconnection.
OnDisconnectKeepsFlag(next) ==
  /\ connecting' = FALSE /\ UNCHANGED connected
  /\ ScheduleIfAutoConnect(attempt_count, reconnect_due, next)
  /\ UNCHANGED attempt_count

\* Mutant: no retry is scheduled after a disconnection.
OnDisconnectNoRetry(next) ==
  /\ connecting' = FALSE /\ connected' = FALSE
  /\ pc' = next /\ UNCHANGED retryVars

\* pubsubOnDisconnect.
OnDisconnect(next) ==
  /\ connecting' = FALSE /\ connected' = FALSE
  /\ ScheduleIfAutoConnect(attempt_count, reconnect_due, next)
  /\ UNCHANGED attempt_count

\* Mutant: the disconnection is not recorded as notified.
LoopNotifyForgets ==
  /\ pc = "notify"
  /\ \/ connected /\ ~notified /\ OnConnect
     \/ /\ notified /\ ~connected
        /\ OnDisconnect("event") /\ UNCHANGED notified
        /\ UNCHANGED <<run, stopping, beat, clientVars, envVars>>
     \/ /\ connected = notified
        /\ pc' = "event"
        /\ UNCHANGED <<run, stopping, flagVars, retryVars, beat, clientVars, envVars>>

LoopNotify ==
  /\ pc = "notify"
  /\ \/ connected /\ ~notified /\ OnConnect
     \/ /\ notified /\ ~connected
        /\ OnDisconnect("event") /\ notified' = FALSE
        /\ UNCHANGED <<run, stopping, beat, clientVars, envVars>>
     \/ /\ connected = notified
        /\ pc' = "event"
        /\ UNCHANGED <<run, stopping, flagVars, retryVars, beat, clientVars, envVars>>

\* loop() takes at most one event; a pass called by stop() ends in Leaf::stop.
EndOfPass == run' = (run /\ ~stopping) /\ stopping' = FALSE

ProcessEvent ==
  /\ pc = "event"
  /\ IF event_queue = <<>> THEN
       /\ pc' = "main"
       /\ UNCHANGED <<flagVars, retryVars, clientVars>>
     ELSE
       /\ event_queue' = Tail(event_queue)
       /\ \/ /\ Head(event_queue) = "CONNECT"
             /\ connected' = TRUE /\ pc' = "main"
             /\ UNCHANGED <<connecting, notified, retryVars, client>>
          \/ /\ Head(event_queue) = "DISCONNECT"
             /\ client' = ClientDisconnect(client)
             /\ OnDisconnect("main")
             /\ UNCHANGED notified
          \/ /\ Head(event_queue) = "SUBSCRIBE_DONE"
             /\ pc' = "main"
             /\ UNCHANGED <<flagVars, retryVars, client>>
       /\ UNCHANGED <<event_lost, acks, subscribed>>
  /\ EndOfPass
  /\ UNCHANGED <<beat, envVars>>

\* ESP.restart(): everything but the world outside starts again.
Reboots ==
  /\ pc = "reboot"
  /\ pc' = "main" /\ run' = TRUE /\ stopping' = FALSE
  /\ connected' = FALSE /\ connecting' = FALSE /\ notified' = FALSE
  /\ reconnect_due' = FALSE /\ reconnect_timer' = FALSE /\ attempt_count' = 0
  /\ beat' = "none"
  /\ event_queue' = <<>> /\ event_lost' = FALSE
  /\ client' = "down" /\ acks' = 0 /\ subscribed' = FALSE
  /\ ip_connected' = FALSE /\ time_source' = FALSE
  /\ UNCHANGED <<slow_timer, budget>>

-----------------------------------------------------------------------------
(* What other leaves, the user and the network do while pc = "main".       *)

\* The IP leaf reports the link: mqtt_receive of wifi's _ip_connect.
IpConnect ==
  /\ pc = "main" /\ ~ip_connected
  /\ ip_connected' = TRUE
  /\ IF run THEN ScheduleIfAutoConnect(attempt_count, reconnect_due, "main")
     ELSE UNCHANGED <<pc, reconnect_due, reconnect_timer>>
  /\ UNCHANGED <<run, stopping, flagVars, attempt_count, beat, clientVars,
                 time_source, slow_timer, budget>>

\* The IP leaf loses the link; the pubsub leaf has no handler for this.
IpDisconnect ==
  /\ pc = "main" /\ ip_connected
  /\ Disturb
  /\ ip_connected' = FALSE
  /\ UNCHANGED <<loopVars, flagVars, retryVars, beat, clientVars, time_source,
                 slow_timer>>

\* mqtt_receive of wifi's status/time_source.
TimeSource ==
  /\ pc = "main" /\ ip_connected
  /\ Disturb
  /\ time_source' = TRUE
  /\ \/ /\ connecting
        /\ ForceDisconnect
        /\ reconnect_due' = TRUE
     \/ /\ ~connecting
        /\ reconnect_due' = (reconnect_due \/ (run /\ ~connected /\ AutoConnect))
        /\ UNCHANGED clientVars
  /\ UNCHANGED <<loopVars, flagVars, reconnect_timer, attempt_count, beat, ip_connected,
                 slow_timer>>

\* A heartbeat of the broker is received, or has been missing for too long.
BrokerBeats ==
  /\ BrokerHeartbeat /\ pc = "main" /\ client = "up" /\ subscribed
  /\ beat # "fresh" /\ beat' = "fresh"
  /\ UNCHANGED <<loopVars, flagVars, retryVars, clientVars, envVars>>

BeatExpires ==
  /\ beat = "fresh" /\ Disturb /\ beat' = "late"
  /\ UNCHANGED <<loopVars, flagVars, retryVars, clientVars, ip_connected, time_source,
                 slow_timer>>

CmdConnect ==
  /\ pc = "main" /\ Disturb
  /\ IF ip_connected THEN Connect(run, reconnect_due, "dial_cmd", "main")
     ELSE UNCHANGED <<pc, connecting, retryVars, clientVars>>
  /\ UNCHANGED <<run, stopping, connected, notified, beat, ip_connected, time_source,
                 slow_timer>>

DialCmdReturns ==
  /\ pc = "dial_cmd" /\ pc' = "main"
  /\ UNCHANGED <<run, stopping, flagVars, retryVars, beat, clientVars, envVars>>

CmdDisconnect ==
  /\ pc = "main" /\ Disturb
  /\ client' = ClientDisconnect(client)
  /\ UNCHANGED <<loopVars, flagVars, retryVars, beat, event_queue, event_lost,
                 acks, subscribed, ip_connected, time_source, slow_timer>>

\* pubsub_clean: disconnect, then pubsubConnect at once.
CmdClean ==
  /\ pc = "main" /\ Disturb /\ ip_connected
  /\ connecting' = TRUE /\ attempt_count' = Bump(attempt_count)
  /\ IF MustWait(run)
     THEN ScheduleReconnect(Bump(attempt_count), reconnect_due, "main")
     ELSE pc' = "dial_cmd" /\ UNCHANGED <<reconnect_due, reconnect_timer>>
  /\ client' = IF client = "down" /\ pc' = "dial_cmd" THEN "connecting"
               ELSE ClientDisconnect(client)
  /\ UNCHANGED <<run, stopping, connected, notified, beat, event_queue,
                 event_lost, acks, subscribed, ip_connected, time_source, slow_timer>>

\* leaf_stop: pubsubDisconnect(true), one pass of loop(), Leaf::stop.
CmdStop ==
  /\ pc = "main" /\ run /\ Disturb
  /\ client' = ClientDisconnect(client)
  /\ stopping' = TRUE /\ pc' = "heartbeat"
  /\ UNCHANGED <<run, flagVars, retryVars, beat, event_queue, event_lost,
                 acks, subscribed, ip_connected, time_source, slow_timer>>

\* leaf_start: Leaf::start, then connect unless an attempt seems under way.
CmdStart ==
  /\ pc = "main" /\ ~run
  /\ run' = TRUE
  /\ IF AutoConnect /\ ip_connected /\ ~connecting
     THEN Connect(TRUE, reconnect_due, "dial_cmd", "main")
     ELSE UNCHANGED <<pc, connecting, retryVars, clientVars>>
  /\ UNCHANGED <<stopping, connected, notified, beat, envVars>>

-----------------------------------------------------------------------------
LoopTask ==
  \/ LoopStarts \/ LoopHeartbeat \/ LoopReconnect \/ DialReturns \/ LoopNotify
  \/ ProcessEvent \/ DialCmdReturns \/ Reboots

ClientTask == ClientUp \/ ClientFails \/ ClientDrops \/ ClientClosed \/ ClientAck

Others ==
  \/ IpConnect \/ IpDisconnect \/ TimeSource \/ BrokerBeats \/ BeatExpires
  \/ CmdConnect \/ CmdDisconnect \/ CmdClean \/ CmdStop \/ CmdStart

Next == LoopTask \/ ClientTask \/ TimerFires \/ Others

\* The scheduler runs every FreeRTOS task; the network comes back; TCP either
\* completes, fails or closes in the end.
Fairness ==
  /\ WF_vars(LoopTask) /\ WF_vars(TimerFires)
  /\ SF_vars(IpConnect) /\ SF_vars(CmdStart)
  /\ WF_vars(ClientUp) /\ WF_vars(ClientClosed) /\ WF_vars(ClientAck)
  /\ WF_vars(ClientFails /\ UNCHANGED budget)
  /\ WF_vars(ClientDrops /\ UNCHANGED budget)

Spec == Init /\ [][Next]_vars /\ Fairness
-----------------------------------------------------------------------------
(* Properties.                                                             *)

\* A queue without CONNECT or DISCONNECT, and what the last of them says.
Quiet(q) == \A i \in DOMAIN q : q[i] = "SUBSCRIBE_DONE"
LastWord(q, e) ==
  \E i \in DOMAIN q :
    q[i] = e /\ \A j \in DOMAIN q : j > i => q[j] = "SUBSCRIBE_DONE"

NoConnEvents == Quiet(event_queue)

\* Why FlagAgrees holds: what mqttClient did last is what the last event in
\* the queue says, or pubsub_connected if the queue holds no such event.
FlagInv ==
  ~event_lost =>
    /\ client = "up" /\ NoConnEvents => connected
    /\ client = "up" /\ ~NoConnEvents => LastWord(event_queue, "CONNECT")
    /\ client \in {"down", "connecting"} /\ NoConnEvents => ~connected
    /\ client \in {"down", "connecting"} /\ ~NoConnEvents
         => LastWord(event_queue, "DISCONNECT")

\* Once the CONNECT and DISCONNECT events are consumed, pubsub_connected says
\* what mqttClient.connected() says, unless a full queue dropped an event.
FlagAgrees ==
  NoConnEvents /\ ~event_lost =>
    /\ client = "up" => connected
    /\ client \in {"down", "connecting"} => ~connected

\* A running leaf with a network but without a connection, an attempt or an
\* event to come has a retry due or a timer that will make one due.
NeverStranded ==
  /\ pc \in {"main", "heartbeat", "reconnect"} /\ run /\ AutoConnect
  /\ ip_connected /\ ~connected /\ client = "down"
  /\ NoConnEvents /\ ~event_lost
  => reconnect_due \/ reconnect_timer

\* Every session the leaf considers announced carries its subscriptions: a
\* reconnection never skips the subscribing in pubsubOnConnect.
SubscribedWhenSettled ==
  /\ client = "up" /\ connected /\ notified
  /\ NoConnEvents /\ ~event_lost
  => subscribed

\* At the end of a pass the attempt counter is below the watchdog's limit
\* unless the connection has been made.
WatchdogInTime ==
  /\ pc = "main" /\ AttemptLimit > 0 /\ AutoConnect
  /\ client = "down" /\ NoConnEvents /\ ~event_lost
  => attempt_count < AttemptLimit

\* stop() disconnects deliberately, "no reschedule" (abstract_pubsub.h:468): a
\* connection it ends leaves no retry armed that was not armed before.
StopArmsNoRetry ==
  [][stopping /\ connected /\ ~connected' /\ (reconnect_due' \/ reconnect_timer')
       => reconnect_due \/ reconnect_timer]_vars

\* If retries are slower than attempts, a leaf that is offline with a network
\* does not stay so: it connects, the
\* watchdog reboots the device, or the network or the leaf goes away.
OfflineEnds ==
  slow_timer /\ ip_connected /\ run /\ ~connected ~>
    connected \/ ~ip_connected \/ ~run \/ pc = "reboot" \/ event_lost

\* If retries are slower than attempts, when the disturbances are over the device ends up online for good, its
\* topics subscribed, or an event has been dropped on the way.
EventuallyOnline ==
  slow_timer => <>event_lost \/ <>[](run /\ connected /\ client = "up" /\ subscribed)
=============================================================================
