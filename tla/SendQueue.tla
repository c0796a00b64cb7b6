------------------------------ MODULE SendQueue ------------------------------
(***************************************************************************)
(* What becomes of a published message: _mqtt_publish of the AsyncMqttClient*)
(* leaf (src/leaf_pubsub_mqtt_esp.h) and the offline queue behind it,      *)
(* _mqtt_queue_publish and flushSendQueue (src/abstract_pubsub.h).         *)
(*                                                                         *)
(* The loop task publishes, drains the queue and obeys commands; a leaf    *)
(* with a thread of its own (own_loop) publishes beside it.  The two share *)
(* send_queue and nothing locks the pair "uxQueueSpacesAvailable, then     *)
(* xQueueGenericSend", so every step of a publication is an action.        *)
(*                                                                         *)
(* _mqtt_queue_publish and flushSendQueue call each other: a message that  *)
(* finds the queue full takes the oldest one out and publishes THAT first. *)
(* hand[t] is the stack of messages task t is in the middle of publishing, *)
(* the innermost last, and stage[t] says how far the innermost has come.   *)
(*                                                                         *)
(* Abstractions: a message is its number, given in order of publication;   *)
(* the connection (module PubsubEsp) is the client's state and the flag    *)
(* that follows it, and the client does not come back before the loop has  *)
(* seen it go.                                                             *)
(***************************************************************************)
EXTENDS Naturals, Sequences

CONSTANTS
  OwnTasks,         \* leaves that run in a thread of their own
  QueueSize,        \* pubsub_send_queue_size
  FlushCounts,      \* payloads of pubsub_sendq_flush
  DropCounts,       \* payloads of pubsub_sendq_drop
  UseSleep,         \* whether the sleep command is given
  MaxMessages       \* bound: messages published in one behaviour

ASSUME SendQueueAssumption ==
  /\ "loop" \notin OwnTasks
  /\ QueueSize \in Nat \ {0}
  /\ FlushCounts \subseteq Nat /\ DropCounts \subseteq Nat
  /\ UseSleep \in BOOLEAN
  /\ MaxMessages \in Nat

Tasks == {"loop"} \cup OwnTasks
Messages == 1..MaxMessages

VARIABLES
  client_up,        \* mqttClient.connected()
  connected,        \* pubsub_connected
  notified,         \* pubsub_connect_notified
  always_queue,     \* pubsub_always_queue, a saved setting
  send_queue,       \* send_queue
  hand,             \* hand[t]: messages task t is publishing, innermost last
  stage,            \* stage[t]: progress of the innermost
  job,              \* what the loop task is doing
  left,             \* messages job still has to take; 0 = no limit
  sleep,            \* initiate_sleep_ms: sleep_pub_id, and the deep sleep
  next,             \* number of the next message
  sent,             \* messages the broker has received
  lost              \* messages that never will be

linkVars  == <<client_up, connected, notified, always_queue>>
queueVars == <<send_queue, hand, stage>>
jobVars   == <<job, left, sleep>>
fateVars  == <<next, sent, lost>>
vars == <<linkVars, queueVars, jobVars, fateVars>>

TypeOK ==
  /\ client_up \in BOOLEAN /\ connected \in BOOLEAN /\ notified \in BOOLEAN
  /\ always_queue \in BOOLEAN
  /\ send_queue \in Seq(Messages) /\ Len(send_queue) <= QueueSize
  /\ hand \in [Tasks -> Seq(Messages)]
  /\ stage \in [Tasks -> {"idle", "publish", "check", "evict", "store"}]
  /\ job \in {"none", "flush", "drop", "announce", "sleep"} /\ left \in Nat
  /\ sleep \in {"no", "asked", "armed", "asleep"}
  /\ next \in 1..MaxMessages + 1
  /\ sent \subseteq Messages /\ lost \subseteq Messages

\* After setup(): no connection, an empty queue, the setting as it was saved.
Init ==
  /\ client_up = FALSE /\ connected = FALSE /\ notified = FALSE
  /\ always_queue \in BOOLEAN
  /\ send_queue = <<>>
  /\ hand = [t \in Tasks |-> <<>>] /\ stage = [t \in Tasks |-> "idle"]
  /\ job = "none" /\ left = 0 /\ sleep = "no"
  /\ next = 1 /\ sent = {} /\ lost = {}

Awake == sleep # "asleep"
LoopIdle == Awake /\ stage["loop"] = "idle"
Free == LoopIdle /\ job = "none"

-----------------------------------------------------------------------------
(* Publishing one message.                                                 *)

\* pubsubOnConnect of the leaf raises pubsub_always_queue while it runs.
Queueing == always_queue \/ job = "announce"

\* Task t begins to publish m.
Take(t, m) ==
  /\ hand' = [hand EXCEPT ![t] = Append(@, m)]
  /\ stage' = [stage EXCEPT ![t] = "publish"]

\* Task t is done with its innermost message; the one it interrupted, which
\* found the queue full, is now stored.
Done(t) ==
  LET rest == SubSeq(hand[t], 1, Len(hand[t]) - 1)
  IN  /\ hand' = [hand EXCEPT ![t] = rest]
      /\ stage' = [stage EXCEPT ![t] = IF rest = <<>> THEN "idle" ELSE "store"]

Innermost(t) == hand[t][Len(hand[t])]

\* A leaf calls mqtt_publish.
Publish(t) ==
  /\ Awake /\ stage[t] = "idle" /\ next <= MaxMessages
  /\ t = "loop" => job = "none"
  /\ Take(t, next)
  /\ next' = next + 1
  /\ UNCHANGED <<linkVars, send_queue, jobVars, sent, lost>>

\* _mqtt_publish: hand the message to the client, or queue it.  A client whose
\* connection is gone answers 0 and the message is gone too.  The answer to
\* the sleep command's own message is kept in sleep_pub_id.
Route(t) ==
  /\ Awake /\ stage[t] = "publish"
  /\ IF connected /\ ~Queueing
     THEN /\ Done(t)
          /\ sent' = IF client_up THEN sent \cup {Innermost(t)} ELSE sent
          /\ lost' = IF client_up THEN lost ELSE lost \cup {Innermost(t)}
          /\ sleep' = IF t = "loop" /\ job = "sleep" /\ client_up
                      THEN "armed" ELSE sleep
     ELSE /\ stage' = [stage EXCEPT ![t] = "check"]
          /\ UNCHANGED <<hand, sent, lost, sleep>>
  /\ UNCHANGED <<linkVars, send_queue, job, left, next>>

\* _mqtt_queue_publish: uxQueueSpacesAvailable.
Check(t) ==
  /\ Awake /\ stage[t] = "check"
  /\ stage' = [stage EXCEPT ![t] = IF Len(send_queue) = QueueSize THEN "evict"
                                   ELSE "store"]
  /\ UNCHANGED <<linkVars, send_queue, hand, jobVars, fateVars>>

\* Mutant: the oldest message is read with xQueuePeek and stays in the queue.
EvictPeeks(t) ==
  /\ Awake /\ stage[t] = "evict"
  /\ \/ /\ send_queue = <<>>
        /\ stage' = [stage EXCEPT ![t] = "store"]
        /\ UNCHANGED <<send_queue, hand>>
     \/ /\ send_queue # <<>>
        /\ Take(t, Head(send_queue))
        /\ UNCHANGED send_queue
  /\ UNCHANGED <<linkVars, jobVars, fateVars>>

\* flushSendQueue(1): the oldest message is taken out and published first.
Evict(t) ==
  /\ Awake /\ stage[t] = "evict"
  /\ \/ /\ send_queue = <<>>
        /\ stage' = [stage EXCEPT ![t] = "store"]
        /\ UNCHANGED <<send_queue, hand>>
     \/ /\ send_queue # <<>>
        /\ Take(t, Head(send_queue))
        /\ send_queue' = Tail(send_queue)
  /\ UNCHANGED <<linkVars, jobVars, fateVars>>

\* Mutant: the space counted in Check is trusted and the send not checked.
StoreUnchecked(t) ==
  /\ Awake /\ stage[t] = "store"
  /\ Done(t)
  /\ send_queue' = Append(send_queue, Innermost(t)) /\ UNCHANGED lost
  /\ UNCHANGED <<linkVars, jobVars, next, sent>>

\* xQueueGenericSend with no patience: a full queue loses the message.
Store(t) ==
  /\ Awake /\ stage[t] = "store"
  /\ Done(t)
  /\ IF Len(send_queue) < QueueSize
     THEN send_queue' = Append(send_queue, Innermost(t)) /\ UNCHANGED lost
     ELSE lost' = lost \cup {Innermost(t)} /\ UNCHANGED send_queue
  /\ UNCHANGED <<linkVars, jobVars, next, sent>>

-----------------------------------------------------------------------------
(* What the loop task does besides.                                        *)

\* pubsub_sendq_flush and pubsub_sendq_drop, and initiate_sleep_ms.
CmdFlush ==
  /\ Free /\ job' = "flush" /\ left' \in FlushCounts
  /\ UNCHANGED <<linkVars, queueVars, sleep, fateVars>>

CmdDrop ==
  /\ Free /\ job' = "drop" /\ left' \in DropCounts
  /\ UNCHANGED <<linkVars, queueVars, sleep, fateVars>>

CmdSleep ==
  /\ Free /\ UseSleep /\ sleep \in {"no", "asked"} /\ next <= MaxMessages
  /\ job' = "sleep" /\ sleep' = "asked"
  /\ Take("loop", next) /\ next' = next + 1
  /\ UNCHANGED <<linkVars, send_queue, left, sent, lost>>

\* set pubsub_always_queue.
CmdAlwaysQueue ==
  /\ Free /\ always_queue' = ~always_queue
  /\ UNCHANGED <<client_up, connected, notified, queueVars, jobVars, fateVars>>

SleepPublished ==
  /\ LoopIdle /\ job = "sleep" /\ job' = "none"
  /\ UNCHANGED <<linkVars, queueVars, left, sleep, fateVars>>

\* Mutant: sendQueueCount() > 1, the last message is never released.
ReleaseLate ==
  /\ Free /\ connected /\ Len(send_queue) > 1
  /\ job' = "flush" /\ left' = 1
  /\ UNCHANGED <<linkVars, queueVars, sleep, fateVars>>

\* loop(): every pubsub_dequeue_delay ms, release one message.
Release ==
  /\ Free /\ connected /\ send_queue # <<>>
  /\ job' = "flush" /\ left' = 1
  /\ UNCHANGED <<linkVars, queueVars, sleep, fateVars>>

\* Mutant: the count is not counted down.
FlushOneForever ==
  /\ LoopIdle /\ job \in {"flush", "drop"}
  /\ IF send_queue = <<>>
     THEN job' = "none" /\ left' = 0 /\ UNCHANGED <<queueVars, lost>>
     ELSE /\ send_queue' = Tail(send_queue)
          /\ UNCHANGED <<job, left>>
          /\ IF job = "drop"
             THEN lost' = lost \cup {Head(send_queue)} /\ UNCHANGED <<hand, stage>>
             ELSE Take("loop", Head(send_queue)) /\ UNCHANGED lost
  /\ UNCHANGED <<linkVars, sleep, next, sent>>

\* One turn of flushSendQueue.
FlushOne ==
  /\ LoopIdle /\ job \in {"flush", "drop"}
  /\ IF send_queue = <<>>
     THEN job' = "none" /\ left' = 0 /\ UNCHANGED <<queueVars, lost>>
     ELSE /\ send_queue' = Tail(send_queue)
          /\ job' = IF left = 1 THEN "none" ELSE job
          /\ left' = IF left > 0 THEN left - 1 ELSE 0
          /\ IF job = "drop"
             THEN lost' = lost \cup {Head(send_queue)} /\ UNCHANGED <<hand, stage>>
             ELSE Take("loop", Head(send_queue)) /\ UNCHANGED lost
  /\ UNCHANGED <<linkVars, sleep, next, sent>>

\* processEvent: the loop learns what the client did.  loop() has notified
\* the last change before it takes the next event.
ProcessEvent ==
  /\ Free /\ connected # client_up /\ notified = connected
  /\ connected' = client_up
  /\ UNCHANGED <<client_up, notified, always_queue, queueVars, jobVars, fateVars>>

\* loop() notices the change: pubsubOnConnect publishes status/presence.
NotifyConnect ==
  /\ Free /\ connected /\ ~notified /\ next <= MaxMessages
  /\ job' = "announce" /\ notified' = TRUE
  /\ Take("loop", next) /\ next' = next + 1
  /\ UNCHANGED <<client_up, connected, always_queue, send_queue, left, sleep, sent, lost>>

Announced ==
  /\ LoopIdle /\ job = "announce" /\ job' = "none"
  /\ UNCHANGED <<linkVars, queueVars, left, sleep, fateVars>>

NotifyDisconnect ==
  /\ Free /\ notified /\ ~connected
  /\ notified' = FALSE
  /\ UNCHANGED <<client_up, connected, always_queue, queueVars, jobVars, fateVars>>

-----------------------------------------------------------------------------
(* The client and the broker.                                              *)

ClientUp ==
  /\ Awake /\ ~client_up /\ ~connected /\ client_up' = TRUE
  /\ UNCHANGED <<connected, notified, always_queue, queueVars, jobVars, fateVars>>

\* The acknowledgement sleep_pub_id waits for is lost with the session.
ClientDrops ==
  /\ Awake /\ client_up /\ client_up' = FALSE
  /\ sleep' = IF sleep = "armed" THEN "asked" ELSE sleep
  /\ UNCHANGED <<connected, notified, always_queue, queueVars, job, left, fateVars>>

\* PUBLISH_DONE for sleep_pub_id: the device goes to sleep.
SleepAcked ==
  /\ Free /\ sleep = "armed" /\ client_up
  /\ sleep' = "asleep"
  /\ UNCHANGED <<linkVars, queueVars, job, left, fateVars>>

\* Waking up from deep sleep is a reset: what was in memory is gone.
Wakes ==
  /\ sleep = "asleep" /\ sleep' = "no"
  /\ client_up' = FALSE /\ connected' = FALSE /\ notified' = FALSE
  /\ send_queue' = <<>>
  /\ hand' = [t \in Tasks |-> <<>>] /\ stage' = [t \in Tasks |-> "idle"]
  /\ job' = "none" /\ left' = 0
  /\ lost' = (1..next - 1) \ sent
  /\ UNCHANGED <<always_queue, next, sent>>
-----------------------------------------------------------------------------
Publishing(t) == Route(t) \/ Check(t) \/ Evict(t) \/ Store(t)

LoopStep ==
  \/ Publishing("loop") \/ SleepPublished \/ Release \/ FlushOne
  \/ ProcessEvent \/ NotifyConnect \/ Announced \/ NotifyDisconnect

Commands == CmdFlush \/ CmdDrop \/ CmdSleep \/ CmdAlwaysQueue

Next ==
  \/ \E t \in Tasks : Publish(t)
  \/ \E t \in OwnTasks : Publishing(t)
  \/ LoopStep \/ Commands
  \/ ClientUp \/ ClientDrops \/ SleepAcked \/ Wakes

\* The scheduler runs every task, and each pass of loop() comes to every
\* section, whatever commands and publications came before; the client
\* reconnects, and the broker acknowledges what it received.
Fairness ==
  /\ \A t \in Tasks : WF_vars(Publishing(t))
  /\ WF_vars(FlushOne) /\ WF_vars(SleepPublished) /\ WF_vars(Announced)
  /\ SF_vars(ProcessEvent) /\ SF_vars(Release)
  /\ SF_vars(NotifyConnect) /\ SF_vars(NotifyDisconnect)
  /\ WF_vars(ClientUp) /\ SF_vars(SleepAcked)

Spec == Init /\ [][Next]_vars
FairSpec == Spec /\ Fairness
-----------------------------------------------------------------------------
(* Properties.                                                             *)

Elements(q) == {q[i] : i \in DOMAIN q}
Injective(q) == \A i, j \in DOMAIN q : q[i] = q[j] => i = j

\* Wherever the tasks are between two steps, every message published so far
\* is in exactly one place and there once: the queue, the hand of a task, the
\* broker, or lost.  Neither the recursion of _mqtt_queue_publish nor two
\* tasks at work on a full queue duplicate a message or forget one.
Accounted ==
  /\ Injective(send_queue)
  /\ \A t \in Tasks :
       /\ Injective(hand[t])
       /\ Elements(hand[t]) \cap (Elements(send_queue) \cup sent \cup lost) = {}
       /\ \A u \in Tasks \ {t} : Elements(hand[t]) \cap Elements(hand[u]) = {}
  /\ sent \cap lost = {}
  /\ Elements(send_queue) \cap (sent \cup lost) = {}
  /\ 1..next - 1 = sent \cup lost \cup Elements(send_queue)
                    \cup UNION {Elements(hand[t]) : t \in Tasks}

\* The queue keeps the promise of an outbox.
Promise == INSTANCE Outbox WITH
  taken <- next - 1,
  pending <- Elements(send_queue) \cup UNION {Elements(hand[t]) : t \in Tasks}
OutboxKept == Promise!OutboxSpec

\* "pubsub_sendq_flush 0", or without a payload, means all messages.  Offline, or
\* with pubsub_always_queue, each message taken out is queued again, and the
\* command goes round until another task's message takes the place.
Endless == job = "flush" /\ left = 0 /\ (~connected \/ always_queue)

\* Once the connection is there to stay, messages are not to wait on purpose and
\* the loop is not caught in the endless flush, the queue empties, and what was
\* in it was sent, or lost for good.
QueueDrains ==
  <>[](client_up /\ Awake /\ ~always_queue /\ ~Endless) => <>[](send_queue = <<>>)

\* Every other flush comes to its end: a counted one although each message it
\* takes out may be queued again behind it, one of all messages because online
\* they are not queued again, whatever the client and the other tasks do.
FlushEnds == job = "flush" /\ ~Endless ~> job # "flush"

\* On overflow the message dropped is the oldest of those at hand.
DropsOldest ==
  [][\A m \in lost' \ lost :
       stage["loop"] = "store" => \A k \in Elements(send_queue) : m < k]_vars
=============================================================================
