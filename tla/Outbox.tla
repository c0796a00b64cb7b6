-------------------------------- MODULE Outbox --------------------------------
(***************************************************************************)
(* What the publishing half of a pubsub leaf promises the other leaves,    *)
(* whatever queues and tasks lie behind _mqtt_publish: a message is taken, *)
(* and then sent once, or lost once, and nothing else ever happens to it.  *)
(* Taking, sending and losing are interleaved freely; a reset of the       *)
(* device loses everything taken and not yet sent.                         *)
(***************************************************************************)
EXTENDS Naturals

CONSTANT MaxMessages

VARIABLES taken, pending, sent, lost

outboxVars == <<taken, pending, sent, lost>>

OutboxInit == taken = 0 /\ pending = {} /\ sent = {} /\ lost = {}

TakeMessage ==
  /\ taken < MaxMessages
  /\ taken' = taken + 1 /\ pending' = pending \cup {taken + 1}
  /\ UNCHANGED <<sent, lost>>

SendMessage(m) ==
  /\ m \in pending
  /\ pending' = pending \ {m} /\ sent' = sent \cup {m}
  /\ UNCHANGED <<taken, lost>>

LoseMessage(m) ==
  /\ m \in pending
  /\ pending' = pending \ {m} /\ lost' = lost \cup {m}
  /\ UNCHANGED <<taken, sent>>

LoseAll ==
  /\ pending' = {} /\ lost' = lost \cup pending
  /\ UNCHANGED <<taken, sent>>

OutboxNext ==
  \/ TakeMessage \/ LoseAll
  \/ \E m \in pending : SendMessage(m) \/ LoseMessage(m)

OutboxSpec == OutboxInit /\ [][OutboxNext]_outboxVars
=============================================================================
