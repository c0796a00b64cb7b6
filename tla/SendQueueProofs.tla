-------------------------- MODULE SendQueueProofs ---------------------------
(***************************************************************************)
(* Proofs about SendQueue for any number of tasks with a thread of their   *)
(* own, any queue size, number of messages and payloads of the commands:   *)
(* every message is accounted for, and the queue is an outbox.             *)
(***************************************************************************)
EXTENDS SendQueue, SequenceTheorems, TLAPS

\* A task at rest publishes nothing, one at work does.
HandInv == \A t \in Tasks : stage[t] = "idle" <=> hand[t] = <<>>

-----------------------------------------------------------------------------
(* Sequences without repetition.                                           *)

\* An element put at the end joins the others.
LEMMA AppendElements ==
  ASSUME NEW S, NEW q \in Seq(S), NEW m \in S
  PROVE  /\ Elements(Append(q, m)) = Elements(q) \cup {m}
         /\ Injective(q) /\ m \notin Elements(q) => Injective(Append(q, m))
  <1> DEFINE r == Append(q, m)
  <1>1. /\ Len(q) \in Nat /\ DOMAIN q = 1..Len(q) /\ DOMAIN r = 1..(Len(q) + 1)
        /\ r[Len(q) + 1] = m /\ \A i \in DOMAIN q : r[i] = q[i]
    OBVIOUS
  <1> HIDE DEF r
  <1>2. \A i \in DOMAIN r : i \in DOMAIN q \/ i = Len(q) + 1
    BY <1>1
  <1>3. DOMAIN q \subseteq DOMAIN r /\ Len(q) + 1 \in DOMAIN r
    BY <1>1
  <1>4. Elements(r) = Elements(q) \cup {m}
    <2>1. \A x \in Elements(r) : x \in Elements(q) \cup {m}
      BY <1>1, <1>2 DEF Elements
    <2>2. \A x \in Elements(q) \cup {m} : x \in Elements(r)
      BY <1>1, <1>3 DEF Elements
    <2> QED
      BY <2>1, <2>2
  <1>5. ASSUME Injective(q), m \notin Elements(q) PROVE Injective(r)
    <2>1. \A i \in DOMAIN q : q[i] # m
      BY <1>5 DEF Elements
    <2>2. ASSUME NEW i \in DOMAIN r, NEW j \in DOMAIN r, r[i] = r[j] PROVE i = j
      BY <1>1, <1>2, <1>5, <2>1, <2>2 DEF Injective
    <2> QED
      BY <2>2 DEF Injective
  <1> QED
    BY <1>4, <1>5 DEF r

\* Without its first element a sequence has the others.
LEMMA TailElements ==
  ASSUME NEW S, NEW q \in Seq(S), q # <<>>
  PROVE  /\ Head(q) \in S /\ Tail(q) \in Seq(S) /\ Len(Tail(q)) = Len(q) - 1
         /\ Elements(q) = Elements(Tail(q)) \cup {Head(q)}
         /\ Injective(q) => Injective(Tail(q)) /\ Head(q) \notin Elements(Tail(q))
  <1> DEFINE r == Tail(q)
  <1>1. /\ Len(q) \in Nat \ {0} /\ DOMAIN q = 1..Len(q) /\ DOMAIN r = 1..(Len(q) - 1)
        /\ \A i \in DOMAIN r : r[i] = q[i + 1]
        /\ Head(q) = q[1]
        /\ Head(q) \in S /\ r \in Seq(S) /\ Len(r) = Len(q) - 1
    OBVIOUS
  <1> HIDE DEF r
  <1>2. \A i \in DOMAIN q : i = 1 \/ (i - 1 \in DOMAIN r /\ r[i - 1] = q[i])
    BY <1>1
  <1>3. 1 \in DOMAIN q /\ \A i \in DOMAIN r : i + 1 \in DOMAIN q /\ i + 1 # 1
    BY <1>1
  <1>4. Elements(q) = Elements(r) \cup {Head(q)}
    <2>1. \A x \in Elements(q) : x \in Elements(r) \cup {Head(q)}
      BY <1>1, <1>2 DEF Elements
    <2>2. \A x \in Elements(r) \cup {Head(q)} : x \in Elements(q)
      BY <1>1, <1>3 DEF Elements
    <2> QED
      BY <2>1, <2>2
  <1>5. ASSUME Injective(q) PROVE Injective(r) /\ Head(q) \notin Elements(r)
    <2>1. ASSUME NEW i \in DOMAIN r, NEW j \in DOMAIN r, r[i] = r[j] PROVE i = j
      <3>1. q[i + 1] = q[j + 1] /\ i + 1 \in DOMAIN q /\ j + 1 \in DOMAIN q
        BY <1>1, <1>3, <2>1
      <3>2. i + 1 = j + 1
        BY <1>5, <3>1 DEF Injective
      <3> QED
        BY <1>1, <3>2
    <2>2. ASSUME NEW i \in DOMAIN r, r[i] = Head(q) PROVE FALSE
      <3>1. q[i + 1] = q[1] /\ i + 1 \in DOMAIN q /\ 1 \in DOMAIN q /\ i + 1 # 1
        BY <1>1, <1>3, <2>2
      <3> QED
        BY <1>5, <3>1 DEF Injective
    <2> QED
      BY <2>1, <2>2 DEF Injective, Elements
  <1> QED
    BY <1>1, <1>4, <1>5 DEF r

\* Without its last element too: Done takes that one away.
LEMMA FrontElements ==
  ASSUME NEW S, NEW q \in Seq(S), q # <<>>
  PROVE  LET r == SubSeq(q, 1, Len(q) - 1)
             m == q[Len(q)]
         IN  /\ m \in S /\ r \in Seq(S)
             /\ Elements(q) = Elements(r) \cup {m}
             /\ Injective(q) => Injective(r) /\ m \notin Elements(r)
  <1> DEFINE r == SubSeq(q, 1, Len(q) - 1)
             m == q[Len(q)]
  <1>1. /\ Len(q) \in Nat \ {0} /\ DOMAIN q = 1..Len(q) /\ DOMAIN r = 1..(Len(q) - 1)
        /\ \A i \in DOMAIN r : r[i] = q[i]
        /\ m \in S /\ r \in Seq(S)
    OBVIOUS
  <1>2. Len(q) \in DOMAIN q /\ m = q[Len(q)]
    BY <1>1
  <1> HIDE DEF r, m
  <1>3. \A i \in DOMAIN q : i = Len(q) \/ i \in DOMAIN r
    BY <1>1
  <1>4. \A i \in DOMAIN r : i \in DOMAIN q /\ i # Len(q)
    BY <1>1
  <1>5. Elements(q) = Elements(r) \cup {m}
    <2>1. \A x \in Elements(q) : x \in Elements(r) \cup {m}
      BY <1>1, <1>2, <1>3 DEF Elements
    <2>2. \A x \in Elements(r) \cup {m} : x \in Elements(q)
      BY <1>1, <1>2, <1>4 DEF Elements
    <2> QED
      BY <2>1, <2>2
  <1>6. ASSUME Injective(q) PROVE Injective(r) /\ m \notin Elements(r)
    BY <1>1, <1>2, <1>4, <1>6 DEF Injective, Elements
  <1> QED
    BY <1>1, <1>5, <1>6 DEF r, m

\* There is nothing in an empty sequence.
LEMMA NoElements == Elements(<<>>) = {} /\ Injective(<<>>)
  BY DEF Elements, Injective

-----------------------------------------------------------------------------
(* The type invariant.                                                     *)

Stages == {"idle", "publish", "check", "evict", "store"}
QueueOK == send_queue \in Seq(Messages) /\ Len(send_queue) <= QueueSize
HandOK  == hand \in [Tasks -> Seq(Messages)] /\ stage \in [Tasks -> Stages] /\ HandInv
LinkOK  == /\ client_up \in BOOLEAN /\ connected \in BOOLEAN /\ notified \in BOOLEAN
           /\ always_queue \in BOOLEAN
JobOK   == /\ job \in {"none", "flush", "drop", "announce", "sleep"} /\ left \in Nat
           /\ sleep \in {"no", "asked", "armed", "asleep"}
FateOK  == next \in 1..MaxMessages + 1 /\ sent \subseteq Messages /\ lost \subseteq Messages
Typed   == QueueOK /\ HandOK /\ LinkOK /\ JobOK /\ FateOK

\* The type invariant is the parts without HandInv.
LEMMA TypedIsType == Typed => TypeOK
  BY DEF Typed, TypeOK, QueueOK, HandOK, LinkOK, JobOK, FateOK, Stages

\* Beginning with a message.
LEMMA TakeTyped ==
  ASSUME HandOK, NEW t \in Tasks, NEW m \in Messages, Take(t, m)
  PROVE  HandOK'
  <1>1. hand[t] \in Seq(Messages)
    BY DEF HandOK
  <1>2. Append(hand[t], m) \in Seq(Messages) /\ Append(hand[t], m) # <<>>
    BY <1>1
  <1>3. /\ hand' \in [Tasks -> Seq(Messages)] /\ stage' \in [Tasks -> Stages]
        /\ hand'[t] # <<>> /\ stage'[t] # "idle"
        /\ \A u \in Tasks \ {t} : hand'[u] = hand[u] /\ stage'[u] = stage[u]
    BY <1>2 DEF Take, HandOK, Stages
  <1> QED
    BY <1>3 DEF HandOK, HandInv

\* Being done with one.
LEMMA DoneTyped ==
  ASSUME HandOK, NEW t \in Tasks, stage[t] # "idle", Done(t)
  PROVE  HandOK' /\ Innermost(t) \in Messages /\ hand[t] # <<>>
  <1>1. hand[t] \in Seq(Messages) /\ hand[t] # <<>>
    BY DEF HandOK, HandInv
  <1> DEFINE rest == SubSeq(hand[t], 1, Len(hand[t]) - 1)
  <1>2. rest \in Seq(Messages) /\ Innermost(t) \in Messages
    BY <1>1, FrontElements DEF Innermost
  <1>3. /\ hand' = [hand EXCEPT ![t] = rest]
        /\ stage' = [stage EXCEPT ![t] = IF rest = <<>> THEN "idle" ELSE "store"]
    BY DEF Done
  <1> HIDE DEF rest
  <1>4. /\ hand' \in [Tasks -> Seq(Messages)] /\ stage' \in [Tasks -> Stages]
        /\ hand'[t] = <<>> <=> stage'[t] = "idle"
        /\ \A u \in Tasks \ {t} : hand'[u] = hand[u] /\ stage'[u] = stage[u]
    BY <1>2, <1>3 DEF HandOK, Stages
  <1> QED
    BY <1>1, <1>2, <1>4 DEF HandOK, HandInv

\* Going on to another stage with the same message.
LEMMA StageTyped ==
  ASSUME HandOK, NEW t \in Tasks, stage[t] # "idle", NEW g \in Stages \ {"idle"},
         stage' = [stage EXCEPT ![t] = g], UNCHANGED hand
  PROVE  HandOK'
  BY DEF HandOK, HandInv

\* Taking the first message out of the queue.
LEMMA TailTyped ==
  ASSUME QueueOK, send_queue # <<>>, send_queue' = Tail(send_queue)
  PROVE  QueueOK' /\ Head(send_queue) \in Messages
  BY SendQueueAssumption, TailElements DEF QueueOK

\* The number of a new message.
LEMMA NextTyped ==
  ASSUME FateOK, next <= MaxMessages
  PROVE  next \in Messages /\ next + 1 \in 1..MaxMessages + 1
  BY SendQueueAssumption DEF FateOK, Messages

\* Groups of variables an action leaves alone stay typed.
LEMMA UnchangedTyped ==
  ASSUME Typed
  PROVE  /\ UNCHANGED send_queue => QueueOK'
         /\ UNCHANGED <<hand, stage>> => HandOK'
         /\ UNCHANGED linkVars => LinkOK'
         /\ UNCHANGED jobVars => JobOK'
         /\ UNCHANGED fateVars => FateOK'
  BY DEF Typed, QueueOK, HandOK, HandInv, LinkOK, JobOK, FateOK,
         linkVars, jobVars, fateVars

\* The steps of one publication.
LEMMA PublishTyped ==
  ASSUME Typed, NEW t \in Tasks, Publish(t) \/ Publishing(t)
  PROVE  Typed'
  <1>1. CASE Publish(t)
    <2>1. HandOK' /\ FateOK'
      BY <1>1, NextTyped, TakeTyped DEF Publish, Typed, FateOK
    <2> QED
      BY <1>1, <2>1, UnchangedTyped DEF Publish, Typed
  <1>2. CASE Route(t)
    <2>1. CASE Done(t)
      <3>1. HandOK' /\ Innermost(t) \in Messages
        BY <1>2, <2>1, DoneTyped DEF Route, Typed
      <3>2. FateOK' /\ JobOK'
        BY <1>2, <3>1 DEF Route, Typed, FateOK, JobOK
      <3> QED
        BY <1>2, <3>1, <3>2, UnchangedTyped DEF Route, Typed
    <2>2. CASE stage' = [stage EXCEPT ![t] = "check"] /\ UNCHANGED <<hand, sent, lost, sleep>>
      <3>1. HandOK'
        BY <1>2, <2>2, StageTyped DEF Route, Typed, Stages
      <3> QED
        BY <1>2, <2>2, <3>1, UnchangedTyped DEF Route, Typed, FateOK, JobOK
    <2> QED
      BY <1>2, <2>1, <2>2 DEF Route
  <1>3. CASE Check(t)
    <2>1. HandOK'
      BY <1>3, StageTyped DEF Check, Typed, Stages
    <2> QED
      BY <1>3, <2>1, UnchangedTyped DEF Check, Typed
  <1>4. CASE Evict(t)
    <2>1. QueueOK' /\ HandOK'
      <3>1. CASE send_queue = <<>>
        BY <1>4, <3>1, StageTyped, UnchangedTyped DEF Evict, Typed, Stages
      <3>2. CASE send_queue # <<>>
        BY <1>4, <3>2, TailTyped, TakeTyped DEF Evict, Typed
      <3> QED
        BY <3>1, <3>2
    <2> QED
      BY <1>4, <2>1, UnchangedTyped DEF Evict, Typed
  <1>5. CASE Store(t)
    <2>1. HandOK' /\ Innermost(t) \in Messages
      BY <1>5, DoneTyped DEF Store, Typed
    <2>2. CASE Len(send_queue) < QueueSize
      <3>1. QueueOK'
        BY <1>5, <2>1, <2>2, SendQueueAssumption DEF Store, Typed, QueueOK
      <3> QED
        BY <1>5, <2>1, <2>2, <3>1, UnchangedTyped DEF Store, Typed, FateOK
    <2>3. CASE ~(Len(send_queue) < QueueSize)
      BY <1>5, <2>1, <2>3, UnchangedTyped DEF Store, Typed, FateOK
    <2> QED
      BY <2>2, <2>3
  <1> QED
    BY <1>1, <1>2, <1>3, <1>4, <1>5 DEF Publishing

\* Everything else.
LEMMA RestTyped ==
  ASSUME Typed,
         \/ SleepPublished \/ Release \/ FlushOne \/ ProcessEvent \/ NotifyConnect
         \/ Announced \/ NotifyDisconnect \/ Commands \/ ClientUp \/ ClientDrops
         \/ SleepAcked \/ Wakes
  PROVE  Typed'
  <1>0. "loop" \in Tasks
    BY DEF Tasks
  <1>1. CASE SleepPublished \/ Release \/ Announced \/ SleepAcked
    BY <1>1, UnchangedTyped
    DEF SleepPublished, Release, Announced, SleepAcked, Typed, JobOK, queueVars
  <1>2. CASE FlushOne
    <2>1. job' \in {"none", "flush", "drop"} /\ left' \in Nat
      BY <1>2 DEF FlushOne, Typed, JobOK
    <2>2. JobOK' /\ LinkOK'
      BY <1>2, <2>1, UnchangedTyped DEF FlushOne, Typed, JobOK
    <2>3. CASE send_queue = <<>>
      BY <1>2, <2>2, <2>3, UnchangedTyped DEF FlushOne, Typed, FateOK, queueVars
    <2>4. CASE send_queue # <<>>
      <3>1. QueueOK' /\ Head(send_queue) \in Messages
        BY <1>2, <2>4, TailTyped DEF FlushOne, Typed
      <3>2. CASE job = "drop"
        BY <1>2, <2>2, <2>4, <3>1, <3>2, UnchangedTyped DEF FlushOne, Typed, FateOK
      <3>3. CASE job # "drop"
        BY <1>0, <1>2, <2>2, <2>4, <3>1, <3>3, TakeTyped DEF FlushOne, Typed, FateOK
      <3> QED
        BY <3>2, <3>3
    <2> QED
      BY <2>3, <2>4
  <1>3. CASE ProcessEvent \/ NotifyDisconnect \/ ClientUp \/ CmdAlwaysQueue
    BY <1>3, UnchangedTyped
    DEF ProcessEvent, NotifyDisconnect, ClientUp, CmdAlwaysQueue, Typed, LinkOK, queueVars
  <1>4. CASE NotifyConnect \/ CmdSleep
    <2>1. HandOK' /\ FateOK'
      BY <1>0, <1>4, NextTyped, TakeTyped DEF NotifyConnect, CmdSleep, Typed, FateOK
    <2>2. LinkOK' /\ JobOK'
      BY <1>4 DEF NotifyConnect, CmdSleep, Typed, LinkOK, JobOK, linkVars
    <2> QED
      BY <1>4, <2>1, <2>2, UnchangedTyped DEF NotifyConnect, CmdSleep, Typed
  <1>5. CASE CmdFlush \/ CmdDrop
    <2>1. JobOK'
      BY <1>5, SendQueueAssumption DEF CmdFlush, CmdDrop, Typed, JobOK
    <2> QED
      BY <1>5, <2>1, UnchangedTyped DEF CmdFlush, CmdDrop, Typed, queueVars
  <1>6. CASE ClientDrops
    BY <1>6, UnchangedTyped DEF ClientDrops, Typed, LinkOK, JobOK, queueVars
  <1>7. CASE Wakes
    <2>1. QueueOK'
      BY <1>7, SendQueueAssumption DEF Wakes, QueueOK
    <2>2. HandOK'
      BY <1>7 DEF Wakes, HandOK, HandInv, Stages
    <2>3. FateOK'
      BY <1>7, SendQueueAssumption DEF Wakes, Typed, FateOK, Messages
    <2> QED
      BY <1>7, <2>1, <2>2, <2>3 DEF Wakes, Typed, LinkOK, JobOK
  <1> QED
    BY <1>1, <1>2, <1>3, <1>4, <1>5, <1>6, <1>7 DEF Commands

\* The parts hold in every state.
LEMMA TypedInvariant == Spec => []Typed
  <1>1. Init => Typed
    <2> SUFFICES ASSUME Init PROVE Typed
      OBVIOUS
    <2>1. QueueOK
      BY SendQueueAssumption DEF Init, QueueOK
    <2>2. HandOK
      BY DEF Init, HandOK, HandInv, Stages
    <2>3. FateOK
      BY SendQueueAssumption DEF Init, FateOK
    <2> QED
      BY <2>1, <2>2, <2>3 DEF Init, Typed, LinkOK, JobOK
  <1>2. Typed /\ [Next]_vars => Typed'
    <2> SUFFICES ASSUME Typed, [Next]_vars PROVE Typed'
      OBVIOUS
    <2>1. CASE UNCHANGED vars
      BY <2>1, UnchangedTyped DEF vars, queueVars, Typed
    <2>2. "loop" \in Tasks /\ OwnTasks \subseteq Tasks
      BY DEF Tasks
    <2> QED
      BY <2>1, <2>2, PublishTyped, RestTyped DEF Next, LoopStep
  <1> QED
    BY <1>1, <1>2, PTL DEF Spec

\* Type correctness: send_queue never holds more than QueueSize messages,
\* though no lock joins the count of free places and the send.
THEOREM TypeCorrect == Spec => []TypeOK
  BY TypedInvariant, TypedIsType, PTL

-----------------------------------------------------------------------------
(* Where a message is.  Accounted is inductive once HandInv is known; it is *)
(* taken apart so that a step is judged by the one message it moves.        *)

Queued == Elements(send_queue)
Held(t) == Elements(hand[t])
Pending == Queued \cup UNION {Held(t) : t \in Tasks}

\* Message m is somewhere exactly if it has been published, and there once.
PlacedAt(m) ==
  m \in 1..next - 1 <=> m \in sent \/ m \in lost \/ m \in Pending
ApartAt(m) ==
  /\ m \in sent => m \notin lost
  /\ m \in Queued => m \notin sent /\ m \notin lost
  /\ \A t \in Tasks : m \in Held(t) =>
       /\ m \notin Queued /\ m \notin sent /\ m \notin lost
       /\ \A u \in Tasks \ {t} : m \notin Held(u)
Single == Injective(send_queue) /\ \A t \in Tasks : Injective(hand[t])
Apart == \A m : PlacedAt(m) /\ ApartAt(m)

\* A message is pending in the queue or in a hand.
LEMMA PendingAt ==
  ASSUME NEW m
  PROVE  m \in Pending <=> m \in Queued \/ \E t \in Tasks : m \in Held(t)
  BY DEF Pending

\* Accounted in these terms.
LEMMA AccountedParts == Accounted <=> Single /\ Apart
  <1>1. ASSUME Accounted PROVE Single /\ Apart
    <2>1. Single
      BY <1>1 DEF Accounted, Single
    <2>2. ASSUME NEW m PROVE PlacedAt(m)
      BY <1>1 DEF Accounted, PlacedAt, Pending, Queued, Held
    <2>3. ASSUME NEW m PROVE ApartAt(m)
      BY <1>1 DEF Accounted, ApartAt, Queued, Held
    <2> QED
      BY <2>1, <2>2, <2>3 DEF Apart
  <1>2. ASSUME Single, Apart PROVE Accounted
    <2>1. 1..next - 1 = sent \cup lost \cup Elements(send_queue)
                         \cup UNION {Elements(hand[t]) : t \in Tasks}
      <3>1. \A m : m \in 1..next - 1 <=> m \in sent \/ m \in lost \/ m \in Pending
        BY <1>2 DEF Apart, PlacedAt
      <3>2. 1..next - 1 = sent \cup lost \cup Pending
        BY <3>1
      <3> QED
        BY <3>2 DEF Pending, Queued, Held
    <2>2. sent \cap lost = {} /\ Elements(send_queue) \cap (sent \cup lost) = {}
      BY <1>2 DEF Apart, ApartAt, Queued
    <2>3. ASSUME NEW t \in Tasks
          PROVE  /\ Elements(hand[t]) \cap (Elements(send_queue) \cup sent \cup lost) = {}
                 /\ \A u \in Tasks \ {t} : Elements(hand[t]) \cap Elements(hand[u]) = {}
      BY <1>2 DEF Apart, ApartAt, Queued, Held
    <2> QED
      BY <1>2, <2>1, <2>2, <2>3 DEF Accounted, Single
  <1> QED
    BY <1>1, <1>2

\* A step that moves m at most keeps every other message accounted for.
LEMMA OthersStay ==
  ASSUME Apart, NEW m, PlacedAt(m)', ApartAt(m)',
         \A x : x # m =>
           /\ x \in sent' <=> x \in sent
           /\ x \in lost' <=> x \in lost
           /\ x \in Queued' <=> x \in Queued
           /\ \A t \in Tasks : x \in Held(t)' <=> x \in Held(t)
           /\ x \in 1..next' - 1 <=> x \in 1..next - 1
  PROVE  Apart'
  <1>1. ASSUME NEW x, x # m PROVE PlacedAt(x)' /\ ApartAt(x)'
    <2>1. x \in Pending' <=> x \in Pending
      BY <1>1 DEF Pending
    <2> QED
      BY <1>1, <2>1 DEF Apart, PlacedAt, ApartAt
  <1> QED
    BY <1>1 DEF Apart

\* A message just published is in one hand, and the outbox has taken it.
LEMMA TakeNew ==
  ASSUME Typed, Single, Apart, NEW t \in Tasks, next <= MaxMessages, Take(t, next),
         next' = next + 1, UNCHANGED <<send_queue, sent, lost>>
  PROVE  Single' /\ Apart' /\ Promise!TakeMessage
  <1>1. next \in Messages /\ next \in Nat
    BY NextTyped, SendQueueAssumption DEF Typed, FateOK
  <1>2. /\ next \notin Queued /\ next \notin sent /\ next \notin lost
        /\ \A u \in Tasks : next \notin Held(u)
    <2>1. next \notin 1..next - 1
      BY <1>1
    <2> QED
      BY <2>1, PendingAt DEF Apart, PlacedAt
  <1>3. /\ hand[t] \in Seq(Messages) /\ hand'[t] = Append(hand[t], next)
        /\ \A u \in Tasks \ {t} : hand'[u] = hand[u]
    BY DEF Take, Typed, HandOK
  <1>4. /\ Held(t)' = Held(t) \cup {next} /\ Injective(hand'[t])
        /\ \A u \in Tasks \ {t} : Held(u)' = Held(u)
        /\ Queued' = Queued
    BY <1>1, <1>2, <1>3, AppendElements DEF Held, Queued, Single
  <1>5. Single'
    BY <1>3, <1>4 DEF Single
  <1>6. next' - 1 = next /\ next \in 1..next
    BY <1>1 DEF Messages
  <1>7. \A x : x \in 1..next' - 1 <=> x \in 1..next - 1 \/ x = next
    <2>1. \A x \in 1..next : x \in 1..next - 1 \/ x = next
      BY <1>1
    <2>2. \A x \in 1..next - 1 : x \in 1..next
      BY <1>1
    <2> QED
      BY <1>6, <2>1, <2>2
  <1>8. next \in Pending'
    BY <1>4 DEF Pending
  <1>9. Apart'
    <2>1. ASSUME NEW m, m = next PROVE PlacedAt(m)' /\ ApartAt(m)'
      BY <1>2, <1>4, <1>7, <1>8, <2>1 DEF PlacedAt, ApartAt
    <2> QED
      BY <1>4, <1>7, <2>1, OthersStay
  <1>10. Pending' = Pending \cup {next}
    BY <1>4 DEF Pending
  <1>11. Promise!TakeMessage
    <2>1. next - 1 < MaxMessages /\ next' - 1 = (next - 1) + 1 /\ (next - 1) + 1 = next
      BY <1>1, SendQueueAssumption
    <2> QED
      BY <1>10, <2>1 DEF Promise!TakeMessage, Pending, Queued, Held
  <1> QED
    BY <1>5, <1>9, <1>11

\* A message taken from the queue into a hand: the outbox does not move.
LEMMA TakeOld ==
  ASSUME Typed, Single, Apart, NEW t \in Tasks, send_queue # <<>>,
         Take(t, Head(send_queue)), send_queue' = Tail(send_queue),
         UNCHANGED <<sent, lost, next>>
  PROVE  Single' /\ Apart' /\ UNCHANGED Promise!outboxVars
  <1>0. PICK m : m = Head(send_queue)
    OBVIOUS
  <1>1. /\ m \in Messages /\ Queued = Queued' \cup {m} /\ m \notin Queued'
        /\ Injective(send_queue')
    BY <1>0, TailElements DEF Typed, QueueOK, Queued, Single
  <1>2. /\ hand[t] \in Seq(Messages) /\ hand'[t] = Append(hand[t], m)
        /\ \A u \in Tasks \ {t} : hand'[u] = hand[u]
    BY <1>0 DEF Take, Typed, HandOK
  <1>3. m \notin sent /\ m \notin lost /\ \A u \in Tasks : m \notin Held(u)
    BY <1>1 DEF Apart, ApartAt
  <1>4. /\ Held(t)' = Held(t) \cup {m} /\ Injective(hand'[t])
        /\ \A u \in Tasks \ {t} : Held(u)' = Held(u)
    BY <1>1, <1>2, <1>3, AppendElements DEF Held, Single
  <1>5. Single'
    BY <1>1, <1>2, <1>4 DEF Single
  <1>6. Pending' = Pending
    BY <1>1, <1>4 DEF Pending
  <1>7. PlacedAt(m)'
    BY <1>6 DEF Apart, PlacedAt
  <1>8. ApartAt(m)'
    BY <1>1, <1>3, <1>4 DEF ApartAt
  <1>9. Apart'
    BY <1>1, <1>4, <1>7, <1>8, OthersStay
  <1>10. UNCHANGED Promise!outboxVars
    BY <1>6 DEF Promise!outboxVars, Pending, Queued, Held
  <1> QED
    BY <1>5, <1>9, <1>10

\* A message dropped from the queue is one the outbox loses.
LEMMA DropOld ==
  ASSUME Typed, Single, Apart, send_queue # <<>>, send_queue' = Tail(send_queue),
         lost' = lost \cup {Head(send_queue)}, UNCHANGED <<hand, sent, next>>
  PROVE  Single' /\ Apart' /\ [Promise!OutboxNext]_(Promise!outboxVars)
  <1>0. PICK m : m = Head(send_queue)
    OBVIOUS
  <1>1. /\ m \in Messages /\ Queued = Queued' \cup {m} /\ m \notin Queued'
        /\ Injective(send_queue') /\ lost' = lost \cup {m}
    BY <1>0, TailElements DEF Typed, QueueOK, Queued, Single
  <1>2. m \notin sent /\ m \notin lost /\ \A u \in Tasks : m \notin Held(u)
    BY <1>1 DEF Apart, ApartAt
  <1>3. \A u \in Tasks : Held(u)' = Held(u)
    BY DEF Held
  <1>4. Single'
    BY <1>1 DEF Single
  <1>5. Pending' = Pending \ {m} /\ m \in Pending
    BY <1>1, <1>2, <1>3 DEF Pending
  <1>6. PlacedAt(m)'
    BY <1>1, <1>5 DEF Apart, PlacedAt
  <1>7. ApartAt(m)'
    BY <1>1, <1>2, <1>3 DEF ApartAt
  <1>8. Apart'
    BY <1>1, <1>3, <1>6, <1>7, OthersStay
  <1>9. Promise!LoseMessage(m)
    BY <1>1, <1>5 DEF Promise!LoseMessage, Pending, Queued, Held
  <1>10. Promise!OutboxNext
    BY <1>5, <1>9 DEF Promise!OutboxNext, Pending, Queued, Held
  <1> QED
    BY <1>4, <1>8, <1>10

\* What Done does to the hand of its task.
LEMMA DoneMoves ==
  ASSUME Typed, Single, Apart, NEW t \in Tasks, stage[t] # "idle", Done(t)
  PROVE  /\ Innermost(t) \in Messages
         /\ Held(t) = Held(t)' \cup {Innermost(t)} /\ Innermost(t) \notin Held(t)'
         /\ \A u \in Tasks \ {t} : Held(u)' = Held(u)
         /\ \A u \in Tasks : Injective(hand'[u]) /\ Innermost(t) \notin Held(u)'
         /\ Innermost(t) \notin Queued /\ Innermost(t) \notin sent
         /\ Innermost(t) \notin lost /\ Innermost(t) \in Pending
  <1> DEFINE m == Innermost(t)
             rest == SubSeq(hand[t], 1, Len(hand[t]) - 1)
  <1>1. hand[t] \in Seq(Messages) /\ hand[t] # <<>> /\ Injective(hand[t])
    BY DEF Typed, HandOK, HandInv, Single
  <1>2. /\ m \in Messages
        /\ Elements(hand[t]) = Elements(rest) \cup {m}
        /\ Injective(rest) /\ m \notin Elements(rest)
    BY <1>1, FrontElements DEF Innermost
  <1>3. hand' = [hand EXCEPT ![t] = rest]
    BY DEF Done
  <1> HIDE DEF m, rest
  <1>4. hand'[t] = rest /\ \A u \in Tasks \ {t} : hand'[u] = hand[u]
    BY <1>3 DEF Typed, HandOK
  <1>5. /\ Held(t) = Held(t)' \cup {m} /\ m \notin Held(t)'
        /\ \A u \in Tasks \ {t} : Held(u)' = Held(u)
    BY <1>2, <1>4 DEF Held
  <1>6. m \notin Queued /\ m \notin sent /\ m \notin lost
        /\ \A u \in Tasks \ {t} : m \notin Held(u)
    BY <1>5 DEF Apart, ApartAt
  <1>7. \A u \in Tasks : Injective(hand'[u]) /\ m \notin Held(u)'
    BY <1>2, <1>4, <1>5, <1>6 DEF Single
  <1>8. m \in Pending
    BY <1>5 DEF Pending
  <1> QED
    BY <1>2, <1>5, <1>6, <1>7, <1>8 DEF m

\* The message done with was sent or is lost.
LEMMA DoneAway ==
  ASSUME Typed, Single, Apart, NEW t \in Tasks, stage[t] # "idle", Done(t),
         \/ sent' = sent \cup {Innermost(t)} /\ lost' = lost
         \/ sent' = sent /\ lost' = lost \cup {Innermost(t)},
         UNCHANGED <<send_queue, next>>
  PROVE  Single' /\ Apart' /\ [Promise!OutboxNext]_(Promise!outboxVars)
  <1>0. PICK m : m = Innermost(t)
    OBVIOUS
  <1>1. /\ Held(t) = Held(t)' \cup {m} /\ m \notin Held(t)'
        /\ \A u \in Tasks \ {t} : Held(u)' = Held(u)
        /\ \A u \in Tasks : Injective(hand'[u]) /\ m \notin Held(u)'
        /\ m \notin Queued /\ m \notin sent /\ m \notin lost /\ m \in Pending
    BY <1>0, DoneMoves
  <1>2. \/ sent' = sent \cup {m} /\ lost' = lost
        \/ sent' = sent /\ lost' = lost \cup {m}
    BY <1>0
  <1>3. Single'
    BY <1>1 DEF Single
  <1>4. Queued' = Queued
    BY DEF Queued
  <1>5. Pending' = Pending \ {m}
    BY <1>1, <1>4 DEF Pending
  <1>6. PlacedAt(m)'
    BY <1>1, <1>2 DEF Apart, PlacedAt
  <1>7. ApartAt(m)'
    BY <1>1, <1>2, <1>4 DEF ApartAt
  <1>8. \A x : x # m => \A u \in Tasks : x \in Held(u)' <=> x \in Held(u)
    BY <1>1
  <1>9. Apart'
    BY <1>2, <1>4, <1>6, <1>7, <1>8, OthersStay
  <1>10. Promise!SendMessage(m) \/ Promise!LoseMessage(m)
    BY <1>1, <1>2, <1>5
    DEF Promise!SendMessage, Promise!LoseMessage, Pending, Queued, Held
  <1>11. Promise!OutboxNext
    BY <1>1, <1>10 DEF Promise!OutboxNext, Pending, Queued, Held
  <1> QED
    BY <1>3, <1>9, <1>11

\* The message done with is stored: the outbox does not move.
LEMMA DoneStored ==
  ASSUME Typed, Single, Apart, NEW t \in Tasks, stage[t] # "idle", Done(t),
         send_queue' = Append(send_queue, Innermost(t)),
         UNCHANGED <<sent, lost, next>>
  PROVE  Single' /\ Apart' /\ UNCHANGED Promise!outboxVars
  <1>0. PICK m : m = Innermost(t)
    OBVIOUS
  <1>1. /\ m \in Messages
        /\ Held(t) = Held(t)' \cup {m} /\ m \notin Held(t)'
        /\ \A u \in Tasks \ {t} : Held(u)' = Held(u)
        /\ \A u \in Tasks : Injective(hand'[u]) /\ m \notin Held(u)'
        /\ m \notin Queued /\ m \notin sent /\ m \notin lost /\ m \in Pending
    BY <1>0, DoneMoves
  <1>2. send_queue' = Append(send_queue, m)
    BY <1>0
  <1>3. Queued' = Queued \cup {m} /\ Injective(send_queue')
    BY <1>1, <1>2, AppendElements DEF Typed, QueueOK, Queued, Single
  <1>4. Single'
    BY <1>1, <1>3 DEF Single
  <1>5. Pending' = Pending
    BY <1>1, <1>3 DEF Pending
  <1>6. PlacedAt(m)'
    BY <1>5 DEF Apart, PlacedAt
  <1>7. ApartAt(m)'
    BY <1>1, <1>3 DEF ApartAt
  <1>8. \A x : x # m => \A u \in Tasks : x \in Held(u)' <=> x \in Held(u)
    BY <1>1
  <1>9. Apart'
    BY <1>3, <1>6, <1>7, <1>8, OthersStay
  <1>10. UNCHANGED Promise!outboxVars
    BY <1>5 DEF Promise!outboxVars, Pending, Queued, Held
  <1> QED
    BY <1>4, <1>9, <1>10

\* A reset loses what was in memory and nothing else.
LEMMA WakesLoses ==
  ASSUME Typed, Single, Apart, Wakes
  PROVE  Single' /\ Apart' /\ [Promise!OutboxNext]_(Promise!outboxVars)
  <1>1. /\ Queued' = {} /\ Injective(send_queue')
        /\ \A t \in Tasks : Held(t)' = {} /\ Injective(hand'[t])
    BY NoElements DEF Wakes, Queued, Held
  <1>2. Pending' = {}
    BY <1>1 DEF Pending
  <1>3. \A m : m \in lost' <=> m \in lost \/ m \in Pending
    BY PendingAt DEF Wakes, Apart, PlacedAt, ApartAt
  <1>4. lost' = lost \cup Pending
    BY <1>3
  <1>5. sent' = sent /\ next' = next
    BY DEF Wakes
  <1>6. Apart'
    <2>1. ASSUME NEW m PROVE PlacedAt(m)'
      BY <1>2, <1>3, <1>5 DEF Apart, PlacedAt
    <2>2. ASSUME NEW m PROVE ApartAt(m)'
      BY <1>1, <1>3, <1>5, PendingAt DEF Apart, ApartAt
    <2> QED
      BY <2>1, <2>2 DEF Apart
  <1>7. Promise!LoseAll
    BY <1>2, <1>4, <1>5 DEF Promise!LoseAll, Pending, Queued, Held
  <1> QED
    BY <1>1, <1>6, <1>7 DEF Single, Promise!OutboxNext

\* A step that moves no message.
LEMMA NothingMoves ==
  ASSUME Single, Apart, UNCHANGED <<send_queue, hand, sent, lost, next>>
  PROVE  Single' /\ Apart' /\ UNCHANGED Promise!outboxVars
  <1>1. Queued' = Queued /\ Pending' = Pending /\ \A t \in Tasks : Held(t)' = Held(t)
    BY DEF Queued, Pending, Held
  <1>2. Apart'
    BY <1>1 DEF Apart, PlacedAt, ApartAt
  <1>3. UNCHANGED Promise!outboxVars
    BY <1>1 DEF Promise!outboxVars, Pending, Queued, Held
  <1> QED
    BY <1>2, <1>3 DEF Single

-----------------------------------------------------------------------------
(* Every step moves at most one message, or all of them at a reset.        *)

Kept == Single' /\ Apart' /\ [Promise!OutboxNext]_(Promise!outboxVars)

\* The steps of one publication.
LEMMA PublishKeeps ==
  ASSUME Typed, Single, Apart, NEW t \in Tasks, Publish(t) \/ Publishing(t)
  PROVE  Kept
  <1>1. CASE Publish(t)
    <2>1. Single' /\ Apart' /\ Promise!TakeMessage
      BY <1>1, TakeNew DEF Publish
    <2> QED
      BY <2>1 DEF Kept, Promise!OutboxNext
  <1>2. CASE Route(t)
    <2>1. stage[t] # "idle"
      BY <1>2 DEF Route
    <2>2. CASE connected /\ ~Queueing
      BY <1>2, <2>1, <2>2, DoneAway DEF Route, Kept
    <2>3. CASE ~(connected /\ ~Queueing)
      BY <1>2, <2>3, NothingMoves DEF Route, Kept
    <2> QED
      BY <2>2, <2>3
  <1>3. CASE Check(t)
    BY <1>3, NothingMoves DEF Check, Kept, fateVars
  <1>4. CASE Evict(t)
    <2>1. CASE send_queue = <<>>
      BY <1>4, <2>1, NothingMoves DEF Evict, Kept, fateVars
    <2>2. CASE send_queue # <<>>
      BY <1>4, <2>2, TakeOld DEF Evict, Kept, fateVars
    <2> QED
      BY <2>1, <2>2
  <1>5. CASE Store(t)
    <2>1. stage[t] # "idle"
      BY <1>5 DEF Store
    <2>2. CASE Len(send_queue) < QueueSize
      BY <1>5, <2>1, <2>2, DoneStored DEF Store, Kept
    <2>3. CASE ~(Len(send_queue) < QueueSize)
      BY <1>5, <2>1, <2>3, DoneAway DEF Store, Kept
    <2> QED
      BY <2>2, <2>3
  <1> QED
    BY <1>1, <1>2, <1>3, <1>4, <1>5 DEF Publishing

\* Everything else.
LEMMA RestKeeps ==
  ASSUME Typed, Single, Apart,
         \/ SleepPublished \/ Release \/ FlushOne \/ ProcessEvent \/ NotifyConnect
         \/ Announced \/ NotifyDisconnect \/ Commands \/ ClientUp \/ ClientDrops
         \/ SleepAcked \/ Wakes
  PROVE  Kept
  <1>0. "loop" \in Tasks
    BY DEF Tasks
  <1>1. CASE \/ SleepPublished \/ Release \/ Announced \/ SleepAcked \/ ProcessEvent
             \/ NotifyDisconnect \/ ClientUp \/ ClientDrops
             \/ CmdFlush \/ CmdDrop \/ CmdAlwaysQueue
    <2>1. UNCHANGED <<send_queue, hand, sent, lost, next>>
      BY <1>1 DEF SleepPublished, Release, Announced, SleepAcked, ProcessEvent,
                  NotifyDisconnect, ClientUp, ClientDrops, CmdFlush, CmdDrop,
                  CmdAlwaysQueue, queueVars, fateVars
    <2> QED
      BY <2>1, NothingMoves DEF Kept
  <1>2. CASE FlushOne
    <2>1. CASE send_queue = <<>>
      BY <1>2, <2>1, NothingMoves DEF FlushOne, Kept, queueVars
    <2>2. CASE send_queue # <<>> /\ job = "drop"
      BY <1>2, <2>2, DropOld DEF FlushOne, Kept
    <2>3. CASE send_queue # <<>> /\ job # "drop"
      BY <1>0, <1>2, <2>3, TakeOld DEF FlushOne, Kept
    <2> QED
      BY <2>1, <2>2, <2>3
  <1>3. CASE NotifyConnect \/ CmdSleep
    <2>1. Single' /\ Apart' /\ Promise!TakeMessage
      BY <1>0, <1>3, TakeNew DEF NotifyConnect, CmdSleep
    <2> QED
      BY <2>1 DEF Kept, Promise!OutboxNext
  <1>4. CASE Wakes
    BY <1>4, WakesLoses DEF Kept
  <1> QED
    BY <1>1, <1>2, <1>3, <1>4 DEF Commands

\* Every step, a stuttering one too.
LEMMA StepKeeps ==
  ASSUME Typed, Single, Apart, [Next]_vars
  PROVE  Kept
  <1>1. CASE UNCHANGED vars
    BY <1>1, NothingMoves DEF vars, queueVars, fateVars, Kept
  <1>2. "loop" \in Tasks /\ OwnTasks \subseteq Tasks
    BY DEF Tasks
  <1> QED
    BY <1>1, <1>2, PublishKeeps, RestKeeps DEF Next, LoopStep

\* Before anything is published there is nothing anywhere.
LEMMA InitKeeps ==
  ASSUME Init
  PROVE  Single /\ Apart /\ Promise!OutboxInit
  <1>1. /\ Queued = {} /\ Injective(send_queue)
        /\ \A t \in Tasks : Held(t) = {} /\ Injective(hand[t])
    BY NoElements DEF Init, Queued, Held
  <1>2. Pending = {}
    BY <1>1 DEF Pending
  <1>3. next - 1 = 0 /\ sent = {} /\ lost = {} /\ 1..next - 1 = {}
    BY DEF Init
  <1>4. Apart
    BY <1>1, <1>2, <1>3 DEF Apart, PlacedAt, ApartAt
  <1>5. Promise!OutboxInit
    BY <1>2, <1>3 DEF Promise!OutboxInit, Pending, Queued, Held
  <1> QED
    BY <1>1, <1>4, <1>5 DEF Single

\* A message published is in one place and there once, through the recursion of
\* _mqtt_queue_publish into flushSendQueue, with any number of tasks between
\* the count of free places and the send, and over a deep sleep.
THEOREM MessagesAccounted == Spec => []Accounted
  <1>1. Init => Single /\ Apart
    BY InitKeeps
  <1>2. Typed /\ (Single /\ Apart) /\ [Next]_vars => (Single /\ Apart)'
    BY StepKeeps DEF Kept
  <1>3. Single /\ Apart => Accounted
    BY AccountedParts
  <1> QED
    BY <1>1, <1>2, <1>3, TypedInvariant, PTL DEF Spec

\* _mqtt_publish and the queue behind it implement the outbox: a message taken
\* is sent once or lost once, whatever the commands, the connection and the
\* other tasks do.
THEOREM QueueIsOutbox == Spec => OutboxKept
  <1>1. Init => Single /\ Apart /\ Promise!OutboxInit
    BY InitKeeps
  <1>2. Typed /\ (Single /\ Apart) /\ [Next]_vars
          => (Single /\ Apart)' /\ [Promise!OutboxNext]_(Promise!outboxVars)
    BY StepKeeps DEF Kept
  <1> QED
    BY <1>1, <1>2, TypedInvariant, PTL DEF Spec, OutboxKept, Promise!OutboxSpec
=============================================================================
