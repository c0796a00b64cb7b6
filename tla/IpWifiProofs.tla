---------------------------- MODULE IpWifiProofs ----------------------------
(***************************************************************************)
(* Proofs about IpWifi for every device, attempt limit, number of events   *)
(* on their way and of disturbances, and every set of commands.            *)
(***************************************************************************)
EXTENDS IpWifi, SequenceTheorems, TLAPS

Events == {"GOT_IP", "DISCONNECTED"}

LoopOK  == pc \in Sections /\ back \in {"main", "notify"}
StateOK == /\ known \in BOOLEAN /\ connected \in BOOLEAN
           /\ notified \in BOOLEAN /\ ever \in BOOLEAN
RetryOK == due \in BOOLEAN /\ timer \in BOOLEAN /\ attempts \in 0..MaxAttempts
QueueOK == wifi_events \in Seq(Events) /\ Len(wifi_events) <= EventBound
WorldOK == /\ link \in {"down", "up"} /\ rejoins \in BOOLEAN /\ ap_near \in BOOLEAN
           /\ QueueOK
RestOK  == /\ device \in Devices /\ budget \in 0..Disturbances
           /\ told_off \in BOOLEAN /\ restarted \in BOOLEAN /\ raced \in BOOLEAN

\* The type invariant in the parts the lemmas speak of.
LEMMA TypeParts == TypeOK <=> LoopOK /\ StateOK /\ RetryOK /\ WorldOK /\ RestOK
  BY DEF TypeOK, LoopOK, StateOK, RetryOK, WorldOK, QueueOK, RestOK, Events

-----------------------------------------------------------------------------
(* What the operators shared by the actions do to the types.               *)

\* One disturbance less is still within the bound.
LEMMA DisturbTyped ==
  ASSUME budget \in 0..Disturbances, Disturb
  PROVE  budget' \in 0..Disturbances
  BY IpAssumption DEF Disturb

\* Counting an attempt keeps the counter within its saturation bound.
LEMMA BumpTyped ==
  ASSUME attempts \in 0..MaxAttempts
  PROVE  Bump(attempts) \in 0..MaxAttempts
  BY IpAssumption DEF Bump, MaxAttempts

\* An event posted finds room.
LEMMA PostTyped ==
  ASSUME QueueOK, NEW e \in Events, Post(e)
  PROVE  QueueOK'
  BY IpAssumption DEF QueueOK, Post

\* ipScheduleReconnect keeps the retry state typed.
LEMMA ScheduleTyped ==
  ASSUME due \in BOOLEAN, timer \in BOOLEAN, NEW count, ScheduleReconnect(count)
  PROVE  due' \in BOOLEAN /\ timer' \in BOOLEAN
  BY DEF ScheduleReconnect

\* Groups of variables an action leaves alone stay typed.
LEMMA UnchangedTyped ==
  ASSUME LoopOK, StateOK, RetryOK, WorldOK, RestOK
  PROVE  /\ UNCHANGED loopVars => LoopOK'
         /\ UNCHANGED stateVars => StateOK'
         /\ UNCHANGED retryVars => RetryOK'
         /\ UNCHANGED worldVars => WorldOK'
         /\ UNCHANGED <<device, ghostVars, budget>> => RestOK'
  BY DEF LoopOK, StateOK, RetryOK, WorldOK, QueueOK, RestOK,
         loopVars, stateVars, retryVars, worldVars, ghostVars

-----------------------------------------------------------------------------
(* The type invariant.                                                     *)

Typed == LoopOK /\ StateOK /\ RetryOK /\ WorldOK /\ RestOK

\* The sections of loop() and the timer.
LEMMA LoopTyped ==
  ASSUME Typed,
         \/ LoopStarts \/ LoopInitial \/ LoopRecognise \/ LoopDue \/ LoopNotify
         \/ TimerFires \/ Reboots
  PROVE  Typed'
  <1> USE DEF Typed
  <1>1. CASE LoopStarts
    BY <1>1, UnchangedTyped DEF LoopStarts, LoopOK, Sections
  <1>2. CASE LoopInitial
    <2>1. LoopOK' /\ RetryOK'
      BY <1>2 DEF LoopInitial, LoopOK, RetryOK, Sections
    <2> QED
      BY <1>2, <2>1, UnchangedTyped DEF LoopInitial
  <1>3. CASE LoopRecognise
    <2>1. LoopOK' /\ WorldOK'
      BY <1>3, UnchangedTyped DEF LoopRecognise, LoopOK, Sections
    <2>2. CASE OnConnect
      <3>1. 0 \in 0..MaxAttempts
        BY IpAssumption DEF MaxAttempts
      <3> QED
        BY <1>3, <2>1, <2>2, <3>1 DEF LoopRecognise, OnConnect, StateOK, RetryOK, RestOK
    <2>3. CASE OnDisconnect
      <3>1. due' \in BOOLEAN /\ timer' \in BOOLEAN
        BY <2>3, ScheduleTyped DEF OnDisconnect, RetryOK
      <3> QED
        BY <1>3, <2>1, <2>3, <3>1
        DEF LoopRecognise, OnDisconnect, StateOK, RetryOK, RestOK
    <2>4. CASE UNCHANGED <<connected, ever, retryVars, told_off>>
      BY <1>3, <2>1, <2>4, UnchangedTyped DEF LoopRecognise, StateOK, RestOK
    <2> QED
      BY <1>3, <2>2, <2>3, <2>4 DEF LoopRecognise
  <1>4. CASE LoopDue
    <2>1. attempts' \in 0..MaxAttempts
      BY <1>4, BumpTyped DEF LoopDue, Dial, RetryOK
    <2>2. LoopOK' /\ RetryOK'
      BY <1>4, <2>1 DEF LoopDue, Dial, LoopOK, RetryOK, Sections
    <2> QED
      BY <1>4, <2>2, UnchangedTyped DEF LoopDue
  <1>5. CASE LoopNotify
    BY <1>5, UnchangedTyped DEF LoopNotify, LoopOK, StateOK, Sections
  <1>6. CASE TimerFires
    BY <1>6, UnchangedTyped DEF TimerFires, RetryOK
  <1>7. CASE Reboots
    <2>1. 0 \in 0..MaxAttempts
      BY IpAssumption DEF MaxAttempts
    <2>2. RetryOK'
      BY <1>7, <2>1 DEF Reboots, RetryOK
    <2>3. QueueOK'
      BY <1>7, IpAssumption DEF Reboots, QueueOK
    <2>4. LoopOK' /\ StateOK'
      BY <1>7 DEF Reboots, LoopOK, StateOK, Sections
    <2>5. WorldOK' /\ RestOK'
      BY <1>7, <2>3 DEF Reboots, WorldOK, RestOK
    <2> QED
      BY <2>2, <2>4, <2>5
  <1> QED
    BY <1>1, <1>2, <1>3, <1>4, <1>5, <1>6, <1>7

\* The steps of ipConnect.
LEMMA ConnectTyped ==
  ASSUME Typed, Joins \/ Records \/ DialFails \/ SetupFails \/ PortalTimesOut
  PROVE  Typed'
  <1> USE DEF Typed
  <1>1. CASE Joins
    <2>1. QueueOK'
      BY <1>1, PostTyped DEF Joins, WorldOK, QueueOK, Events
    <2>2. LoopOK' /\ WorldOK'
      BY <1>1, <2>1 DEF Joins, LoopOK, WorldOK, Sections
    <2> QED
      BY <1>1, <2>2, UnchangedTyped DEF Joins
  <1>2. CASE Records
    BY <1>2, UnchangedTyped DEF Records, LoopOK, StateOK, Sections
  <1>3. CASE DialFails
    <2>1. QueueOK'
      BY <1>3, PostTyped DEF DialFails, WorldOK, QueueOK, Events
    <2>2. LoopOK' /\ WorldOK'
      BY <1>3, <2>1 DEF DialFails, LoopOK, WorldOK, Sections
    <2> QED
      BY <1>3, <2>2, UnchangedTyped DEF DialFails
  <1>4. CASE SetupFails
    <2>1. due' \in BOOLEAN /\ timer' \in BOOLEAN
      BY <1>4, ScheduleTyped DEF SetupFails, RetryOK
    <2>2. pc' \in Sections /\ known' \in BOOLEAN
      BY <1>4 DEF SetupFails, LoopOK, StateOK, Sections
    <2>3. LoopOK' /\ StateOK' /\ RetryOK'
      BY <1>4, <2>1, <2>2 DEF SetupFails, LoopOK, StateOK, RetryOK
    <2> QED
      BY <1>4, <2>3, UnchangedTyped DEF SetupFails
  <1>5. CASE PortalTimesOut
    <2>1. due' \in BOOLEAN /\ timer' \in BOOLEAN
      BY <1>5, ScheduleTyped DEF PortalTimesOut, RetryOK
    <2>2. pc' \in Sections /\ known' \in BOOLEAN
      BY <1>5 DEF PortalTimesOut, LoopOK, StateOK, Sections
    <2>3. LoopOK' /\ StateOK' /\ RetryOK'
      BY <1>5, <2>1, <2>2 DEF PortalTimesOut, LoopOK, StateOK, RetryOK
    <2> QED
      BY <1>5, <2>3, UnchangedTyped DEF PortalTimesOut
  <1> QED
    BY <1>1, <1>2, <1>3, <1>4, <1>5

\* The WiFi task, the world and the commands.
LEMMA WorldTyped ==
  ASSUME Typed, WifiTask \/ NetworkMoves \/ Commands
  PROVE  Typed'
  <1> USE DEF Typed
  <1>1. CASE DeliverEvent
    <2>1. wifi_events' = Tail(wifi_events) /\ wifi_events # <<>> /\ QueueOK
      BY <1>1 DEF DeliverEvent, WorldOK
    <2>2. QueueOK'
      BY <2>1, IpAssumption DEF QueueOK
    <2>3. StateOK' /\ WorldOK' /\ RestOK'
      BY <1>1, <2>2 DEF DeliverEvent, StateOK, WorldOK, RestOK
    <2> QED
      BY <1>1, <2>3, UnchangedTyped DEF DeliverEvent
  <1>2. CASE LinkFalls
    <2>1. QueueOK' /\ budget' \in 0..Disturbances
      BY <1>2, PostTyped, DisturbTyped DEF LinkFalls, WorldOK, RestOK, Events
    <2>2. WorldOK' /\ RestOK'
      BY <1>2, <2>1 DEF LinkFalls, WorldOK, RestOK
    <2> QED
      BY <1>2, <2>2, UnchangedTyped DEF LinkFalls
  <1>3. CASE LinkReturns
    <2>1. QueueOK'
      BY <1>3, PostTyped DEF LinkReturns, WorldOK, Events
    <2> QED
      BY <1>3, <2>1, UnchangedTyped DEF LinkReturns, WorldOK
  <1>4. CASE RejoinFails
    <2>1. QueueOK'
      BY <1>4, PostTyped DEF RejoinFails, WorldOK, Events
    <2> QED
      BY <1>4, <2>1, UnchangedTyped DEF RejoinFails, WorldOK
  <1>5. CASE NetworkMoves
    <2>1. WorldOK' /\ RestOK'
      BY <1>5, DisturbTyped
      DEF NetworkMoves, WorldOK, QueueOK, RestOK, ghostVars
    <2> QED
      BY <1>5, <2>1, UnchangedTyped DEF NetworkMoves
  <1>6. CASE Commands
    <2>1. budget' \in 0..Disturbances
      BY <1>6, DisturbTyped
      DEF Commands, CmdConnect, CmdDisconnect, CmdStop, CmdStart, RestOK
    <2>2. CASE CmdConnect
      <3>1. attempts' \in 0..MaxAttempts
        BY <2>2, BumpTyped DEF CmdConnect, Dial, RetryOK
      <3>2. LoopOK' /\ RetryOK' /\ RestOK'
        BY <2>1, <2>2, <3>1 DEF CmdConnect, Dial, LoopOK, RetryOK, RestOK, Sections
      <3> QED
        BY <2>2, <3>2, UnchangedTyped DEF CmdConnect
    <2>3. CASE CmdDisconnect
      <3>1. RetryOK' /\ RestOK'
        BY <2>1, <2>3 DEF CmdDisconnect, RetryOK, RestOK
      <3> QED
        BY <2>3, <3>1, UnchangedTyped DEF CmdDisconnect
    <2>4. CASE CmdStop
      <3>1. QueueOK'
        BY <2>4, PostTyped DEF CmdStop, WorldOK, QueueOK, Events
      <3>2. WorldOK' /\ RestOK'
        BY <2>1, <2>4, <3>1 DEF CmdStop, WorldOK, RestOK
      <3> QED
        BY <2>4, <3>2, UnchangedTyped DEF CmdStop
    <2>5. CASE CmdStart
      <3>1. StateOK' /\ RestOK'
        BY <2>1, <2>5 DEF CmdStart, StateOK, RestOK
      <3> QED
        BY <2>5, <3>1, UnchangedTyped DEF CmdStart
    <2> QED
      BY <1>6, <2>2, <2>3, <2>4, <2>5 DEF Commands
  <1> QED
    BY <1>1, <1>2, <1>3, <1>4, <1>5, <1>6 DEF WifiTask

\* The parts hold in every state.
LEMMA TypedInvariant == Spec => []Typed
  <1>1. Init => Typed
    <2> SUFFICES ASSUME Init PROVE Typed
      OBVIOUS
    <2>1. 0 \in 0..MaxAttempts
      BY IpAssumption DEF MaxAttempts
    <2>2. RetryOK
      BY <2>1 DEF Init, RetryOK
    <2>3. QueueOK
      BY IpAssumption DEF Init, QueueOK
    <2>4. budget \in 0..Disturbances
      BY IpAssumption DEF Init
    <2> QED
      BY <2>2, <2>3, <2>4 DEF Init, Typed, LoopOK, StateOK, WorldOK, RestOK, Sections
  <1>2. Typed /\ [Next]_vars => Typed'
    <2> SUFFICES ASSUME Typed, [Next]_vars PROVE Typed'
      OBVIOUS
    <2>1. CASE UNCHANGED vars
      BY <2>1, UnchangedTyped DEF vars, Typed
    <2> QED
      BY <2>1, LoopTyped, ConnectTyped, WorldTyped DEF Next, LoopTask
  <1> QED
    BY <1>1, <1>2, PTL DEF Spec

\* Type correctness: every variable keeps to its range, the attempt counter
\* and the events on their way to their bounds.
THEOREM TypeCorrect == Spec => []TypeOK
  BY TypedInvariant, TypeParts, PTL DEF Typed

-----------------------------------------------------------------------------
(* No ghost link.  Events are delivered in order and the last one posted    *)
(* says what became of the link, so that the news recorded in the end is    *)
(* right; only ipConnect records on its own account, at "joined".           *)

\* A portal that gives up goes on to recordWifiConnected on a device whose IP
\* leaf has a thread of its own: there the claim is false and is not made.
OwnPortal == device.own_loop /\ device.on_failure = "portal"

LastIs(q, e) == q # <<>> => q[Len(q)] = e

\* Why NoGhostLink holds: what is under way while the link is down.
GhostInv ==
  ~OwnPortal =>
    /\ link = "down" => LastIs(wifi_events, "DISCONNECTED")
    /\ link = "down" /\ pc = "joined" => raced
    /\ link = "down" /\ pc # "joined" /\ wifi_events = <<>> => ~known \/ raced
    /\ pc = "portal" => device.on_failure = "portal"

\* The event posted is the last of the queue, which is not empty.
LEMMA PostIsLast ==
  ASSUME QueueOK, NEW e \in Events, Post(e)
  PROVE  wifi_events' # <<>> /\ LastIs(wifi_events', e)
  BY DEF QueueOK, Post, LastIs, Events

\* Delivering an event leaves the last one in place, or delivers it.
LEMMA TailLast ==
  ASSUME NEW q \in Seq(Events), q # <<>>, NEW e, LastIs(q, e)
  PROVE  LastIs(Tail(q), e) /\ (Tail(q) = <<>> => Head(q) = e)
  <1>1. /\ Len(q) \in Nat \ {0} /\ Len(Tail(q)) = Len(q) - 1
        /\ \A i \in 1..(Len(q) - 1) : Tail(q)[i] = q[i + 1]
        /\ Head(q) = q[1] /\ q[Len(q)] = e
    BY DEF LastIs
  <1>2. Tail(q) = <<>> <=> Len(q) = 1
    BY <1>1, EmptySeq
  <1>3. CASE Len(q) = 1
    <2>1. Tail(q) = <<>>
      BY <1>2, <1>3
    <2> QED
      BY <1>1, <1>3, <2>1 DEF LastIs
  <1>4. CASE Len(q) # 1
    <2>1. Len(q) - 1 \in 1..(Len(q) - 1) /\ Tail(q)[Len(q) - 1] = q[Len(q)]
      BY <1>1, <1>4
    <2>2. Tail(q) # <<>>
      BY <1>2, <1>4
    <2> QED
      BY <1>1, <2>1, <2>2 DEF LastIs
  <1> QED
    BY <1>3, <1>4

\* Steps that move neither the link nor its events and learn nothing new.
LEMMA GhostKept ==
  ASSUME GhostInv, UNCHANGED <<device, link, wifi_events>>,
         known' => known, pc' = "joined" <=> pc = "joined",
         raced' = raced \/ (~known' /\ pc # "joined"),
         pc' = "portal" => pc = "portal" \/ device.on_failure = "portal"
  PROVE  GhostInv'
  BY DEF GhostInv, OwnPortal

\* A step after which the link is up owes nothing but where the portal is.
LEMMA GhostWhileUp ==
  ASSUME GhostInv, link' = "up", device' = device, pc' = "portal" => pc = "portal"
  PROVE  GhostInv'
  BY DEF GhostInv, OwnPortal

\* The loop task.
LEMMA GhostLoop ==
  ASSUME Typed, GhostInv, LoopTask \/ TimerFires
  PROVE  GhostInv'
  <1>1. CASE LoopStarts \/ LoopInitial \/ LoopRecognise \/ LoopNotify \/ TimerFires
    BY <1>1, GhostKept
    DEF LoopStarts, LoopInitial, LoopRecognise, LoopNotify, TimerFires, loopVars,
        stateVars, worldVars, ghostVars
  <1>2. CASE LoopDue
    BY <1>2, GhostKept DEF LoopDue, Dial, stateVars, worldVars, ghostVars
  <1>3. CASE Records
    <2>1. /\ pc = "joined" /\ pc' \in {"main", "notify"}
          /\ UNCHANGED <<device, link, wifi_events, raced>>
      BY <1>3 DEF Records, Typed, LoopOK, worldVars, ghostVars
    <2> QED
      BY <2>1 DEF GhostInv, OwnPortal
  <1>4. CASE DialFails
    <2>1. /\ pc = "dial" /\ pc' \in {"main", "notify", "setup"}
          /\ UNCHANGED <<device, link, known, raced>>
      BY <1>4 DEF DialFails, Typed, LoopOK, stateVars, ghostVars
    <2>2. CASE UNCHANGED wifi_events
      BY <2>1, <2>2, GhostKept
    <2>3. CASE Post("DISCONNECTED")
      <3>1. wifi_events' # <<>> /\ LastIs(wifi_events', "DISCONNECTED")
        BY <2>3, PostIsLast DEF Typed, WorldOK, Events
      <3> QED
        BY <2>1, <3>1 DEF GhostInv, OwnPortal
    <2> QED
      BY <1>4, <2>2, <2>3 DEF DialFails
  <1>5. CASE SetupFails
    <2>1. /\ pc = "setup" /\ pc' \in {"main", "notify", "portal", "portal_reset"}
          /\ UNCHANGED <<device, link, wifi_events, raced>>
          /\ known' => known
          /\ pc' = "portal" => device.on_failure = "portal"
      BY <1>5 DEF SetupFails, Typed, LoopOK, worldVars, ghostVars
    <2> QED
      BY <2>1, GhostKept
  <1>6. CASE Reboots
    BY <1>6 DEF Reboots, GhostInv, LastIs, OwnPortal
  <1> QED
    BY <1>1, <1>2, <1>3, <1>4, <1>5, <1>6 DEF LoopTask

\* The WiFi driver and its events.
LEMMA GhostWifi ==
  ASSUME Typed, GhostInv, WifiTask \/ Joins
  PROVE  GhostInv'
  <1>1. CASE DeliverEvent
    <2>1. /\ wifi_events \in Seq(Events) /\ wifi_events # <<>>
          /\ wifi_events' = Tail(wifi_events)
          /\ known' = (Head(wifi_events) = "GOT_IP")
          /\ raced' = (raced /\ (known' \/ pc = "joined"))
          /\ UNCHANGED <<device, pc, link>>
      BY <1>1 DEF DeliverEvent, Typed, WorldOK, QueueOK, loopVars
    <2>2. LastIs(wifi_events, "DISCONNECTED") =>
            /\ LastIs(wifi_events', "DISCONNECTED")
            /\ wifi_events' = <<>> => ~known'
      <3>1. LastIs(wifi_events, "DISCONNECTED") =>
              /\ LastIs(Tail(wifi_events), "DISCONNECTED")
              /\ Tail(wifi_events) = <<>> => Head(wifi_events) = "DISCONNECTED"
        BY <2>1, TailLast
      <3> QED
        BY <2>1, <3>1
    <2> QED
      BY <2>1, <2>2 DEF GhostInv, OwnPortal
  <1>2. CASE LinkFalls
    <2>1. wifi_events' # <<>> /\ LastIs(wifi_events', "DISCONNECTED")
      BY <1>2, PostIsLast DEF LinkFalls, Typed, WorldOK, Events
    <2> QED
      BY <1>2, <2>1 DEF LinkFalls, GhostInv, OwnPortal, loopVars
  <1>3. CASE LinkReturns
    BY <1>3, GhostWhileUp DEF LinkReturns, loopVars
  <1>4. CASE RejoinFails
    <2>1. wifi_events' # <<>> /\ LastIs(wifi_events', "DISCONNECTED")
      BY <1>4, PostIsLast DEF RejoinFails, Typed, WorldOK, Events
    <2> QED
      BY <1>4, <2>1 DEF RejoinFails, GhostInv, OwnPortal, loopVars, ghostVars
  <1>5. CASE Joins
    BY <1>5, GhostWhileUp DEF Joins
  <1> QED
    BY <1>1, <1>2, <1>3, <1>4, <1>5 DEF WifiTask

\* The user, the network, and a portal that gives up.
LEMMA GhostOthers ==
  ASSUME Typed, GhostInv, PortalTimesOut \/ NetworkMoves \/ Commands
  PROVE  GhostInv'
  <1>1. CASE PortalTimesOut
    <2>1. CASE OwnPortal
      BY <1>1, <2>1 DEF PortalTimesOut, GhostInv, OwnPortal
    <2>2. CASE ~OwnPortal
      <3>1. ~device.own_loop
        BY <1>1, <2>2 DEF PortalTimesOut, GhostInv, OwnPortal
      <3> QED
        BY <1>1, <3>1, GhostKept DEF PortalTimesOut, worldVars, ghostVars
    <2> QED
      BY <2>1, <2>2
  <1>2. CASE NetworkMoves \/ CmdConnect \/ CmdDisconnect
    BY <1>2, GhostKept
    DEF NetworkMoves, CmdConnect, CmdDisconnect, Dial, loopVars, stateVars, worldVars,
        ghostVars
  <1>3. CASE CmdStart
    BY <1>3, GhostKept DEF CmdStart, loopVars, worldVars
  <1>4. CASE CmdStop
    <2>1. link' = "down" /\ UNCHANGED <<device, pc, known, raced>> /\ pc = "main"
      BY <1>4 DEF CmdStop, loopVars, stateVars
    <2>2. CASE link = "up"
      <3>1. wifi_events' # <<>> /\ LastIs(wifi_events', "DISCONNECTED")
        BY <1>4, <2>2, PostIsLast DEF CmdStop, Typed, WorldOK, Events
      <3> QED
        BY <2>1, <3>1 DEF GhostInv, OwnPortal
    <2>3. CASE link # "up"
      <3>1. link = "down" /\ UNCHANGED wifi_events
        BY <1>4, <2>3 DEF CmdStop, Typed, WorldOK
      <3> QED
        BY <2>1, <3>1, GhostKept
    <2> QED
      BY <2>2, <2>3
  <1> QED
    BY <1>1, <1>2, <1>3, <1>4 DEF Commands

\* Once every WiFi event has been delivered the leaf knows that a link is
\* gone, whatever ipConnect was doing meanwhile, but for the one race NoGhostLink
\* names; the claim is made of every device but those of OwnPortal.
THEOREM NoGhosts == Spec => [](~OwnPortal => NoGhostLink)
  <1>1. Init => GhostInv
    BY DEF Init, GhostInv, LastIs
  <1>2. Typed /\ GhostInv /\ [Next]_vars => GhostInv'
    <2> SUFFICES ASSUME Typed, GhostInv, [Next]_vars PROVE GhostInv'
      OBVIOUS
    <2>1. CASE UNCHANGED vars
      BY <2>1, GhostKept DEF vars, loopVars, stateVars, worldVars, ghostVars
    <2> QED
      BY <2>1, GhostLoop, GhostWifi, GhostOthers DEF Next
  <1>3. GhostInv => (~OwnPortal => NoGhostLink)
    BY DEF GhostInv, NoGhostLink
  <1> QED
    BY <1>1, <1>2, <1>3, TypedInvariant, PTL DEF Spec
=============================================================================
