-------------------------- MODULE TcpClientProofs ---------------------------
(***************************************************************************)
(* Proofs about TcpClient for any number of leaves and slots, both kinds   *)
(* of client, retries on or off, and any number of faults and commands.    *)
(***************************************************************************)
EXTENDS TcpClient, WellFoundedInduction, TLAPS

RetryStates == {"off", "armed", "due"}

\* The variables that connecting and disconnecting change.
ConnOK ==
  /\ connected \in [Leaves -> BOOLEAN]
  /\ client \in [Leaves -> 0..Slots] /\ session \in [Leaves -> 0..Slots]
  /\ reconnect_at \in [Leaves -> RetryStates]
  /\ slots \in [1..Slots -> SlotStates]

\* Over a modem a client is in hand exactly while its leaf is connected: no
\* attempt stays pending, and the one that failed is released at once.
ModemHolds ==
  kind = "modem" => \A l \in Leaves : client[l] # 0 => connected[l]

-----------------------------------------------------------------------------
(* The slot a connection is given, and what connecting does.               *)

\* Every set of natural numbers but the empty one has a least element.
LEMMA HasLeast ==
  ASSUME NEW S \in SUBSET Nat, S # {}
  PROVE  \E x \in S : \A y \in S : x <= y
  <1> DEFINE R == {ss \in Nat \X Nat : ss[1] < ss[2]}
  <1>1. OpToRel(<, Nat) = R
    BY Zenon DEF OpToRel
  <1>2. IsWellFoundedOn(R, Nat)
    BY <1>1, NatLessThanWellFounded, Zenon
  <1>3. PICK x \in S : \A y \in S : <<y, x>> \notin R
    BY <1>2, WFMin
  <1>4. ASSUME NEW y \in S PROVE <<y, x>> \in R <=> y < x
    <2>1. <<y, x>> \in Nat \X Nat
      OBVIOUS
    <2>2. <<y, x>>[1] = y /\ <<y, x>>[2] = x
      OBVIOUS
    <2> QED
      BY <2>1, <2>2, Zenon
  <1> HIDE DEF R
  <1>5. \A y \in S : ~(y < x)
    BY <1>3, <1>4
  <1> QED
    BY <1>5

\* tcpConnect takes a slot that is free, if there is one.
LEMMA FirstFree ==
  ASSUME FreeSlots # {}
  PROVE  (CHOOSE s \in FreeSlots : \A r \in FreeSlots : s <= r) \in FreeSlots
  <1>1. FreeSlots \in SUBSET Nat
    BY TcpAssumption DEF FreeSlots
  <1>2. \E s \in FreeSlots : \A r \in FreeSlots : s <= r
    BY <1>1, HasLeast
  <1> QED
    BY <1>2, Zenon

\* A connection attempt that is given a slot, and one that comes to nothing.
Opened(l, at, slot, state) ==
  /\ client' = [client EXCEPT ![l] = slot]
  /\ slots' = [slots EXCEPT ![slot] = state]
  /\ reconnect_at' = [reconnect_at EXCEPT ![l] = at]
  /\ connected' = [connected EXCEPT ![l] = (state = "up")]
  /\ session' = [session EXCEPT ![l] = IF state = "up" THEN slot ELSE @]
Refused(l, at) ==
  /\ client' = [client EXCEPT ![l] = 0]
  /\ connected' = [connected EXCEPT ![l] = FALSE]
  /\ reconnect_at' = [reconnect_at EXCEPT ![l] = Schedule(at)]
  /\ UNCHANGED <<session, slots>>

\* connect() does one or the other; blocking clients are up or refused.
LEMMA ConnectCases ==
  ASSUME NEW l \in Leaves, NEW at, Connect(l, at)
  PROVE  \/ Refused(l, at)
         \/ \E slot \in FreeSlots, state \in {"up", "pending", "dead"} :
              Opened(l, at, slot, state) /\ (kind = "modem" => state = "up")
  <1> DEFINE slot == CHOOSE s \in FreeSlots : \A r \in FreeSlots : s <= r
  <1>1. CASE FreeSlots = {}
    BY <1>1 DEF Connect, Refused
  <1>2. CASE FreeSlots # {}
    <2>1. slot \in FreeSlots
      BY <1>2, FirstFree
    <2>2. \/ Opened(l, at, slot, "up")
          \/ kind = "wifi" /\ Opened(l, at, slot, "pending")
          \/ kind = "wifi" /\ Opened(l, at, slot, "dead")
          \/ Refused(l, at)
      BY <1>2 DEF Connect, Opened, Refused, ReleaseRefused
    <2> HIDE DEF slot
    <2> QED
      BY <2>1, <2>2
  <1> QED
    BY <1>1, <1>2

\* A fault leaves a number of faults within the bound.
LEMMA FaultTyped ==
  ASSUME faults \in 0..Faults, Fault
  PROVE  faults' \in 0..Faults
  BY TcpAssumption DEF Fault

\* So does connecting, whatever comes of it.
LEMMA ConnectFaults ==
  ASSUME faults \in 0..Faults, NEW l, NEW at, Connect(l, at)
  PROVE  faults' \in 0..Faults
  BY FaultTyped DEF Connect

\* Connecting keeps the types.
LEMMA ConnectTyped ==
  ASSUME ConnOK, NEW l \in Leaves, NEW at \in RetryStates, Connect(l, at)
  PROVE  ConnOK'
  <1>1. CASE Refused(l, at)
    BY <1>1, TcpAssumption DEF Refused, ConnOK, Schedule, RetryStates
  <1>2. CASE \E slot \in FreeSlots, state \in {"up", "pending", "dead"} :
               Opened(l, at, slot, state)
    <2>1. PICK slot \in FreeSlots, state \in {"up", "pending", "dead"} :
            Opened(l, at, slot, state)
      BY <1>2
    <2>2. slot \in 1..Slots /\ slot \in 0..Slots /\ state \in SlotStates
      BY TcpAssumption DEF FreeSlots, SlotStates
    <2> QED
      BY <2>1, <2>2 DEF Opened, ConnOK
  <1> QED
    BY <1>1, <1>2, ConnectCases

\* onTcpDisconnect keeps them too.
LEMMA DisconnectTyped ==
  ASSUME ConnOK, NEW l \in Leaves, OnTcpDisconnect(l)
  PROVE  ConnOK'
  <1>1. /\ connected' \in [Leaves -> BOOLEAN]
        /\ client' \in [Leaves -> 0..Slots] /\ session' \in [Leaves -> 0..Slots]
    BY TcpAssumption DEF OnTcpDisconnect, ConnOK
  <1>2. reconnect_at' \in [Leaves -> RetryStates]
    BY DEF OnTcpDisconnect, ConnOK, Schedule, RetryStates
  <1>3. slots' \in [1..Slots -> SlotStates]
    BY DEF OnTcpDisconnect, ConnOK, SlotStates
  <1> QED
    BY <1>1, <1>2, <1>3 DEF ConnOK

\* disconnect() stops a client or crashes.
LEMMA StopTyped ==
  ASSUME ConnOK, crashed \in BOOLEAN, NEW l \in Leaves, Disconnect(l),
         UNCHANGED <<connected, client, session>>,
         reconnect_at' \in [Leaves -> RetryStates]
  PROVE  ConnOK' /\ crashed' \in BOOLEAN
  BY DEF ConnOK, Disconnect, SlotStates

\* ip_connected is a Boolean after it has been asked about.
LEMMA SyncTyped ==
  ASSUME ip_connected \in BOOLEAN, link \in BOOLEAN, SyncIp
  PROVE  ip_connected' \in BOOLEAN /\ hidden' \in BOOLEAN
  BY DEF SyncIp, SetIp

-----------------------------------------------------------------------------
(* The type invariant.                                                     *)

\* Where the loop task is, what it saw of the IP leaf, and the bounds.
TaskOK ==
  /\ kind \in Kinds /\ run \in [Leaves -> BOOLEAN]
  /\ mid \in Leaves \cup {NoLeaf} /\ hear \subseteq Leaves
  /\ crashed \in BOOLEAN /\ link \in BOOLEAN /\ ip_notified \in BOOLEAN
  /\ ip_connected \in BOOLEAN /\ hidden \in BOOLEAN
  /\ faults \in 0..Faults /\ commands \in 0..Commands

\* The type invariant in the two parts the lemmas speak of.
LEMMA TypeParts == TypeOK <=> ConnOK /\ TaskOK
  BY DEF TypeOK, ConnOK, TaskOK, RetryStates

\* The number of commands left stays within the bound.
LEMMA CommandTyped ==
  ASSUME commands \in 0..Commands, Command
  PROVE  commands' \in 0..Commands
  BY TcpAssumption DEF Command

\* Loop, timer and news.
LEMMA TaskTyped ==
  ASSUME ConnOK, TaskOK, NEW l \in Leaves,
         LoopNotice(l) \/ LoopRetry(l) \/ TimerExpires(l) \/ Hear(l)
  PROVE  ConnOK' /\ TaskOK'
  <1>1. reconnect_at[l] \in RetryStates
    BY DEF ConnOK
  <1>2. CASE LoopNotice(l)
    <2>1. CASE OnTcpDisconnect(l)
      <3>1. ConnOK'
        BY <2>1, DisconnectTyped
      <3>2. ip_connected' \in BOOLEAN /\ hidden' \in BOOLEAN
        BY <2>1, SyncTyped DEF OnTcpDisconnect, TaskOK
      <3> QED
        BY <1>2, <3>1, <3>2 DEF LoopNotice, TaskOK
    <2>2. CASE /\ client[l] # 0
               /\ connected' = [connected EXCEPT ![l] = TRUE]
               /\ session' = [session EXCEPT ![l] = client[l]]
               /\ UNCHANGED <<client, reconnect_at, slots, ipSeen>>
      <3>1. ConnOK'
        BY <2>2 DEF ConnOK
      <3> QED
        BY <1>2, <2>2, <3>1 DEF LoopNotice, TaskOK, ipSeen
    <2>3. CASE UNCHANGED <<connected, client, reconnect_at, session, slots, ipSeen>>
      BY <1>2, <2>3 DEF LoopNotice, ConnOK, TaskOK, ipSeen
    <2> QED
      BY <1>2, <2>1, <2>2, <2>3 DEF LoopNotice, Notice
  <1>3. CASE LoopRetry(l)
    <2>1. CASE SyncIp /\ Connect(l, "off")
      <3>1. ConnOK' /\ faults' \in 0..Faults
        BY <2>1, ConnectTyped, ConnectFaults DEF RetryStates, TaskOK
      <3>2. ip_connected' \in BOOLEAN /\ hidden' \in BOOLEAN
        BY <2>1, SyncTyped DEF TaskOK
      <3> QED
        BY <1>3, <3>1, <3>2 DEF LoopRetry, TaskOK
    <2>2. CASE /\ SyncIp
               /\ reconnect_at' = [reconnect_at EXCEPT ![l] = Schedule("off")]
               /\ UNCHANGED <<connected, client, session, slots, faults>>
      <3>1. ConnOK'
        BY <2>2 DEF ConnOK, Schedule, RetryStates
      <3>2. ip_connected' \in BOOLEAN /\ hidden' \in BOOLEAN
        BY <2>2, SyncTyped DEF TaskOK
      <3> QED
        BY <1>3, <2>2, <3>1, <3>2 DEF LoopRetry, TaskOK
    <2>3. CASE UNCHANGED <<connected, client, reconnect_at, session, slots,
                           ipSeen, faults>>
      BY <1>3, <2>3 DEF LoopRetry, ConnOK, TaskOK, ipSeen
    <2> QED
      BY <1>3, <2>1, <2>2, <2>3 DEF LoopRetry
  <1>4. CASE TimerExpires(l)
    BY <1>4 DEF TimerExpires, ConnOK, TaskOK, RetryStates, taskVars, ipVars, ipSeen
  <1>5. CASE Hear(l)
    <2>1. CASE Connect(l, reconnect_at[l]) /\ UNCHANGED crashed
      <3>1. ConnOK' /\ faults' \in 0..Faults
        BY <1>1, <2>1, ConnectTyped, ConnectFaults DEF TaskOK
      <3> QED
        BY <1>5, <2>1, <3>1 DEF Hear, TaskOK, ipVars, ipSeen
    <2>2. CASE /\ Disconnect(l)
               /\ UNCHANGED <<connected, client, reconnect_at, session, faults>>
      <3>1. ConnOK' /\ crashed' \in BOOLEAN
        BY <2>2, StopTyped DEF ConnOK, TaskOK
      <3> QED
        BY <1>5, <2>2, <3>1 DEF Hear, TaskOK, ipVars, ipSeen
    <2>3. CASE UNCHANGED <<connected, client, reconnect_at, session, slots, crashed,
                           faults>>
      BY <1>5, <2>3 DEF Hear, ConnOK, TaskOK, ipVars, ipSeen
    <2> QED
      BY <1>5, <2>1, <2>2, <2>3 DEF Hear
  <1> QED
    BY <1>2, <1>3, <1>4, <1>5

\* The commands.
LEMMA CommandsTyped ==
  ASSUME ConnOK, TaskOK, NEW l \in Leaves,
         CmdConnect(l) \/ CmdDisconnect(l) \/ CmdStop(l) \/ CmdStart(l)
  PROVE  ConnOK' /\ TaskOK'
  <1>1. reconnect_at[l] \in RetryStates
    BY DEF ConnOK
  <1>2. commands' \in 0..Commands
    BY CommandTyped DEF CmdConnect, CmdDisconnect, CmdStop, CmdStart, TaskOK
  <1>3. CASE CmdConnect(l)
    <2>1. ConnOK' /\ faults' \in 0..Faults
      BY <1>1, <1>3, ConnectTyped, ConnectFaults DEF CmdConnect, TaskOK
    <2> QED
      BY <1>2, <1>3, <2>1 DEF CmdConnect, TaskOK, taskVars, ipVars, ipSeen
  <1>4. CASE CmdDisconnect(l)
    <2>1. reconnect_at' \in [Leaves -> RetryStates]
      BY <1>4 DEF CmdDisconnect, ConnOK, RetryStates
    <2>2. ConnOK' /\ crashed' \in BOOLEAN
      BY <1>4, <2>1, StopTyped DEF CmdDisconnect, TaskOK
    <2> QED
      BY <1>2, <1>4, <2>2 DEF CmdDisconnect, TaskOK, ipVars, ipSeen
  <1>5. CASE CmdStop(l)
    <2>1. run' \in [Leaves -> BOOLEAN]
      BY <1>5 DEF CmdStop, TaskOK
    <2>2. CASE /\ crashed' = TRUE
               /\ UNCHANGED <<connected, client, reconnect_at, session, slots, ipSeen>>
      BY <1>2, <1>5, <2>1, <2>2 DEF CmdStop, ConnOK, TaskOK, ipSeen
    <2>3. CASE OnTcpDisconnect(l) /\ UNCHANGED crashed
      <3>1. ip_connected' \in BOOLEAN /\ hidden' \in BOOLEAN
        BY <2>3, SyncTyped DEF OnTcpDisconnect, TaskOK
      <3> QED
        BY <1>2, <1>5, <2>1, <2>3, <3>1, DisconnectTyped DEF CmdStop, TaskOK
    <2>4. CASE /\ Disconnect(l)
               /\ UNCHANGED <<connected, client, reconnect_at, session, ipSeen>>
      <3>1. ConnOK' /\ crashed' \in BOOLEAN
        BY <2>4, StopTyped DEF ConnOK, TaskOK
      <3> QED
        BY <1>2, <1>5, <2>1, <2>4, <3>1 DEF CmdStop, TaskOK, ipSeen
    <2> QED
      BY <1>5, <2>2, <2>3, <2>4 DEF CmdStop
  <1>6. CASE CmdStart(l)
    <2>1. run' \in [Leaves -> BOOLEAN]
      BY <1>6 DEF CmdStart, TaskOK
    <2>2. CASE Connect(l, reconnect_at[l])
      <3>1. ConnOK' /\ faults' \in 0..Faults
        BY <1>1, <2>2, ConnectTyped, ConnectFaults DEF TaskOK
      <3> QED
        BY <1>2, <1>6, <2>1, <3>1 DEF CmdStart, TaskOK, taskVars, ipVars, ipSeen
    <2>3. CASE UNCHANGED <<connected, client, reconnect_at, session, slots, faults>>
      BY <1>2, <1>6, <2>1, <2>3
      DEF CmdStart, ConnOK, TaskOK, taskVars, ipVars, ipSeen
    <2> QED
      BY <1>6, <2>2, <2>3 DEF CmdStart
  <1> QED
    BY <1>3, <1>4, <1>5, <1>6

\* The IP leaf, the network and the reboot.
LEMMA WorldTyped ==
  ASSUME ConnOK, TaskOK, IpNotices \/ IpAnnounces \/ Reboots \/ World
  PROVE  ConnOK' /\ TaskOK'
  <1>1. CASE IpNotices
    BY <1>1 DEF IpNotices, SetIp, ConnOK, TaskOK, leafVars, taskVars
  <1>2. CASE IpAnnounces
    BY <1>2 DEF IpAnnounces, ConnOK, TaskOK, leafVars, ipSeen
  <1>3. CASE Reboots
    <2>1. ConnOK'
      BY <1>3, TcpAssumption DEF Reboots, Fresh, ConnOK, RetryStates, SlotStates
    <2> QED
      BY <1>3, <2>1 DEF Reboots, Fresh, TaskOK
  <1>4. CASE LinkReturns
    BY <1>4 DEF LinkReturns, ConnOK, TaskOK, leafVars, taskVars, ipSeen
  <1>5. CASE LinkFalls
    BY <1>5, FaultTyped DEF LinkFalls, ConnOK, TaskOK, leafVars, taskVars, ipSeen
  <1>6. ASSUME NEW s \in 1..Slots, AttemptSucceeds(s) \/ AttemptFails(s) \/ SessionEnds(s)
        PROVE  ConnOK' /\ TaskOK'
    <2>1. faults' \in 0..Faults
      BY <1>6, FaultTyped DEF AttemptSucceeds, AttemptFails, SessionEnds, TaskOK
    <2>2. /\ slots' \in [1..Slots -> SlotStates]
          /\ UNCHANGED <<kind, leafVars, taskVars, ipVars, commands>>
      BY <1>6
      DEF AttemptSucceeds, AttemptFails, SessionEnds, Settle, ConnOK, SlotStates
    <2> QED
      BY <2>1, <2>2 DEF ConnOK, TaskOK, leafVars, taskVars, ipVars, ipSeen
  <1> QED
    BY <1>1, <1>2, <1>3, <1>4, <1>5, <1>6 DEF World

\* Type correctness: no client pointer leaves the table of slots.
THEOREM TypeCorrect == Spec => []TypeOK
  <1>1. Init => ConnOK /\ TaskOK
    <2> SUFFICES ASSUME Init PROVE ConnOK /\ TaskOK
      OBVIOUS
    <2>1. ConnOK
      BY TcpAssumption DEF Init, Fresh, ConnOK, RetryStates, SlotStates
    <2>2. faults \in 0..Faults /\ commands \in 0..Commands
      BY TcpAssumption DEF Init
    <2> QED
      BY <2>1, <2>2 DEF Init, Fresh, TaskOK
  <1>2. ConnOK /\ TaskOK /\ [Next]_vars => ConnOK' /\ TaskOK'
    <2> SUFFICES ASSUME ConnOK, TaskOK, [Next]_vars PROVE ConnOK' /\ TaskOK'
      OBVIOUS
    <2>1. CASE UNCHANGED vars
      BY <2>1 DEF vars, ConnOK, TaskOK, leafVars, taskVars, ipVars, ipSeen
    <2> QED
      BY <2>1, TaskTyped, CommandsTyped, WorldTyped DEF Next
  <1> QED
    BY <1>1, <1>2, TypeParts, PTL DEF Spec

-----------------------------------------------------------------------------
(* Clients and slots.  NoSlotLost needs ModemHolds: a leaf that connects    *)
(* forgets the client it had, and over a modem it has none then.            *)

ClientInv == SessionIsClient /\ ModemHolds /\ NoSlotLost

\* Steps that leave pointers and flags alone and free no slot.
LEMMA ClientKept ==
  ASSUME ConnOK, ClientInv, UNCHANGED <<kind, connected, client, session>>,
         \A s \in 1..Slots : slots'[s] # "free" <=> slots[s] # "free"
  PROVE  ClientInv'
  <1>1. \A l \in Leaves : client[l] # 0 => client[l] \in 1..Slots
    BY TcpAssumption DEF ConnOK
  <1> QED
    BY <1>1 DEF ClientInv, SessionIsClient, ModemHolds, NoSlotLost

\* A leaf that is not connected connects: the slot it is given is no one's.
LEMMA ClientAfterConnect ==
  ASSUME ConnOK, ClientInv, NEW l \in Leaves, ~connected[l], NEW at, Connect(l, at),
         kind' = kind
  PROVE  ClientInv'
  <1>1. session[l] = 0
    BY DEF ClientInv, SessionIsClient
  <1>2. \A m \in Leaves : client[m] # 0 => client[m] \in 1..Slots
    BY TcpAssumption DEF ConnOK
  <1>3. kind = "modem" => client[l] = 0
    BY DEF ClientInv, ModemHolds
  <1>4. CASE Refused(l, at)
    <2>1. SessionIsClient'
      BY <1>1, <1>4 DEF Refused, ClientInv, SessionIsClient, ConnOK
    <2>2. ModemHolds'
      BY <1>4 DEF Refused, ClientInv, ModemHolds, ConnOK
    <2>3. NoSlotLost'
      BY <1>3, <1>4 DEF Refused, ClientInv, NoSlotLost, ConnOK
    <2> QED
      BY <2>1, <2>2, <2>3 DEF ClientInv
  <1>5. CASE \E slot \in FreeSlots, state \in {"up", "pending", "dead"} :
               Opened(l, at, slot, state) /\ (kind = "modem" => state = "up")
    <2>1. PICK slot \in FreeSlots, state \in {"up", "pending", "dead"} :
            Opened(l, at, slot, state) /\ (kind = "modem" => state = "up")
      BY <1>5
    <2>2. /\ slot \in 1..Slots /\ slot # 0 /\ slots[slot] = "free"
          /\ \A m \in Leaves : client[m] # slot
      BY TcpAssumption DEF FreeSlots, ClientInv, SessionIsClient
    <2>3. /\ client'[l] = slot /\ connected'[l] = (state = "up")
          /\ session'[l] = IF state = "up" THEN slot ELSE 0
          /\ \A m \in Leaves \ {l} : /\ client'[m] = client[m]
                                     /\ connected'[m] = connected[m]
                                     /\ session'[m] = session[m]
          /\ slots'[slot] = state
          /\ \A s \in 1..Slots \ {slot} : slots'[s] = slots[s]
      BY <1>1, <2>1, <2>2 DEF Opened, ConnOK
    <2>4. SessionIsClient'
      <3>1. /\ connected'[l] <=> session'[l] # 0
            /\ connected'[l] => session'[l] = client'[l]
            /\ slots'[client'[l]] # "free"
        BY <2>2, <2>3
      <3>2. \A m \in Leaves \ {l} : client'[l] # client'[m]
        BY <2>2, <2>3
      <3>3. ASSUME NEW m \in Leaves \ {l}, client[m] # 0
            PROVE  slots'[client'[m]] # "free"
        BY <1>2, <2>2, <2>3, <3>3 DEF ClientInv, SessionIsClient
      <3> QED
        BY <2>3, <3>1, <3>2, <3>3 DEF ClientInv, SessionIsClient
    <2>5. ModemHolds'
      BY <2>1, <2>3 DEF ClientInv, ModemHolds
    <2>6. NoSlotLost'
      BY <1>3, <2>3 DEF ClientInv, NoSlotLost
    <2> QED
      BY <2>4, <2>5, <2>6 DEF ClientInv
  <1> QED
    BY <1>4, <1>5, ConnectCases

\* tcpRelease: the slot is free again and no one points to it.
LEMMA ClientAfterRelease ==
  ASSUME ConnOK, ClientInv, NEW l \in Leaves, client[l] # 0, OnTcpDisconnect(l),
         kind' = kind
  PROVE  ClientInv'
  <1>1. \A m \in Leaves : client[m] # 0 => client[m] \in 1..Slots
    BY TcpAssumption DEF ConnOK
  <1>2. /\ client'[l] = 0 /\ ~connected'[l] /\ session'[l] = 0
        /\ \A m \in Leaves \ {l} : /\ client'[m] = client[m]
                                   /\ connected'[m] = connected[m]
                                   /\ session'[m] = session[m]
        /\ slots'[client[l]] = "free"
        /\ \A s \in 1..Slots \ {client[l]} : slots'[s] = slots[s]
    BY <1>1 DEF OnTcpDisconnect, ConnOK
  <1>3. SessionIsClient'
    BY <1>1, <1>2 DEF ClientInv, SessionIsClient
  <1>4. ModemHolds'
    BY <1>2 DEF ClientInv, ModemHolds
  <1>5. NoSlotLost'
    BY <1>2 DEF ClientInv, NoSlotLost
  <1> QED
    BY <1>3, <1>4, <1>5 DEF ClientInv

\* disconnect() stops the client and keeps it; without one nothing changes.
LEMMA ClientAfterStop ==
  ASSUME ConnOK, ClientInv, NEW l \in Leaves, Disconnect(l),
         UNCHANGED <<kind, connected, client, session>>
  PROVE  ClientInv'
  <1>1. CASE client[l] = 0
    BY <1>1, ClientKept DEF Disconnect
  <1>2. CASE client[l] # 0
    <2>1. client[l] \in 1..Slots /\ slots[client[l]] # "free"
      BY <1>2, TcpAssumption DEF ConnOK, ClientInv, SessionIsClient
    <2>2. \A s \in 1..Slots : slots'[s] # "free" <=> slots[s] # "free"
      BY <1>2, <2>1 DEF Disconnect, ConnOK
    <2> QED
      BY <2>2, ClientKept
  <1> QED
    BY <1>1, <1>2

\* loop() finds that its client is up: the news is about that client.
LEMMA ClientAfterUp ==
  ASSUME ConnOK, ClientInv, NEW l \in Leaves, client[l] # 0,
         connected' = [connected EXCEPT ![l] = TRUE],
         session' = [session EXCEPT ![l] = client[l]],
         UNCHANGED <<kind, client, slots>>
  PROVE  ClientInv'
  <1>1. SessionIsClient'
    BY DEF ClientInv, SessionIsClient, ConnOK
  <1>2. ModemHolds' /\ NoSlotLost'
    BY DEF ClientInv, ModemHolds, NoSlotLost, ConnOK
  <1> QED
    BY <1>1, <1>2 DEF ClientInv

\* Every step keeps the strengthened invariant.
LEMMA ClientStep ==
  ASSUME ConnOK, TaskOK, ClientInv, [Next]_vars
  PROVE  ClientInv'
  <1>1. ASSUME NEW l \in Leaves, LoopNotice(l) PROVE ClientInv'
    BY <1>1, ClientAfterUp, ClientAfterRelease, ClientKept DEF LoopNotice, Notice
  <1>2. ASSUME NEW l \in Leaves, LoopRetry(l) PROVE ClientInv'
    BY <1>2, ClientAfterConnect, ClientKept DEF LoopRetry
  <1>3. ASSUME NEW l \in Leaves, TimerExpires(l) PROVE ClientInv'
    BY <1>3, ClientKept DEF TimerExpires
  <1>4. ASSUME NEW l \in Leaves, Hear(l) PROVE ClientInv'
    BY <1>4, ClientAfterConnect, ClientAfterStop, ClientKept DEF Hear
  <1>5. ASSUME NEW l \in Leaves, CmdConnect(l) \/ CmdStart(l) PROVE ClientInv'
    BY <1>5, ClientAfterConnect, ClientKept DEF CmdConnect, CmdStart
  <1>6. ASSUME NEW l \in Leaves, CmdDisconnect(l) PROVE ClientInv'
    BY <1>6, ClientAfterStop DEF CmdDisconnect
  <1>7. ASSUME NEW l \in Leaves, CmdStop(l) PROVE ClientInv'
    BY <1>7, ClientAfterRelease, ClientAfterStop, ClientKept DEF CmdStop
  <1>8. CASE Reboots
    BY <1>8 DEF Reboots, Fresh, ClientInv, SessionIsClient, ModemHolds, NoSlotLost
  <1>9. CASE IpNotices \/ IpAnnounces \/ LinkReturns \/ LinkFalls
    BY <1>9, ClientKept DEF IpNotices, IpAnnounces, LinkReturns, LinkFalls, leafVars
  <1>10. ASSUME NEW s \in 1..Slots, AttemptSucceeds(s) \/ AttemptFails(s) \/ SessionEnds(s)
         PROVE  ClientInv'
    <2>1. /\ slots[s] # "free" /\ UNCHANGED <<kind, leafVars>>
          /\ slots' = [slots EXCEPT ![s] = "up"] \/ slots' = [slots EXCEPT ![s] = "dead"]
      BY <1>10 DEF AttemptSucceeds, AttemptFails, SessionEnds, Settle
    <2>2. \A r \in 1..Slots : slots'[r] # "free" <=> slots[r] # "free"
      BY <2>1 DEF ConnOK
    <2> QED
      BY <2>1, <2>2, ClientKept DEF leafVars
  <1>11. CASE UNCHANGED vars
    BY <1>11, ClientKept DEF vars, leafVars
  <1> QED
    BY <1>1, <1>2, <1>3, <1>4, <1>5, <1>6, <1>7, <1>8, <1>9, <1>10, <1>11
    DEF Next, World

\* The strengthened invariant holds from the start.
LEMMA ClientInvariant == Spec => []ClientInv
  <1>1. Init => ClientInv
    BY DEF Init, Fresh, ClientInv, SessionIsClient, ModemHolds, NoSlotLost
  <1>2. TypeOK /\ ClientInv /\ [Next]_vars => ClientInv'
    BY ClientStep, TypeParts
  <1> QED
    BY <1>1, <1>2, TypeCorrect, PTL DEF Spec

\* News, flag and client pointer of a leaf agree whatever the order of news,
\* timers, commands and the network, and no two leaves share a client
\* (AbstractTcpClientLeaf::loop, connect, onTcpDisconnect).
THEOREM SessionsAgree == Spec => []SessionIsClient
  BY ClientInvariant, PTL DEF ClientInv

\* With blocking clients tcpConnect and tcpRelease balance: whatever fails,
\* every slot in use belongs to a leaf, so the table does not fill up.
THEOREM SlotsBalance == Spec => []NoSlotLost
  BY ClientInvariant, PTL DEF ClientInv
=============================================================================
