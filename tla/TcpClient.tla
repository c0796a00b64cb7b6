------------------------------ MODULE TcpClient ------------------------------
(***************************************************************************)
(* Outbound TCP connections: the leaves of src/leaf_tcpclient.h, the table *)
(* of client slots they share (tcpConnect and tcpRelease in                *)
(* src/abstract_ip.h), and the two kinds of client behind it: IpClientWifi *)
(* (src/ip_client_wifi.h), whose attempts stay pending until a callback of *)
(* the AsyncTCP task settles them, and IpClientSim7080                     *)
(* (src/ip_client_sim7080.h), which blocks until the modem answers.        *)
(*                                                                         *)
(* A leaf learns what became of its client by comparing connected() with   *)
(* its own flag once per pass, and retries when reconnect_at has passed.   *)
(* The IP leaf tells it when the network comes and goes, some time after   *)
(* it did.  The loop task runs all of this; mid is the leaf between the    *)
(* two halves of its loop(), hear the leaves yet to receive the IP news.   *)
(*                                                                         *)
(* Abstractions: a client is the number of its slot, and its state what    *)
(* the leaf can still learn from it; data and counts are left out.         *)
(***************************************************************************)
EXTENDS Naturals

CONSTANTS
  Leaves,           \* TCP client leaves
  NoLeaf,           \* none of them
  Slots,            \* CLIENT_SESSION_MAX
  Reconnect,        \* tcp_reconnect_sec > 0
  Kinds,            \* kinds of client considered, "wifi" and "modem"
  Faults, Commands  \* bounds on what the world and the user do

ASSUME TcpAssumption ==
  /\ NoLeaf \notin Leaves
  /\ Slots \in Nat \ {0}
  /\ Reconnect \in BOOLEAN
  /\ Kinds \subseteq {"wifi", "modem"}
  /\ Faults \in Nat /\ Commands \in Nat

VARIABLES
  kind,             \* the kind of client of this device
  run,              \* Leaf::run and Leaf::started
  connected,        \* connected
  client,           \* client, as its slot; 0 = NULL
  reconnect_at,     \* "off", "armed", or "due" once that time has passed
  slots,            \* ip_clients: free, or the state of the client in it
  mid, hear,        \* where the loop task is
  crashed,          \* a NULL client was dereferenced
  link,             \* the network is there
  ip_connected,     \* ip_connected of the IP leaf
  ip_notified,      \* ip_connect_notified of the IP leaf
  session,          \* history: slot of the last _tcp_connect, 0 after
                    \* _tcp_disconnect
  hidden,           \* history: ip_connected went back to what was announced
  faults, commands  \* faults and commands left

leafVars == <<run, connected, client, reconnect_at, session>>
taskVars == <<mid, hear, crashed>>
ipSeen   == <<ip_connected, hidden>>
ipVars   == <<link, ipSeen, ip_notified>>
vars == <<kind, leafVars, slots, taskVars, ipVars, faults, commands>>

\* pending: not settled; up: connected() holds; dead: it never will (again).
SlotStates == {"free", "pending", "up", "dead"}

TypeOK ==
  /\ kind \in Kinds
  /\ run \in [Leaves -> BOOLEAN] /\ connected \in [Leaves -> BOOLEAN]
  /\ client \in [Leaves -> 0..Slots] /\ session \in [Leaves -> 0..Slots]
  /\ reconnect_at \in [Leaves -> {"off", "armed", "due"}]
  /\ slots \in [1..Slots -> SlotStates]
  /\ mid \in Leaves \cup {NoLeaf} /\ hear \subseteq Leaves
  /\ crashed \in BOOLEAN
  /\ link \in BOOLEAN /\ ip_notified \in BOOLEAN
  /\ ip_connected \in BOOLEAN /\ hidden \in BOOLEAN
  /\ faults \in 0..Faults /\ commands \in 0..Commands

\* After setup() and start(), and after a reboot.
Fresh ==
  [run |-> [l \in Leaves |-> TRUE], connected |-> [l \in Leaves |-> FALSE],
   none |-> [l \in Leaves |-> 0], off |-> [l \in Leaves |-> "off"],
   slots |-> [s \in 1..Slots |-> "free"]]

Init ==
  /\ kind \in Kinds
  /\ run = Fresh.run /\ connected = Fresh.connected
  /\ client = Fresh.none /\ session = Fresh.none /\ reconnect_at = Fresh.off
  /\ slots = Fresh.slots
  /\ mid = NoLeaf /\ hear = {} /\ crashed = FALSE
  /\ link = FALSE /\ ip_connected = FALSE /\ ip_notified = FALSE /\ hidden = FALSE
  /\ faults = Faults /\ commands = Commands

Free == mid = NoLeaf /\ hear = {} /\ ~crashed
Command == Free /\ commands > 0 /\ commands' = commands - 1

\* What goes wrong without a network is no fault.
Fault == IF link THEN faults > 0 /\ faults' = faults - 1 ELSE UNCHANGED faults

-----------------------------------------------------------------------------
(* Connecting and disconnecting.                                           *)

\* scheduleReconnect.
Schedule(at) == IF Reconnect THEN "armed" ELSE at

\* Mutant: the search goes one slot too far.
FreeSlotsPastEnd == {s \in 1..Slots + 1 : s > Slots \/ slots[s] = "free"}

FreeSlots == {s \in 1..Slots : slots[s] = "free"}

\* Mutant: the slot of a client that did not connect is kept.
ReleaseRefusedKept(slot) == slots' = [slots EXCEPT ![slot] = "dead"]

\* tcpRelease of the client just made.
ReleaseRefused(slot) == UNCHANGED slots

\* connect() and tcpConnect.  The client that client pointed to is forgotten.
\* An attempt succeeds or fails at once, stays pending (WiFi), or fails before
\* the callback that would tell is registered (WiFi).
Connect(l, at) ==
  LET slot == CHOOSE s \in FreeSlots : \A r \in FreeSlots : s <= r
      Opens(state) ==
        /\ client' = [client EXCEPT ![l] = slot]
        /\ slots' = [slots EXCEPT ![slot] = state]
        /\ reconnect_at' = [reconnect_at EXCEPT ![l] = at]
        /\ connected' = [connected EXCEPT ![l] = (state = "up")]
        /\ session' = [session EXCEPT ![l] = IF state = "up" THEN slot ELSE @]
      Fails ==
        /\ client' = [client EXCEPT ![l] = 0]
        /\ connected' = [connected EXCEPT ![l] = FALSE]
        /\ reconnect_at' = [reconnect_at EXCEPT ![l] = Schedule(at)]
        /\ UNCHANGED session
  IN  IF FreeSlots = {} THEN Fails /\ UNCHANGED <<slots, faults>>
      ELSE \/ link /\ Opens("up") /\ UNCHANGED faults
           \/ kind = "wifi" /\ Opens("pending") /\ UNCHANGED faults
           \/ kind = "wifi" /\ link /\ Fault /\ Opens("dead")
           \/ Fault /\ Fails /\ ReleaseRefused(slot)

\* disconnect(): stop the client; loop() will notice.  No client, no mercy.
Disconnect(l) ==
  IF client[l] = 0 THEN crashed' = TRUE /\ UNCHANGED slots
  ELSE slots' = [slots EXCEPT ![client[l]] = "dead"] /\ UNCHANGED crashed

\* ipLinkStatus(true): IpEspLeaf has none of its own and says TRUE, a modem
\* leaf asks the modem and corrects ip_connected.
LinkStatus == kind = "wifi" \/ link
SetIp(up) ==
  /\ ip_connected' = up
  /\ hidden' = (hidden \/ (ip_connected # up /\ up = ip_notified))
SyncIp == SetIp(IF kind = "wifi" THEN ip_connected ELSE link)

\* Mutant: a lost connection is not retried.
OnTcpDisconnectNoRetry(l) ==
  /\ connected' = [connected EXCEPT ![l] = FALSE]
  /\ slots' = [slots EXCEPT ![client[l]] = "free"]
  /\ client' = [client EXCEPT ![l] = 0]
  /\ SyncIp /\ UNCHANGED reconnect_at
  /\ session' = [session EXCEPT ![l] = 0]

\* Mutant: the client released is still pointed to.
OnTcpDisconnectDangles(l) ==
  /\ connected' = [connected EXCEPT ![l] = FALSE]
  /\ slots' = [slots EXCEPT ![client[l]] = "free"]
  /\ SyncIp /\ UNCHANGED client
  /\ reconnect_at' = [reconnect_at EXCEPT ![l] = IF LinkStatus THEN Schedule(@) ELSE @]
  /\ session' = [session EXCEPT ![l] = 0]

\* onTcpDisconnect.
OnTcpDisconnect(l) ==
  /\ connected' = [connected EXCEPT ![l] = FALSE]
  /\ slots' = [slots EXCEPT ![client[l]] = "free"]
  /\ client' = [client EXCEPT ![l] = 0]
  /\ SyncIp
  /\ reconnect_at' = [reconnect_at EXCEPT ![l] = IF LinkStatus THEN Schedule(@) ELSE @]
  /\ session' = [session EXCEPT ![l] = 0]

\* The first half of loop(): compare the client with the flag.
Notice(l) ==
  \/ /\ ~connected[l] /\ client[l] # 0 /\ slots[client[l]] = "up"
     /\ connected' = [connected EXCEPT ![l] = TRUE]
     /\ session' = [session EXCEPT ![l] = client[l]]
     /\ UNCHANGED <<client, reconnect_at, slots, ipSeen>>
  \/ /\ connected[l] /\ client[l] # 0 /\ slots[client[l]] # "up"
     /\ OnTcpDisconnect(l)
  \/ /\ client[l] # 0 => (connected[l] <=> slots[client[l]] = "up")
     /\ UNCHANGED <<connected, client, reconnect_at, session, slots, ipSeen>>

-----------------------------------------------------------------------------
(* The loop task.                                                          *)

LoopNotice(l) ==
  /\ Free /\ run[l]
  /\ mid' = l
  /\ Notice(l)
  /\ UNCHANGED <<kind, run, hear, crashed, link, ip_notified, faults, commands>>

\* The second half: retry if it is time.
LoopRetry(l) ==
  /\ mid = l /\ mid' = NoLeaf
  /\ IF ~connected[l] /\ reconnect_at[l] = "due"
     THEN /\ SyncIp
          /\ IF LinkStatus THEN Connect(l, "off")
             ELSE /\ reconnect_at' = [reconnect_at EXCEPT ![l] = Schedule("off")]
                  /\ UNCHANGED <<connected, client, session, slots, faults>>
     ELSE UNCHANGED <<connected, client, reconnect_at, session, slots,
                      ipSeen, faults>>
  /\ UNCHANGED <<kind, run, hear, crashed, link, ip_notified, commands>>

TimerExpires(l) ==
  /\ reconnect_at[l] = "armed" /\ ~crashed
  /\ reconnect_at' = [reconnect_at EXCEPT ![l] = "due"]
  /\ UNCHANGED <<kind, run, connected, client, session, slots, taskVars, ipVars,
                 faults, commands>>

\* The IP leaf notices what became of the link, and says so to its taps.
IpNotices ==
  /\ Free /\ ip_connected # link /\ SetIp(link)
  /\ UNCHANGED <<kind, leafVars, slots, taskVars, link, ip_notified, faults, commands>>

IpAnnounces ==
  /\ Free /\ ip_notified # ip_connected
  /\ ip_notified' = ip_connected /\ hear' = Leaves
  /\ UNCHANGED <<kind, leafVars, slots, mid, crashed, link, ipSeen, faults, commands>>

\* mqtt_receive of _ip_connect or _ip_disconnect, running or not.
Hear(l) ==
  /\ l \in hear /\ ~crashed /\ hear' = hear \ {l}
  /\ \/ /\ ip_notified /\ ~connected[l]
        /\ Connect(l, reconnect_at[l]) /\ UNCHANGED crashed
     \/ /\ ~ip_notified /\ connected[l]
        /\ Disconnect(l)
        /\ UNCHANGED <<connected, client, reconnect_at, session, faults>>
     \/ /\ ip_notified <=> connected[l]
        /\ UNCHANGED <<connected, client, reconnect_at, session, slots, crashed, faults>>
  /\ UNCHANGED <<kind, run, mid, ipVars, commands>>

CmdConnect(l) ==
  /\ Command /\ ~connected[l]
  /\ Connect(l, reconnect_at[l])
  /\ UNCHANGED <<kind, run, taskVars, ipVars>>

\* disconnect; a payload asks for a retry.
CmdDisconnect(l) ==
  /\ Command
  /\ Disconnect(l)
  /\ \/ UNCHANGED reconnect_at
     \/ client[l] # 0 /\ reconnect_at' = [reconnect_at EXCEPT ![l] = "armed"]
  /\ UNCHANGED <<kind, run, connected, client, session, mid, hear, ipVars, faults>>

\* leaf_stop: Leaf::stop, disconnect(), and the loop() that notices.
CmdStop(l) ==
  /\ Command /\ run[l]
  /\ run' = [run EXCEPT ![l] = FALSE]
  /\ \/ /\ client[l] = 0 /\ crashed' = TRUE
        /\ UNCHANGED <<connected, client, reconnect_at, session, slots, ipSeen>>
     \/ /\ client[l] # 0 /\ connected[l]
        /\ OnTcpDisconnect(l) /\ UNCHANGED crashed
     \/ /\ client[l] # 0 /\ ~connected[l]
        /\ Disconnect(l)
        /\ UNCHANGED <<connected, client, reconnect_at, session, ipSeen>>
  /\ UNCHANGED <<kind, mid, hear, link, ip_notified, faults>>

\* leaf_start.
CmdStart(l) ==
  /\ Command /\ ~run[l]
  /\ run' = [run EXCEPT ![l] = TRUE]
  /\ IF ~connected[l] /\ ip_connected THEN Connect(l, reconnect_at[l])
     ELSE UNCHANGED <<connected, client, reconnect_at, session, slots, faults>>
  /\ UNCHANGED <<kind, taskVars, ipVars>>

\* The exception handler restarts the device.
Reboots ==
  /\ crashed /\ crashed' = FALSE
  /\ run' = Fresh.run /\ connected' = Fresh.connected
  /\ client' = Fresh.none /\ session' = Fresh.none /\ reconnect_at' = Fresh.off
  /\ slots' = Fresh.slots
  /\ mid' = NoLeaf /\ hear' = {}
  /\ ip_connected' = FALSE /\ ip_notified' = FALSE /\ hidden' = FALSE
  /\ UNCHANGED <<kind, link, faults, commands>>

-----------------------------------------------------------------------------
(* The AsyncTCP task, the modem and the network.                           *)

Settle(s, from, to) ==
  /\ ~crashed /\ slots[s] = from /\ slots' = [slots EXCEPT ![s] = to]
  /\ UNCHANGED <<kind, leafVars, taskVars, ipVars, commands>>

AttemptSucceeds(s) == link /\ UNCHANGED faults /\ Settle(s, "pending", "up")
AttemptFails(s) == Fault /\ Settle(s, "pending", "dead")
SessionEnds(s) == Fault /\ Settle(s, "up", "dead")

LinkReturns ==
  /\ ~link /\ link' = TRUE
  /\ UNCHANGED <<kind, leafVars, slots, taskVars, ipSeen, ip_notified, faults, commands>>

LinkFalls ==
  /\ link /\ Fault /\ link' = FALSE
  /\ UNCHANGED <<kind, leafVars, slots, taskVars, ipSeen, ip_notified, commands>>
-----------------------------------------------------------------------------
World == \/ LinkReturns \/ LinkFalls
         \/ \E s \in 1..Slots : AttemptSucceeds(s) \/ AttemptFails(s) \/ SessionEnds(s)

Next ==
  \/ \E l \in Leaves :
       \/ LoopNotice(l) \/ LoopRetry(l) \/ TimerExpires(l) \/ Hear(l)
       \/ CmdConnect(l) \/ CmdDisconnect(l) \/ CmdStop(l) \/ CmdStart(l)
  \/ IpNotices \/ IpAnnounces \/ Reboots \/ World

\* Each pass of the loop task comes to every leaf, the IP leaf among them;
\* an attempt is settled, and a session without a network ends.
Fairness ==
  /\ \A l \in Leaves : /\ SF_vars(LoopNotice(l)) /\ WF_vars(LoopRetry(l))
                       /\ WF_vars(TimerExpires(l)) /\ WF_vars(Hear(l))
  /\ SF_vars(IpNotices) /\ SF_vars(IpAnnounces) /\ WF_vars(Reboots)
  /\ \A s \in 1..Slots : /\ WF_vars(AttemptSucceeds(s) \/ AttemptFails(s))
                         /\ WF_vars(SessionEnds(s) /\ ~link)

Spec == Init /\ [][Next]_vars
FairSpec == Spec /\ Fairness
-----------------------------------------------------------------------------
(* Properties.                                                             *)

\* The connection a leaf announced is the client it holds: news, flag and
\* pointer agree, no two leaves hold one client, and no client in use is in a
\* slot counted as free.
SessionIsClient ==
  \A l \in Leaves :
    /\ connected[l] <=> session[l] # 0
    /\ connected[l] => session[l] = client[l]
    /\ client[l] # 0 => /\ slots[client[l]] # "free"
                        /\ \A m \in Leaves \ {l} : client[m] # client[l]

\* With blocking clients no slot is lost: every one in use is a leaf's.
NoSlotLost ==
  kind = "modem" =>
    \A s \in 1..Slots : slots[s] # "free" => \E l \in Leaves : client[l] = s

\* An attempt that failed while pending: the leaf waits for it forever.
Stuck(l) == ~connected[l] /\ client[l] # 0 /\ slots[client[l]] = "dead"
Exhausted == \A s \in 1..Slots : slots[s] # "free"

\* With the network back for good, a leaf that runs is online in the end:
\* over WiFi, unless it waits for a dead attempt or forgotten clients fill the
\* slots; over a modem, unless a TCP leaf noticed the link come or go and
\* nothing was announced ("we will do that instead when the IP link comes
\* back").
OnlineInTheEnd ==
  \A l \in Leaves :
    <>[](link /\ run[l]) /\ []<>~crashed /\ Reconnect =>
      <>[](connected[l] \/ IF kind = "wifi" THEN Stuck(l) \/ Exhausted ELSE hidden)

\* "Seconds after which to retry TCP connection (0=off)": a leaf that runs with
\* a network and without a connection retries.
RetriesUntilConnected ==
  \A l \in Leaves : Reconnect => []<>(connected[l] \/ ~link \/ ~run[l]
                                      \/ reconnect_at[l] # "off")
=============================================================================
