-------------------------------- MODULE IpWifi --------------------------------
(***************************************************************************)
(* The WiFi station of a stacx device: AbstractIpLeaf (src/abstract_ip.h)  *)
(* as specialised by IpEspLeaf (src/leaf_ip_esp.h), station mode.          *)
(*                                                                         *)
(* The WiFi event task only records what it is told in ip_wifi_known_state *)
(* (recordWifiConnected, recordWifiDisconnected); the leaf's loop notices  *)
(* the change, updates ip_connected, schedules a retry and announces it to *)
(* the leaves that tap it.  ipConnect blocks the loop task ("dial" until   *)
(* WiFiMulti or ap_setup gives up, "portal" while WiFiManager waits for a  *)
(* user) while events go on arriving, and itself writes the same variable, *)
(* some time after the link came up ("joined").                            *)
(*                                                                         *)
(* pc is the next section of the leaf's loop(); commands run at "main".    *)
(* Abstractions: addresses, names and signal strength are left out; the    *)
(* networks saved are one or several, in range or not (ap_near).  The      *)
(* build options and saved preferences that matter are one record, chosen  *)
(* initially.  Left out is a device with ip_wifi_fallback_lte set and its  *)
(* portal off, on which ap_setup gives way to the LTE leaves, if there are *)
(* any, instead of scheduling a retry; Comms has the switch.               *)
(***************************************************************************)
EXTENDS Integers, Sequences

CONSTANTS
  AutoConnect,      \* ip_autoconnect
  Reconnect,        \* ip_reconnect, with ip_reconnect_interval_sec >= 0
  AttemptMax,       \* ip_connect_attempt_max, 0 = no limit
  Devices,          \* the devices considered, by their options
  UserCommands,     \* the commands given
  EventBound,       \* bound: WiFi events on their way
  Disturbances      \* bound: changes of the world and commands

\* What a failed attempt leads to: IP_WIFI_USE_AP with ip_wifi_use_ap on
\* ("portal") or off ("retry"), or a build without it ("nothing"); more than
\* one network saved; own_loop; ip_reconnect_interval_sec = 0.
DeviceOptions ==
  [on_failure : {"portal", "retry", "nothing"}, several_networks : BOOLEAN,
   own_loop : BOOLEAN, immediate_retry : BOOLEAN]

ASSUME IpAssumption ==
  /\ AutoConnect \in BOOLEAN /\ Reconnect \in BOOLEAN
  /\ AttemptMax \in Nat
  /\ Devices \subseteq DeviceOptions
  /\ UserCommands \subseteq {"connect", "disconnect", "stop", "start"}
  /\ EventBound \in Nat \ {0} /\ Disturbances \in Nat

VARIABLES
  device,           \* the options of this device
  pc,               \* next section of the loop
  back,             \* where ipConnect returns to
  known,            \* ip_wifi_known_state
  connected,        \* ip_connected
  notified,         \* ip_connect_notified, what the tapping leaves have heard
  due,              \* ip_reconnect_due
  timer,            \* ipReconnectTimer.active()
  attempts,         \* ip_connect_attempt_count, saturating
  ever,             \* ip_connect_count > 0
  link,             \* the station has an address
  rejoins,          \* the driver has a network to rejoin by itself
  wifi_events,      \* events the WiFi task has yet to deliver
  ap_near,          \* a saved network is in range
  told_off,         \* history: ip_disconnect was the last word
  restarted,        \* history: leaf_stop or leaf_start was used
  raced,            \* history: the link fell between joining and recording
  budget            \* disturbances left

loopVars  == <<pc, back>>
stateVars == <<known, connected, notified, ever>>
retryVars == <<due, timer, attempts>>
worldVars == <<link, rejoins, wifi_events, ap_near>>
ghostVars == <<told_off, restarted, raced>>
vars == <<device, loopVars, stateVars, retryVars, worldVars, ghostVars, budget>>

Sections == {"main", "initial", "recognise", "due", "dial", "joined", "setup",
             "portal_reset", "portal", "notify", "reboot"}

MaxAttempts == AttemptMax + 1
Bump(n) == IF n < MaxAttempts THEN n + 1 ELSE n

TypeOK ==
  /\ device \in Devices
  /\ pc \in Sections /\ back \in {"main", "notify"}
  /\ known \in BOOLEAN /\ connected \in BOOLEAN
  /\ notified \in BOOLEAN /\ ever \in BOOLEAN
  /\ due \in BOOLEAN /\ timer \in BOOLEAN /\ attempts \in 0..MaxAttempts
  /\ link \in {"down", "up"} /\ rejoins \in BOOLEAN /\ ap_near \in BOOLEAN
  /\ wifi_events \in Seq({"GOT_IP", "DISCONNECTED"})
  /\ Len(wifi_events) <= EventBound
  /\ told_off \in BOOLEAN /\ restarted \in BOOLEAN /\ raced \in BOOLEAN
  /\ budget \in 0..Disturbances

\* After setup() and start().
Init ==
  /\ device \in Devices
  /\ pc = "main" /\ back = "main"
  /\ known = FALSE /\ connected = FALSE /\ notified = FALSE /\ ever = FALSE
  /\ due = FALSE /\ timer = FALSE /\ attempts = 0
  /\ link = "down" /\ rejoins = FALSE /\ wifi_events = <<>> /\ ap_near \in BOOLEAN
  /\ told_off = FALSE /\ restarted = FALSE /\ raced = FALSE
  /\ budget = Disturbances

Disturb == budget > 0 /\ budget' = budget - 1
Post(e) == Len(wifi_events) < EventBound /\ wifi_events' = Append(wifi_events, e)

-----------------------------------------------------------------------------
(* Retry.                                                                  *)

\* ipScheduleReconnect.  count is the attempt count when it is called.
ScheduleReconnect(count) ==
  IF ~Reconnect \/ (AttemptMax > 0 /\ count >= AttemptMax)
  THEN UNCHANGED <<due, timer>>
  ELSE /\ due' = (due \/ device.immediate_retry)
       /\ timer' = (timer \/ ~device.immediate_retry)

TimerFires ==
  /\ timer /\ timer' = FALSE /\ due' = TRUE
  /\ UNCHANGED <<device, loopVars, stateVars, attempts, worldVars, ghostVars, budget>>

-----------------------------------------------------------------------------
(* The sections of loop().                                                 *)

LoopStarts ==
  /\ pc = "main" /\ pc' = "initial"
  /\ UNCHANGED <<device, back, stateVars, retryVars, worldVars, ghostVars, budget>>

\* The first attempt after start-up.
LoopInitial ==
  /\ pc = "initial" /\ pc' = "recognise"
  /\ due' = (due \/ (AutoConnect /\ ~connected /\ ~ever /\ attempts = 0))
  /\ UNCHANGED <<device, back, stateVars, timer, attempts, worldVars, ghostVars, budget>>

\* Mutant: the attempt just counted is taken back, instead of a reset.
OnConnectUncounts ==
  /\ connected' = TRUE /\ ever' = TRUE /\ attempts' = attempts - 1
  /\ told_off' = FALSE
  /\ UNCHANGED <<due, timer>>

\* ipOnConnect of both classes: a retry that is due or armed stays so.
OnConnect ==
  /\ connected' = TRUE /\ ever' = TRUE /\ attempts' = 0
  /\ told_off' = FALSE
  /\ UNCHANGED <<due, timer>>

\* ipOnDisconnect of both classes: whatever ip_autoconnect, the specialised
\* one schedules a retry.
OnDisconnect ==
  /\ connected' = FALSE
  /\ ScheduleReconnect(attempts)
  /\ UNCHANGED <<ever, attempts, told_off>>

\* A callback has recorded a change of state.
LoopRecognise ==
  /\ pc = "recognise" /\ pc' = "due"
  /\ \/ known /\ ~connected /\ OnConnect
     \/ ~known /\ connected /\ OnDisconnect
     \/ known = connected /\ UNCHANGED <<connected, ever, retryVars, told_off>>
  /\ UNCHANGED <<device, back, known, notified, worldVars, restarted, raced, budget>>

\* Begin ipConnect, to return to section ret.
Dial(ret) == pc' = "dial" /\ back' = ret /\ attempts' = Bump(attempts)

LoopDue ==
  /\ pc = "due" /\ due' = FALSE
  /\ IF due /\ ~connected THEN Dial("notify")
     ELSE pc' = "notify" /\ UNCHANGED <<back, attempts>>
  /\ UNCHANGED <<device, stateVars, timer, worldVars, ghostVars, budget>>

\* Mutant: the announcement of a connection lost is forgotten.
LoopNotifyUp ==
  /\ pc = "notify" /\ pc' = "main"
  /\ notified' = (notified \/ connected)
  /\ UNCHANGED <<device, back, known, connected, ever, retryVars, worldVars, ghostVars, budget>>

\* publish _ip_connect or _ip_disconnect.
LoopNotify ==
  /\ pc = "notify" /\ pc' = "main"
  /\ notified' = connected
  /\ UNCHANGED <<device, back, known, connected, ever, retryVars, worldVars, ghostVars, budget>>

-----------------------------------------------------------------------------
(* ipConnect: WiFiMulti, then ap_setup with WiFi.begin, then WiFiManager.  *)

Blocking == {"dial", "setup", "portal_reset", "portal"}

\* One of them joins a network; portals join the one a user enters.
Joins ==
  /\ pc \in Blocking /\ (pc \in {"dial", "setup"} => ap_near)
  /\ pc = "setup" => ~device.several_networks
  /\ pc' = "joined"
  /\ link' = "up" /\ rejoins' = TRUE
  /\ IF link = "up" THEN UNCHANGED wifi_events ELSE Post("GOT_IP")
  /\ UNCHANGED <<device, back, stateVars, retryVars, ap_near, ghostVars, budget>>

\* recordWifiConnected, called by the leaf itself.
Records ==
  /\ pc = "joined" /\ pc' = back
  /\ known' = TRUE
  /\ UNCHANGED <<device, back, connected, notified, ever, retryVars, worldVars, ghostVars, budget>>

\* WiFiMulti times out.  A callback may have seen the link come up meanwhile.
DialFails ==
  /\ pc = "dial" /\ link = "down"
  /\ pc' = IF known \/ device.on_failure = "nothing" THEN back ELSE "setup"
  /\ \/ Post("DISCONNECTED") \/ UNCHANGED wifi_events
  /\ UNCHANGED <<device, back, stateVars, retryVars, link, rejoins, ap_near, ghostVars, budget>>

\* Mutant: a failed attempt without a portal is not retried.
SetupFailsSilently ==
  /\ pc = "setup" /\ (link = "down" \/ device.several_networks)
  /\ IF known THEN pc' = back /\ UNCHANGED known
     ELSE /\ pc' = IF device.on_failure = "retry" THEN back
                   ELSE IF device.several_networks THEN "portal_reset" ELSE "portal"
          /\ known' = FALSE
  /\ UNCHANGED <<device, back, connected, notified, ever, retryVars, worldVars, ghostVars, budget>>

\* ap_setup could not join the saved network, or has several to choose from:
\* retry later, or ipConfig, whose "reset" variant asks the user at once.
SetupFails ==
  /\ pc = "setup" /\ (link = "down" \/ device.several_networks)
  /\ \/ /\ known /\ pc' = back /\ UNCHANGED <<known, due, timer>>
     \/ /\ ~known /\ device.on_failure = "retry"
        /\ pc' = back /\ ScheduleReconnect(attempts) /\ UNCHANGED known
     \/ /\ ~known /\ device.on_failure = "portal"
        /\ pc' = IF device.several_networks THEN "portal_reset" ELSE "portal"
        /\ known' = FALSE /\ UNCHANGED <<due, timer>>
  /\ UNCHANGED <<device, back, connected, notified, ever, attempts, worldVars, ghostVars, budget>>

\* autoConnect gave up after 300 s.  With a thread of its own the leaf
\* schedules a retry and goes on to recordWifiConnected all the same.
PortalTimesOut ==
  /\ pc = "portal"
  /\ IF device.own_loop THEN pc' = back /\ ScheduleReconnect(attempts) /\ known' = TRUE
     ELSE pc' = "reboot" /\ UNCHANGED <<due, timer, known>>
  /\ UNCHANGED <<device, back, connected, notified, ever, attempts, worldVars, ghostVars, budget>>

\* ESP.restart().
Reboots ==
  /\ pc = "reboot" /\ pc' = "main" /\ back' = "main"
  /\ known' = FALSE /\ connected' = FALSE /\ notified' = FALSE /\ ever' = FALSE
  /\ due' = FALSE /\ timer' = FALSE /\ attempts' = 0
  /\ link' = "down" /\ rejoins' = FALSE /\ wifi_events' = <<>>
  /\ told_off' = FALSE /\ restarted' = FALSE /\ raced' = FALSE
  /\ UNCHANGED <<device, ap_near, budget>>

-----------------------------------------------------------------------------
(* The WiFi driver and its event task.                                     *)

\* Mutant: the disconnection is recorded only once it was recognised.
DeliverEventLate ==
  /\ wifi_events # <<>>
  /\ wifi_events' = Tail(wifi_events)
  /\ known' = (Head(wifi_events) = "GOT_IP" \/ (known /\ ~connected))
  /\ raced' = (raced /\ (known' \/ pc = "joined"))
  /\ UNCHANGED <<device, loopVars, connected, notified, ever, retryVars, link, rejoins,
                 ap_near, told_off, restarted, budget>>

\* recordWifiConnected and recordWifiDisconnected in the event callbacks.
DeliverEvent ==
  /\ wifi_events # <<>>
  /\ wifi_events' = Tail(wifi_events)
  /\ known' = (Head(wifi_events) = "GOT_IP")
  /\ raced' = (raced /\ (known' \/ pc = "joined"))
  /\ UNCHANGED <<device, loopVars, connected, notified, ever, retryVars, link, rejoins,
                 ap_near, told_off, restarted, budget>>

LinkFalls ==
  /\ link = "up" /\ pc # "reboot" /\ (ap_near => Disturb) /\ (~ap_near => UNCHANGED budget)
  /\ link' = "down" /\ Post("DISCONNECTED")
  /\ raced' = (raced \/ pc = "joined")
  /\ UNCHANGED <<device, loopVars, stateVars, retryVars, rejoins, ap_near, told_off, restarted>>

\* The driver rejoins by itself the network it had.
LinkReturns ==
  /\ link = "down" /\ rejoins /\ ap_near /\ pc # "reboot"
  /\ link' = "up" /\ Post("GOT_IP")
  /\ UNCHANGED <<device, loopVars, stateVars, retryVars, rejoins, ap_near, ghostVars, budget>>

\* The driver reports that rejoining failed.
RejoinFails ==
  /\ link = "down" /\ rejoins /\ known /\ wifi_events = <<>> /\ pc # "reboot"
  /\ Post("DISCONNECTED")
  /\ UNCHANGED <<device, loopVars, stateVars, retryVars, link, rejoins, ap_near, ghostVars, budget>>

NetworkMoves ==
  /\ Disturb /\ ap_near' = ~ap_near
  /\ UNCHANGED <<device, loopVars, stateVars, retryVars, link, rejoins, wifi_events, ghostVars>>

-----------------------------------------------------------------------------
(* Commands.                                                               *)

\* ip_connect, ip_wifi_connect.
CmdConnect ==
  /\ "connect" \in UserCommands /\ pc = "main" /\ Disturb
  /\ Dial("main")
  /\ told_off' = FALSE
  /\ UNCHANGED <<device, stateVars, due, timer, worldVars, restarted, raced>>

\* ip_disconnect, ip_wifi_disconnect: only the timer is stopped.
CmdDisconnect ==
  /\ "disconnect" \in UserCommands /\ pc = "main" /\ Disturb
  /\ timer' = FALSE /\ told_off' = TRUE
  /\ UNCHANGED <<device, loopVars, stateVars, due, attempts, worldVars, restarted, raced>>

\* leaf_stop: WiFi.mode(WIFI_MODE_NULL) and nothing else.
CmdStop ==
  /\ "stop" \in UserCommands /\ pc = "main" /\ Disturb
  /\ restarted' = TRUE /\ link' = "down" /\ rejoins' = FALSE
  /\ IF link = "up" THEN Post("DISCONNECTED") ELSE UNCHANGED wifi_events
  /\ UNCHANGED <<device, loopVars, stateVars, retryVars, ap_near, told_off, raced>>

\* leaf_start: forget the state of the link.
CmdStart ==
  /\ "start" \in UserCommands /\ pc = "main" /\ Disturb
  /\ known' = FALSE /\ restarted' = TRUE
  /\ raced' = FALSE
  /\ UNCHANGED <<device, loopVars, connected, notified, ever, retryVars, worldVars, told_off>>
-----------------------------------------------------------------------------
LoopTask ==
  \/ LoopStarts \/ LoopInitial \/ LoopRecognise \/ LoopDue \/ LoopNotify
  \/ Records \/ DialFails \/ SetupFails \/ Reboots

WifiTask == DeliverEvent \/ LinkFalls \/ LinkReturns \/ RejoinFails

Commands == CmdConnect \/ CmdDisconnect \/ CmdStop \/ CmdStart

Next ==
  \/ LoopTask \/ Joins \/ PortalTimesOut \/ TimerFires
  \/ WifiTask \/ NetworkMoves \/ Commands

\* The scheduler runs every task.  An attempt in range of a network succeeds
\* in the end; nobody need ever use a portal, and only the one with a timeout
\* is sure to give up.  A link out of range falls, and the driver, whose
\* auto-reconnect nothing in the code turns off, rejoins one that returns.
Fairness ==
  /\ WF_vars(LoopTask) /\ WF_vars(TimerFires) /\ WF_vars(DeliverEvent)
  /\ SF_vars(Joins /\ pc \in {"dial", "setup"}) /\ WF_vars(PortalTimesOut)
  /\ WF_vars(LinkFalls /\ ~ap_near) /\ WF_vars(RejoinFails)
  /\ WF_vars(LinkReturns)

Spec == Init /\ [][Next]_vars
FairSpec == Spec /\ Fairness
-----------------------------------------------------------------------------
(* Properties.                                                             *)

\* When every event has been delivered, the leaf does not think it has a link
\* that is gone, but for one race: the link fell after ipConnect saw it come
\* up and before it recorded that, so that the older news overwrote the newer.
NoGhostLink ==
  wifi_events = <<>> /\ link = "down" /\ pc # "joined" => ~known \/ raced

\* Even that mistake heals, and what the other leaves heard last becomes true:
\* once the link is there for good, or gone and missed by the driver, they know it.
NewsArrives ==
  /\ <>[](link = "down" /\ rejoins) => <>[](~notified \/ pc \in Blocking)
  /\ <>[](link = "up" /\ ~restarted) => <>[](notified \/ pc \in Blocking)

\* A leaf without an attempt limit tries again for as long as it is offline.
AttemptsGoOn ==
  AttemptMax = 0 /\ AutoConnect /\ Reconnect =>
    []<>(connected \/ pc \in Blocking \/ told_off)

\* With the network back for good, the device comes online in the end.
OnlineInTheEnd ==
  <>[](ap_near /\ ~told_off /\ ~restarted) => <>[](connected /\ notified)
=============================================================================
