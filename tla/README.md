# A specification of stacx in TLA+

stacx is an Arduino framework for ESP8266 and ESP32 devices.  A device is a set
of *leaves*, C++ objects in the table `leaves[]`: one brings up the network,
one speaks MQTT, one stores the settings, the others measure and switch.  The
sources have no tests; what they promise is in `README.md`, in comments, and in
the help strings of `registerCommand` and `registerValue`.

This directory models the parts of it that are hard to get right by reading:
the parts where several tasks of the device, the network and the user act in an
order nobody chose.  TLC checks each model on a small instance, TLAPS proves the
most important invariants for every instance.

Source lines are given as `file.h:line`, all in `src/`.

## The system

### Tasks

* The **loop task** of Arduino.  `loop()` (`stacx.h:1567`) calls the `loop()` of
  every leaf that runs and has no thread of its own, in turn, for ever.
  Commands, publications from leaf to leaf and timers noticed by polling all
  happen inside one of these calls.  Some of them block: `ipConnect` over WiFi
  waits for the station to join and may wait in a portal for a user,
  `pubsubConnect` sleeps, a modem client waits for an answer to its AT command.
* **Leaves with `own_loop`** run in a FreeRTOS task (`leaf.h:658`).  They
  publish directly, in parallel with the loop task, and nothing locks what they
  share with it.
* The **WiFi event task**, the **AsyncTCP task** and the **Ticker task** of the
  chip's libraries call back into leaves.  Most callbacks only set a flag or
  queue an event which the loop task looks at once per pass.

### Components

| component | state | operations | hard because | correct when |
|---|---|---|---|---|
| MQTT connection: `abstract_pubsub.h`, `leaf_pubsub_mqtt_esp.h` | connected, connecting, notified and due flags, retry timer, attempt counter, event queue, client | callbacks of AsyncMqttClient, a `loop()` of four sections, timer, `pubsub_connect`, `pubsub_disconnect`, `pubsub_clean`, stop, start, news of the IP leaf | three tasks share flags; events are queued, and dropped when the queue is full; attempts time out and are answered late | the flag follows the client; an offline leaf always has something under way; the watchdog reboots in time; topics are subscribed in every session |
| MQTT publishing: the same files | the send queue | publish, queue, flush, drop, sleep | two tasks on one queue without a lock, functions that call each other, a limit | a message is sent once or lost, never both or neither; the oldest goes first |
| WiFi: `abstract_ip.h`, `leaf_ip_esp.h` | known state, connected and notified flags, retry timer, attempt counter | WiFi events, blocking attempts, a portal, retries, commands | events overtake blocking calls that write the same variable; states are compared once per pass | no link that is gone is believed in; the other leaves hear the truth; a network that stays is used |
| TCP clients: `leaf_tcpclient.h`, `abstract_ip.h`, `ip_client_wifi.h`, `ip_client_sim7080.h` | connected flag, client pointer, retry time, eight client slots | connect, disconnect, retry, news of the IP leaf, callbacks | a slot is owned by whoever points to it; attempts are pending while the leaf does other things | the session announced is the client held; no slot is lost; retries go on |
| Preferences: `abstract_storage.h`, `leaf_fs_preferences.h` | settings in memory, a file, its backup, a temporary file | set, clear, save, load, boot | a reset between two calls of the file system, a call that fails | no torn file; the last save survives; a failed save reverts |
| Leaves: `leaf.h`, `stacx.h`, `abstract_pubsub.h` | run, started and inhibit flags, taps, tasks | setup, start, stop, restart, inhibit, enable, disable | who is called after it was stopped; what a reboot remembers | no leaf is called before its setup; a setting survives a reboot and decides who carries the communications |
| IP over a modem: `trait_modem.h`, `abstract_ip_modem.h`, `abstract_ip_lte.h`, `abstract_ip_simcom.h`, `leaf_ip_simcom_sim7080.h` | present, connected, retry and probe timers, position search; the modem's power, link and receiver | AT commands, lines said unasked, power key, reboots, chain of `ipConnect` | every command throws away what was said unasked; one radio serves IP and the position; each of four classes may refuse an attempt | a lost link is known; an offline leaf has something coming; coverage is used |
| MQTT over a modem: `abstract_pubsub_simcom.h` on `abstract_pubsub.h` | as MQTT, and the session and subscriptions in the modem, the lock on its port | connect, reuse, publish, subscribe, sleep, update, and SMS, TCP, file and FTP transactions on the same port | the modem outlives the device's resets; a transaction of several steps may stop at each; publishing may connect | the lock comes back; no leaf is stranded; a session has its subscriptions; the broker is heard again |
| The rest | see `PROJECT.json` | sensors, displays, outputs, inputs, radios, camera, shell, Modbus, applications | little: registers, arithmetic and wiring | |

### How they interact

* The IP leaf publishes `_ip_connect` and `_ip_disconnect` to its taps, from its
  `loop()`, when `ip_connected` differs from `ip_connect_notified`.  The MQTT
  leaf and the TCP leaves connect when they hear the first.  The TCP leaves act
  on the second, and so does the MQTT leaf of the modem, which counts itself as
  disconnected (`abstract_pubsub_simcom.h:184`); the one over WiFi does not.
* The MQTT leaf publishes `_pubsub_connect` and `_pubsub_disconnect` likewise.
  Every publication of every leaf goes through its `_mqtt_publish`, in the task
  of the leaf that publishes.
* Commands arrive over MQTT or the shell in the loop task, and `setValue`
  writes through to the preferences leaf, in the task that calls it.
* A reboot (`leaf.h:758`) starts everything again but the flash and the world.

## The modules

| module | models | abstract specification |
|---|---|---|
| `PubsubEsp` | the MQTT connection | |
| `SendQueue` | the way of a published message | `Outbox` |
| `IpWifi`, `MCIpWifi` | the WiFi station and its announcements | |
| `TcpClient` | TCP leaves, client slots, both kinds of client | |
| `Preferences`, `MCPreferences` | settings on flash | |
| `Comms`, `MCComms` | which leaves run and carry the communications | |
| `ModemIp`, `MCModemIp` | IP over a SIM7080 modem | |
| `ModemPort` | the lock on the modem's port and the transactions that take it | |
| `PubsubSimcom`, `MCPubsubSimcom` | MQTT in the modem, composed with `ModemPort` | |
| `PubsubEspProofs` | theorems about `PubsubEsp` | |
| `SendQueueProofs` | theorems about `SendQueue`, the refinement of `Outbox` among them | |
| `IpWifiProofs` | theorems about `IpWifi` | |
| `TcpClientProofs` | theorems about `TcpClient` | |
| `PreferencesProofs` | theorems about `Preferences` | |
| `CommsProofs` | theorems about `Comms` | |
| `ModemIpProofs` | theorems about `ModemIp` | |
| `PubsubSimcomProofs` | theorems about `PubsubSimcom` and `ModemPort` | |

Each module opens with what it abstracts and leaves out.  They share a form: one action per
callback, command or section of a `loop()`; a variable that says which section
the loop task runs next, so that callbacks of other tasks fall between any two;
history variables, marked as such, that no action reads; the world as actions
whose number a bound limits.  `PROJECT.json` gives the lines each definition
stands for.

### PubsubEsp

`pc` is the section of `AbstractPubsubLeaf::loop` to run next: the heartbeat
check (`LoopHeartbeat`), the retry (`LoopReconnect`), the notification
(`LoopNotify`), the event (`ProcessEvent`).  `pubsubConnect` is `Connect`, an operator because
four callers share it, and it blocks in `dial_loop` or `dial_cmd` for the
`delay(500)` of the code, during which the AsyncTCP task goes on.  `ScheduleReconnect`
includes the watchdog that reboots after `AttemptLimit` attempts.
`ClientUp`, `ClientFails`, `ClientDrops`, `ClientClosed` and `ClientAck` are
AsyncMqttClient, an external library, modelled by the callbacks the leaf
registers: each changes the client and puts an event on `event_queue`, or drops
the event when the queue is full, as `eventQueueSend` does.

The IP leaf is reduced to the two announcements it makes.

### SendQueue and Outbox

`_mqtt_queue_publish` and `flushSendQueue` call each other: a publisher that
finds the queue full takes out the oldest message and publishes that, which may
find the queue full again.  `hand[t]` is that recursion as a stack.  Between
`uxQueueSpacesAvailable` and the send, another task may take the last place, so
these are two actions.  `always_queue` is a setting a command may
change at any time (`CmdAlwaysQueue`).  `Outbox` says what the other leaves rely
on: a message taken is sent once or lost once.  `OutboxKept` checks that `SendQueue`
implements it, with everything in the queue or in a hand as "pending".

### IpWifi

`known` is `ip_wifi_known_state`, written by the event task (`DeliverEvent`)
and by `ipConnect` (`Records`).  `LoopRecognise` compares it with
`ip_connected` once per pass, `LoopNotify` compares that with what was
announced.  `Joins`, `DialFails`, `SetupFails` and `PortalTimesOut` are the
ways out of the blocking `ipConnect`.  A device that falls back to LTE
(`ip_wifi_fallback_lte`, off by default) is left out.  The build options that decide what a
failed attempt leads to are a record chosen initially, so that one run covers
every such device.

### TcpClient

The leaf learns what became of its client by comparing `connected()` with its
own flag (`LoopNotice`), and retries in the second half of `loop()`
(`LoopRetry`).  `Connect` is `connect()` with `tcpConnect`; over WiFi it leaves
the attempt pending, over a modem it is settled when it returns.  `slots` is
`ip_clients`, each slot holding the state of its client.  `hear` is the set of
leaves that have yet to receive an announcement.  A command that dereferences a
NULL client is a crash followed by a reboot (`Disconnect`, `Reboots`).

### Preferences

`save()` is `SaveBackup`, `SaveOpen`, `SaveWrite`, `SaveVerify` and
`SaveRevert`, one action per call of the file system it depends on, each with
its failure; `Reset` may come between any two.  LittleFS is external: a rename
replaces its target and survives a reset.

### Comms

`leaf` holds, for each leaf, whether it may run, was set up and was started, and
the IP and pubsub leaf it uses.  A boot is `Booted`: what the declaration and
the preferences allow (`Allowed`), the `setup()` of each leaf in the order of
the table, the choice of the application (`Chosen`), the `start()` of each.
Commands change one leaf (`LeafStart` and its kin) or a setting (`SetUse`),
whose handler starts and stops leaves.  Everything runs in the loop task, so
each is one step; what can go wrong is the order of commands and boots.
The two passes over the table, of `setup()` and of `start()`, are `SetUpAll` and `StartAll`:
each call changes its own leaf and asks of the others only who may run, which
the first pass leaves alone and the second does not ask, so that the order of
the table matters to `FindType`, the first leaf found, and to nothing else.
A device is its table and the leaves declared without `inhibit()`; `enable`
holds the preferences `NAME_leaf_enable`.

### ModemIp, ModemPort and PubsubSimcom

On the modem one task does everything, but what it does goes deep: a section of
the loop calls `ipConnect`, which probes the modem, which finds it and calls
`onModemPresent`, which asks about the receiver, and every question may be
answered, garbled or refused.  So the state of the leaf and of the modem is one
record `m`, and a function of the code is an operator of the same name that maps
a record to the set of records the call may leave; `Each` composes them, `ok` is
what the call returned.  An action is a section of the loop (`Turn`), a command,
a timer, or the world; `at` is the section that comes next.

`ModemIp` follows `ipConnect` through `AbstractIpSimcomLeaf`, `AbstractIpLTELeaf`
and `AbstractIpModemLeaf`.  `Flush` is `modemFlushInput`, which throws away the
lines the modem said unasked, as every command does; `missed` remembers that one
of them told of the loss of the link.  There is no limit on attempts
(`ip_lte_connect_attempt_max` is 0, as by default).

`ModemPort` has the lock and its transactions.  `Transaction` gives the lock
back, and calls that do not (`Leaks`) are written out with the early returns of
the code.  `PubsubSimcom` extends it with the session the modem holds: `session`
and `subscribed` are the modem's, `connected` and `notified` the leaf's.  Of the
IP leaf it has the announcement, the reading of lines and `ipLinkStatus`.

## What is checked

"Bounds" names the constants that keep the instance small.

| run | question | bounds |
|---|---|---|
| `pubsub_online` | does the flag follow the client, is no leaf stranded, no session without topics, does the watchdog come in time? does the device end up online with its topics when the disturbances end? | 4 event slots (so that two sessions' events overflow it), 1 topic, limit of 3 attempts, 3 disturbances; a retry interval longer than an attempt, and one that is not |
| `pubsub_stop` (violated) | does the deliberate disconnection of `stop()` arm no retry? | as above, 1 disturbance, no watchdog |
| `sendq_outbox` | is every message sent once or lost once? does the queue drain, a flush end? | loop task and one other, queue of 1, 3 messages, flushes of 0 (all), 1 and 2 messages, `pubsub_always_queue` off, on and changed on the way: a full queue, a second overflow inside the first, and both tasks inside it |
| `sendq_overflow` (violated) | is the message dropped the oldest? | loop task alone, queue of 2, 4 messages |
| `wifi_online` | is no lost link believed in, do announcements become true, is the network used in the end? | 10 kinds of device, 3 events on their way, 2 changes of the world or commands |
| `wifi_flap` (violated) | do the attempts go on while offline? | as above, the common device, no commands |
| `tcp_online` | is the session announced the client held, is no slot lost, does a leaf get online? | 2 leaves, 3 slots (fewer than leaves and forgotten clients together), 1 fault, 2 commands (a leaf stopped and started) |
| `tcp_retry` (violated) | is a leaf without a connection retried? | as above over WiFi, no commands |
| `prefs_save` | do the settings survive resets and failing calls? | 2 settings, 2 values, 3 faults, 3 edits: a failure, a failure of its recovery, and a reset |
| `comms_choice` | are leaves set up before they are started, does a setting hold over boots, has each transport the role the settings give it? | 5 leaf tables (each transport missing once, WiFi declared to run), LTE on by default, 5 commands or boots: a setting changed, a boot, another changed, a leaf started by hand, a boot |
| `modem_online` | is a lost link known, is no leaf stranded, is coverage used? | 3 devices (one with all defaults, which searches for its position and makes no reports; one that reports and does not search; one without key and probe), 1 fault, 1 command, 1 line waiting, limits of 2: a modem absent, probed twice, rebooted |
| `simcom_online` | does the lock come back, is no leaf stranded, has a session its subscriptions, is the broker heard again? | queue of 2 (messages that wait when the session is lost while they are sent), 1 line waiting, 2 faults (a session lost and an answer garbled), 2 commands |

Bounds on disturbances and faults limit how often the *environment* interferes in
one behaviour, not how long the behaviour is: retries, passes of the loop and
answers of the network are unlimited.  `Comms` has no environment: its bound is
on the commands themselves, and what one command leaves behind shows after the
next boot or the next command of the same kind.  The races found all need two or three
interferences.

Every property is also run against a mutant, a definition changed the way a
plausible bug would change it, and fails there.

### Violations

These are disagreements between the code and what it says of itself.

* **A deliberate stop arms a retry** (`pubsub_stop`).  The comment on
  `pubsubDisconnect(true)` in `stop()` says "deliberate disconnect, no
  reschedule" (`abstract_pubsub.h:468`).  Nobody looks at that argument; the
  DISCONNECT it causes is an event like any other, and if it is queued by the
  time `stop()` makes its own pass of `loop()`, that pass schedules the retry.
* **Overflow drops a newer message** (`sendq_overflow`).  While the oldest is in the hand of
  the publisher that made place for it, a later one may be lost first.
* **A flap leaves no retry** (`wifi_flap`).  A link that comes up and falls between two
  passes leaves `ip_wifi_known_state` equal to `ip_connected`, and neither
  handler runs.
* **A refused pending attempt is not retried** (`tcp_retry`).  Over WiFi
  `connect()` returns before the answer; a refusal changes nothing the leaf
  compares.

### Properties with exceptions

A property that excuses a state names it, and the state is a real behaviour of
the code:

* `event_lost`: `event_queue` was full and dropped a CONNECT or DISCONNECT.
* `raced` in `NoGhostLink`: `ipConnect` recorded a link that fell while it was
  waiting for the clock.
* `Stuck` and `Exhausted` in `TcpClient!OnlineInTheEnd`: the violation above,
  and slots lost because `connect()` overwrites the pointer to a pending client
  (`leaf_tcpclient.h:227`).
* `hidden` in the same property: a TCP leaf's `ipLinkStatus(true)` set
  `ip_connected` back to what was announced before the IP leaf looked, so that
  the reconnection left to the announcement ("we will do that instead when the
  IP link comes back", `leaf_tcpclient.h:187`) is not made.
* `Endless` in `SendQueue!QueueDrains` and `FlushEnds`: a flush of all messages
  (`pubsub_sendq_flush 0`) while the device is offline, or with
  `pubsub_always_queue`, takes out and queues again what it took out, for as long
  as that lasts (`abstract_pubsub.h:854`).  Counted flushes, and a flush of all
  messages otherwise, are held to their end in every setting.
* `ahead` in `Preferences!ResetIsHarmless`: a save failed and its change is in
  memory only, or `prefs_load` was given the backup.  A command that changed a
  setting without saving it is *not* excused.
  A setting that was cleared comes back at boot when the constructor has a default
  for it, and the property says so.
* `cut` and `no_backup` in `Preferences`: `save()` returns early when `.tmp`
  cannot be opened (`leaf_fs_preferences.h:276`), and goes on when the backup
  could not be made.
* `by_hand` in `Comms!ModemIsModem`: a command or preference of the user set up
  or started `ltemqtt` by itself, and it took whatever IP leaf the device uses
  for its modem (`abstract_pubsub_simcom.h:116`).  The same happens at boot on a
  device whose table declares `ltemqtt` to run without `inhibit()`, or has it
  without the LTE leaf beside it; no such device is promised anything.
* `temporary` in `Comms!SettingKept`: "set wifi" (`abstract_app.h:123`) changed
  the variable that `app_use_wifi` saves, so that the setting looked unchanged.
* `slow_timer` in `PubsubEsp!EventuallyOnline`: the retry interval outlasts an
  attempt.  A retry leaves an attempt in progress alone, but with a shorter
  interval it may fall, again and again, between the client's answer and the loop
  noticing it, and then closes the session that was just made.
* `missed` in `ModemIp!LossIsKnown`: the line that told of the loss was thrown
  away with the answer to another command.  `OnlineInTheEnd` shows that the
  status report puts it right: `OnlineInTheEnd` is about devices that make one,
  and `ip_report_interval_sec` is 0 by default (`abstract_ip.h:47`).
* `ModemIp!NeverStranded` and `OnlineInTheEnd` are about devices that probe for
  their modem and do not search for a position (`Plain`), and not about one that
  a command told to hang up or to use its receiver (`asked`).  The search is on by
  default (`ip_enable_gps`, `abstract_ip_lte.h:13`): an attempt that the search
  refuses is not repeated by the attempt itself, and whether the end of the search
  makes another depends on how it ends.  A device without
  `ip_enable_gps` searches all the same if the member `year`, which nothing ever
  sets, happens to hold 2022 or more: `parseNetworkTime` then checks the location
  (`abstract_ip_lte.h:1125`), which drops IP, and detaches the retry timer when the
  modem answers nothing.  `Plain` excludes that outcome of the uninitialised read.
* `leaked` in `PubsubSimcom!PortReturned`: `modemReadFile` keeps the lock always
  (`abstract_ip_simcom.h:222`), FTP after a login that was refused (line 445)
  and after "FTP data fetch failed" (line 651).
* `given_up` in `PubsubSimcom!NeverStranded`: nobody looks at the result of the
  attempt that `_ip_connect`, `start` and the commands make.
* `aside` and `reuse` in `PubsubSimcom!SubscribedWhenSettled`: `_mqtt_publish`
  opened the session again without subscribing, a subscription was refused (it
  is not repeated), an update unsubscribed and its disconnection was refused,
  or a session was reused whatever it is subscribed to.
* `hung` in `PubsubSimcom!HeardInTheEnd`: the loops below that do not end, which
  are the send queue of a session lost on the way, and FTP with a bearer that is
  open already or refused a second time.
* `lte_off` is cleared when a command starts an LTE leaf or a boot permits one,
  and not set by `set app_use_lte off`, which is saved but has no handler (below).

### Fairness

* `PubsubEsp`: weak fairness of every section of the loop task, of the timer and
  of the client's own steps (TCP completes, fails or closes in the end; FreeRTOS
  runs every task), strong fairness of the IP leaf's announcement and of
  `leaf_start`, which come between passes of the loop.  Failures are fair only
  when the network is gone.
* `SendQueue`: weak fairness of each task's publication, of one step of a flush
  and of the connection; strong fairness of the sections of `loop()`, enabled
  once per pass only.
* `IpWifi`: weak fairness of the loop, timer, event task and portal timeout;
  strong fairness of a join in range, as an attempt repeated for ever succeeds
  some day.
* `TcpClient`: strong fairness of the sections of each leaf's and of the IP
  leaf's `loop()`, weak fairness of the timer and of the client's answers.
* `ModemIp`: weak fairness of the loop and of the timers, strong fairness of the
  status report, which is due in some passes only.
* `PubsubSimcom`: weak fairness of the loop, of the retry timer and of the
  silence of a broker that sends no heartbeat; strong fairness of the IP leaf
  finding out about its link, which happens between two passes.  None of the
  broker's or the network's own steps.

No fairness is assumed of commands (but for `leaf_start`, without which a
stopped leaf stays stopped), of faults, or of a user at the portal.

## What is proved

TLAPS checks these for every value of the constants: any number of topics,
leaves, slots, tasks, messages, faults and commands, any limit, every option of
a device.  The assumptions are those named in the modules (`PubsubAssumption`,
`SendQueueAssumption`, `IpAssumption`, `TcpAssumption`, `PreferencesAssumption`,
`CommsAssumption`, `ModemAssumption`, `PortAssumption`, `SimcomAssumption`);
they say that sizes are natural numbers, options Booleans and devices records of
options, and that no leaf is twice in a table.

The shape is the same throughout: the invariant of the run, a strengthening
that says why it holds, one lemma per operator that several actions share, one
step per action.  Type correctness comes first where it is needed.

### MQTT over WiFi

* `PubsubEspProofs!TypeCorrect`: `Spec => []TypeOK`, inductive as it stands.
* `FlagFollowsClient`: `Spec => []FlagAgrees`.  `FlagAgrees` speaks of a queue
  without connection events and is not inductive.  `FlagInv` adds what holds
  while events wait: the last CONNECT or DISCONNECT in the queue tells the state
  of the client.
* `RetryIsArmed`, `WatchdogIsInTime`: `Spec => []NeverStranded` and
  `Spec => []WatchdogInTime`.  One argument carries both, `RetryInv`: the section
  that consumed the news of the loss armed the retry and looked at the counter, and whoever takes the retry dials or arms the next.  It needs
  `FlagInv`, without which an attempt could end unnoticed.
* `SettledIsSubscribed`: `Spec => []SubscribedWhenSettled`.  A session would be
  announced unsubscribed if a CONNECT met a flag still set by the session before.
  `Alternates` excludes it: between two CONNECTs in the queue there is a
  DISCONNECT.  `Compared` says that `notified` is up to date when the next event
  is taken.

### The send queue

* `SendQueueProofs!TypeCorrect`: the queue keeps to its size although no lock
  joins `uxQueueSpacesAvailable` to the send.
* `MessagesAccounted`: `Spec => []Accounted`.  It is inductive with `HandInv` (a
  task at rest has nothing in hand), and taken apart so that a step is judged by
  the message it moves: `Single` (no sequence holds a message twice), `PlacedAt`
  and `ApartAt` (where a message is, for each message).
* `QueueIsOutbox`: `Spec => OutboxKept`, that is, `SendQueue` implements
  `Outbox` under the mapping of `Promise`.  The initial states map to initial
  states; each step is a step of `Outbox` or a stutter.  `MessagesAccounted` is
  what makes a message that leaves the queue or a hand leave "pending".

### WiFi, TCP clients

* `IpWifiProofs!TypeCorrect`: `Spec => []TypeOK`.
* `NoGhosts`: `Spec => [](~OwnPortal => NoGhostLink)`.  `GhostInv`: while the
  link is down the last event on its way is DISCONNECTED, or the mistake is in
  the section that is about to record it.  `OwnPortal`, a leaf with a thread of
  its own and the portal, is excepted: there a portal that timed out is recorded
  as a connection, as below under "Known to fail", and the runs leave such a
  device out.
* `TcpClientProofs!TypeCorrect`, `SessionsAgree` (`SessionIsClient`) and
  `SlotsBalance` (`NoSlotLost`).  The invariants are inductive together with
  `ModemHolds`: over a modem a leaf has a client in hand exactly while it is
  connected.

### Preferences, settings

* `PreferencesProofs!NeverTorn`, `LastSaveStays`, `FailureReverts`: the
  strengthening is `IInv`: `Counted` ties the section to the number of saves
  left, `StandIn` says that while the file is missing in the middle of a save
  its backup stands in for it, `Written` that a complete temporary file holds
  what is in memory.
* `ResetKeepsSettings`: `Spec => []ResetIsHarmless`, inductive beside `IInv`.

### Leaves and their communications

* `CommsProofs!SettingsStay`: `Spec => []SettingKept`, for every leaf table.
  `UseIsSaved` is the reason: the variable in memory is what is on flash, or was
  lent to "set wifi", so that a value that is no change need not be saved.
* `TypeCorrect`, `StartedWasSetUp`, `ModemStaysModem`, `LteStaysOff` and
  `RolesAreSaved`: the five invariants of the leaves, for every set of tables.
  The calls are operators on the state of all leaves.  `SetUpIs`, `StartIs`,
  `StopIs`, `SetCommsIs`, `SetServiceCommsIs` and their kin say what each makes
  of its own leaf and that it leaves the others (`Only`); the rest of the proof
  uses nothing else of them.  The invariant is `LeafInv`.  `StartedIsSetUp` holds
  because of `Ready`: whoever *may run* was set up, too.  `LteOffStays` needs
  `OffIsSaved`, that LTE turned off is off on flash, so that the next boot does
  not choose it, and that in turn `SettingsInv`.  `ModemIsModem` needs
  `NotPermitted`, that no preference has `ltemqtt` set up before the choice.
* `RolesAreSaved` is about boots, and so its argument is the boot from start to
  end: `AllSetUp` (nobody but who is allowed can run, and the app found an IP
  leaf only if one can), `CastIs` (the choice casts the leaves, one case for each
  answer of the settings), `RolesIs` (starting them changes no role).  That
  `FindType` finds something when there is something (`FindTypeNone`) rests on
  the well-foundedness of `<`.

### IP over the modem

* `ModemIpProofs!TypeCorrect`: `Spec => []TypeOK`, for all limits and lengths of
  the input.
* `LossStaysKnown`: `Spec => []LossIsKnown`.  A call may throw away lines several
  levels below the one that looks at the link.  So `Known` is claimed not of the
  states between sections but of every record a call leaves, and each lemma says
  that its call keeps it (`Calm`).
* `RetryIsComing`: `Spec => []NeverStranded`.  `NeverStranded` is not inductive:
  a leaf that has not been started has nothing coming and need not (`Hopes`
  has that case), and an attempt refused because the receiver is on is not
  repeated, so that `Quiet` must exclude it.  The calls fall in three kinds:
  those that keep what was armed (`Keeps`), those that arm something however they
  end (`Dials`), and questions that may find the modem gone (`Answers`).  The
  lemma of `ipConnect` goes through its four classes from the inside out.

### MQTT over the modem

* `PubsubSimcomProofs!TypeCorrect`: `Spec => []TypeOK`, for every queue size.
* `LockComesBack`: `Spec => []PortReturned`.  A call is an operator on records,
  so the proof goes from call to call: bare calls leave lock and history alone
  (`Same`), transactions begin and end with the lock free or known to be leaked
  (`Clear`).  The loop that sends what waited is a recursive function on the
  length of the queue.  That it has a value for every length cannot be shown with
  the library's induction theorems, which take an operator; a least
  counterexample (`NoLeastNone`, from the well-foundedness of `<`) stands in for
  them.
* `RetryIsArmed`: `Spec => []NeverStranded`, and `SettledIsSubscribed`:
  `Spec => []SubscribedWhenSettled`, by the same lemmas.  `Armed` and `Settled`
  are the invariants said of any record; what is hard is that a publication may
  connect in the middle of a call that has something else in mind.  `Kept` says
  what every call does to both: a leaf with a retry armed or a connection keeps
  one of them, a session with its subscriptions keeps those or is known not to.
  `Attempted` is what an attempt leaves before its caller has looked at the
  result.

### Only model-checked

* All liveness: TLAPS has no reasoning about fairness here.  It is nine
  properties: `OfflineEnds`, `EventuallyOnline`, `QueueDrains`, `FlushEnds`,
  `NewsArrives`, `HeardInTheEnd` and `OnlineInTheEnd` of three modules.
* The violations, which are single behaviours.

Every invariant and action property of the passing runs is proved.

## Known to fail, without a run

Met while modelling; nothing promises the contrary in writing, or the promise
is too vague to state.

* MQTT: a heartbeat watchdog that expired while offline closes the next fresh
  connection (`abstract_pubsub.h:695`); a retry that falls due after a session
  was made closes it, as `pubsubConnect` looks at `mqttClient.connected()` alone
  and takes whatever is connected for stale (`leaf_pubsub_mqtt_esp.h:504`): such
  a retry is left when a command connects between the news of the time source,
  which makes one due, and the next pass, or when the timer armed by one
  `_ip_connect` outlives the session made meanwhile; `pubsub_sendq_flush 0` does
  not end while offline (`abstract_pubsub.h:854`); the sleep command does nothing while offline
  (`leaf_pubsub_mqtt_esp.h:692`); the presence message is lost when the queue
  is full (`leaf_pubsub_mqtt_esp.h:541`); with `pubsub_always_queue` a flush
  queues again what it takes out.
* WiFi: the attempt limit is passed by a retry already due
  (`abstract_ip.h:266`); with `own_loop` a portal that timed out is recorded as
  a connection (`leaf_ip_esp.h:1165`); the portal of a device with several
  networks has no timeout (`leaf_ip_esp.h:1139`); a build without
  `IP_WIFI_USE_AP` does not retry (`leaf_ip_esp.h:625`); `ip_disconnect` leaves
  the link up (`abstract_ip.h:258`); a stopped WiFi leaf goes on
  (`leaf_ip_esp.h:452`).
* TCP: `disconnect` without a client dereferences NULL
  (`leaf_tcpclient.h:250`); its retry interval is overwritten by
  `onTcpDisconnect`; `_ip_connect` connects a stopped leaf.
* Preferences: a reset between the two renames leaves no file, and nothing
  reads the backup; a setting that was cleared comes back at boot when the
  constructor has a default for it.
* IP over a modem: after a position search that found none the next begins in
  the next pass, although the log says when "Location refresh will occur"
  (`abstract_ip_lte.h:114`); a receiver left on after a fix has no time limit;
  `ipConnectFast` says "IP Aborting connect until modem reboot completes" and
  `ipConnect` goes on to `ipConnectCautious`, so that the next pass reboots the
  modem under a connection; a modem lost during a search has nothing scheduled;
  `pin_power` is assigned to itself (`trait_modem.h:193`) and never set; `year`
  of the network time is read before anything sets it; the commands of the
  receiver ignore `ip_enable_gps`; a late loss report arms a retry after a
  deliberate disconnection; the probe limit "(0=never)" (`abstract_ip.h:433`) is
  compared with `>=` and reboots at once (`abstract_ip_modem.h:117`).
* MQTT over a modem: the attempt at `_ip_connect` is not repeated if it fails
  (`abstract_pubsub_simcom.h:178`); if the session is lost while what waited is
  sent, the loop that sends puts back what it takes and does not end
  (`abstract_pubsub.h:670`); `modemBearerBegin` with a bearer that is open asks
  for ever (`abstract_ip_simcom.h:361`), and one that is refused again after it
  was closed is tried for ever, as `retry` stays 1 (line 385); an FTP
  login that was refused leaves
  it open; a refused FTP channel closes the wrong bearer (line 427); while the
  lock is not given back the device hears nothing; `AT+SMDISC` refused leaves the
  leaf connected; the code that revives IP (line 266 of
  `abstract_pubsub_simcom.h`) cannot be reached; `modemInstallCert` takes the
  result of the comparison the wrong way round and turns `ip_enable_ssl` off.
* Leaves: `leaf_enable` writes a preference whose name lacks the underscore the
  reader expects (`abstract_pubsub.h:1152`); a leaf disabled by a preference is
  started all the same when the application chooses it (`stacx.h:1089`);
  `set app_use_wifi` and `set app_use_lte` act at the next boot only, as the
  handler compares with `use_wifi` and `use_lte` (`abstract_app.h:443`); WiFi
  turned off and on leaves MQTT stopped (`abstract_app.h:491`); with LTE turned
  on at run time, `wifimqtt` too uses the LTE leaf (`abstract_app.h:471`).

## Not modelled

`PROJECT.json` lists every component with its reason.  In short: sensors,
displays and outputs are registers and arithmetic; radios, Bluetooth and camera
wrap libraries; the shell and the dispatch of commands match strings.  Leaves
with a task of their own, Modbus and the timers of actuators are protocols and
are on the plan.  Of leaves with a task of their own, reading shows what a model
would have to take as undefined: the response buffer of the modem is used
without its lock (`trait_modem.h:1198`), and whoever breaks a deadlock gives
back a mutex another task holds, which FreeRTOS asserts against.

## Plan

1. Done: the MQTT connection and queue, WiFi, TCP clients, preferences, the
   choice of communications (`Comms`).
2. Done: IP over the modem (`ModemIp`), the lock on its port (`ModemPort`), MQTT
   in the modem (`PubsubSimcom`).
3. Timers and counters: actuators, lock, pulse counter, Modbus poll cycle.
4. Done: proofs of the safety of every module that has a run, with the
   refinement of `Outbox` by `SendQueue`.  Left: an abstract specification of a
   connection (announced, lost, retried) that `PubsubEsp` and `PubsubSimcom`
   both implement.

At most two runs per new module: one that passes, with safety and liveness
together and the options of the device chosen initially, and one that fails
where the code contradicts its documentation.
