------------------------------- MODULE ModemIp -------------------------------
(***************************************************************************)
(* IP over the cellular modem: the loop and the commands of the leaf that  *)
(* AbstractIpLeaf, AbstractIpModemLeaf, AbstractIpLTELeaf,                 *)
(* AbstractIpSimcomLeaf and IpSimcomSim7080Leaf make together, and         *)
(* TraitModem's dialogue with the modem.  The SIM7080 has one radio: while *)
(* the receiver looks for a position there is no IP.                       *)
(*                                                                         *)
(* The leaf runs in one task, a pass of its loop is a sequence of sections *)
(* (at), and the calls a section makes go deep into each other; so m is    *)
(* one record, what the leaf remembers and what the modem is, and a call   *)
(* is an operator that maps a record to the set of records it may leave;   *)
(* m.ok is what the call returned.  Every command first throws away what   *)
(* the modem had said unasked (modemFlushInput).                           *)
(*                                                                         *)
(* Abstractions: times are flags that come true some time later, and what  *)
(* the loop does every few seconds it does every pass; the counters run to *)
(* their limits.  The leaf is the primary one and has no thread of its     *)
(* own; ip_reconnect, ip_autoconnect, a reconnect interval > 0,            *)
(* ip_abort_no_signal, ip_enable_sms and ip_modem_use_urc are as by        *)
(* default, and so is ip_lte_connect_attempt_max, 0: a leaf with a limit   *)
(* gives up when it is reached, which is left out.  The modem reports      *)
(* every loss of its link.                                                 *)
(***************************************************************************)
EXTENDS Naturals, Sequences

CONSTANTS
  Options,          \* settings and wirings considered
  Threshold,        \* ip_modem_connectfail_threshold
  ProbeLimit,       \* ip_probe_limit
  Lines,            \* bound on the unsolicited lines waiting in the UART
  Faults, Commands  \* bounds on what goes wrong and on what the user does

\* use_gps: ip_enable_gps; report: ip_report_interval_sec > 0; key: a pin
\* presses the key of the modem; configure: wake_reason is "poweron"; year:
\* what the member year holds, which nothing ever sets, is >= 2022.
OptionRecords ==
  [autoprobe: BOOLEAN, use_gps: BOOLEAN, initial_gps: BOOLEAN,
   report: BOOLEAN, key: BOOLEAN, configure: BOOLEAN, year: BOOLEAN]

ASSUME ModemAssumption ==
  /\ Options \subseteq OptionRecords
  /\ Threshold \in Nat \ {0, 1} /\ ProbeLimit \in Nat \ {0}
  /\ Lines \in Nat \ {0} /\ Faults \in Nat /\ Commands \in Nat

VARIABLES
  opt,              \* the settings of this device
  m,                \* the leaf and the modem
  at,               \* the section of the pass that comes next
  commands          \* commands left

vars == <<opt, m, at, commands>>

Reports == {"deactive", "active", "rdy", "psuttz"}
Losses  == {"deactive", "rdy"}

\* The leaf: present, connected, notified, needs_reboot, probe_due,
\* probe_timer, due and timer (the retry), first, gps_active, gps_fix, waited
\* (the time limit for a fix has passed), stale (the location is too old) and
\* run are variables of the source.  attempts is the count of failed attempts,
\* Threshold at its multiples; reinit: a reboot was asked for at this count.
\* The modem: power, dead (no key starts it), link, gps, urc, and the coverage
\* around it.  History: missed, a line that told of the loss of a link the
\* leaf believes in was thrown away; asked, a command of the user stopped
\* something.
State ==
  [present: BOOLEAN, connected: BOOLEAN, notified: BOOLEAN, run: BOOLEAN,
   needs_reboot: BOOLEAN, attempts: 0..Threshold, reinit: BOOLEAN,
   probes: 0..ProbeLimit, probe_due: BOOLEAN, probe_timer: BOOLEAN,
   due: BOOLEAN, timer: BOOLEAN, first: BOOLEAN,
   gps_active: BOOLEAN, gps_fix: BOOLEAN, waited: BOOLEAN, stale: BOOLEAN,
   power: BOOLEAN, dead: BOOLEAN, link: BOOLEAN, gps: BOOLEAN,
   urc: Seq(Reports), coverage: BOOLEAN,
   missed: BOOLEAN, asked: BOOLEAN,
   faults: 0..Faults, ok: BOOLEAN]

Sections == {"probe", "reboot", "connect", "announce", "initial", "urc", "gps", "sms"}

TypeOK ==
  /\ opt \in Options
  /\ m \in State
  /\ at \in Sections
  /\ commands \in 0..Commands

Init ==
  /\ opt \in Options
  /\ \E power, coverage, run \in BOOLEAN :
       m = [present |-> FALSE, connected |-> FALSE, notified |-> FALSE, run |-> run,
            needs_reboot |-> FALSE, attempts |-> 0, reinit |-> FALSE, probes |-> 0,
            probe_due |-> run /\ opt.autoprobe, probe_timer |-> FALSE,
            due |-> FALSE, timer |-> FALSE, first |-> TRUE,
            gps_active |-> FALSE, gps_fix |-> FALSE, waited |-> FALSE, stale |-> FALSE,
            power |-> power, dead |-> FALSE, link |-> FALSE, gps |-> FALSE,
            urc |-> <<>>, coverage |-> coverage,
            missed |-> FALSE, asked |-> FALSE,
            faults |-> Faults, ok |-> FALSE]
  /\ at = "probe" /\ commands = Commands

\* What F may leave, started in any of S.
Each(S, F(_)) == UNION {F(s) : s \in S}

Returns(s, ok) == {[s EXCEPT !.ok = ok]}

-----------------------------------------------------------------------------
(* Talking to the modem.                                                   *)

Told(s) == s.connected /\ \E i \in DOMAIN s.urc : s.urc[i] \in Losses

\* modemFlushInput.
Flush(s) == [s EXCEPT !.urc = <<>>, !.missed = @ \/ Told(s)]

\* modemSendExpect: a modem that is on answers, or the answer is garbled.
Ask(s) ==
  Returns(Flush(s), s.power) \cup
  {[Flush(s) EXCEPT !.ok = FALSE, !.faults = f] :
     f \in {g \in 0..Faults : s.power /\ g + 1 = s.faults}}

\* The key is pressed: it starts a modem that was off and can start.
Boot(s) ==
  IF s.power \/ s.dead \/ ~opt.key THEN s
  ELSE [s EXCEPT !.power = TRUE, !.link = FALSE, !.gps = FALSE, !.urc = <<"rdy">>]

-----------------------------------------------------------------------------
(* Retries.                                                                *)

\* AbstractIpLeaf::ipScheduleReconnect, and every Threshold attempts a reboot.
IpScheduleReconnect(s) ==
  LET limit == s.attempts = Threshold /\ ~s.reinit
  IN  [s EXCEPT !.timer = TRUE, !.reinit = @ \/ limit, !.needs_reboot = @ \/ limit]

\* ipScheduleProbe: a timer, or now if one should have fired already.
IpScheduleProbe(s) ==
  {[s EXCEPT !.probe_timer = TRUE]} \cup
  {[t EXCEPT !.probe_due = TRUE] : t \in {u \in {s} : u.probe_timer}}

\* Mutant: the count of failed probes has no limit.
IncrementProbeCountOn(s) == [s EXCEPT !.probes = @ + 1]

IncrementProbeCount(s) ==
  LET n == IF s.probes = ProbeLimit THEN s.probes ELSE s.probes + 1
  IN  [s EXCEPT !.probes = n, !.needs_reboot = @ \/ n = ProbeLimit]

IpOnDisconnect(s) ==
  [IpScheduleReconnect(s) EXCEPT !.connected = FALSE, !.missed = FALSE]

-----------------------------------------------------------------------------
(* The link: IpSimcomSim7080Leaf.                                          *)

\* ipTestLink: a link that does not resolve names has the modem rebooted.
IpTestLink(s) ==
  Returns(s, TRUE) \cup
  {[s EXCEPT !.ok = FALSE, !.needs_reboot = TRUE, !.faults = f] :
     f \in {g \in 0..Faults : g + 1 = s.faults}}

IpGetAddress(s) ==
  Each(Ask(s), LAMBDA t : IF t.ok /\ t.link THEN IpTestLink(t) ELSE Returns(t, FALSE))

\* A garbled answer leaves the leaf without a link that is there.
IpLinkUp(s) ==
  Each(Ask(s), LAMBDA t :
    LET up == t.power /\ t.coverage /\ ~t.gps
        u  == [t EXCEPT !.link = @ \/ up]
    IN  IF ~(t.ok /\ up) THEN Returns(u, FALSE)
        ELSE Each(Ask(u), LAMBDA v : IF v.ok THEN IpTestLink(v) ELSE {v}))

\* The modem says so later too, unless somebody asks it something before; a
\* garbled answer leaves the leaf believing in a link that may be gone.
IpLinkDown(s) ==
  Each(Ask(s), LAMBDA t :
         IF t.ok
         THEN {[t EXCEPT !.link = FALSE, !.urc = u] : u \in {<<>>, <<"deactive">>}}
         ELSE {t, [t EXCEPT !.link = @ /\ ~t.power, !.missed = t.connected]})

\* AbstractIpLTELeaf::ipDisconnect(false): and then the timer is detached.
IpDisconnect(s) ==
  Each(IpLinkDown(s), LAMBDA t :
         {[IF t.ok THEN IpOnDisconnect(t) ELSE t EXCEPT !.timer = FALSE]})

-----------------------------------------------------------------------------
(* The receiver and the clock.                                             *)

GpsOff(s) ==
  Each(Ask(s), LAMBDA t :
         IF t.ok THEN {[t EXCEPT !.gps = FALSE, !.gps_active = FALSE]} ELSE {t})

\* ipEnableGPS: drop IP, and see whether the receiver is on or comes on, which
\* takes the modem offline.
IpEnableGPS(s) ==
  LET Start(t) ==
        IF ~t.ok THEN t
        ELSE [t EXCEPT !.gps = TRUE, !.link = FALSE, !.urc = IF t.link THEN <<"deactive">> ELSE @]
      Look(t, NoFurther(_)) ==
        Each(Ask(t), LAMBDA u :
               IF u.ok /\ u.gps THEN {[u EXCEPT !.gps_active = TRUE]} ELSE NoFurther(u))
  IN  Each(IF s.connected THEN IpDisconnect(s) ELSE {s}, LAMBDA t :
        Look(t, LAMBDA u :
          Each(Ask(u), LAMBDA v :
            {[w EXCEPT !.waited = @ /\ ~w.gps_active] :
               w \in Look(Start(v), LAMBDA w : {[w EXCEPT !.gps_active = FALSE]})})))

\* ipCheckGPS.
IpCheckGPS(s) ==
  IF s.stale THEN IpEnableGPS([s EXCEPT !.gps_fix = FALSE]) ELSE {s}

\* parseNetworkTime: nothing, or the clock is set and the location checked.
ParseNetworkTime(s) == {s} \cup (IF opt.year THEN IpCheckGPS(s) ELSE {})

\* ipOnConnect of AbstractIpLTELeaf and its bases.
IpOnConnect(s) ==
  Each(Ask([s EXCEPT !.connected = TRUE, !.attempts = 0, !.reinit = FALSE]), LAMBDA t :
    Each(IF t.ok THEN ParseNetworkTime(t) ELSE {t}, Ask))

\* ipLinkStatus(true).
IpLinkStatus(s) ==
  Each(Ask(s), LAMBDA t :
         LET status == t.ok /\ t.link
         IN  IF t.connected /\ ~status THEN {IpOnDisconnect(t)}
             ELSE IF status /\ ~t.connected THEN IpOnConnect(t)
             ELSE {t})

-----------------------------------------------------------------------------
(* Is there a modem.                                                       *)

\* Mutant: IP is not tried when the modem is back.
OnModemPresentWaits(s) ==
  Each(Ask(s), LAMBDA t : IF ~opt.use_gps /\ t.ok /\ t.gps THEN GpsOff(t) ELSE {t})

\* A modem found again has its receiver off, and IP is tried.
OnModemPresent(s) ==
  LET Try(t) == {IpScheduleReconnect(t)}
  IN  Each(Ask(s), LAMBDA t :
         Each(IF ~opt.use_gps /\ t.ok /\ t.gps THEN GpsOff(t) ELSE {t}, Try))

Found(s) ==
  IF s.present THEN {s} ELSE OnModemPresent([s EXCEPT !.present = TRUE])

\* modemProbe.  quick: a modem that answers is left alone.  Otherwise its key
\* is pressed, and it is absent until it answers.  silent: no_presence.
QuickProbe(s) ==
  Each(Found(Flush(s)), LAMBDA t : {[t EXCEPT !.ok = TRUE, !.probes = 0]})

FullProbe(s, silent) ==
  LET b == Flush(Boot(IF silent THEN s ELSE [s EXCEPT !.present = FALSE]))
  IN  Each(IF b.power /\ ~silent THEN Found(b) ELSE {b}, LAMBDA t :
             IF t.present THEN {[t EXCEPT !.ok = TRUE, !.probes = 0]}
             ELSE Returns(IncrementProbeCount(t), FALSE))

ModemProbe(s, quick) ==
  IF quick /\ s.power THEN QuickProbe(s) ELSE FullProbe(s, FALSE)

\* ipModemReboot("auto"): by command, or by the key and then a long press of
\* it.  A modem that is busy rebooting may not answer the quick probe, and what
\* it says when it is back may come later.  pin_power is never set.
Restarted(s) == [s EXCEPT !.link = FALSE, !.gps = FALSE]

IpModemReboot(s) ==
  Each(Ask(s), LAMBDA t :
    IF t.ok
    THEN LET r == [Restarted(t) EXCEPT !.urc = <<"rdy">>]
         IN  Each(QuickProbe(r) \cup FullProbe(r, FALSE), LAMBDA u :
                    {u, [u EXCEPT !.urc = <<"rdy">>]})
    ELSE IF ~opt.key THEN Returns(t, FALSE)
    ELSE Each(FullProbe(t, FALSE), LAMBDA u :
                IF u.ok THEN {u}
                ELSE FullProbe([Restarted(u) EXCEPT !.power = FALSE], FALSE)))

\* ipModemPowerOff.
IpModemPowerOff(s) ==
  Each(Ask(s), LAMBDA t : {IF t.ok THEN [Restarted(t) EXCEPT !.power = FALSE] ELSE t})

-----------------------------------------------------------------------------
(* Connecting.  One class after the other may refuse.                      *)

\* AbstractIpModemLeaf::ipConnect.
ModemConnect(s, reason) ==
  Each(IF reason = "reconnect" \/ ~s.present THEN ModemProbe(s, TRUE)
       ELSE Returns(s, TRUE), LAMBDA t :
    IF ~t.ok THEN IpScheduleProbe(t)
    ELSE {[t EXCEPT !.reinit = FALSE,
                    !.attempts = IF @ = Threshold THEN 1 ELSE @ + 1]})

\* AbstractIpLTELeaf::ipConnect.
LteConnect(s, reason) ==
  IF opt.use_gps /\ opt.initial_gps /\ reason = "initial" /\ ~s.gps_active /\ ~s.gps_fix
  THEN Each(IpEnableGPS(s), LAMBDA t : Returns(t, FALSE))
  ELSE IF s.gps_active /\ ~s.gps_fix THEN Returns(s, FALSE)
  ELSE Each(Ask(s), LAMBDA t : ModemConnect(t, reason))

\* Asked again until the time is up.
IpAwaitAddress(s) ==
  Each(IpGetAddress(s), LAMBDA t :
         IF t.ok \/ t.needs_reboot THEN {t} ELSE IpGetAddress(t))

IpConnectFast(s) ==
  Each(Ask([s EXCEPT !.connected = FALSE, !.missed = FALSE]), LAMBDA t :
    IF ~(t.ok /\ t.coverage) THEN Returns(t, FALSE)
    ELSE Each(IpGetAddress(t), LAMBDA u :
      IF u.needs_reboot THEN Returns(u, FALSE)
      ELSE Each(IpLinkUp(u), LAMBDA v :
        IF ~v.ok THEN {v}
        ELSE Each(IpAwaitAddress(v), LAMBDA w : {[w EXCEPT !.connected = w.ok]}))))

\* "AT+CFUN=1", settings whose refusal is only logged, and the SIM: a device
\* without one has no coverage.
Activate(s) ==
  Each(Ask(s), LAMBDA t :
    {t} \cup (IF t.ok /\ ~t.coverage THEN Returns(t, FALSE) ELSE {}))

IpModemConfigure(s) ==
  Each(Ask(s), LAMBDA t :
    IF t.ok THEN Activate(t)
    ELSE Each(ModemProbe(t, TRUE), LAMBDA u :
                IF u.ok THEN Activate(u)
                ELSE Returns([u EXCEPT !.needs_reboot = TRUE], FALSE)))

IpConnectCautious(s) ==
  LET t == [s EXCEPT !.connected = FALSE, !.missed = FALSE]
      Up(v) == {[v EXCEPT !.connected = v.ok]}
  IN  Each(IF opt.configure THEN IpModemConfigure(t) ELSE Returns(t, TRUE), LAMBDA u :
        IF ~u.ok THEN {u}
        ELSE Each(IpGetAddress(u), LAMBDA v :
          IF v.ok THEN Up(v)
          ELSE IF v.needs_reboot THEN {v}
          ELSE Each(IpLinkUp(v), LAMBDA w : Each(IpGetAddress(w), Up))))

\* Mutant: an attempt that failed is not repeated.
IpConnectOnce(s, reason) ==
  Each(LteConnect(s, reason), LAMBDA t :
    IF ~t.ok THEN {t}
    ELSE Each(Each(IpConnectFast(t), LAMBDA u :
                     IF u.ok THEN {u} ELSE IpConnectCautious(u)), LAMBDA u :
                IF u.ok THEN IpOnConnect(u) ELSE {u}))

\* AbstractIpSimcomLeaf::ipConnect.
IpConnect(s, reason) ==
  Each(LteConnect(s, reason), LAMBDA t :
    IF ~t.ok THEN {t}
    ELSE Each(Each(IpConnectFast(t), LAMBDA u :
                     IF u.ok THEN {u} ELSE IpConnectCautious(u)), LAMBDA u :
                IF u.ok THEN IpOnConnect(u) ELSE {IpScheduleReconnect(u)}))

-----------------------------------------------------------------------------
(* The position.                                                           *)

\* ipDisableGPS(true).
IpResume(s) ==
  Each(GpsOff(s), LAMBDA t :
         IF t.ok /\ ~t.connected THEN IpConnect(t, "resume") ELSE {t})

\* parseGPS: a partial fix, or a fix, which ends the search; what the receiver
\* sees is up to the sky.  The location is new only if it differs from the one
\* before.
ParseGPS(s) ==
  UNION {LET t == [s EXCEPT !.stale = @ /\ ~moved]
         IN  {t} \cup IpResume([t EXCEPT !.gps_fix = TRUE]) :
           moved \in BOOLEAN}

\* ipPollGPS: if the receiver should be on and is not, it is turned on.
IpPollGPS(s, force) ==
  LET Powered(t) ==
        Each(Ask(t), LAMBDA u : IF u.gps_active /\ ~(u.ok /\ u.gps) THEN IpEnableGPS(u) ELSE {u})
      Query(t) ==
        IF ~t.gps_active /\ ~force THEN {t}
        ELSE Each(IF t.gps_active THEN {t} ELSE IpEnableGPS(t), LAMBDA u :
             Each(Ask(u), LAMBDA v :
                    {v} \cup (IF v.ok /\ v.gps THEN ParseGPS(v) ELSE {})))
  IN  Each(IF s.present THEN {s} ELSE Each(ModemProbe(s, TRUE), Powered), LAMBDA t :
        IF ~t.present THEN {t} ELSE Each(Powered(t), Query))

\* The end of the search: setGPSFix(false) and ipDisableGPS(true).
GiveUpGPS(s) == IpResume([s EXCEPT !.gps_fix = FALSE])

-----------------------------------------------------------------------------
(* What the modem says unasked: modemProcessURC.                           *)

\* "IP came back online": without the rest of ipOnConnect.
CameBack(s) ==
  Each(IpGetAddress(s), LAMBDA t : {[t EXCEPT !.connected = @ \/ t.ok]})

\* Mutant: a modem that rebooted is taken for one that did not.
RebootedDeaf(s) == {s}

\* "Modem appears to be rebooting".
Rebooted(s) == {IF s.connected THEN IpOnDisconnect(s) ELSE s}

\* The time of the network: the modem is back in its range.
TimeCame(s) ==
  Each(ParseNetworkTime(s), LAMBDA t :
         IF t.connected THEN {t} ELSE IpConnect(t, "PSUTTZ"))

ProcessURC(s, line) ==
  CASE line = "active"   -> CameBack(s)
    [] line = "deactive" -> {IpOnDisconnect(s)}
    [] line = "rdy"      -> Rebooted(s)
    [] line = "psuttz"   -> TimeCame(s)

-----------------------------------------------------------------------------
(* A pass of the loop.                                                     *)

Turn(here, next, outcomes) ==
  /\ m.run /\ at = here /\ at' = next
  /\ m' \in {[s EXCEPT !.ok = FALSE] : s \in outcomes}
  /\ UNCHANGED <<opt, commands>>

LoopProbe ==
  Turn("probe", "reboot",
    IF opt.autoprobe /\ m.probe_due
    THEN Each(ModemProbe([m EXCEPT !.probe_due = FALSE], FALSE), LAMBDA s :
                IF s.present THEN {s} ELSE IpScheduleProbe(s))
    ELSE {m})

LoopReboot ==
  Turn("reboot", "connect",
    IF m.needs_reboot
    THEN Each(IpModemReboot([m EXCEPT !.needs_reboot = FALSE]), IpScheduleProbe)
    ELSE {m})

\* AbstractIpLeaf::loop: the retry.
LoopConnect ==
  Turn("connect", "announce",
    IF ~m.due THEN {m}
    ELSE IF m.connected THEN {[m EXCEPT !.due = FALSE]}
    ELSE IpConnect([m EXCEPT !.due = FALSE], "reconnect"))

\* And the news, and from time to time the status report.
LoopAnnounce ==
  Turn("announce", "initial", {[m EXCEPT !.notified = m.connected]})

LoopReport ==
  LET s == [m EXCEPT !.notified = m.connected]
  IN  opt.report /\ s.connected /\ Turn("announce", "initial", IpLinkStatus(s))

LoopInitial ==
  Turn("initial", "urc",
    IF m.first /\ m.present /\ ~m.connected
    THEN IpConnect([m EXCEPT !.first = FALSE], "initial") ELSE {m})

\* modemCheckURC: one line after the other, until there is none.
LoopURC ==
  IF m.present /\ m.urc # <<>>
  THEN Turn("urc", "urc", ProcessURC([m EXCEPT !.urc = Tail(@)], Head(m.urc)))
  ELSE Turn("urc", "gps", {m})

LoopGPS ==
  Turn("gps", "sms",
    IF ~m.present \/ ~opt.use_gps THEN {m}
    ELSE IF ~m.gps_active THEN IpCheckGPS(m)
    ELSE IF m.gps_fix THEN IpPollGPS(m, FALSE)
    ELSE Each(IpPollGPS(m, FALSE), LAMBDA s :
                IF s.waited THEN GiveUpGPS(s) ELSE {s}))

\* ipProcessSMS, from time to time; a modem that does not answer is probed.
LoopSMS ==
  Turn("sms", "probe",
    {m} \cup (IF m.present
              THEN Each(Ask(m), LAMBDA s : IF s.ok THEN {s} ELSE ModemProbe(s, FALSE))
              ELSE {}))

Pass == LoopProbe \/ LoopReboot \/ LoopConnect \/ LoopAnnounce \/ LoopReport
          \/ LoopInitial \/ LoopURC \/ LoopGPS \/ LoopSMS

-----------------------------------------------------------------------------
(* Commands, between two passes; a stopped leaf hears them too.            *)

Command(asked, outcomes) ==
  /\ at = "probe" /\ commands > 0 /\ commands' = commands - 1
  /\ m' \in {[s EXCEPT !.ok = FALSE, !.asked = asked] : s \in outcomes}
  /\ UNCHANGED <<opt, at>>

\* ip_lte_connect, ip_lte_disconnect, ip_lte_configure, modem_reboot.
CmdConnect    == Command(m.asked, IpConnect(m, "cmd"))
CmdDisconnect == Command(TRUE, IpDisconnect(m))
CmdConfigure  == Command(m.asked, IpModemConfigure(m))
CmdReboot     == Command(m.asked, IpModemReboot(m))

\* modem_probe: no_presence, quick or neither.
CmdProbe ==
  Command(m.asked, FullProbe(m, TRUE) \cup ModemProbe(m, TRUE) \cup ModemProbe(m, FALSE))

\* modem_off; modem_key, pressed for a moment or held.
CmdModemOff == Command(TRUE, {[s EXCEPT !.present = FALSE] : s \in IpModemPowerOff(m)})
CmdKey ==
  /\ opt.key
  /\ \/ Command(m.asked, {Boot(m)})
     \/ Command(TRUE, {[Restarted(m) EXCEPT !.power = FALSE]})

\* gps_enable, ip_check_gps, gps_poll (get/gps); gps_disable.
CmdGps        == Command(TRUE, IpEnableGPS(m) \cup IpCheckGPS(m) \cup IpPollGPS(m, TRUE))
CmdGpsDisable == Command(TRUE, GpsOff(m)) \/ Command(m.asked, IpResume(m))

\* lte_time, ip_lte_status.
CmdTime ==
  Command(m.asked \/ ~opt.use_gps,
          Each(Ask(m), LAMBDA s : IF s.ok THEN ParseNetworkTime(s) ELSE {s}))
CmdStatus ==
  Command(m.asked, Each(Ask(m), LAMBDA s : IF s.connected THEN IpLinkStatus(s) ELSE {s}))

\* stop() hangs up and powers the modem off; it stays "present".  start() of
\* a leaf that was stopped, or was not started at boot.
CmdStop ==
  LET HangUp(s) == IF s.connected THEN IpDisconnect(s) ELSE {s}
      Off == IF m.present THEN Each(HangUp(m), IpModemPowerOff) ELSE {m}
  IN  m.run /\ Command(TRUE, {[s EXCEPT !.run = FALSE] : s \in Off})

CmdStart ==
  /\ ~m.run
  /\ Command(m.asked, {[m EXCEPT !.run = TRUE, !.probe_due = @ \/ (opt.autoprobe /\ ~m.present)]})

User == CmdConnect \/ CmdDisconnect \/ CmdConfigure \/ CmdReboot \/ CmdProbe
          \/ CmdModemOff \/ CmdKey \/ CmdGps \/ CmdGpsDisable \/ CmdTime \/ CmdStatus
          \/ CmdStop \/ CmdStart

-----------------------------------------------------------------------------
(* Time, the modem and the world.                                          *)

World(s) == m' = s /\ UNCHANGED <<opt, at, commands>>

TimerFires      == m.timer /\ World([m EXCEPT !.timer = FALSE, !.due = TRUE])
ProbeTimerFires == m.probe_timer /\ World([m EXCEPT !.probe_timer = FALSE, !.probe_due = TRUE])
GpsWaitEnds     == m.gps_active /\ ~m.gps_fix /\ ~m.waited /\ World([m EXCEPT !.waited = TRUE])
LocationAges    == ~m.stale /\ World([m EXCEPT !.stale = TRUE])

Fault(s) == m.faults > 0 /\ World([s EXCEPT !.faults = @ - 1])
Says(line) == IF m.power /\ Len(m.urc) < Lines THEN Append(m.urc, line) ELSE m.urc

LinkDrops ==
  /\ m.link /\ Len(m.urc) < Lines
  /\ \E coverage \in BOOLEAN :
       Fault([m EXCEPT !.link = FALSE, !.coverage = coverage, !.urc = Says("deactive")])
\* With the network the time may come.
CoverageReturns ==
  /\ ~m.coverage
  /\ \E urc \in {m.urc, Says("psuttz")} : World([m EXCEPT !.coverage = TRUE, !.urc = urc])
\* The modem takes its link up again by itself.
LinkReturns ==
  /\ m.power /\ m.coverage /\ ~m.link /\ ~m.gps /\ Len(m.urc) < Lines
  /\ Fault([m EXCEPT !.link = TRUE, !.urc = Says("active")])
ModemResets ==
  /\ m.power /\ Fault([Restarted(m) EXCEPT !.urc = <<"rdy">>])
ModemDies   == m.power /\ Fault([Restarted(m) EXCEPT !.power = FALSE, !.dead = TRUE, !.urc = <<>>])
ModemHeals  == m.dead /\ World([m EXCEPT !.dead = FALSE])

\* The MQTT leaf and the TCP clients talk to the modem too, and have the state
\* of the link checked.
OthersTalk == at = "probe" /\ \E s \in {Flush(m)} \cup IpLinkStatus(m) : World([s EXCEPT !.ok = FALSE])

Environment == LinkDrops \/ CoverageReturns \/ LinkReturns \/ ModemResets \/ ModemDies
                 \/ ModemHeals \/ OthersTalk

Next == Pass \/ User \/ TimerFires \/ ProbeTimerFires \/ GpsWaitEnds \/ LocationAges
          \/ Environment

Fairness ==
  /\ WF_vars(Pass) /\ SF_vars(LoopReport)
  /\ WF_vars(TimerFires) /\ WF_vars(ProbeTimerFires)
  /\ WF_vars(GpsWaitEnds) /\ WF_vars(LocationAges)

Spec == Init /\ [][Next]_vars
FairSpec == Spec /\ Fairness

-----------------------------------------------------------------------------
(* Properties.                                                             *)

\* The leaf believes in a link that is gone only while a line that says so is
\* waiting, or after it threw one away with the answer to something else.
LossIsKnown ==
  m.connected /\ m.power /\ ~m.link => m.missed \/ Told(m)

\* A device that looks for its modem and never for its position.
Plain == opt.autoprobe /\ ~opt.use_gps /\ ~opt.year

\* Something is coming that tries again.
Pending == m.due \/ m.timer \/ m.needs_reboot \/ m.probe_due \/ m.probe_timer

\* An offline leaf has a retry or a probe coming, unless a command stopped it.
NeverStranded == Plain /\ m.run /\ ~m.connected /\ ~m.asked => Pending

\* With coverage, a modem that starts at a press of its key, and no search for
\* a position, the leaf is online again and again, and says so.
OnlineInTheEnd ==
  Plain /\ opt.report /\ opt.key =>
    (<>[](m.coverage /\ ~m.dead /\ m.run /\ ~m.asked)
       => []<>(m.notified /\ m.connected /\ m.link))

=============================================================================
