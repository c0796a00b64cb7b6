---------------------------- MODULE PubsubSimcom ----------------------------
(***************************************************************************)
(* MQTT over the modem: AbstractPubsubSimcomLeaf on AbstractPubsubLeaf.    *)
(* The modem holds the MQTT session and the leaf believes what it was told *)
(* of it: by the answer to a command, by a line that says the session is   *)
(* gone, or by the silence of the broker's heartbeat.                      *)
(*                                                                         *)
(* One task runs the loop of the IP leaf, of which only what concerns MQTT *)
(* is here (ModemIp has the rest), and the loop of the MQTT leaf; at is    *)
(* the section that comes next.  Calls are operators, as in ModemPort.     *)
(*                                                                         *)
(* Abstractions: times are flags that come true some time later; the       *)
(* broker is there when there is a link; all subscriptions are one.  There *)
(* is a send queue and a reconnect interval, the attempts have no limit,   *)
(* and pubsub_autoconnect, pubsub_use_clean_session, pubsub_always_queue   *)
(* and pubsub_dequeue_delay are as by default.                             *)
(***************************************************************************)
EXTENDS ModemPort

CONSTANTS
  QueueSize,        \* pubsub_send_queue_size
  Lines,            \* bound on the unsolicited lines waiting in the UART
  Commands          \* bound on what the user does

ASSUME SimcomAssumption ==
  QueueSize \in Nat \ {0} /\ Lines \in Nat \ {0} /\ Commands \in Nat

VARIABLES
  m,                \* the leaves and the modem
  at,               \* the section of the pass that comes next
  commands          \* commands left

vars == <<opt, m, at, commands>>

Reports == {"lost", "beat", "message", "data"}

\* The MQTT leaf: connected, connecting, notified, due and timer (the retry),
\* beat (the last heartbeat of the broker), run, and the length of the send
\* queue.  The IP leaf: ip (connected) and announced.  The modem: link,
\* session, and subscribed.  History: given_up, the last attempt failed and was
\* one whose caller does not look at the result; aside, the session was made or
\* left without subscribing.
State ==
  [connected: BOOLEAN, connecting: BOOLEAN, notified: BOOLEAN, due: BOOLEAN,
   timer: BOOLEAN, beat: {"none", "fresh", "late"}, run: BOOLEAN,
   queue: 0..QueueSize, ip: BOOLEAN, announced: BOOLEAN,
   link: BOOLEAN, session: BOOLEAN, subscribed: BOOLEAN, urc: Seq(Reports),
   port: BOOLEAN, leaked: BOOLEAN, bearer: BOOLEAN,
   given_up: BOOLEAN, aside: BOOLEAN,
   hung: BOOLEAN, faults: 0..Faults, ok: BOOLEAN]

Sections == {"announce", "urc", "heartbeat", "reconnect", "notify", "dequeue"}

TypeOK ==
  /\ opt \in Options
  /\ m \in State
  /\ at \in Sections
  /\ commands \in 0..Commands

\* A device that starts beside a modem that may have kept its session.
Booted(session, subscribed, link, faults) ==
  [connected |-> FALSE, connecting |-> FALSE, notified |-> FALSE, due |-> FALSE,
   timer |-> FALSE, beat |-> "none", run |-> TRUE,
   queue |-> 0, ip |-> FALSE, announced |-> FALSE,
   link |-> link, session |-> session, subscribed |-> subscribed, urc |-> <<>>,
   port |-> FALSE, leaked |-> FALSE, bearer |-> FALSE,
   given_up |-> FALSE, aside |-> session /\ ~subscribed,
   hung |-> FALSE, faults |-> faults, ok |-> FALSE]

Init ==
  /\ opt \in Options
  /\ \E session, link \in BOOLEAN : m = Booted(session /\ link, session /\ link, link, Faults)
  /\ at = "announce" /\ commands = Commands

-----------------------------------------------------------------------------
(* The session.                                                            *)

Closed(s) == [s EXCEPT !.session = FALSE, !.subscribed = FALSE]

\* pubsubConnectStatus: no answer is no session.
ConnectStatus(s) == Each(Ask(s), LAMBDA t : Returns(t, t.ok /\ t.session))

\* AT+SMCONN: refused if there is a session.  If the answer is lost there may
\* be one.
SmConn(s) ==
  LET Opened(t) == [t EXCEPT !.session = TRUE, !.subscribed = FALSE, !.aside = ~t.ok]
  IN  Each(Ask(s), LAMBDA t :
        IF ~t.link \/ t.session THEN Returns(t, FALSE)
        ELSE {Opened(t)} \cup {u \in {t} : ~t.ok})

\* Mutant: a connection that was lost is not tried again.
OnDisconnectForgets(s) == [s EXCEPT !.connecting = FALSE, !.connected = FALSE]

\* pubsubOnDisconnect, and pubsubScheduleReconnect, deliberate or not.
OnDisconnect(s) == [s EXCEPT !.connecting = FALSE, !.connected = FALSE, !.timer = TRUE]

\* pubsubDisconnect: if the modem does not take it the leaf stays as it was.  That
\* the modem refuses AT+SMDISC without a session is an assumption about the modem.
PubsubDisconnect(s) ==
  Each(Ask(s), LAMBDA t :
    IF ~t.session THEN {t}
    ELSE IF ~t.ok THEN {t, Closed(t)}
    ELSE Each(ConnectStatus(Closed(t)), LAMBDA u :
           {[OnDisconnect(u) EXCEPT !.notified = FALSE]}))

-----------------------------------------------------------------------------
(* Publishing.                                                             *)

\* Mutant: the last place in the queue is used twice.
EnqueuePast(s) == [s EXCEPT !.queue = IF @ > QueueSize THEN @ ELSE @ + 1]

\* _mqtt_queue_publish: when the queue is full its oldest message goes round to
\* its end and the new one is lost.
Enqueue(s) == [s EXCEPT !.queue = IF @ = QueueSize THEN @ ELSE @ + 1]

\* Mutant: if there is no prompt the lock is kept.
SendKeeps(s) ==
  Each(WaitPort(s), LAMBDA t :
         IF t.ok THEN Each(Ask(t), LAMBDA u : IF u.ok THEN Each(Ask(u), LAMBDA v : {Release(v)})
                                              ELSE {u})
         ELSE {t})

\* The prompt and the payload; a message that fails is lost.
Send(s) == Transaction(s, LAMBDA t : Each(Ask(t), LAMBDA u : IF u.ok THEN Ask(u) ELSE {u}))

\* AbstractPubsubSimcomLeaf::_mqtt_publish: a session that was lost is opened
\* again there and then, without its subscriptions.
Publish(s) ==
  IF ~s.connected THEN {Enqueue(s)}
  ELSE Each(ConnectStatus(s), LAMBDA t :
    IF t.ok \/ ~t.ip THEN Send(t)
    ELSE Each(SmConn(t), LAMBDA u :
           IF u.ok THEN Send([u EXCEPT !.aside = TRUE]) ELSE {OnDisconnect(u)}))

\* flushSendQueue(1).
SendOne(s) == IF s.queue = 0 THEN {s} ELSE Publish([s EXCEPT !.queue = @ - 1])

\* The end of pubsubOnConnect: until the queue is empty.  Without a connection
\* what is taken from the queue is put into it again.
DrainQueue(s) ==
  LET One(t) == IF t.queue > 0 /\ ~t.connected THEN {[t EXCEPT !.hung = TRUE]} ELSE SendOne(t)
      drain[n \in 0..QueueSize] == IF n = 0 THEN {s} ELSE Each(drain[n - 1], One)
  IN  drain[QueueSize]

-----------------------------------------------------------------------------
(* Connecting.                                                             *)

\* The subscriptions of pubsubOnConnect(true); one that fails is not repeated.
Subscribe(s) ==
  LET t == [s EXCEPT !.beat = IF opt.heartbeat THEN "fresh" ELSE @]
  IN  IF ~t.connected THEN {t}
      ELSE Each(Ask(t), LAMBDA u :
             {IF u.ok /\ u.session THEN [u EXCEPT !.subscribed = TRUE, !.aside = FALSE]
              ELSE [u EXCEPT !.aside = TRUE]})

\* Mutant: the subscriptions are left out.
OnConnectDeaf(s, do_subscribe) ==
  LET t == [s EXCEPT !.timer = FALSE, !.connected = TRUE, !.connecting = FALSE]
  IN  Each(Publish(t), DrainQueue)

\* pubsubOnConnect: announce, subscribe, and send what has been waiting.
OnConnect(s, do_subscribe) ==
  LET t == [s EXCEPT !.timer = FALSE, !.connected = TRUE, !.connecting = FALSE]
  IN  Each(Each(Publish(t), LAMBDA u : IF do_subscribe THEN Subscribe(u) ELSE {u}), DrainQueue)

\* "Already connected to MQTT broker."
Reuse(s) ==
  Each(IF s.connected THEN {s}
       ELSE Each(OnConnect(s, FALSE), LAMBDA t : {[t EXCEPT !.notified = t.connected]}),
       LAMBDA t : Returns(t, TRUE))

\* The configuration and AT+SMCONN.  "let loop do this": the loop announces and
\* subscribes, unless it believes that it has.
Establish(s) ==
  Each(ConnectStatus([s EXCEPT !.connected = FALSE]), LAMBDA t :
    IF t.ok THEN Failed(t)
    ELSE Each(SmConn(t), LAMBDA u :
           {[Release(u) EXCEPT !.connected = u.ok, !.aside = @ \/ (u.ok /\ u.notified)]}))

\* AbstractPubsubSimcomLeaf::pubsubConnect, with the lock taken.
PubsubConnect(s) ==
  IF ~s.ip THEN Returns(s, FALSE)
  ELSE Each(WaitPort([s EXCEPT !.connecting = TRUE]), LAMBDA t :
    IF ~t.ok THEN {t}
    ELSE Each(Ask(t), LAMBDA u :
      IF ~u.ok THEN Failed(u)
      ELSE Each(ConnectStatus(u), LAMBDA v :
        IF v.ok /\ opt.reuse THEN Reuse(Release(v))
        ELSE Each(IF v.ok THEN PubsubDisconnect(v) ELSE {v}, Establish))))

\* Callers that do not look whether it succeeds.
ConnectOnce(s) == Each(PubsubConnect(s), LAMBDA t : {[t EXCEPT !.given_up = ~t.ok]})

-----------------------------------------------------------------------------
(* The sections of AbstractPubsubLeaf::loop.                               *)

Heartbeat(s) ==
  IF s.connected /\ s.beat = "late" THEN Each(PubsubDisconnect(s), Publish) ELSE {s}

Reconnect(s) ==
  IF ~(s.ip /\ s.due) THEN {s}
  ELSE Each(PubsubConnect([s EXCEPT !.due = FALSE]), LAMBDA t :
              {[t EXCEPT !.timer = @ \/ ~t.ok, !.given_up = FALSE]})

Notify(s) ==
  Each(IF ~s.notified /\ s.connected THEN OnConnect(s, TRUE)
       ELSE IF s.notified /\ ~s.connected THEN {OnDisconnect(s)}
       ELSE {s}, LAMBDA t : {[t EXCEPT !.notified = t.connected]})

Dequeue(s) == IF s.connected THEN SendOne(s) ELSE {s}

-----------------------------------------------------------------------------
(* A pass of the loops.                                                    *)

Turn(here, next, outcomes) ==
  /\ ~m.hung /\ at = here /\ at' = next
  /\ m' \in {[s EXCEPT !.ok = FALSE] : s \in outcomes}
  /\ UNCHANGED <<opt, commands>>

\* The IP leaf's news, which a leaf that is stopped hears too.
LoopAnnounce ==
  Turn("announce", "urc",
    Each(IF m.ip = m.announced THEN {m}
         ELSE IF m.ip THEN ConnectOnce(m)
         ELSE IF m.connected THEN PubsubDisconnect(m)
         ELSE {m}, LAMBDA s : {[s EXCEPT !.announced = m.ip]}))

\* modemProcessURC.  A message has some leaf publish an answer.
ProcessURC(s, line) ==
  CASE line = "lost"    -> {OnDisconnect(s)}
    [] line = "beat"    -> {[s EXCEPT !.beat = "fresh"]}
    [] line = "message" -> Publish(s)
    [] line = "data"    -> ModemAt(s)

\* modemCheckURC: while the lock is taken nothing is read.
LoopURC ==
  IF m.urc # <<>> /\ ~m.port
  THEN Turn("urc", "urc", ProcessURC([m EXCEPT !.urc = Tail(@)], Head(m.urc)))
  ELSE Turn("urc", "heartbeat", {m})

Section(here, next, F(_)) == Turn(here, next, IF m.run THEN F(m) ELSE {m})

LoopHeartbeat == Section("heartbeat", "reconnect", Heartbeat)
LoopReconnect == Section("reconnect", "notify", Reconnect)
LoopNotify    == Section("notify", "dequeue", Notify)
LoopDequeue   == Section("dequeue", "announce", Dequeue)

Pass == LoopAnnounce \/ LoopURC \/ LoopHeartbeat \/ LoopReconnect \/ LoopNotify \/ LoopDequeue

-----------------------------------------------------------------------------
(* Other leaves and the user, between two passes.                          *)

Between(outcomes) ==
  /\ ~m.hung /\ at = "announce"
  /\ m' \in {[s EXCEPT !.ok = FALSE] : s \in outcomes}
  /\ UNCHANGED <<opt, at>>

\* Any leaf publishes something.
LeafPublishes == Between(Publish(m)) /\ UNCHANGED commands

Command(outcomes) == commands > 0 /\ commands' = commands - 1 /\ Between(outcomes)

\* pubsub_connect, pubsub_disconnect, pubsub_clean.
CmdConnect    == Command(ConnectOnce(m))
CmdDisconnect == Command(PubsubDisconnect(m))
CmdClean      == Command(Each(PubsubDisconnect(m), ConnectOnce))

\* stop() runs the loop once more; start().
CmdStop ==
  /\ m.run
  /\ Command(Each(Each(Each(Each(Each(PubsubDisconnect(m), Heartbeat), Reconnect), Notify), Dequeue),
                  LAMBDA s : {[s EXCEPT !.run = FALSE]}))
CmdStart ==
  /\ ~m.run
  /\ LET s == [m EXCEPT !.run = TRUE]
     IN  Command(IF s.ip /\ ~s.connecting THEN ConnectOnce(s) ELSE {s})

\* The device restarts, or sleeps and wakes up; the modem may keep its session.
\* initiate_sleep_ms publishes and pre_sleep disconnects.
Restart(s) == {Booted(s.session, s.subscribed, s.link, s.faults), Booted(FALSE, FALSE, s.link, s.faults)}
CmdRestart == Command(Restart(m))
CmdSleep ==
  Command(Each(Each(Publish(m), LAMBDA s :
                 IF s.connected THEN Each(Publish(s), PubsubDisconnect) ELSE {s}), Restart))

\* ipPullUpdate: unsubscribe, fetch, and disconnect so as to subscribe again;
\* after an update that succeeds the device restarts.
Unsubscribe(s) ==
  IF ~s.connected THEN {s}
  ELSE Each(Ask(s), LAMBDA t : {[t EXCEPT !.subscribed = @ /\ ~t.ok, !.aside = @ \/ t.ok]})
CmdUpdate ==
  Command(Each(Each(Each(Unsubscribe(m), Publish), LAMBDA s : Each(Ask(s), Publish)), LAMBDA s :
            Each(PubsubDisconnect(s), LAMBDA t : {t} \cup Restart(t))))

\* The transactions of ModemPort.
CmdTransaction ==
  \/ Command(CmdSendSMS(m)) \/ Command(ModemAt(m)) \/ Command(TcpConnect(m))
  \/ Command(ModemProbe(m))
  \/ m.link /\ Command(ModemFtpPut(m) \cup ModemFtpGet(m))

User == CmdConnect \/ CmdDisconnect \/ CmdClean \/ CmdStop \/ CmdStart
          \/ CmdRestart \/ CmdSleep \/ CmdUpdate \/ CmdTransaction

-----------------------------------------------------------------------------
(* Time, the IP leaf, the modem and the broker.                            *)

World(s) == m' = s /\ UNCHANGED <<opt, at, commands>>

TimerFires  == m.timer /\ World([m EXCEPT !.timer = FALSE, !.due = TRUE])
BeatExpires == m.beat = "fresh" /\ World([m EXCEPT !.beat = "late"])

\* The IP leaf finds out, in its loop, what the modem's link is.
IpTalks ==
  /\ ~m.hung /\ at \in {"announce", "heartbeat"} /\ m.ip # m.link
  /\ \E s \in Each(WaitPort(m), LAMBDA t :
                     {IF t.ok THEN [Release(Flush(t)) EXCEPT !.ip = t.link]
                      ELSE [Flush(t) EXCEPT !.ip = @ /\ t.link]}) :
       World([s EXCEPT !.ok = FALSE])

Hears(line) == IF Len(m.urc) < Lines THEN Append(m.urc, line) ELSE m.urc
Fault(s) == m.faults > 0 /\ World([s EXCEPT !.faults = @ - 1])

\* The broker or the network ends the session; the modem says so.
SessionDrops ==
  m.session /\ \E link \in {m.link, FALSE} : Fault([Closed(m) EXCEPT !.link = link, !.urc = Hears("lost")])
LinkReturns == ~m.link /\ World([m EXCEPT !.link = TRUE])

\* What arrives while the lines are read arrives after that.
Quiet == at # "urc" /\ Len(m.urc) < Lines
BrokerSends ==
  /\ Quiet
  /\ \E line \in {"message"} \cup {b \in {"beat"} : opt.heartbeat} :
       m.session /\ m.subscribed /\ World([m EXCEPT !.urc = Hears(line)])
PeerSends == Quiet /\ m.link /\ World([m EXCEPT !.urc = Hears("data")])

Environment == SessionDrops \/ LinkReturns \/ BrokerSends \/ PeerSends

Next == Pass \/ LeafPublishes \/ User \/ TimerFires \/ BeatExpires \/ IpTalks \/ Environment

\* The loop runs, the retry timer fires, a heartbeat that does not come is
\* missed, and the IP leaf gets to know its link.
Fairness ==
  /\ WF_vars(Pass) /\ WF_vars(TimerFires) /\ WF_vars(BeatExpires) /\ SF_vars(IpTalks)

Spec == Init /\ [][Next]_vars
FairSpec == Spec /\ Fairness

-----------------------------------------------------------------------------
(* Properties.                                                             *)

\* The lock on the port is taken between two calls only if a call that is known
\* not to give it back was the last to take it.
PortReturned == m.port /\ ~m.hung => m.leaked

\* An offline leaf with IP has a retry coming, unless the last attempt was one
\* whose caller does not look at its result.
NeverStranded ==
  at = "announce" /\ m.run /\ ~m.hung /\ m.ip /\ m.announced /\ ~m.connected /\ ~m.given_up =>
    m.due \/ m.timer

\* A session that was announced has its subscriptions, unless it was opened
\* without them while the leaf believed in an older one, or unsubscribed, or the
\* modem refused them; or was found and reused, whatever it is subscribed to.
SubscribedWhenSettled ==
  at = "dequeue" /\ ~m.hung /\ m.run /\ m.connected /\ m.notified /\ m.session =>
    m.subscribed \/ m.aside \/ opt.reuse

\* With the heartbeat of the broker watched and locks that are broken when they
\* are not given back, a device with a link is connected and subscribed again
\* and again, whatever was lost on the way.
HeardInTheEnd ==
  opt.heartbeat /\ opt.breaker /\ ~opt.reuse =>
    (<>[](m.link /\ m.run /\ ~m.given_up /\ ~m.hung)
       => []<>(m.connected /\ m.session /\ m.subscribed))

=============================================================================
