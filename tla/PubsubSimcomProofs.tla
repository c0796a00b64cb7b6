-------------------------- MODULE PubsubSimcomProofs --------------------------
(***************************************************************************)
(* Proofs about MQTT over the modem (PubsubSimcom) and the lock on the     *)
(* modem's serial port (ModemPort), for any settings, queue size and       *)
(* number of faults: the lock comes back, an offline leaf retries, and a   *)
(* session that was announced is subscribed.                               *)
(*                                                                         *)
(* A call is an operator on records.  Bare calls may run with the lock     *)
(* taken or not, and do not touch it; the others are started when nobody   *)
(* is inside a transaction, and leave the lock free or leaked.  The same   *)
(* lemma says of a call what it does to the lock, to the retry and to the  *)
(* subscriptions.                                                          *)
(***************************************************************************)
EXTENDS PubsubSimcom, WellFoundedInduction, TLAPS

\* Why NeverStranded holds: the announcement of the IP leaf, a retry, and the
\* news of a disconnection all end in a connection or in another retry.
Armed(s) ==
  s.announced /\ ~s.connected /\ ~s.given_up /\ ~s.hung => s.due \/ s.timer

\* The leaf is connected, or has been told that it is not.
Live(s) == s.connected \/ s.timer

\* Why SubscribedWhenSettled holds: a connection is announced after it was
\* subscribed, and what opens a session behind an announced one says so.
Subscribed(s) == s.connected /\ s.session => s.subscribed \/ s.aside \/ opt.reuse
Settled(s) == s.notified => Subscribed(s)

Sound(s) == s \in State /\ Armed(s) /\ Settled(s)

\* The lock is free, or kept by a call known to keep it.
Free(s) == s.port /\ ~s.hung => s.leaked

\* Nobody is inside a transaction.
Clear(s) == Sound(s) /\ Free(s)

\* What most calls keep, if it was so before.
Kept(s, t) == (Live(s) => Live(t)) /\ (Subscribed(s) => Subscribed(t))

\* A bare call leaves the lock, its history and the task as they are.
Near(s, t) ==
  /\ t \in State /\ t.port = s.port /\ t.leaked = s.leaked /\ t.hung = s.hung
  /\ t.notified => s.notified
  /\ Armed(s) => Armed(t)
Same(s, t) == Near(s, t) /\ Kept(s, t)

-----------------------------------------------------------------------------
(* Bare calls.                                                             *)

\* What is sound or clear stays so under a bare call.
LEMMA SameClear ==
  ASSUME NEW s, NEW t, Same(s, t)
  PROVE  /\ Sound(s) => Sound(t)
         /\ Clear(s) => Clear(t)
         /\ Settled(s) => Settled(t)
         /\ Free(s) => Free(t)
  BY DEF Clear, Sound, Free, Settled, Same, Near, Kept

\* Doing one bare call after the other, and doing nothing.
LEMMA SameTwice ==
  ASSUME NEW s, NEW t, NEW u, Same(s, t), Same(t, u)
  PROVE  Same(s, u)
  BY DEF Same, Near, Kept

LEMMA SameSelf ==
  ASSUME NEW s \in State
  PROVE  Same(s, s)
  BY DEF Same, Near, Kept

\* The same of what calls keep.
LEMMA KeptTwice ==
  ASSUME NEW s, NEW t
  PROVE  /\ Kept(s, s)
         /\ \A u : Kept(s, t) /\ Kept(t, u) => Kept(s, u)
  BY DEF Kept

\* Of a task that hangs nothing is claimed.
LEMMA HungClears ==
  ASSUME NEW s
  PROVE  /\ Sound(s) /\ s.hung => Clear(s)
         /\ Clear(s) => Sound(s)
         /\ Sound(s) => s \in State
  BY DEF Clear, Sound, Free

\* Throwing away what the modem said unasked.
LEMMA FlushSame ==
  ASSUME NEW s \in State
  PROVE  Same(s, Flush(s))
  <1>1. <<>> \in Seq(Reports)
    OBVIOUS
  <1> QED
    BY <1>1 DEF Same, Near, Kept, Armed, Live, Subscribed, Flush, State

\* Returning a result.
LEMMA ReturnsSame ==
  ASSUME NEW s \in State, NEW ok \in BOOLEAN, NEW t \in Returns(s, ok)
  PROVE  Same(s, t) /\ t.ok = ok
  BY DEF Returns, Same, Near, Kept, Armed, Live, Subscribed, State

\* A command and its answer.
LEMMA AskSame ==
  ASSUME NEW s \in State, NEW t \in Ask(s)
  PROVE  Same(s, t)
  <1> DEFINE Garbled(f) == [Flush(s) EXCEPT !.ok = FALSE, !.faults = f]
             Answered == Returns(Flush(s), TRUE)
  <1>1. t \in Answered \/ \E f \in 0..Faults : t = Garbled(f)
    BY DEF Ask
  <1>2. Same(s, Flush(s)) /\ Flush(s) \in State
    BY FlushSame DEF Same, Near
  <1>3. ASSUME NEW f \in 0..Faults PROVE Same(Flush(s), Garbled(f))
    BY ZenonT(40), <1>2 DEF Same, Near, Kept, Armed, Live, Subscribed, State
  <1>4. ASSUME t \in Answered PROVE Same(Flush(s), t)
    BY <1>2, <1>4, ReturnsSame
  <1> HIDE DEF Garbled, Answered
  <1> QED
    BY <1>1, <1>2, <1>3, <1>4, SameTwice

\* The same, of records that are sound.
LEMMA AskSound ==
  ASSUME NEW s, Sound(s), NEW t \in Ask(s)
  PROVE  Sound(t) /\ t.hung = s.hung /\ Same(s, t)
  BY HungClears, AskSame, SameClear DEF Same, Near

-----------------------------------------------------------------------------
(* The lock.                                                               *)

\* The lock is taken, or the call fails and nothing has changed.
LEMMA WaitPortTakes ==
  ASSUME NEW s, Clear(s), NEW t \in WaitPort(s)
  PROVE  /\ Sound(t) /\ (Clear(t) \/ t.ok) /\ t.hung = s.hung
         /\ Kept(s, t)
  <1> DEFINE Taken == [s EXCEPT !.port = TRUE, !.leaked = FALSE, !.ok = TRUE]
  <1>1. t \in Returns(s, FALSE) \/ t = Taken
    BY DEF WaitPort
  <1>2. s \in State
    BY HungClears
  <1>3. CASE t = Taken
    BY <1>2, <1>3 DEF Clear, Sound, Kept, Armed, Live, Settled, Subscribed, State
  <1>4. CASE t \in Returns(s, FALSE)
    BY <1>2, <1>4, HungClears, ReturnsSame, SameClear DEF Same, Near
  <1> QED
    BY <1>1, <1>3, <1>4

\* Giving it back, whatever came before.
LEMMA ReleaseClears ==
  ASSUME NEW s, Sound(s)
  PROVE  Clear(Release(s)) /\ Kept(s, Release(s))
  BY DEF Release, Clear, Sound, Free, Kept, Armed, Live, Settled, Subscribed, State

\* The same, and the call fails.
LEMMA FailedClears ==
  ASSUME NEW s, Sound(s), NEW t \in Failed(s)
  PROVE  Clear(t) /\ ~t.ok
  BY ZenonT(40) DEF Failed, Release, Clear, Sound, Free, Armed, Settled, Subscribed, State

\* Keeping it, in one of the calls known to.
LEMMA LeaksClears ==
  ASSUME NEW s, Sound(s)
  PROVE  Clear(Leaks(s))
  BY DEF Leaks, Clear, Sound, Free, Armed, Settled, Subscribed, State

\* Returning a result leaves clear what is.
LEMMA ReturnsClear ==
  ASSUME NEW s, Clear(s), NEW ok \in BOOLEAN, NEW t \in Returns(s, ok)
  PROVE  Clear(t) /\ t.ok = ok
  BY HungClears, ReturnsSame, SameClear

-----------------------------------------------------------------------------
(* The transactions of ModemPort.                                          *)

\* modem_at and modemChat.
LEMMA ModemAtClears ==
  ASSUME NEW s, Clear(s), NEW t \in ModemAt(s)
  PROVE  Clear(t)
  BY HungClears, WaitPortTakes, AskSound, ReleaseClears
  DEF ModemAt, Transaction, Each

\* A TCP connection through the modem.
LEMMA TcpConnectClears ==
  ASSUME NEW s, Clear(s), NEW t \in TcpConnect(s)
  PROVE  Clear(t)
  BY HungClears, WaitPortTakes, AskSound, ReleaseClears
  DEF TcpConnect, Transaction, Each

\* A text message.
LEMMA CmdSendSMSClears ==
  ASSUME NEW s, Clear(s), NEW t \in CmdSendSMS(s)
  PROVE  Clear(t)
  <1>1. ASSUME NEW u \in Ask(s) PROVE Clear(u)
    BY <1>1, HungClears, AskSame, SameClear
  <1> QED
    BY <1>1, HungClears, WaitPortTakes, AskSound, ReleaseClears
    DEF CmdSendSMS, Transaction, Each

\* A session with the modem's files: begun with the lock, or not begun.
LEMMA ModemFsBeginTakes ==
  ASSUME NEW s, Clear(s), NEW t \in ModemFsBegin(s)
  PROVE  Sound(t) /\ (Clear(t) \/ t.ok)
  BY HungClears, WaitPortTakes, AskSound, FailedClears
  DEF ModemFsBegin, Each

\* Its end.
LEMMA ModemFsEndClears ==
  ASSUME NEW s, Sound(s), NEW t \in ModemFsEnd(s)
  PROVE  Clear(t)
  BY HungClears, AskSound, ReleaseClears DEF ModemFsEnd, Each

\* Reading a file keeps the lock, and is known to.
LEMMA ModemReadFileClears ==
  ASSUME NEW s, Clear(s), NEW t \in ModemReadFile(s)
  PROVE  Clear(t)
  BY HungClears, ModemFsBeginTakes, AskSound, LeaksClears
  DEF ModemReadFile, Each

\* Writing one does not.
LEMMA ModemWriteFileClears ==
  ASSUME NEW s, Clear(s), NEW t \in ModemWriteFile(s)
  PROVE  Clear(t)
  <1> DEFINE Fails(v) == Returns(v, FALSE)
  <1>1. ASSUME NEW v, Clear(v), NEW w \in Fails(v) PROVE Clear(w)
    BY <1>1, ReturnsClear
  <1>2. ASSUME NEW u \in Ask(s) PROVE Clear(u)
    BY <1>2, HungClears, AskSame, SameClear
  <1>3. t \in Each(Ask(s), LAMBDA u :
          IF ~u.ok THEN {u}
          ELSE Each(ModemFsBegin(u), LAMBDA v :
            IF ~v.ok THEN {v}
            ELSE Each(Ask(v), LAMBDA w :
              IF w.ok THEN ModemFsEnd(w) ELSE Each(ModemFsEnd(w), LAMBDA x : Fails(x)))))
    BY DEF ModemWriteFile
  <1> HIDE DEF Fails
  <1> QED
    BY <1>1, <1>2, <1>3, HungClears, ModemFsBeginTakes, ModemFsEndClears, AskSound
    DEF Each

\* Certificates are written and read back.
LEMMA ModemInstallCertClears ==
  ASSUME NEW s, Clear(s), NEW t \in ModemInstallCert(s)
  PROVE  Clear(t)
  BY ModemWriteFileClears, ModemReadFileClears DEF ModemInstallCert, Each

\* A full probe of the modem.
LEMMA ModemProbeClears ==
  ASSUME NEW s, Clear(s), NEW t \in ModemProbe(s)
  PROVE  Clear(t)
  BY ModemAtClears, ModemReadFileClears, ModemInstallCertClears DEF ModemProbe, Each

-----------------------------------------------------------------------------
(* FTP: inside a session the lock is taken if there is a bearer.           *)

Session(s) == Sound(s) /\ (opt.bearer \/ Clear(s))

\* A command inside a session.
LEMMA AskSession ==
  ASSUME NEW s, Session(s), NEW t \in Ask(s)
  PROVE  Session(t) /\ t.hung = s.hung
  BY AskSound, SameClear DEF Session

\* A round of opening the bearer: refused, it leaves the lock with its caller.
LEMMA OpenBearerTakes ==
  ASSUME NEW s, Sound(s), opt.bearer, NEW t \in OpenBearer(s)
  PROVE  Sound(t) /\ (Clear(t) \/ (t.ok /\ Session(t)) \/ Refused(t))
  <1> DEFINE Hang(u) == [u EXCEPT !.hung = TRUE]
             Opened(u) == [u EXCEPT !.bearer = u.ok]
  <1>1. t \in Each(Ask(s), LAMBDA u :
          IF ~u.ok THEN Failed(u)
          ELSE IF u.bearer THEN {Hang(u)}
          ELSE Each(Ask(u), LAMBDA v :
            IF v.ok THEN Each(Ask(v), LAMBDA w : {Opened(w)}) ELSE Failed(v)))
    BY DEF OpenBearer
  <1>2. ASSUME NEW u, Sound(u)
        PROVE  Clear(Hang(u)) /\ Sound(Opened(u)) /\ Opened(u).ok = u.ok
    BY <1>2 DEF Clear, Sound, Free, Armed, Settled, Subscribed, State
  <1> HIDE DEF Hang, Opened
  <1>3. Sound(t) /\ (Clear(t) \/ \E w : Sound(w) /\ t = Opened(w))
    BY <1>1, <1>2, HungClears, AskSound, FailedClears DEF Each
  <1>4. ASSUME ~t.ok, ~Refused(t) PROVE Clear(t)
    BY <1>3, <1>4 DEF Refused, Clear, Free
  <1> QED
    BY <1>3, <1>4 DEF Session

\* The bearer of a session.
LEMMA ModemBearerBeginTakes ==
  ASSUME NEW s, Clear(s), NEW t \in ModemBearerBegin(s)
  PROVE  Sound(t) /\ (Clear(t) \/ (t.ok /\ Session(t)))
  <1> DEFINE Hang(u) == [u EXCEPT !.hung = TRUE]
             Begun(u) == Sound(u) /\ (Clear(u) \/ (u.ok /\ Session(u)))
             Reopen(u) == Each(Ask(u), LAMBDA v : IF v.ok THEN OpenBearer(v) ELSE Failed(v))
             Insist(u) == {Hang(u)} \cup {v \in OpenBearer(u) : ~Refused(v)}
             Retry(u) ==
               Each(Reopen(u), LAMBDA v : IF Refused(v) THEN Insist(v) ELSE {v})
  <1>1. CASE ~opt.bearer
    <2>1. t \in Returns(s, TRUE)
      BY <1>1 DEF ModemBearerBegin
    <2>2. Clear(t)
      BY <2>1, ReturnsClear
    <2> QED
      BY <2>2, HungClears
  <1>2. CASE opt.bearer
    <2>1. t \in Each(WaitPort(s), LAMBDA w :
            IF ~w.ok THEN {w}
            ELSE Each(OpenBearer(w), LAMBDA u : IF Refused(u) THEN Retry(u) ELSE {u}))
      BY <1>2 DEF ModemBearerBegin
    <2>2. ASSUME NEW u, Sound(u) PROVE Begun(Hang(u))
      <3>1. Clear(Hang(u))
        BY <2>2 DEF Clear, Sound, Free, Armed, Settled, Subscribed, State
      <3> QED
        BY <3>1, HungClears
    <2>3. \A u : Clear(u) => Begun(u)
      BY HungClears
    <2> HIDE DEF Hang
    <2>4. ASSUME NEW u, Sound(u), NEW v \in Insist(u) PROVE Begun(v)
      BY <1>2, <2>2, <2>4, OpenBearerTakes
    <2> HIDE DEF Insist
    <2>5. ASSUME NEW u, Sound(u), NEW v \in Reopen(u) PROVE Sound(v) /\ (Refused(v) \/ Begun(v))
      BY <1>2, <2>3, <2>5, OpenBearerTakes, HungClears, AskSound, FailedClears DEF Each
    <2> HIDE DEF Reopen
    <2>6. ASSUME NEW u, Sound(u), NEW v \in Retry(u) PROVE Begun(v)
      <3>1. PICK w \in Reopen(u) :
              IF w.hung THEN v = w ELSE IF Refused(w) THEN v \in Insist(w) ELSE v = w
        BY <2>6 DEF Each
      <3>2. CASE w.hung
        BY <2>3, <2>5, <2>6, <3>1, <3>2, HungClears
      <3>3. CASE ~w.hung
        BY <2>4, <2>5, <2>6, <3>1, <3>3
      <3> QED
        BY <3>2, <3>3
    <2> HIDE DEF Retry
    <2>7. \A w \in WaitPort(s) : Sound(w) /\ (Clear(w) \/ w.ok)
      BY WaitPortTakes
    <2>8. ASSUME NEW w, Sound(w), NEW u \in OpenBearer(w)
          PROVE  Sound(u) /\ (Refused(u) \/ Begun(u)) /\ (u.hung => Begun(u))
      BY <1>2, <2>3, <2>8, OpenBearerTakes, HungClears
    <2> HIDE DEF Begun
    <2>9. Begun(t)
      BY <2>1, <2>3, <2>6, <2>7, <2>8, HungClears DEF Each
    <2> QED
      BY <2>9 DEF Begun
  <1> QED
    BY <1>1, <1>2

\* Its end.
LEMMA ModemBearerEndClears ==
  ASSUME NEW s, Session(s), NEW t \in ModemBearerEnd(s)
  PROVE  Clear(t)
  <1> DEFINE Ended(u) == [Release(u) EXCEPT !.bearer = @ /\ ~u.ok]
  <1>1. ASSUME NEW u, Sound(u) PROVE Clear(Ended(u))
    BY ZenonT(40), <1>1 DEF Release, Clear, Sound, Free, Armed, Settled, Subscribed, State
  <1>2. \/ t = s /\ ~opt.bearer
        \/ t \in Each(Ask(s), LAMBDA u : {Ended(u)})
    BY DEF ModemBearerEnd
  <1> HIDE DEF Ended
  <1> QED
    BY <1>1, <1>2, HungClears, AskSound DEF Each, Session

\* The end of a session.
LEMMA ModemFtpEndClears ==
  ASSUME NEW s, Session(s), NEW t \in ModemFtpEnd(s)
  PROVE  Clear(t)
  BY HungClears, ModemBearerEndClears, AskSession DEF ModemFtpEnd, Each, Session

\* An abandoned session is one of the calls known to keep the lock.
LEMMA AbandonsClears ==
  ASSUME NEW s, Session(s), NEW t \in Abandons(s)
  PROVE  Clear(t)
  BY LeaksClears DEF Abandons, Session

\* Its beginning, whichever of its steps is refused.
LEMMA ModemFtpBeginTakes ==
  ASSUME NEW s, Clear(s), NEW t \in ModemFtpBegin(s)
  PROVE  Sound(t) /\ (Clear(t) \/ (t.ok /\ Session(t)))
  <1> DEFINE Fails(v) == Returns(v, FALSE)
             Login(v) == Each(Ask(v), LAMBDA u : IF u.ok THEN {u} ELSE Abandons(u))
             Mode(v) ==
               Each(Ask(v), LAMBDA u :
                 IF u.ok THEN Login(u) ELSE Each(ModemBearerEnd(u), LAMBDA w : Fails(w)))
             Channel(v) ==
               Each(Ask(v), LAMBDA u :
                 IF u.ok THEN Mode(u) ELSE IF opt.bearer THEN Failed(u) ELSE {u})
             Begun(v) == Sound(v) /\ (Clear(v) \/ (v.ok /\ Session(v)))
  <1>1. t \in Each(ModemBearerBegin(s), LAMBDA v : IF v.ok THEN Channel(v) ELSE {v})
    BY DEF ModemFtpBegin
  <1>2. ASSUME NEW v, Clear(v), NEW w \in Fails(v) PROVE Clear(w)
    BY <1>2, ReturnsClear
  <1>3. \A v : Clear(v) => Begun(v)
    BY HungClears
  <1> HIDE DEF Fails
  <1>4. ASSUME NEW v, Session(v), ~v.hung, NEW w \in Login(v) PROVE Begun(w)
    BY <1>3, <1>4, AskSession, AbandonsClears DEF Each, Session
  <1> HIDE DEF Login
  <1>5. ASSUME NEW v, Session(v), ~v.hung, NEW w \in Mode(v) PROVE Begun(w)
    BY <1>2, <1>3, <1>4, <1>5, AskSession, ModemBearerEndClears DEF Each
  <1> HIDE DEF Mode
  <1>6. ASSUME NEW v, Session(v), ~v.hung, NEW w \in Channel(v) PROVE Begun(w)
    BY <1>3, <1>5, <1>6, AskSession, FailedClears DEF Each, Session
  <1> HIDE DEF Channel
  <1> QED
    BY <1>1, <1>3, <1>6, ModemBearerBeginTakes, HungClears DEF Each, Session

\* Putting a file.
LEMMA ModemFtpPutClears ==
  ASSUME NEW s, Clear(s), NEW t \in ModemFtpPut(s)
  PROVE  Clear(t)
  <1>1. \A v : Clear(v) => Session(v)
    BY HungClears DEF Session
  <1> QED
    BY <1>1, AskSession, ModemFtpBeginTakes, HungClears, ModemFtpEndClears
    DEF ModemFtpPut, Each

\* Fetching one.
LEMMA ModemFtpGetClears ==
  ASSUME NEW s, Clear(s), NEW t \in ModemFtpGet(s)
  PROVE  Clear(t)
  <1>1. \A v : Clear(v) => Session(v)
    BY HungClears DEF Session
  <1> QED
    BY <1>1, AskSession, ModemFtpBeginTakes, HungClears, ModemFtpEndClears, AbandonsClears
    DEF ModemFtpGet, Each

-----------------------------------------------------------------------------
(* The MQTT leaf: its bare calls.                                          *)

\* Asking whether there is a session.
LEMMA ConnectStatusSame ==
  ASSUME NEW s \in State, NEW t \in ConnectStatus(s)
  PROVE  Same(s, t)
  <1> DEFINE Says(u) == Returns(u, u.ok /\ u.session)
  <1>1. t \in Each(Ask(s), LAMBDA u : Says(u))
    BY DEF ConnectStatus
  <1>2. ASSUME NEW u \in State, NEW v \in Says(u) PROVE Same(u, v)
    <2> DEFINE b == u.ok /\ u.session
    <2>1. b \in BOOLEAN
      OBVIOUS
    <2>2. v \in Returns(u, b)
      BY <1>2
    <2> HIDE DEF b
    <2> QED
      BY <1>2, <2>1, <2>2, ReturnsSame
  <1> HIDE DEF Says
  <1>3. ASSUME NEW u \in Ask(s) PROVE Same(s, u) /\ u \in State
    BY <1>3, AskSame DEF Same, Near
  <1> QED
    BY <1>1, <1>2, <1>3, SameTwice DEF Each

\* Opening one, which may be one nobody has subscribed.
LEMMA SmConnNear ==
  ASSUME NEW s \in State, NEW t \in SmConn(s)
  PROVE  Near(s, t) /\ (Live(s) => Live(t))
  <1> DEFINE Refuses(u) == Returns(u, FALSE)
             Opened(u) == [u EXCEPT !.session = TRUE, !.subscribed = FALSE, !.aside = ~u.ok]
             Held(u, v) == Near(u, v) /\ (Live(u) => Live(v))
  <1>1. t \in Each(Ask(s), LAMBDA u :
          IF ~u.link \/ u.session THEN Refuses(u)
          ELSE {Opened(u)} \cup {v \in {u} : ~u.ok})
    BY DEF SmConn
  <1>2. ASSUME NEW u, NEW v, Same(u, v) PROVE Held(u, v) /\ v \in State
    BY <1>2 DEF Same, Near, Kept
  <1>3. ASSUME NEW u \in State, NEW v \in Refuses(u) PROVE Held(u, v)
    BY <1>2, <1>3, ReturnsSame
  <1>4. ASSUME NEW u \in State PROVE Held(u, Opened(u))
    <2> DEFINE a == ~u.ok
               Open == [u EXCEPT !.session = TRUE, !.subscribed = FALSE, !.aside = a]
    <2>1. a \in BOOLEAN /\ Opened(u) = Open
      BY Zenon
    <2> HIDE DEF a
    <2>2. Open \in State
      BY <1>4, <2>1 DEF State
    <2>3. /\ Open.connected = u.connected /\ Open.announced = u.announced
          /\ Open.given_up = u.given_up /\ Open.hung = u.hung
          /\ Open.due = u.due /\ Open.timer = u.timer /\ Open.notified = u.notified
          /\ Open.port = u.port /\ Open.leaked = u.leaked
      BY <1>4 DEF State
    <2> HIDE DEF Open, Opened
    <2> QED
      BY <2>1, <2>2, <2>3, Zenon DEF Near, Armed, Live
  <1>5. ASSUME NEW u \in Ask(s) PROVE Held(s, u) /\ u \in State
    BY <1>2, <1>5, AskSame
  <1>6. ASSUME NEW u, Held(s, u), NEW v, Held(u, v) PROVE Held(s, v)
    BY <1>6 DEF Near
  <1> HIDE DEF Refuses, Opened, Held
  <1>7. Held(s, t)
    BY <1>1, <1>3, <1>4, <1>5, <1>6 DEF Each
  <1> QED
    BY <1>7 DEF Held

\* What a disconnection changes in the leaf, whatever it was.
LEMMA OnDisconnectSame ==
  ASSUME NEW s \in State
  PROVE  Same(s, OnDisconnect(s)) /\ Sound(OnDisconnect(s))
         /\ Live(OnDisconnect(s)) /\ Subscribed(OnDisconnect(s))
  BY DEF OnDisconnect, Same, Near, Kept, Sound, Armed, Live, Settled, Subscribed, State

\* Disconnecting.
LEMMA PubsubDisconnectSame ==
  ASSUME NEW s \in State, NEW t \in PubsubDisconnect(s)
  PROVE  Same(s, t)
  <1> DEFINE Forgets(u) == [OnDisconnect(u) EXCEPT !.notified = FALSE]
  <1>1. t \in Each(Ask(s), LAMBDA u :
          IF ~u.session THEN {u}
          ELSE IF ~u.ok THEN {u, Closed(u)}
          ELSE Each(ConnectStatus(Closed(u)), LAMBDA v : {Forgets(v)}))
    BY DEF PubsubDisconnect
  <1>2. ASSUME NEW u \in State PROVE Same(u, Forgets(u))
    BY ZenonT(40), <1>2 DEF OnDisconnect, Same, Near, Kept, Armed, Live, Subscribed, State
  <1>3. ASSUME NEW u \in State PROVE Same(u, Closed(u))
    BY ZenonT(40), <1>3 DEF Closed, Same, Near, Kept, Armed, Live, Subscribed, State
  <1> HIDE DEF Forgets
  <1>4. ASSUME NEW u \in Ask(s) PROVE Same(s, u) /\ u \in State
    BY <1>4, AskSame DEF Same, Near
  <1>5. ASSUME NEW u, NEW v, Same(u, v) PROVE v \in State
    BY <1>5 DEF Same, Near
  <1> QED
    BY <1>1, <1>2, <1>3, <1>4, <1>5, ConnectStatusSame, SameTwice DEF Each

\* Putting a message into the queue.
LEMMA EnqueueSame ==
  ASSUME NEW s \in State
  PROVE  Same(s, Enqueue(s))
  BY SimcomAssumption DEF Enqueue, Same, Near, Kept, Armed, Live, Subscribed, State

\* Subscribing: what is connected after that is subscribed, or was refused.
LEMMA SubscribeSame ==
  ASSUME NEW s \in State, NEW t \in Subscribe(s)
  PROVE  Same(s, t) /\ (t.hung \/ Subscribed(t))
  <1> DEFINE Fresh == [s EXCEPT !.beat = IF opt.heartbeat THEN "fresh" ELSE @]
             Heard(u) == [u EXCEPT !.subscribed = TRUE, !.aside = FALSE]
             Denied(u) == [u EXCEPT !.aside = TRUE]
  <1>1. \/ t = Fresh /\ ~Fresh.connected
        \/ t \in Each(Ask(Fresh), LAMBDA u :
             {IF u.ok /\ u.session THEN Heard(u) ELSE Denied(u)})
    BY DEF Subscribe
  <1>2. Same(s, Fresh)
    BY DEF Same, Near, Kept, Armed, Live, Subscribed, State
  <1>3. ASSUME NEW u \in State
        PROVE  /\ Same(u, Heard(u)) /\ Subscribed(Heard(u))
               /\ Same(u, Denied(u)) /\ Subscribed(Denied(u))
    BY ZenonT(40), <1>3 DEF Same, Near, Kept, Armed, Live, Subscribed, State
  <1>4. Fresh \in State
    BY <1>2 DEF Same, Near
  <1>5. ~Fresh.connected => Subscribed(Fresh)
    BY DEF Subscribed
  <1> HIDE DEF Fresh, Heard, Denied
  <1>6. ASSUME NEW u \in Ask(Fresh) PROVE Same(s, u) /\ u \in State
    BY <1>2, <1>4, <1>6, AskSame, SameTwice DEF Same, Near
  <1>7. CASE t = Fresh /\ ~Fresh.connected
    BY <1>2, <1>5, <1>7
  <1>8. CASE t \in Each(Ask(Fresh), LAMBDA u :
             {IF u.ok /\ u.session THEN Heard(u) ELSE Denied(u)})
    <2>1. PICK u \in Ask(Fresh) : (t = u /\ u.hung) \/ t = Heard(u) \/ t = Denied(u)
      BY <1>8 DEF Each
    <2> QED
      BY <1>3, <1>6, <2>1, SameTwice
  <1> QED
    BY <1>1, <1>7, <1>8

-----------------------------------------------------------------------------
(* The MQTT leaf: publishing.                                              *)

\* The prompt and the payload.
LEMMA SendClears ==
  ASSUME NEW s, Clear(s), NEW t \in Send(s)
  PROVE  Clear(t) /\ Kept(s, t)
  <1>1. ASSUME NEW u, Sound(u), Kept(s, u), NEW v \in Ask(u)
        PROVE  Sound(v) /\ Kept(s, v)
    BY <1>1, AskSound, KeptTwice DEF Same
  <1>2. ASSUME NEW u, Sound(u), Kept(s, u)
        PROVE  Clear(Release(u)) /\ Kept(s, Release(u))
    BY <1>2, ReleaseClears, KeptTwice
  <1>3. ASSUME NEW u \in WaitPort(s)
        PROVE  Sound(u) /\ (Clear(u) \/ u.ok) /\ Kept(s, u)
    BY <1>3, WaitPortTakes
  <1> QED
    BY <1>1, <1>2, <1>3, HungClears DEF Send, Transaction, Each

\* A publication, which may have to open the session, and says so.
LEMMA PublishClears ==
  ASSUME NEW s, Clear(s), NEW t \in Publish(s)
  PROVE  Clear(t) /\ Kept(s, t)
  <1> DEFINE Aside(u) == [u EXCEPT !.aside = TRUE]
  <1>1. IF ~s.connected THEN t = Enqueue(s)
        ELSE t \in Each(ConnectStatus(s), LAMBDA u :
          IF u.ok \/ ~u.ip THEN Send(u)
          ELSE Each(SmConn(u), LAMBDA v :
                 IF v.ok THEN Send(Aside(v)) ELSE {OnDisconnect(v)}))
    BY DEF Publish
  <1>2. ASSUME NEW u, Clear(u), NEW v, Near(u, v), Live(u) => Live(v)
        PROVE  Clear(Aside(v)) /\ Kept(u, Aside(v))
    <2>1. v \in State /\ Aside(v) \in State
      BY <1>2 DEF Near, State
    <2>2. /\ Free(v) <=> Free(Aside(v))
          /\ Armed(v) <=> Armed(Aside(v))
          /\ Live(v) <=> Live(Aside(v))
          /\ Subscribed(Aside(v))
      BY <2>1 DEF Free, Armed, Live, Subscribed, State
    <2>3. Free(v) /\ Armed(v)
      BY <1>2 DEF Clear, Sound, Free, Near
    <2> HIDE DEF Aside
    <2> QED
      BY <1>2, <2>1, <2>2, <2>3 DEF Clear, Sound, Kept, Settled
  <1>3. ASSUME NEW u, Clear(u), NEW v, Near(u, v)
        PROVE  Clear(OnDisconnect(v)) /\ Kept(u, OnDisconnect(v))
    BY <1>3, OnDisconnectSame DEF Clear, Free, Same, Near, Kept
  <1> HIDE DEF Aside
  <1>4. ASSUME NEW u \in ConnectStatus(s)
        PROVE  Clear(u) /\ Kept(s, u) /\ u \in State
    BY <1>4, ConnectStatusSame, SameClear, HungClears DEF Same
  <1>5. ASSUME NEW u, Clear(u), Kept(s, u), NEW v \in Send(u)
        PROVE  Clear(v) /\ Kept(s, v)
    BY <1>5, SendClears, KeptTwice
  <1>6. ASSUME NEW u, Clear(u), Kept(s, u), NEW v \in SmConn(u)
        PROVE  /\ Clear(Aside(v)) /\ Kept(s, Aside(v))
               /\ Clear(OnDisconnect(v)) /\ Kept(s, OnDisconnect(v))
               /\ v.hung = u.hung
    <2>1. Near(u, v) /\ (Live(u) => Live(v))
      BY <1>6, SmConnNear, HungClears
    <2> QED
      BY <1>2, <1>3, <1>6, <2>1, KeptTwice DEF Near
  <1>7. Clear(Enqueue(s)) /\ Kept(s, Enqueue(s))
    BY HungClears, EnqueueSame, SameClear DEF Same
  <1> QED
    BY <1>1, <1>4, <1>5, <1>6, <1>7 DEF Each

\* A message from the queue.
LEMMA SendOneClears ==
  ASSUME NEW s, Clear(s), NEW t \in SendOne(s)
  PROVE  Clear(t) /\ Kept(s, t)
  <1> DEFINE Taken == [s EXCEPT !.queue = @ - 1]
  <1>1. t = s \/ (s.queue # 0 /\ t \in Publish(Taken))
    BY DEF SendOne
  <1>2. s.queue # 0 => Clear(Taken) /\ Kept(s, Taken)
    BY HungClears, SimcomAssumption
    DEF Clear, Sound, Free, Kept, Armed, Live, Settled, Subscribed, State
  <1> HIDE DEF Taken
  <1> QED
    BY <1>1, <1>2, PublishClears, KeptTwice

\* Of the numbers that have a property one is the least, so what holds of a
\* number whenever it holds of all smaller ones holds of every number.
LEMMA NoLeastNone ==
  ASSUME NEW S \in SUBSET Nat, \A n \in S : \E k \in S : k < n
  PROVE  S = {}
  <1> DEFINE R == {ss \in Nat \X Nat : ss[1] < ss[2]}
  <1>1. OpToRel(<, Nat) = R
    BY Zenon DEF OpToRel
  <1>2. IsWellFoundedOn(R, Nat)
    BY <1>1, NatLessThanWellFounded, Zenon
  <1>3. SUFFICES ASSUME S # {} PROVE FALSE
    OBVIOUS
  <1>4. PICK n \in S : \A k \in S : <<k, n>> \notin R
    BY <1>2, <1>3, WFMin
  <1>5. PICK k \in S : k < n
    OBVIOUS
  <1>6. <<k, n>> \in Nat \X Nat /\ <<k, n>>[1] = k /\ <<k, n>>[2] = n
    OBVIOUS
  <1> QED
    BY <1>4, <1>5, <1>6

\* Flushing the queue before going on: the function it is defined by exists, and
\* every round of it leaves things as they should be.
LEMMA DrainQueueClears ==
  ASSUME NEW s, Clear(s), NEW t \in DrainQueue(s)
  PROVE  Clear(t) /\ Kept(s, t)
  <1> DEFINE Good(u) == Clear(u) /\ Kept(s, u)
             Stuck(u) == [u EXCEPT !.hung = TRUE]
             One(u) == IF u.queue > 0 /\ ~u.connected THEN {Stuck(u)} ELSE SendOne(u)
             Round(S) == Each(S, One)
             Prefix(n, d) == d = [k \in 0..n |-> IF k = 0 THEN {s} ELSE Round(d[k - 1])]
             drain == CHOOSE d : Prefix(QueueSize, d)
  <1>1. DrainQueue(s) = drain[QueueSize]
    BY DEF DrainQueue
  <1>2. ASSUME NEW u, Good(u) PROVE Good(Stuck(u))
    BY <1>2 DEF Clear, Sound, Free, Kept, Armed, Live, Settled, Subscribed, State
  <1>3. ASSUME NEW u, Good(u), NEW v \in SendOne(u) PROVE Good(v)
    BY <1>3, SendOneClears, KeptTwice
  <1>4. Good(s)
    BY KeptTwice
  <1> HIDE DEF Stuck, Good
  <1>5. ASSUME NEW S, \A u \in S : Good(u), NEW v \in Round(S) PROVE Good(v)
    BY <1>2, <1>3, <1>5 DEF Each
  <1> HIDE DEF Round
  <1>6. \A n \in Nat : \E d : Prefix(n, d)
    <2> DEFINE None == {n \in Nat : ~\E d : Prefix(n, d)}
    <2>1. ASSUME NEW n \in None PROVE \E k \in None : k < n
      <3>1. CASE n = 0
        <4> DEFINE d == [k \in 0..n |-> {s}]
        <4>1. Prefix(n, d)
          BY <3>1
        <4> QED
          BY <4>1
      <3>2. CASE n # 0
        <4>1. n - 1 \in Nat /\ n - 1 < n
          BY <3>2
        <4>2. SUFFICES ASSUME n - 1 \notin None PROVE FALSE
          BY <4>1
        <4>3. PICK e : Prefix(n - 1, e)
          BY <4>1, <4>2
        <4> DEFINE d == [k \in 0..n |-> IF k = n THEN Round(e[n - 1]) ELSE e[k]]
        <4>4. \A k \in 0..n - 1 : d[k] = e[k]
          BY <4>1
        <4>5. ASSUME NEW k \in 0..n
              PROVE  d[k] = IF k = 0 THEN {s} ELSE Round(d[k - 1])
          <5>1. CASE k = n
            BY <3>2, <4>1, <4>4, <5>1
          <5>2. CASE k # n
            <6>1. k \in 0..n - 1 /\ (k # 0 => k - 1 \in 0..n - 1)
              BY <5>2
            <6>2. e[k] = IF k = 0 THEN {s} ELSE Round(e[k - 1])
              BY <4>3, <6>1
            <6> QED
              BY <4>4, <6>1, <6>2
          <5> QED
            BY <5>1, <5>2
        <4>6. Prefix(n, d)
          BY <4>5
        <4> QED
          BY <4>6
      <3> QED
        BY <3>1, <3>2
    <2> HIDE DEF None
    <2>2. None = {}
      BY <2>1, NoLeastNone DEF None
    <2> QED
      BY <2>2 DEF None
  <1>7. Prefix(QueueSize, drain)
    BY <1>6, SimcomAssumption
  <1> HIDE DEF drain
  <1>8. ASSUME NEW n \in 0..QueueSize
        PROVE  drain[n] = IF n = 0 THEN {s} ELSE Round(drain[n - 1])
    BY <1>7
  <1>9. \A n \in 0..QueueSize : \A u \in drain[n] : Good(u)
    <2> DEFINE Bad == {n \in 0..QueueSize : ~\A u \in drain[n] : Good(u)}
    <2>1. ASSUME NEW n \in Bad PROVE \E k \in Bad : k < n
      <3>1. n # 0
        BY <1>4, <1>8, SimcomAssumption
      <3>2. n - 1 \in 0..QueueSize /\ n - 1 < n
        BY <3>1, SimcomAssumption
      <3>3. ~\A u \in drain[n - 1] : Good(u)
        BY <1>5, <1>8, <3>1
      <3> QED
        BY <3>2, <3>3
    <2>2. Bad \in SUBSET Nat
      BY SimcomAssumption
    <2> HIDE DEF Bad
    <2>3. Bad = {}
      BY <2>1, <2>2, NoLeastNone
    <2> QED
      BY <2>3 DEF Bad
  <1> QED
    BY <1>1, <1>9, SimcomAssumption DEF Good

-----------------------------------------------------------------------------
(* The MQTT leaf: connecting.                                              *)

\* An attempt starts with the retry taken off; what it owes its caller is to
\* say whether there is a connection, or to be told of the failure.
Tidy(s) == s \in State /\ Settled(s) /\ Free(s)
Attempted(s) == Tidy(s) /\ (s.hung \/ ~s.ok \/ Live(s))

\* What is clear is tidy, and a bare call leaves tidy what is.
LEMMA TidyKept ==
  ASSUME NEW s
  PROVE  /\ Clear(s) => Tidy(s)
         /\ \A t : Tidy(s) /\ Same(s, t) => Tidy(t)
  BY SameClear DEF Tidy, Clear, Sound, Same, Near

\* A connection: announced, perhaps subscribed, the queue emptied.
LEMMA OnConnectClears ==
  ASSUME NEW s, Tidy(s), NEW do_subscribe \in BOOLEAN, ~s.notified \/ opt.reuse,
         NEW t \in OnConnect(s, do_subscribe)
  PROVE  /\ Clear(t) /\ Live(t)
         /\ do_subscribe => t.hung \/ Subscribed(t)
  <1> DEFINE Up == [s EXCEPT !.timer = FALSE, !.connected = TRUE, !.connecting = FALSE]
             Good(u) == Clear(u) /\ Live(u)
             Heard(u) == Good(u) /\ (do_subscribe => u.hung \/ Subscribed(u))
  <1>1. t \in Each(Each(Publish(Up), LAMBDA u : IF do_subscribe THEN Subscribe(u) ELSE {u}),
                   DrainQueue)
    BY DEF OnConnect
  <1>2. Good(Up)
    BY DEF Tidy, Clear, Sound, Free, Armed, Live, Settled, Subscribed, State
  <1> HIDE DEF Up
  <1>3. ASSUME NEW u \in Publish(Up) PROVE Good(u)
    BY <1>2, <1>3, PublishClears DEF Kept
  <1>4. ASSUME NEW u, Good(u), NEW v \in Subscribe(u)
        PROVE  Good(v) /\ (v.hung \/ Subscribed(v))
    BY <1>4, HungClears, SubscribeSame, SameClear DEF Same, Kept
  <1>5. ASSUME NEW u, Heard(u), ~u.hung, NEW v \in DrainQueue(u) PROVE Heard(v)
    BY <1>5, DrainQueueClears DEF Kept
  <1> HIDE DEF Good
  <1>6. ASSUME NEW u \in Each(Publish(Up),
                            LAMBDA v : IF do_subscribe THEN Subscribe(v) ELSE {v})
        PROVE  Heard(u)
    BY <1>3, <1>4, <1>6 DEF Each
  <1> HIDE DEF Heard
  <1>7. Heard(t)
    BY <1>1, <1>5, <1>6 DEF Each
  <1> QED
    BY <1>7 DEF Heard, Good

\* What is known of a connection after it was announced.
LEMMA KnownClears ==
  ASSUME NEW s, Clear(s), s.connected => Subscribed(s)
  PROVE  Clear([s EXCEPT !.notified = s.connected])
  BY DEF Clear, Sound, Free, Armed, Settled, Subscribed, State

\* A session that was found is used.
LEMMA ReuseClears ==
  ASSUME NEW s, Tidy(s), opt.reuse, NEW t \in Reuse(s)
  PROVE  Clear(t) /\ Live(t)
  <1> DEFINE Known(u) == [u EXCEPT !.notified = u.connected]
             Succeeds(u) == Returns(u, TRUE)
             Connect(u) == OnConnect(u, FALSE)
  <1>1. t \in Each(IF s.connected THEN {s} ELSE Each(Connect(s), LAMBDA u : {Known(u)}),
                   LAMBDA u : Succeeds(u))
    BY DEF Reuse
  <1>2. ASSUME NEW u, Clear(u), Live(u) PROVE Clear(Known(u)) /\ Live(Known(u))
    <2>1. Clear(Known(u))
      BY <1>2, KnownClears DEF Subscribed
    <2>2. Live(Known(u))
      BY <1>2 DEF Live, Clear, Sound, State
    <2> QED
      BY <2>1, <2>2
  <1>3. ASSUME NEW u, Clear(u), Live(u), NEW v \in Succeeds(u) PROVE Clear(v) /\ Live(v)
    BY <1>3, ReturnsSame, SameClear, HungClears DEF Same, Kept
  <1>4. ASSUME NEW v \in Connect(s) PROVE Clear(v) /\ Live(v)
    BY <1>4, OnConnectClears
  <1>5. s.connected => Clear(s) /\ Live(s)
    BY DEF Tidy, Clear, Sound, Armed, Live
  <1> HIDE DEF Known, Succeeds, Connect
  <1> QED
    BY <1>1, <1>2, <1>3, <1>4, <1>5 DEF Each

\* The end of an attempt that failed, with the lock given back.
LEMMA FailedAttempted ==
  ASSUME NEW s \in State, Settled(s), NEW t \in Failed(s)
  PROVE  Attempted(t)
  BY ZenonT(40) DEF Failed, Release, Attempted, Tidy, Free, Settled, Subscribed, State

\* Or a new one made, and the lock given back on both ways out.
LEMMA EstablishAttempts ==
  ASSUME NEW s \in State, NEW t \in Establish(s)
  PROVE  Attempted(t)
  <1> DEFINE Down == [s EXCEPT !.connected = FALSE]
             Made(u) == [Release(u) EXCEPT !.connected = u.ok,
                                           !.aside = @ \/ (u.ok /\ u.notified)]
  <1>1. t \in Each(ConnectStatus(Down), LAMBDA u :
          IF u.ok THEN Failed(u) ELSE Each(SmConn(u), LAMBDA v : {Made(v)}))
    BY DEF Establish
  <1>2. Down \in State /\ Subscribed(Down)
    BY DEF Subscribed, State
  <1>3. ASSUME NEW u \in State PROVE Attempted(Made(u))
    <2> DEFINE a == u.aside \/ (u.ok /\ u.notified)
               New == [Release(u) EXCEPT !.connected = u.ok, !.aside = a]
    <2>1. Release(u) \in State /\ Release(u).aside = u.aside
      BY DEF Release, State
    <2>2. Made(u) = New
      BY <2>1, Zenon
    <2>3. a \in BOOLEAN
      BY Zenon DEF State
    <2>4. u.ok /\ u.notified => a
      BY Zenon
    <2> HIDE DEF a
    <2>5. New \in State
      BY <2>1, <2>3 DEF State
    <2>6. /\ New.notified = u.notified /\ New.connected = u.ok /\ New.aside = a
          /\ New.port = FALSE /\ New.ok = u.ok
      BY <2>1 DEF Release, State
    <2> HIDE DEF New
    <2>7. Settled(New) /\ Free(New) /\ (New.hung \/ ~New.ok \/ Live(New))
      BY <2>4, <2>6, Zenon DEF Settled, Subscribed, Free, Live
    <2> HIDE DEF Made
    <2> QED
      BY <2>2, <2>5, <2>7 DEF Attempted, Tidy
  <1> HIDE DEF Down, Made
  <1>4. ASSUME NEW u \in ConnectStatus(Down)
        PROVE  u \in State /\ Settled(u) /\ (u.hung => Attempted(u))
    BY <1>2, <1>4, ConnectStatusSame DEF Same, Near, Kept, Settled, Attempted, Tidy, Free
  <1>5. ASSUME NEW u \in State, NEW v \in SmConn(u)
        PROVE  v \in State /\ v.hung = u.hung
    BY <1>5, SmConnNear DEF Near
  <1> QED
    BY <1>1, <1>3, <1>4, <1>5, FailedAttempted DEF Each

\* pubsubConnect gives the lock back on every way out, and what it says of the
\* connection is true.
LEMMA PubsubConnectAttempts ==
  ASSUME NEW s, Tidy(s), NEW t \in PubsubConnect(s)
  PROVE  Attempted(t)
  <1> DEFINE Trying == [s EXCEPT !.connecting = TRUE]
             Offline == Returns(s, FALSE)
             Untaken == Returns(Trying, FALSE)
             Taken == [Trying EXCEPT !.port = TRUE, !.leaked = FALSE, !.ok = TRUE]
             Fit(u) == u \in State /\ Settled(u)
  <1>1. \/ t \in Offline
        \/ t \in Each(WaitPort(Trying), LAMBDA u :
             IF ~u.ok THEN {u}
             ELSE Each(Ask(u), LAMBDA v :
               IF ~v.ok THEN Failed(v)
               ELSE Each(ConnectStatus(v), LAMBDA w :
                 IF w.ok /\ opt.reuse THEN Reuse(Release(w))
                 ELSE Each(IF w.ok THEN PubsubDisconnect(w) ELSE {w}, Establish))))
    BY DEF PubsubConnect
  <1>2. ASSUME t \in Offline PROVE Attempted(t)
    BY <1>2, ReturnsSame, TidyKept DEF Attempted, Tidy
  <1>3. Tidy(Trying)
    BY DEF Tidy, Free, Settled, Subscribed, State
  <1>4. ASSUME NEW u \in WaitPort(Trying)
        PROVE  Fit(u) /\ (u.hung => Attempted(u)) /\ (~u.ok => Attempted(u))
    <2>1. u \in Untaken \/ u = Taken
      BY <1>4 DEF WaitPort
    <2> HIDE DEF Trying
    <2>2. CASE u = Taken
      <3>1. Fit(Taken) /\ Taken.ok
        BY ZenonT(40), <1>3 DEF Tidy, Settled, Subscribed, State
      <3>2. Taken.hung => Attempted(Taken)
        BY <3>1 DEF Attempted, Tidy, Free
      <3> HIDE DEF Taken
      <3> QED
        BY <2>2, <3>1, <3>2
    <2>3. CASE u \in Untaken
      BY <1>3, <2>3, ReturnsSame, TidyKept DEF Attempted, Tidy
    <2> QED
      BY <2>1, <2>2, <2>3
  <1> HIDE DEF Trying, Offline, Untaken, Taken
  <1>5. ASSUME NEW u, Fit(u), ~u.hung, NEW v, Same(u, v) PROVE Fit(v) /\ ~v.hung
    BY <1>5, SameClear DEF Same, Near
  <1>6. ASSUME NEW u, Fit(u), ~u.hung,
               NEW v \in Ask(u) \cup ConnectStatus(u) \cup PubsubDisconnect(u)
        PROVE  Fit(v) /\ ~v.hung
    BY <1>5, <1>6, AskSame, ConnectStatusSame, PubsubDisconnectSame
  <1>7. ASSUME NEW u, Fit(u), opt.reuse, NEW v \in Reuse(Release(u)) PROVE Attempted(v)
    <2>1. Tidy(Release(u))
      BY <1>7 DEF Release, Tidy, Free, Settled, Subscribed, State
    <2> QED
      BY <1>7, <2>1, ReuseClears, TidyKept DEF Attempted
  <1>8. ASSUME NEW u, Fit(u), NEW v \in Failed(u) \cup Establish(u) PROVE Attempted(v)
    BY <1>8, FailedAttempted, EstablishAttempts
  <1> HIDE DEF Fit
  <1> QED
    BY <1>1, <1>2, <1>4, <1>6, <1>7, <1>8 DEF Each

\* The callers that do not look at the result: what did not succeed is given up.
LEMMA ConnectOnceClears ==
  ASSUME NEW s, Clear(s), NEW t \in ConnectOnce(s)
  PROVE  Clear(t) /\ (t.hung \/ t.given_up \/ Live(t))
  <1> DEFINE Noted(u) == [u EXCEPT !.given_up = ~u.ok]
             Done(u) == Clear(u) /\ (u.hung \/ u.given_up \/ Live(u))
  <1>1. t \in Each(PubsubConnect(s), LAMBDA u : {Noted(u)})
    BY DEF ConnectOnce
  <1>2. ASSUME NEW u, Attempted(u) PROVE Done(Noted(u)) /\ (u.hung => Done(u))
    <2>1. CASE u.ok
      <3>1. Noted(u) = [u EXCEPT !.given_up = FALSE]
        BY <2>1, Zenon
      <3> QED
        BY ZenonT(40), <1>2, <2>1, <3>1
        DEF Attempted, Tidy, Clear, Sound, Free, Armed, Live, Settled, Subscribed, State
    <2>2. CASE ~u.ok
      <3>1. Noted(u) = [u EXCEPT !.given_up = TRUE]
        BY <2>2, Zenon
      <3> QED
        BY <1>2, <2>2, <3>1
        DEF Attempted, Tidy, Clear, Sound, Free, Armed, Live, Settled, Subscribed, State
    <2> QED
      BY <2>1, <2>2
  <1> HIDE DEF Noted
  <1> QED
    BY <1>1, <1>2, PubsubConnectAttempts, TidyKept DEF Each

\* Disconnecting leaves clear what is.
LEMMA PubsubDisconnectClears ==
  ASSUME NEW s, Clear(s), NEW t \in PubsubDisconnect(s)
  PROVE  Clear(t)
  BY HungClears, PubsubDisconnectSame, SameClear

-----------------------------------------------------------------------------
(* The sections of the loop.                                               *)

\* The broker was silent for too long.
LEMMA HeartbeatClears ==
  ASSUME NEW s, Clear(s), NEW t \in Heartbeat(s)
  PROVE  Clear(t)
  BY PubsubDisconnectClears, PublishClears DEF Heartbeat, Each

\* The retry is due; an attempt that fails arms the next.
LEMMA ReconnectClears ==
  ASSUME NEW s, Clear(s), NEW t \in Reconnect(s)
  PROVE  Clear(t)
  <1> DEFINE Taken == [s EXCEPT !.due = FALSE]
             Tried(u) == [u EXCEPT !.timer = @ \/ ~u.ok, !.given_up = FALSE]
  <1>1. t = s \/ t \in Each(PubsubConnect(Taken), LAMBDA u : {Tried(u)})
    BY DEF Reconnect
  <1>2. ASSUME NEW u, Attempted(u) PROVE Clear(Tried(u)) /\ (u.hung => Clear(u))
    <2> DEFINE a == u.timer \/ ~u.ok
               New == [u EXCEPT !.timer = a, !.given_up = FALSE]
    <2>1. u \in State /\ (u.hung => Clear(u))
      BY <1>2 DEF Attempted, Tidy, Clear, Sound, Armed
    <2>2. Tried(u) = New /\ a \in BOOLEAN /\ (~u.ok => a) /\ (u.timer => a)
      BY Zenon
    <2> HIDE DEF Tried, a
    <2>3. Tidy(New)
      BY ZenonT(40), <1>2, <2>2 DEF Attempted, Tidy, Free, Settled, Subscribed, State
    <2>4. New.connected = u.connected /\ New.timer = a /\ New.hung = u.hung
      BY <2>1 DEF State
    <2> HIDE DEF New
    <2>5. New.hung \/ New.connected \/ New.timer
      BY <1>2, <2>2, <2>4, Zenon DEF Attempted, Live
    <2> QED
      BY <2>1, <2>2, <2>3, <2>5 DEF Tidy, Clear, Sound, Armed
  <1>3. Tidy(Taken)
    BY DEF Clear, Sound, Tidy, Free, Settled, Subscribed, State
  <1> HIDE DEF Taken, Tried
  <1> QED
    BY <1>1, <1>2, <1>3, PubsubConnectAttempts DEF Each

\* A change of the connection is announced.
LEMMA NotifyClears ==
  ASSUME NEW s, Clear(s), NEW t \in Notify(s)
  PROVE  Clear(t)
  <1> DEFINE Known(u) == [u EXCEPT !.notified = u.connected]
             Connect == OnConnect(s, TRUE)
             Ready(u) == Clear(u) /\ (u.hung \/ (u.connected => Subscribed(u)))
  <1>1. t \in Each(IF ~s.notified /\ s.connected THEN Connect
                   ELSE IF s.notified /\ ~s.connected THEN {OnDisconnect(s)}
                   ELSE {s}, LAMBDA u : {Known(u)})
    BY DEF Notify
  <1>2. ASSUME NEW u, Ready(u) PROVE Clear(u) /\ (u.hung \/ Clear(Known(u)))
    BY <1>2, KnownClears
  <1>3. ASSUME ~s.notified, NEW u \in Connect PROVE Ready(u)
    BY <1>3, OnConnectClears, TidyKept
  <1>4. Ready(OnDisconnect(s))
    BY HungClears, OnDisconnectSame, SameClear
  <1>5. ASSUME s.notified \/ ~s.connected PROVE Ready(s)
    BY <1>5 DEF Clear, Sound, Settled
  <1> HIDE DEF Known, Connect, Ready
  <1> QED
    BY <1>1, <1>2, <1>3, <1>4, <1>5 DEF Each

\* One message of the queue is released.
LEMMA DequeueClears ==
  ASSUME NEW s, Clear(s), NEW t \in Dequeue(s)
  PROVE  Clear(t)
  BY SendOneClears DEF Dequeue

\* A line the modem sent unasked.
LEMMA ProcessURCClears ==
  ASSUME NEW s, Clear(s), NEW line \in Reports, NEW t \in ProcessURC(s, line)
  PROVE  Clear(t)
  <1> DEFINE Beaten == [s EXCEPT !.beat = "fresh"]
  <1>1. \/ t = OnDisconnect(s) \/ t = Beaten
        \/ t \in Publish(s) \/ t \in ModemAt(s)
    BY DEF ProcessURC, Reports
  <1>2. Clear(Beaten)
    BY DEF Clear, Sound, Free, Armed, Settled, Subscribed, State
  <1>3. Clear(OnDisconnect(s))
    BY HungClears, OnDisconnectSame, SameClear
  <1> HIDE DEF Beaten
  <1> QED
    BY <1>1, <1>2, <1>3, PublishClears, ModemAtClears

-----------------------------------------------------------------------------
(* The steps.                                                              *)

\* A step ends with one of the records its calls may leave.
LEMMA OutcomeClears ==
  ASSUME NEW S, \A s \in S : Clear(s), NEW t \in {[s EXCEPT !.ok = FALSE] : s \in S}
  PROVE  Clear(t)
  <1>1. PICK s \in S : t = [s EXCEPT !.ok = FALSE]
    OBVIOUS
  <1>2. Clear(s)
    BY <1>1
  <1> QED
    BY <1>1, <1>2 DEF Clear, Sound, Free, Armed, Settled, Subscribed, State

\* A section of the loop.
LEMMA PassClears ==
  ASSUME Clear(m), Pass
  PROVE  Clear(m')
  <1> DEFINE Told(u) == [u EXCEPT !.announced = m.ip]
             Read == [m EXCEPT !.urc = Tail(@)]
             After(S) == {[s EXCEPT !.ok = FALSE] : s \in S}
  <1>1. ASSUME NEW S, \A s \in S : Clear(s), m' \in After(S) PROVE Clear(m')
    BY <1>1, OutcomeClears
  <1>2. CASE LoopAnnounce
    <2> DEFINE Heard(u) == Clear(u) /\ (u.hung \/ Clear(Told(u)))
    <2>1. m' \in After(Each(IF m.ip = m.announced THEN {m}
                            ELSE IF m.ip THEN ConnectOnce(m)
                            ELSE IF m.connected THEN PubsubDisconnect(m)
                            ELSE {m}, LAMBDA u : {Told(u)}))
      BY <1>2 DEF LoopAnnounce, Turn
    <2>2. m.ip \in BOOLEAN
      BY DEF Clear, Sound, State
    <2>3. ASSUME NEW u, Clear(u), ~m.ip \/ u.hung \/ u.given_up \/ Live(u) \/ u.announced
          PROVE  Clear(Told(u))
      BY <2>2, <2>3 DEF Clear, Sound, Free, Armed, Live, Settled, Subscribed, State
    <2> HIDE DEF After, Told
    <2>4. m.ip = m.announced => Heard(m)
      BY <2>3
    <2>5. ~m.ip => Heard(m) /\ \A u \in PubsubDisconnect(m) : Heard(u)
      BY <2>3, PubsubDisconnectClears
    <2>6. \A u \in ConnectOnce(m) : Heard(u)
      BY <2>3, ConnectOnceClears
    <2> QED
      BY <1>1, <2>1, <2>4, <2>5, <2>6 DEF Each
  <1>3. CASE LoopURC
    <2>1. CASE m.urc # <<>> /\ ~m.port
      <3>1. m' \in After(ProcessURC(Read, Head(m.urc)))
        BY <1>3, <2>1 DEF LoopURC, Turn
      <3>2. m \in State /\ m.urc \in Seq(Reports)
        BY HungClears DEF State
      <3>3. Head(m.urc) \in Reports /\ Tail(m.urc) \in Seq(Reports)
        BY <2>1, <3>2
      <3>4. Clear(Read)
        BY <3>2, <3>3 DEF Clear, Sound, Free, Armed, Settled, Subscribed, State
      <3> HIDE DEF After, Read
      <3> QED
        BY <1>1, <3>1, <3>3, <3>4, ProcessURCClears
    <2>2. CASE ~(m.urc # <<>> /\ ~m.port)
      <3>1. m' \in After({m})
        BY <1>3, <2>2 DEF LoopURC, Turn
      <3> HIDE DEF After
      <3> QED
        BY <1>1, <3>1
    <2> QED
      BY <2>1, <2>2
  <1>4. CASE LoopHeartbeat \/ LoopReconnect \/ LoopNotify \/ LoopDequeue
    <2>1. \/ m' \in After({m}) \/ m' \in After(Heartbeat(m)) \/ m' \in After(Reconnect(m))
          \/ m' \in After(Notify(m)) \/ m' \in After(Dequeue(m))
      BY <1>4
      DEF LoopHeartbeat, LoopReconnect, LoopNotify, LoopDequeue, Section, Turn
    <2> HIDE DEF After
    <2> QED
      BY <1>1, <2>1, HeartbeatClears, ReconnectClears, NotifyClears, DequeueClears
  <1> QED
    BY <1>2, <1>3, <1>4 DEF Pass

\* A device that starts holds no lock, and has announced nothing.
LEMMA BootedClears ==
  ASSUME NEW session \in BOOLEAN, NEW subscribed \in BOOLEAN, NEW link \in BOOLEAN,
         NEW faults \in 0..Faults
  PROVE  Clear(Booted(session, subscribed, link, faults))
  <1> DEFINE b == session /\ ~subscribed
  <1>1. <<>> \in Seq(Reports) /\ b \in BOOLEAN
    OBVIOUS
  <1>2. 0 \in 0..QueueSize
    BY SimcomAssumption
  <1> HIDE DEF b
  <1>3. b = (session /\ ~subscribed)
    BY DEF b
  <1>4. Booted(session, subscribed, link, faults).notified = FALSE
    BY DEF Booted
  <1> QED
    BY <1>1, <1>2, <1>3 DEF Booted, Clear, Sound, Free, Armed, Settled, State

\* A restart, whatever came before.
LEMMA RestartClears ==
  ASSUME NEW s, Clear(s), NEW t \in Restart(s)
  PROVE  Clear(t)
  <1>1. /\ s.session \in BOOLEAN /\ s.subscribed \in BOOLEAN /\ s.link \in BOOLEAN
        /\ s.faults \in 0..Faults
    BY DEF Clear, Sound, State
  <1> QED
    BY <1>1, BootedClears DEF Restart

\* Stopping the leaf runs its loop once more.
LEMMA StopClears ==
  ASSUME Clear(m), CmdStop
  PROVE  Clear(m')
  <1> DEFINE Stopped(u) == [u EXCEPT !.run = FALSE]
             After(S) == {[s EXCEPT !.ok = FALSE] : s \in S}
  <1>1. m' \in After(Each(Each(Each(Each(Each(PubsubDisconnect(m), Heartbeat), Reconnect),
                                         Notify), Dequeue), LAMBDA u : {Stopped(u)}))
    BY DEF CmdStop, Command, Between
  <1>2. ASSUME NEW S, \A s \in S : Clear(s), m' \in After(S) PROVE Clear(m')
    BY <1>2, OutcomeClears
  <1>3. ASSUME NEW u, Clear(u) PROVE Clear(Stopped(u))
    BY ZenonT(40), <1>3 DEF Clear, Sound, Free, Armed, Settled, Subscribed, State
  <1> HIDE DEF After, Stopped
  <1> QED
    BY <1>1, <1>2, <1>3, PubsubDisconnectClears, HeartbeatClears, ReconnectClears,
       NotifyClears, DequeueClears DEF Each

\* Unsubscribing is a bare call, and is remembered.
LEMMA UnsubscribeClears ==
  ASSUME NEW s, Clear(s), NEW t \in Unsubscribe(s)
  PROVE  Clear(t)
  <1> DEFINE Left(u) == [u EXCEPT !.subscribed = @ /\ ~u.ok, !.aside = @ \/ u.ok]
  <1>1. t = s \/ t \in Each(Ask(s), LAMBDA u : {Left(u)})
    BY DEF Unsubscribe
  <1>2. ASSUME NEW u, Clear(u) PROVE Clear(Left(u))
    <2> DEFINE a == u.subscribed /\ ~u.ok
               b == u.aside \/ u.ok
               New == [u EXCEPT !.subscribed = a, !.aside = b]
    <2>1. u \in State
      BY <1>2, HungClears
    <2>2. /\ Left(u) = New /\ a \in BOOLEAN /\ b \in BOOLEAN
          /\ u.subscribed \/ u.aside => a \/ b
      BY Zenon
    <2> HIDE DEF Left, a, b
    <2>3. Clear(New)
      BY ZenonT(40), <1>2, <2>1, <2>2 DEF Clear, Sound, Free, Armed, Settled, Subscribed, State
    <2> QED
      BY <2>2, <2>3
  <1> HIDE DEF Left
  <1>3. ASSUME NEW u \in Ask(s) PROVE Clear(u)
    BY <1>3, HungClears, AskSame, SameClear
  <1> QED
    BY <1>1, <1>2, <1>3 DEF Each

\* What the user and the other leaves do.
LEMMA UserClears ==
  ASSUME Clear(m), LeafPublishes \/ User
  PROVE  Clear(m')
  <1> DEFINE Started == [m EXCEPT !.run = TRUE]
             After(S) == {[s EXCEPT !.ok = FALSE] : s \in S}
  <1>1. ASSUME NEW S, \A s \in S : Clear(s), m' \in After(S) PROVE Clear(m')
    BY <1>1, OutcomeClears
  <1>2. ASSUME NEW u, Clear(u), NEW v \in Ask(u) PROVE Clear(v)
    BY <1>2, HungClears, AskSame, SameClear
  <1>3. CASE LeafPublishes
    <2>1. m' \in After(Publish(m))
      BY <1>3 DEF LeafPublishes, Between
    <2> HIDE DEF After
    <2> QED
      BY <1>1, <2>1, PublishClears
  <1>4. CASE CmdConnect \/ CmdDisconnect \/ CmdClean
    <2>1. \/ m' \in After(ConnectOnce(m)) \/ m' \in After(PubsubDisconnect(m))
          \/ m' \in After(Each(PubsubDisconnect(m), ConnectOnce))
      BY <1>4 DEF CmdConnect, CmdDisconnect, CmdClean, Command, Between
    <2> HIDE DEF After
    <2> QED
      BY <1>1, <2>1, ConnectOnceClears, PubsubDisconnectClears DEF Each
  <1>5. CASE CmdStart
    <2>1. m' \in After({Started}) \/ m' \in After(ConnectOnce(Started))
      BY <1>5 DEF CmdStart, Command, Between
    <2>2. Clear(Started)
      BY DEF Clear, Sound, Free, Armed, Settled, Subscribed, State
    <2> HIDE DEF After, Started
    <2> QED
      BY <1>1, <2>1, <2>2, ConnectOnceClears
  <1>6. CASE CmdRestart
    <2>1. m' \in After(Restart(m))
      BY <1>6 DEF CmdRestart, Command, Between
    <2> HIDE DEF After
    <2> QED
      BY <1>1, <2>1, RestartClears
  <1>7. CASE CmdSleep
    <2>1. m' \in After(Each(Each(Publish(m), LAMBDA s :
                 IF s.connected THEN Each(Publish(s), PubsubDisconnect) ELSE {s}), Restart))
      BY <1>7 DEF CmdSleep, Command, Between
    <2> HIDE DEF After
    <2> QED
      BY <1>1, <2>1, PublishClears, PubsubDisconnectClears, RestartClears DEF Each
  <1>8. CASE CmdUpdate
    <2>1. m' \in After(Each(Each(Each(Unsubscribe(m), Publish),
                                 LAMBDA s : Each(Ask(s), Publish)), LAMBDA s :
                            Each(PubsubDisconnect(s), LAMBDA t : {t} \cup Restart(t))))
      BY <1>8 DEF CmdUpdate, Command, Between
    <2> HIDE DEF After
    <2> QED
      BY <1>1, <1>2, <2>1, UnsubscribeClears, PublishClears, PubsubDisconnectClears,
         RestartClears DEF Each
  <1>9. CASE CmdTransaction
    <2>1. \/ m' \in After(CmdSendSMS(m)) \/ m' \in After(ModemAt(m))
          \/ m' \in After(TcpConnect(m)) \/ m' \in After(ModemProbe(m))
          \/ m' \in After(ModemFtpPut(m) \cup ModemFtpGet(m))
      BY <1>9 DEF CmdTransaction, Command, Between
    <2>2. \A s \in ModemFtpPut(m) \cup ModemFtpGet(m) : Clear(s)
      BY ModemFtpPutClears, ModemFtpGetClears
    <2> HIDE DEF After
    <2> QED
      BY <1>1, <2>1, <2>2, CmdSendSMSClears, ModemAtClears, TcpConnectClears, ModemProbeClears
  <1> QED
    BY <1>3, <1>4, <1>5, <1>6, <1>7, <1>8, <1>9, StopClears DEF User

\* The IP leaf asks the modem for its link.
LEMMA IpTalksClears ==
  ASSUME Clear(m), IpTalks
  PROVE  Clear(m')
  <1> DEFINE Sees(t) == [Release(Flush(t)) EXCEPT !.ip = t.link]
             Misses(t) == [Flush(t) EXCEPT !.ip = @ /\ t.link]
             Done(s) == [s EXCEPT !.ok = FALSE]
  <1>1. PICK s \in Each(WaitPort(m), LAMBDA t : {IF t.ok THEN Sees(t) ELSE Misses(t)}) :
          m' = Done(s)
    BY DEF IpTalks, World
  <1>2. ASSUME NEW t, Sound(t)
        PROVE  Clear(Sees(t)) /\ (Clear(t) => Clear(Misses(t)))
    <2>1. Flush(t) \in State /\ Sound(Flush(t)) /\ (Clear(t) => Clear(Flush(t)))
      BY <1>2, HungClears, FlushSame, SameClear DEF Same, Near
    <2>2. t.link \in BOOLEAN
      BY <1>2 DEF Sound, State
    <2>3. Clear(Sees(t))
      BY ZenonT(40), <2>1, <2>2
      DEF Release, Clear, Sound, Free, Armed, Settled, Subscribed, State
    <2>4. ASSUME Clear(t) PROVE Clear(Misses(t))
      <3> DEFINE a == Flush(t).ip /\ t.link
                 New == [Flush(t) EXCEPT !.ip = a]
      <3>1. Misses(t) = New /\ a \in BOOLEAN
        BY Zenon
      <3> HIDE DEF Misses, a
      <3> QED
        BY ZenonT(40), <2>1, <2>4, <3>1 DEF Clear, Sound, Free, Armed, Settled, Subscribed, State
    <2> QED
      BY <2>3, <2>4
  <1>3. ASSUME NEW t, Clear(t) PROVE Clear(Done(t))
    BY ZenonT(40), <1>3 DEF Clear, Sound, Free, Armed, Settled, Subscribed, State
  <1> HIDE DEF Sees, Misses, Done
  <1>4. Clear(s)
    BY <1>1, <1>2, HungClears, WaitPortTakes DEF Each
  <1> QED
    BY <1>1, <1>3, <1>4

\* Time, the modem and the broker: a session that is gone has no subscriptions
\* to miss, and a retry that is due was armed.
LEMMA WorldClears ==
  ASSUME Clear(m), TimerFires \/ BeatExpires \/ Environment
  PROVE  Clear(m')
  <1>1. m \in State /\ m.urc \in Seq(Reports)
    BY HungClears DEF State
  <1>2. ASSUME NEW line \in Reports PROVE Hears(line) \in Seq(Reports)
    BY <1>1, <1>2 DEF Hears
  <1>3. CASE TimerFires \/ BeatExpires \/ LinkReturns
    <2>1. \/ m' = [m EXCEPT !.timer = FALSE, !.due = TRUE]
          \/ m' = [m EXCEPT !.beat = "late"] \/ m' = [m EXCEPT !.link = TRUE]
      BY <1>3 DEF TimerFires, BeatExpires, LinkReturns, World
    <2>2. Clear([m EXCEPT !.timer = FALSE, !.due = TRUE])
      BY <1>1 DEF Clear, Sound, Free, Armed, Settled, Subscribed, State
    <2>3. Clear([m EXCEPT !.beat = "late"])
      BY <1>1 DEF Clear, Sound, Free, Armed, Settled, Subscribed, State
    <2>4. Clear([m EXCEPT !.link = TRUE])
      BY <1>1 DEF Clear, Sound, Free, Armed, Settled, Subscribed, State
    <2> QED
      BY <2>1, <2>2, <2>3, <2>4
  <1>4. CASE SessionDrops
    <2> DEFINE Lost(link) == [Closed(m) EXCEPT !.link = link, !.urc = Hears("lost")]
    <2>1. PICK link \in {m.link, FALSE} :
            m.faults > 0 /\ m' = [Lost(link) EXCEPT !.faults = @ - 1]
      BY <1>4 DEF SessionDrops, Fault, World
    <2>2. link \in BOOLEAN /\ Hears("lost") \in Seq(Reports)
      <3>1. link \in BOOLEAN
        BY <1>1, <2>1 DEF State
      <3>2. "lost" \in Reports
        BY DEF Reports
      <3> QED
        BY <1>2, <3>1, <3>2
    <2>3. Clear(Lost(link)) /\ Lost(link).faults = m.faults
      BY ZenonT(40), <1>1, <2>2 DEF Closed, Clear, Sound, Free, Armed, Settled, Subscribed, State
    <2> HIDE DEF Lost
    <2>4. m.faults - 1 \in 0..Faults
      BY <1>1, <2>1, PortAssumption DEF State
    <2> QED
      BY <2>1, <2>3, <2>4 DEF Clear, Sound, Free, Armed, Settled, Subscribed, State
  <1>5. CASE BrokerSends \/ PeerSends
    <2>1. PICK line \in Reports : m' = [m EXCEPT !.urc = Hears(line)]
      BY <1>5 DEF BrokerSends, PeerSends, World, Reports
    <2>2. Hears(line) \in Seq(Reports)
      BY <1>2
    <2> QED
      BY <1>1, <2>1, <2>2 DEF Clear, Sound, Free, Armed, Settled, Subscribed, State
  <1> QED
    BY <1>3, <1>4, <1>5 DEF Environment

-----------------------------------------------------------------------------
(* The theorems.                                                           *)

Inv == TypeOK /\ Clear(m)

\* The induction.
LEMMA SpecInv == Spec => []Inv
  <1>1. Init => Inv
    <2> SUFFICES ASSUME Init PROVE Inv
      OBVIOUS
    <2>1. PICK session \in BOOLEAN, link \in BOOLEAN :
            m = Booted(session /\ link, session /\ link, link, Faults)
      BY DEF Init
    <2>2. (session /\ link) \in BOOLEAN
      OBVIOUS
    <2>3. Faults \in 0..Faults
      BY PortAssumption
    <2>4. Clear(m)
      BY <2>1, <2>2, <2>3, BootedClears
    <2> QED
      BY <2>4, HungClears, SimcomAssumption DEF Init, Inv, TypeOK, Sections
  <1>2. Inv /\ [Next]_vars => Inv'
    <2> SUFFICES ASSUME Inv, [Next]_vars PROVE Inv'
      OBVIOUS
    <2>1. Clear(m) /\ TypeOK
      BY DEF Inv
    <2>2. Clear(m')
      BY <2>1, PassClears, UserClears, IpTalksClears, WorldClears DEF Next, vars
    <2>3. opt' = opt
      BY DEF Next, vars, Pass, LoopAnnounce, LoopURC, LoopHeartbeat, LoopReconnect,
        LoopNotify, LoopDequeue, Section, Turn, LeafPublishes, Between, User, CmdConnect,
        CmdDisconnect, CmdClean, CmdStop, CmdStart, CmdRestart, CmdSleep, CmdUpdate,
        CmdTransaction, Command, TimerFires, BeatExpires, IpTalks, Environment,
        SessionDrops, LinkReturns, BrokerSends, PeerSends, Fault, World
    <2>4. at' \in Sections
      BY <2>1 DEF TypeOK, Sections, Next, vars, Pass, LoopAnnounce, LoopURC,
        LoopHeartbeat, LoopReconnect, LoopNotify, LoopDequeue, Section, Turn,
        LeafPublishes, Between, User, CmdConnect, CmdDisconnect, CmdClean, CmdStop,
        CmdStart, CmdRestart, CmdSleep, CmdUpdate, CmdTransaction, Command, TimerFires,
        BeatExpires, IpTalks, Environment, SessionDrops, LinkReturns, BrokerSends,
        PeerSends, Fault, World
    <2>5. commands' \in 0..Commands
      <3>1. commands' = commands \/ (commands > 0 /\ commands' = commands - 1)
        BY DEF Next, vars, Pass, LoopAnnounce, LoopURC, LoopHeartbeat, LoopReconnect,
          LoopNotify, LoopDequeue, Section, Turn, LeafPublishes, Between, User,
          CmdConnect, CmdDisconnect, CmdClean, CmdStop, CmdStart, CmdRestart, CmdSleep,
          CmdUpdate, CmdTransaction, Command, TimerFires, BeatExpires, IpTalks,
          Environment, SessionDrops, LinkReturns, BrokerSends, PeerSends, Fault, World
      <3> QED
        BY <2>1, <3>1, SimcomAssumption DEF TypeOK
    <2>6. Clear(m)'
      BY <2>2, <2>3 DEF Clear, Sound, Free, Armed, Settled, Subscribed
    <2>7. m' \in State /\ opt' \in Options
      BY <2>1, <2>2, <2>3, HungClears DEF TypeOK
    <2> QED
      BY <2>4, <2>5, <2>6, <2>7 DEF Inv, TypeOK
  <1> QED
    BY <1>1, <1>2, PTL DEF Spec

\* The leaf and the modem stay within the records the model is made of: the
\* queue keeps its size, and what waits in the UART is one of the known lines.
THEOREM TypeCorrect == Spec => []TypeOK
  BY SpecInv, PTL DEF Inv

\* However the transactions of the MQTT leaf, of the IP leaf and of the commands
\* follow each other, and whatever answer is garbled in any of them, the lock
\* on the port stays taken only if one of the calls known to keep it (reading
\* a file from the modem, an FTP session that is abandoned) took it last.
THEOREM LockComesBack == Spec => []PortReturned
  <1>1. Inv => PortReturned
    BY DEF Inv, Clear, Free, PortReturned
  <1> QED
    BY <1>1, SpecInv, PTL

\* However a connection was lost, and wherever an attempt failed, an MQTT leaf
\* whose IP leaf is there has a retry coming, unless the attempt that failed
\* was one whose caller does not look.
THEOREM RetryIsArmed == Spec => []NeverStranded
  <1>1. Inv => NeverStranded
    BY DEF Inv, Clear, Sound, Armed, NeverStranded
  <1> QED
    BY <1>1, SpecInv, PTL

\* Whoever opened the session, the loop, a publication or a command, a leaf that
\* has announced it has its subscriptions or is known not to.
THEOREM SettledIsSubscribed == Spec => []SubscribedWhenSettled
  <1>1. Inv => SubscribedWhenSettled
    BY DEF Inv, Clear, Sound, Settled, Subscribed, SubscribedWhenSettled
  <1> QED
    BY <1>1, SpecInv, PTL
==============================================================================
