---------------------------- MODULE ModemIpProofs ----------------------------
(***************************************************************************)
(* Proofs about IP over the modem, for any settings, limits and number of  *)
(* faults: a loss of the link is not forgotten, and a leaf that is offline *)
(* has something coming that tries again.                                  *)
(*                                                                         *)
(* A call is an operator on records.  A lemma says of a call what the      *)
(* record it leaves owes to the one it was started with.                   *)
(***************************************************************************)
EXTENDS ModemIp, TLAPS

\* Why LossIsKnown holds: between two calls, whatever they are.
Known(s) == s.connected /\ s.power /\ ~s.link => s.missed \/ Told(s)

\* Without a search nobody turns the receiver on; if it were, an attempt would
\* be refused and not repeated.
Quiet(s) == Plain /\ ~s.asked => ~s.gps_active

\* Why NeverStranded holds: an offline leaf has a retry or a probe coming, or
\* was never started and has not seen its modem.
Due(s) == s.due \/ s.timer \/ s.needs_reboot \/ s.probe_due \/ s.probe_timer
Hopes(s) == Plain /\ ~s.asked /\ ~s.connected => Due(s) \/ (~s.run /\ ~s.present)

Fine(s) == s \in State /\ Known(s) /\ Quiet(s) /\ Hopes(s)

\* What every call keeps, what most keep, and what an attempt to connect does.
Calm(s, t)  == t \in State /\ t.asked = s.asked /\ (Known(s) => Known(t))
Keeps(s, t) ==
  Calm(s, t) /\ (Quiet(s) => Quiet(t)) /\ (Quiet(s) /\ Hopes(s) => Hopes(t))
Dials(s, t) == Calm(s, t) /\ (Quiet(s) => Quiet(t) /\ Hopes(t))

\* What does not touch the connection, the link, the receiver and the retries.
Alike(s, t) ==
  /\ t.connected = s.connected /\ t.power = s.power /\ t.link = s.link
  /\ t.missed = s.missed /\ t.urc = s.urc /\ t.asked = s.asked
  /\ t.gps_active = s.gps_active /\ t.run = s.run /\ (t.present => s.present)
  /\ Due(s) => Due(t)

-----------------------------------------------------------------------------
(* One call after the other.                                               *)

\* Calls that keep something compose.
LEMMA KeepsTwice ==
  ASSUME NEW s, NEW t, NEW u
  PROVE  /\ Keeps(s, t) /\ Keeps(t, u) => Keeps(s, u)
         /\ Calm(s, t) /\ Calm(t, u) => Calm(s, u)
         /\ Keeps(s, t) /\ Dials(t, u) => Dials(s, u)
         /\ Keeps(s, t) => Calm(s, t)
         /\ Calm(s, t) => t \in State
         /\ Dials(s, t) => Keeps(s, t)
  BY DEF Keeps, Calm, Dials

\* Doing nothing.
LEMMA KeepsSelf ==
  ASSUME NEW s \in State
  PROVE  Keeps(s, s)
  BY DEF Keeps, Calm

\* What is alike is kept.
LEMMA AlikeKeeps ==
  ASSUME NEW s, NEW t \in State, Alike(s, t)
  PROVE  Keeps(s, t)
  BY DEF Alike, Keeps, Calm, Known, Quiet, Hopes, Told

-----------------------------------------------------------------------------
(* Talking to the modem.                                                   *)

\* Lines that are thrown away are remembered.
LEMMA FlushKeeps ==
  ASSUME NEW s \in State
  PROVE  Keeps(s, Flush(s))
  <1> DEFINE a == s.missed \/ Told(s)
             New == [s EXCEPT !.urc = <<>>, !.missed = a]
  <1>1. Flush(s) = New
    BY Zenon DEF Flush
  <1>2. a \in BOOLEAN /\ (s.missed => a) /\ (Told(s) => a)
    BY Zenon
  <1>3. <<>> \in Seq(Reports)
    OBVIOUS
  <1> HIDE DEF a
  <1>4. New \in State
    BY <1>2, <1>3 DEF State
  <1>5. /\ New.missed = a /\ New.connected = s.connected /\ New.power = s.power
        /\ New.link = s.link /\ New.asked = s.asked /\ New.run = s.run
        /\ New.present = s.present /\ New.gps_active = s.gps_active
        /\ New.due = s.due /\ New.timer = s.timer /\ New.needs_reboot = s.needs_reboot
        /\ New.probe_due = s.probe_due /\ New.probe_timer = s.probe_timer
    BY DEF State
  <1> HIDE DEF New
  <1>6. Keeps(s, New)
    BY <1>2, <1>4, <1>5, Zenon DEF Keeps, Calm, Known, Quiet, Hopes, Due
  <1> QED
    BY <1>1, <1>6

\* Returning a result.
LEMMA ReturnsKeeps ==
  ASSUME NEW s \in State, NEW ok \in BOOLEAN, NEW t \in Returns(s, ok)
  PROVE  Keeps(s, t) /\ t.ok = ok /\ t.link = s.link /\ t.present = s.present
  <1>1. t = [s EXCEPT !.ok = ok]
    BY DEF Returns
  <1>2. t \in State
    BY <1>1 DEF State
  <1>3. Alike(s, t) /\ t.ok = ok /\ t.link = s.link /\ t.present = s.present
    BY <1>1 DEF Alike, Due, State
  <1> QED
    BY <1>2, <1>3, AlikeKeeps

\* A command and its answer.
LEMMA AskKeeps ==
  ASSUME NEW s \in State, NEW t \in Ask(s)
  PROVE  Keeps(s, t) /\ t \in State
  <1> DEFINE Garbled(f) == [Flush(s) EXCEPT !.ok = FALSE, !.faults = f]
             Answered == Returns(Flush(s), s.power)
  <1>1. t \in Answered \/ \E f \in 0..Faults : t = Garbled(f)
    BY DEF Ask
  <1>2. Keeps(s, Flush(s)) /\ Flush(s) \in State
    BY FlushKeeps, KeepsTwice
  <1>3. ASSUME NEW f \in 0..Faults PROVE Keeps(Flush(s), Garbled(f))
    <2>1. Garbled(f) \in State
      BY ZenonT(60), <1>2 DEF State
    <2>2. Alike(Flush(s), Garbled(f))
      BY <1>2 DEF Alike, Due, State
    <2> QED
      BY <2>1, <2>2, AlikeKeeps
  <1>4. s.power \in BOOLEAN
    BY DEF State
  <1>5. ASSUME t \in Answered PROVE Keeps(Flush(s), t)
    BY <1>2, <1>4, <1>5, ReturnsKeeps
  <1> HIDE DEF Garbled, Answered
  <1> QED
    BY <1>1, <1>2, <1>3, <1>5, KeepsTwice

\* What the leaf was told of is known, and so is what it does not believe in.
LEMMA KnownWhen ==
  ASSUME NEW s
  PROVE  /\ s.urc = <<"rdy">> => Known(s)
         /\ s.urc = <<"deactive">> => Known(s)
         /\ ~s.connected \/ ~s.power \/ s.link \/ s.missed => Known(s)
  BY DEF Known, Told, Losses

\* The key of the modem.
LEMMA BootKeeps ==
  ASSUME NEW s \in State
  PROVE  Keeps(s, Boot(s)) /\ Boot(s) \in State
  <1> DEFINE On == [s EXCEPT !.power = TRUE, !.link = FALSE, !.gps = FALSE, !.urc = <<"rdy">>]
  <1>1. Boot(s) = s \/ Boot(s) = On
    BY DEF Boot
  <1>2. On \in State
    <2>1. <<"rdy">> \in Seq(Reports)
      BY DEF Reports
    <2> QED
      BY <2>1 DEF State
  <1>3. Known(On)
    BY KnownWhen DEF State
  <1>4. Keeps(s, On)
    BY <1>2, <1>3 DEF Keeps, Calm, Quiet, Hopes, Due, State
  <1> HIDE DEF On
  <1> QED
    BY <1>1, <1>2, <1>4, KeepsSelf

-----------------------------------------------------------------------------
(* Retries.                                                                *)

\* A retry is armed, and nothing else is lost.
LEMMA IpScheduleReconnectHopes ==
  ASSUME NEW s \in State
  PROVE  /\ Keeps(s, IpScheduleReconnect(s)) /\ Hopes(IpScheduleReconnect(s))
         /\ IpScheduleReconnect(s).timer
  <1> DEFINE limit == s.attempts = Threshold /\ ~s.reinit
             a == s.reinit \/ limit
             b == s.needs_reboot \/ limit
             New == [s EXCEPT !.timer = TRUE, !.reinit = a, !.needs_reboot = b]
  <1>1. IpScheduleReconnect(s) = New
    BY Zenon DEF IpScheduleReconnect
  <1>2. a \in BOOLEAN /\ b \in BOOLEAN /\ (s.needs_reboot => b)
    BY Zenon
  <1> HIDE DEF limit, a, b
  <1>3. New \in State
    BY <1>2 DEF State
  <1>4. New.timer /\ Due(New) /\ Alike(s, New)
    BY DEF Alike, Due, State
  <1> HIDE DEF New
  <1> QED
    BY <1>1, <1>3, <1>4, AlikeKeeps DEF Hopes

\* A probe is scheduled.
LEMMA IpScheduleProbeHopes ==
  ASSUME NEW s \in State, NEW t \in IpScheduleProbe(s)
  PROVE  Keeps(s, t) /\ Hopes(t) /\ t.ok = s.ok
  <1>1. t = [s EXCEPT !.probe_timer = TRUE] \/ t = [s EXCEPT !.probe_due = TRUE]
    BY DEF IpScheduleProbe
  <1>2. ASSUME t = [s EXCEPT !.probe_timer = TRUE]
        PROVE  t \in State /\ Due(t) /\ Alike(s, t) /\ t.ok = s.ok
    BY <1>2 DEF Alike, Due, State
  <1>3. ASSUME t = [s EXCEPT !.probe_due = TRUE]
        PROVE  t \in State /\ Due(t) /\ Alike(s, t) /\ t.ok = s.ok
    BY <1>3 DEF Alike, Due, State
  <1> QED
    BY <1>1, <1>2, <1>3, AlikeKeeps DEF Hopes

\* A probe that failed.
LEMMA IncrementProbeCountKeeps ==
  ASSUME NEW s \in State
  PROVE  /\ Keeps(s, IncrementProbeCount(s)) /\ IncrementProbeCount(s) \in State
         /\ IncrementProbeCount(s).present = s.present
  <1> DEFINE n == IF s.probes = ProbeLimit THEN s.probes ELSE s.probes + 1
             a == s.needs_reboot \/ n = ProbeLimit
             New == [s EXCEPT !.probes = n, !.needs_reboot = a]
  <1>1. IncrementProbeCount(s) = New
    BY Zenon DEF IncrementProbeCount
  <1>2. n \in 0..ProbeLimit
    BY ModemAssumption DEF State
  <1> HIDE DEF n
  <1>3. a \in BOOLEAN /\ (s.needs_reboot => a)
    BY Zenon
  <1> HIDE DEF a
  <1>4. New \in State
    BY <1>2, <1>3 DEF State
  <1>5. New.present = s.present /\ Alike(s, New)
    BY <1>3 DEF Alike, Due, State
  <1> HIDE DEF New
  <1> QED
    BY <1>1, <1>4, <1>5, AlikeKeeps

\* A disconnection.
LEMMA IpOnDisconnectHopes ==
  ASSUME NEW s \in State
  PROVE  /\ Keeps(s, IpOnDisconnect(s)) /\ IpOnDisconnect(s) \in State
         /\ Known(IpOnDisconnect(s)) /\ Hopes(IpOnDisconnect(s))
  <1> DEFINE r == IpScheduleReconnect(s)
             New == [r EXCEPT !.connected = FALSE, !.missed = FALSE]
  <1>1. IpOnDisconnect(s) = New
    BY DEF IpOnDisconnect
  <1>2. r \in State /\ Keeps(s, r) /\ r.timer
    BY IpScheduleReconnectHopes, KeepsTwice
  <1> HIDE DEF r
  <1>3. /\ New \in State /\ ~New.connected /\ New.timer /\ New.asked = r.asked
        /\ New.gps_active = r.gps_active
    <2>1. New \in State
      BY ZenonT(40), <1>2 DEF State
    <2>2. ~New.connected /\ New.timer
      BY <1>2 DEF State
    <2>3. New.asked = r.asked /\ New.gps_active = r.gps_active
      BY <1>2 DEF State
    <2> QED
      BY <2>1, <2>2, <2>3
  <1> HIDE DEF New
  <1>4. Known(New) /\ Hopes(New) /\ (Quiet(r) => Quiet(New))
    BY <1>3 DEF Known, Hopes, Due, Quiet
  <1> QED
    BY <1>1, <1>2, <1>3, <1>4 DEF Keeps, Calm

-----------------------------------------------------------------------------
(* The link.                                                               *)

\* A test of the link.
LEMMA IpTestLinkKeeps ==
  ASSUME NEW s \in State, NEW t \in IpTestLink(s)
  PROVE  Keeps(s, t) /\ t.link = s.link
  <1> DEFINE Fails(f) == [s EXCEPT !.ok = FALSE, !.needs_reboot = TRUE, !.faults = f]
  <1>1. t \in Returns(s, TRUE) \/ \E f \in 0..Faults : t = Fails(f)
    BY DEF IpTestLink
  <1>2. ASSUME NEW f \in 0..Faults PROVE Keeps(s, Fails(f)) /\ Fails(f).link = s.link
    <2>1. Fails(f) \in State
      BY DEF State
    <2>2. Alike(s, Fails(f)) /\ Fails(f).link = s.link
      BY DEF Alike, Due, State
    <2> HIDE DEF Fails
    <2> QED
      BY <2>1, <2>2, AlikeKeeps
  <1> HIDE DEF Fails
  <1>3. CASE t \in Returns(s, TRUE)
    BY <1>3, ReturnsKeeps
  <1>4. CASE \E f \in 0..Faults : t = Fails(f)
    BY <1>2, <1>4
  <1> QED
    BY <1>1, <1>3, <1>4

\* An address is had only over a link.
LEMMA IpGetAddressKeeps ==
  ASSUME NEW s \in State, NEW t \in IpGetAddress(s)
  PROVE  Keeps(s, t) /\ t \in State /\ (t.ok => t.link)
  <1> DEFINE Fails(u) == Returns(u, FALSE)
  <1>1. t \in Each(Ask(s), LAMBDA u : IF u.ok /\ u.link THEN IpTestLink(u) ELSE Fails(u))
    BY DEF IpGetAddress
  <1>2. ASSUME NEW u \in State, NEW v \in Fails(u) PROVE Keeps(u, v) /\ ~v.ok
    BY <1>2, ReturnsKeeps
  <1> HIDE DEF Fails
  <1>3. ASSUME NEW u \in Ask(s) PROVE Keeps(s, u) /\ u \in State
    BY <1>3, AskKeeps
  <1>4. PICK u \in Ask(s) : (u.link /\ t \in IpTestLink(u)) \/ t \in Fails(u)
    BY <1>1 DEF Each
  <1>5. Keeps(u, t) /\ (t.ok => t.link)
    BY <1>2, <1>3, <1>4, IpTestLinkKeeps
  <1> QED
    BY <1>3, <1>5, KeepsTwice

\* Taking the link up.
LEMMA IpLinkUpKeeps ==
  ASSUME NEW s \in State, NEW t \in IpLinkUp(s)
  PROVE  Keeps(s, t) /\ t \in State
  <1> DEFINE up(u) == u.power /\ u.coverage /\ ~u.gps
             Up(u) == [u EXCEPT !.link = @ \/ up(u)]
             Fails(u) == Returns(u, FALSE)
  <1>1. PICK u \in Ask(s) :
          \/ t \in Fails(Up(u))
          \/ t \in Each(Ask(Up(u)), LAMBDA v : IF v.ok THEN IpTestLink(v) ELSE {v})
    BY DEF IpLinkUp, Each
  <1>2. Keeps(s, u) /\ u \in State
    BY AskKeeps
  <1>3. Keeps(u, Up(u)) /\ Up(u) \in State
    <2> DEFINE a == u.link \/ up(u)
               New == [u EXCEPT !.link = a]
    <2>1. Up(u) = New /\ a \in BOOLEAN /\ (u.link => a)
      BY Zenon
    <2> HIDE DEF Up, up, a
    <2>2. New \in State
      BY <1>2, <2>1 DEF State
    <2>3. /\ New.link = a /\ New.connected = u.connected /\ New.power = u.power
          /\ New.missed = u.missed /\ New.urc = u.urc /\ New.asked = u.asked
          /\ New.gps_active = u.gps_active /\ New.run = u.run
          /\ New.present = u.present /\ (Due(u) => Due(New))
      BY <1>2 DEF Due, State
    <2> HIDE DEF New
    <2>4. Keeps(u, New)
      BY <2>1, <2>2, <2>3, Zenon DEF Keeps, Calm, Known, Quiet, Hopes, Told
    <2> QED
      BY <2>1, <2>2, <2>4
  <1>4. ASSUME NEW v \in State, NEW w \in Fails(v) PROVE Keeps(v, w)
    BY <1>4, ReturnsKeeps
  <1> HIDE DEF Up, Fails
  <1>5. Keeps(Up(u), t)
    BY <1>1, <1>3, <1>4, AskKeeps, IpTestLinkKeeps, KeepsTwice DEF Each
  <1>6. Keeps(s, t)
    BY <1>2, <1>3, <1>5, KeepsTwice
  <1> QED
    BY <1>6, KeepsTwice

\* Taking it down: if the modem did not say that it did, what the leaf believes
\* is counted as missed.
LEMMA IpLinkDownCalm ==
  ASSUME NEW s \in State, NEW t \in IpLinkDown(s)
  PROVE  t \in State /\ t.asked = s.asked /\ (~t.ok => (Known(s) => Known(t)))
  <1> DEFINE Down(u, lines) == [u EXCEPT !.link = FALSE, !.urc = lines]
             Unsure(u) == [u EXCEPT !.link = @ /\ ~u.power, !.missed = u.connected]
  <1>0. t \in Each(Ask(s), LAMBDA u :
               IF u.ok THEN {Down(u, lines) : lines \in {<<>>, <<"deactive">>}}
               ELSE {u, Unsure(u)})
    BY DEF IpLinkDown
  <1> HIDE DEF Down, Unsure
  <1>1. PICK u \in Ask(s) :
          \/ u.ok /\ \E lines \in {<<>>, <<"deactive">>} : t = Down(u, lines)
          \/ t = u \/ t = Unsure(u)
    BY <1>0 DEF Each
  <1>2. u \in State /\ Keeps(s, u) /\ u.asked = s.asked
    BY AskKeeps DEF Keeps, Calm
  <1>3. ASSUME NEW lines \in {<<>>, <<"deactive">>}
        PROVE  Down(u, lines) \in State /\ Down(u, lines).asked = u.asked
               /\ Down(u, lines).ok = u.ok
    <2>1. <<>> \in Seq(Reports) /\ <<"deactive">> \in Seq(Reports)
      BY DEF Reports
    <2>2. lines \in Seq(Reports)
      BY <1>3, <2>1
    <2> QED
      BY ZenonT(40), <1>2, <2>2 DEF State, Down
  <1>4. Unsure(u) \in State /\ Unsure(u).asked = u.asked /\ Known(Unsure(u))
    <2> DEFINE a == u.link /\ ~u.power
               New == [u EXCEPT !.link = a, !.missed = u.connected]
    <2>1. Unsure(u) = New /\ a \in BOOLEAN
      BY Zenon DEF Unsure
    <2> HIDE DEF a
    <2>2. New \in State
      BY <1>2, <2>1 DEF State
    <2>3. New.asked = u.asked /\ New.missed = u.connected /\ New.connected = u.connected
      BY <1>2 DEF State
    <2> HIDE DEF New
    <2>4. Known(New)
      BY <2>3 DEF Known
    <2> QED
      BY <2>1, <2>2, <2>3, <2>4
  <1> QED
    BY <1>1, <1>2, <1>3, <1>4 DEF Keeps, Calm

\* Disconnecting leaves nothing believed in that is gone.
LEMMA IpDisconnectCalm ==
  ASSUME NEW s \in State, NEW t \in IpDisconnect(s)
  PROVE  Calm(s, t)
  <1> DEFINE Off(u) == [u EXCEPT !.timer = FALSE]
  <1>1. PICK u \in IpLinkDown(s) : t = Off(IF u.ok THEN IpOnDisconnect(u) ELSE u)
    BY DEF IpDisconnect, Each
  <1>2. ASSUME NEW v \in State PROVE Calm(v, Off(v)) /\ (Known(v) => Known(Off(v)))
    <2>1. /\ Off(v) \in State /\ Off(v).asked = v.asked
          /\ Off(v).connected = v.connected /\ Off(v).power = v.power
          /\ Off(v).link = v.link /\ Off(v).missed = v.missed /\ Off(v).urc = v.urc
      BY ZenonT(40), <1>2 DEF State
    <2> QED
      BY <2>1 DEF Calm, Known, Told
  <1> HIDE DEF Off
  <1>3. /\ u \in State /\ u.asked = s.asked /\ (~u.ok => (Known(s) => Known(u)))
        /\ IpOnDisconnect(u) \in State /\ Known(IpOnDisconnect(u))
        /\ IpOnDisconnect(u).asked = u.asked
    BY IpLinkDownCalm, IpOnDisconnectHopes DEF Keeps, Calm
  <1> QED
    BY <1>1, <1>2, <1>3 DEF Calm

-----------------------------------------------------------------------------
(* The receiver and the clock.                                             *)

\* The receiver is turned off, or the modem did not take it.
LEMMA GpsOffKeeps ==
  ASSUME NEW s \in State, NEW t \in GpsOff(s)
  PROVE  Keeps(s, t) /\ t \in State
  <1> DEFINE Off(u) == [u EXCEPT !.gps = FALSE, !.gps_active = FALSE]
  <1>1. PICK u \in Ask(s) : t = Off(u) \/ t = u
    BY DEF GpsOff, Each
  <1>2. u \in State /\ Keeps(s, u)
    BY AskKeeps
  <1>3. Keeps(u, Off(u))
    <2>1. Off(u) \in State
      BY ZenonT(40), <1>2 DEF State
    <2>2. /\ Off(u).connected = u.connected /\ Off(u).power = u.power
          /\ Off(u).link = u.link /\ Off(u).missed = u.missed /\ Off(u).urc = u.urc
          /\ Off(u).asked = u.asked /\ ~Off(u).gps_active /\ Off(u).run = u.run
          /\ Off(u).present = u.present /\ (Due(u) => Due(Off(u)))
      BY <1>2 DEF Due, State
    <2> HIDE DEF Off
    <2> QED
      BY <2>1, <2>2 DEF Keeps, Calm, Known, Quiet, Hopes, Told
  <1> HIDE DEF Off
  <1>4. Keeps(s, t)
    BY <1>1, <1>2, <1>3, KeepsTwice
  <1> QED
    BY <1>4, KeepsTwice

\* Turning it on costs the link, and the leaf is told.
LEMMA IpEnableGPSCalm ==
  ASSUME NEW s \in State, NEW t \in IpEnableGPS(s)
  PROVE  Calm(s, t)
  <1> DEFINE On(u) == [u EXCEPT !.gps = TRUE, !.link = FALSE,
                                !.urc = IF u.link THEN <<"deactive">> ELSE @]
             Start(u) == IF ~u.ok THEN u ELSE On(u)
             Seen(u) == [u EXCEPT !.gps_active = TRUE]
             Unseen(u) == [u EXCEPT !.gps_active = FALSE]
             Last(u) == Each(Ask(u),
                             LAMBDA v : IF v.ok /\ v.gps THEN {Seen(v)} ELSE {Unseen(v)})
             Turn_(u) == [u EXCEPT !.waited = @ /\ ~u.gps_active]
             Try(u) == Each(Ask(u), LAMBDA v : {Turn_(w) : w \in Last(Start(v))})
             Hung(u) == IF u.connected THEN IpDisconnect(u) ELSE {u}
  <1>1. t \in Each(Hung(s), LAMBDA u : Each(Ask(u), LAMBDA v :
                 IF v.ok /\ v.gps THEN {Seen(v)} ELSE Try(v)))
    BY DEF IpEnableGPS
  <1>2. ASSUME NEW u \in State PROVE Calm(u, On(u))
    <2>1. <<"deactive">> \in Seq(Reports)
      BY DEF Reports
    <2>2. CASE u.link
      <3>1. On(u) = [u EXCEPT !.gps = TRUE, !.link = FALSE, !.urc = <<"deactive">>]
        BY <2>2
      <3> HIDE DEF On
      <3>2. On(u) \in State
        BY ZenonT(60), <1>2, <2>1, <3>1 DEF State
      <3>3. On(u).asked = u.asked
        BY <1>2, <3>1 DEF State
      <3>4. On(u).urc = <<"deactive">>
        BY <1>2, <3>1 DEF State
      <3> QED
        BY <3>2, <3>3, <3>4, KnownWhen DEF Calm
    <2>3. CASE ~u.link
      <3> DEFINE q == u.urc
             New == [u EXCEPT !.gps = TRUE, !.link = FALSE, !.urc = q]
      <3>1. On(u) = New
        BY <2>3
      <3>2. q \in Seq(Reports)
        BY <1>2 DEF State
      <3> HIDE DEF On, q
      <3>3. New \in State
        BY ZenonT(40), <1>2, <3>2 DEF State
      <3> USE DEF q
      <3>4. On(u) \in State
        BY <3>1, <3>3
      <3>5. /\ On(u).asked = u.asked /\ On(u).urc = u.urc /\ On(u).connected = u.connected
            /\ On(u).power = u.power /\ On(u).missed = u.missed
        BY <1>2, <3>1 DEF State
      <3> QED
        BY <2>3, <3>4, <3>5 DEF Calm, Known, Told
    <2> QED
      BY <2>2, <2>3
  <1>3. ASSUME NEW u \in State PROVE Calm(u, Seen(u)) /\ Calm(u, Unseen(u))
    <2>0. Seen(u) \in State
      BY <1>3 DEF State
    <2>1. Unseen(u) \in State
      BY ZenonT(40), <1>3 DEF State
    <2>2. /\ Seen(u).asked = u.asked /\ Seen(u).urc = u.urc
          /\ Seen(u).connected = u.connected /\ Seen(u).power = u.power
          /\ Seen(u).missed = u.missed /\ Seen(u).link = u.link
      BY <1>3 DEF State
    <2>3. /\ Unseen(u).asked = u.asked /\ Unseen(u).urc = u.urc
          /\ Unseen(u).connected = u.connected /\ Unseen(u).power = u.power
          /\ Unseen(u).missed = u.missed /\ Unseen(u).link = u.link
      BY <1>3 DEF State
    <2> QED
      BY <2>0, <2>1, <2>2, <2>3 DEF Calm, Known, Told
  <1>4. ASSUME NEW u \in State PROVE Calm(u, Turn_(u))
    <2> DEFINE a == u.waited /\ ~u.gps_active
               New == [u EXCEPT !.waited = a]
    <2>1. Turn_(u) = New /\ a \in BOOLEAN
      BY Zenon
    <2> HIDE DEF Turn_, a
    <2>2. New \in State
      BY <1>4, <2>1 DEF State
    <2>3. /\ New.asked = u.asked /\ New.urc = u.urc /\ New.connected = u.connected
          /\ New.power = u.power /\ New.missed = u.missed /\ New.link = u.link
      BY <1>4 DEF State
    <2> HIDE DEF New
    <2> QED
      BY <2>1, <2>2, <2>3 DEF Calm, Known, Told
  <1>5. ASSUME NEW u \in State PROVE Calm(u, Start(u))
    BY <1>2, <1>5, KeepsSelf, KeepsTwice
  <1> HIDE DEF On, Start, Seen, Unseen, Turn_
  <1>6. ASSUME NEW u \in State, NEW v \in Ask(u) PROVE Calm(u, v) /\ v \in State
    BY <1>6, AskKeeps, KeepsTwice
  <1>7. ASSUME NEW u \in State, NEW v \in Last(u) PROVE Calm(u, v) /\ v \in State
    <2>1. PICK w \in Ask(u) : v = Seen(w) \/ v = Unseen(w)
      BY <1>7 DEF Each
    <2>2. Calm(u, w) /\ w \in State
      BY <1>6, <1>7
    <2>3. Calm(w, v)
      BY <1>3, <2>1, <2>2
    <2> QED
      BY <2>2, <2>3, KeepsTwice
  <1> HIDE DEF Last
  <1>8. ASSUME NEW u \in State, NEW v \in Try(u) PROVE Calm(u, v)
    <2>1. PICK w \in Ask(u) : \E x \in Last(Start(w)) : v = Turn_(x)
      BY <1>8 DEF Each
    <2>2. Calm(u, w) /\ w \in State /\ Calm(w, Start(w)) /\ Start(w) \in State
      BY <1>5, <1>6, <1>8, KeepsTwice
    <2>3. PICK x \in Last(Start(w)) : v = Turn_(x)
      BY <2>1
    <2>4. Calm(Start(w), x) /\ Calm(x, v)
      BY <1>4, <1>7, <2>2, <2>3
    <2> QED
      BY <2>2, <2>4, KeepsTwice
  <1> HIDE DEF Try
  <1>9. ASSUME NEW u \in Hung(s) PROVE Calm(s, u) /\ u \in State
    BY <1>9, IpDisconnectCalm, KeepsSelf, KeepsTwice
  <1> HIDE DEF Hung
  <1>10. PICK u \in Hung(s) : \E v \in Ask(u) : t = Seen(v) \/ t \in Try(v)
    BY <1>1 DEF Each
  <1>11. PICK v \in Ask(u) : t = Seen(v) \/ t \in Try(v)
    BY <1>10
  <1> QED
    BY <1>3, <1>6, <1>8, <1>9, <1>10, <1>11, KeepsTwice

\* Looking whether the location is too old.
LEMMA IpCheckGPSCalm ==
  ASSUME NEW s \in State, NEW t \in IpCheckGPS(s)
  PROVE  Calm(s, t)
  <1> DEFINE Lost == [s EXCEPT !.gps_fix = FALSE]
  <1>1. t = s \/ t \in IpEnableGPS(Lost)
    BY DEF IpCheckGPS
  <1>2. Lost \in State
    BY DEF State
  <1>3. Alike(s, Lost)
    BY DEF Alike, Due, State
  <1> HIDE DEF Lost
  <1> QED
    BY <1>1, <1>2, <1>3, AlikeKeeps, KeepsSelf, KeepsTwice, IpEnableGPSCalm

\* The time of the network.
LEMMA ParseNetworkTimeKeeps ==
  ASSUME NEW s \in State, NEW t \in ParseNetworkTime(s)
  PROVE  Keeps(s, t) /\ t \in State
  <1>1. t = s \/ (t \in IpCheckGPS(s) /\ ~Plain)
    BY DEF ParseNetworkTime, Plain
  <1>2. Keeps(s, s)
    BY KeepsSelf
  <1>3. CASE t \in IpCheckGPS(s) /\ ~Plain
    BY <1>3, IpCheckGPSCalm DEF Keeps, Calm, Quiet, Hopes
  <1>4. Keeps(s, t)
    BY <1>1, <1>2, <1>3
  <1> QED
    BY <1>4, KeepsTwice

-----------------------------------------------------------------------------
(* The connection.                                                         *)

\* A leaf with a link is connected.
LEMMA IpOnConnectKnows ==
  ASSUME NEW s \in State, s.link, NEW t \in IpOnConnect(s)
  PROVE  /\ t \in State /\ t.asked = s.asked /\ Known(t)
         /\ Quiet(s) => Quiet(t) /\ Hopes(t)
  <1> DEFINE Up == [s EXCEPT !.connected = TRUE, !.attempts = 0, !.reinit = FALSE]
             Told_(u) == IF u.ok THEN ParseNetworkTime(u) ELSE {u}
  <1>1. t \in Each(Ask(Up), LAMBDA u : Each(Told_(u), Ask))
    BY DEF IpOnConnect
  <1>2. Up \in State
    <2>1. 0 \in 0..Threshold
      BY ModemAssumption
    <2> QED
      BY <2>1 DEF State
  <1>3. Up.connected /\ Up.link /\ Up.asked = s.asked /\ Up.gps_active = s.gps_active
    BY DEF State
  <1> HIDE DEF Up
  <1>4. Known(Up) /\ Hopes(Up) /\ (Quiet(s) => Quiet(Up))
    BY <1>3 DEF Known, Hopes, Quiet
  <1>5. ASSUME NEW u \in State, NEW v \in Told_(u) PROVE Keeps(u, v)
    BY <1>5, KeepsSelf, ParseNetworkTimeKeeps
  <1> HIDE DEF Told_
  <1>6. PICK u \in Ask(Up) : \E v \in Told_(u) : t \in Ask(v)
    BY <1>1 DEF Each
  <1>7. PICK v \in Told_(u) : t \in Ask(v)
    BY <1>6
  <1>8. Keeps(Up, u) /\ Keeps(u, v) /\ Keeps(v, t)
    BY <1>2, <1>5, <1>7, AskKeeps, KeepsTwice
  <1>9. Keeps(Up, t)
    BY <1>8, KeepsTwice
  <1> QED
    BY <1>3, <1>4, <1>9 DEF Keeps, Calm

\* The state of the link, checked.
LEMMA IpLinkStatusKeeps ==
  ASSUME NEW s \in State, NEW t \in IpLinkStatus(s)
  PROVE  Keeps(s, t)
  <1>1. PICK u \in Ask(s) :
          t = IpOnDisconnect(u) \/ (u.link /\ t \in IpOnConnect(u)) \/ t = u
    BY DEF IpLinkStatus, Each
  <1>2. Keeps(s, u) /\ u \in State
    BY AskKeeps
  <1>3. CASE u.link /\ t \in IpOnConnect(u)
    <2>1. Keeps(u, t)
      BY <1>2, <1>3, IpOnConnectKnows DEF Keeps, Calm
    <2> QED
      BY <1>2, <2>1, KeepsTwice
  <1> QED
    BY <1>1, <1>2, <1>3, IpOnDisconnectHopes, KeepsTwice

-----------------------------------------------------------------------------
(* Is there a modem.                                                       *)

\* A modem that is found has IP tried.
LEMMA OnModemPresentHopes ==
  ASSUME NEW s \in State, NEW t \in OnModemPresent(s)
  PROVE  Keeps(s, t) /\ Hopes(t)
  <1> DEFINE Off(u) == IF ~opt.use_gps /\ u.ok /\ u.gps THEN GpsOff(u) ELSE {u}
  <1>1. t \in Each(Ask(s), LAMBDA u : Each(Off(u), LAMBDA v : {IpScheduleReconnect(v)}))
    BY DEF OnModemPresent
  <1>2. ASSUME NEW u \in State, NEW v \in Off(u) PROVE Keeps(u, v) /\ v \in State
    BY <1>2, GpsOffKeeps, KeepsSelf
  <1> HIDE DEF Off
  <1>3. PICK u \in Ask(s) : \E v \in Off(u) : t = IpScheduleReconnect(v)
    BY <1>1 DEF Each
  <1>4. PICK v \in Off(u) : t = IpScheduleReconnect(v)
    BY <1>3
  <1>5. Keeps(s, u) /\ u \in State /\ Keeps(u, v) /\ v \in State
    BY <1>2, AskKeeps
  <1>6. Keeps(v, t) /\ Hopes(t)
    BY <1>4, <1>5, IpScheduleReconnectHopes
  <1> QED
    BY <1>5, <1>6, KeepsTwice

\* Unless it was known to be there.
LEMMA FoundHopes ==
  ASSUME NEW s \in State, NEW t \in Found(s)
  PROVE  Keeps(s, t) /\ t \in State /\ (~s.present => Hopes(t))
  <1> DEFINE Here == [s EXCEPT !.present = TRUE]
  <1>1. (s.present /\ t = s) \/ (~s.present /\ t \in OnModemPresent(Here))
    BY DEF Found
  <1>2. CASE t \in OnModemPresent(Here)
    <2>1. Here \in State
      BY DEF State
    <2>2. /\ Here.connected = s.connected /\ Here.power = s.power
          /\ Here.link = s.link /\ Here.missed = s.missed /\ Here.urc = s.urc
          /\ Here.asked = s.asked /\ Here.gps_active = s.gps_active
      BY DEF State
    <2> HIDE DEF Here
    <2>3. Keeps(Here, t) /\ Hopes(t)
      BY <1>2, <2>1, OnModemPresentHopes
    <2>4. Calm(s, Here) /\ (Quiet(s) => Quiet(Here))
      BY <2>1, <2>2 DEF Calm, Known, Told, Quiet
    <2>5. Keeps(s, t)
      BY <2>3, <2>4 DEF Keeps, Calm
    <2> QED
      BY <2>3, <2>5, KeepsTwice
  <1> HIDE DEF Here
  <1> QED
    BY <1>1, <1>2, KeepsSelf

\* A modem that answers.
LEMMA AnswersKeeps ==
  ASSUME NEW s \in State
  PROVE  /\ Keeps(s, [s EXCEPT !.ok = TRUE, !.probes = 0])
         /\ [s EXCEPT !.ok = TRUE, !.probes = 0].present = s.present
  <1> DEFINE New == [s EXCEPT !.ok = TRUE, !.probes = 0]
  <1>1. 0 \in 0..ProbeLimit
    BY ModemAssumption
  <1>2. New \in State
    BY <1>1 DEF State
  <1>3. Alike(s, New) /\ New.present = s.present
    BY DEF Alike, Due, State
  <1> HIDE DEF New
  <1>4. Keeps(s, New) /\ New.present = s.present
    BY <1>2, <1>3, AlikeKeeps
  <1> QED
    BY <1>4 DEF New

\* A probe that finds it at once.
LEMMA QuickProbeKeeps ==
  ASSUME NEW s \in State, NEW t \in QuickProbe(s)
  PROVE  Keeps(s, t)
  <1>1. PICK u \in Found(Flush(s)) : t = [u EXCEPT !.ok = TRUE, !.probes = 0]
    BY DEF QuickProbe, Each
  <1>2. Keeps(s, Flush(s)) /\ Flush(s) \in State
    BY FlushKeeps, KeepsTwice
  <1>3. Keeps(Flush(s), u) /\ u \in State
    BY <1>2, FoundHopes
  <1>4. Keeps(u, t)
    BY <1>1, <1>3, AnswersKeeps
  <1> QED
    BY <1>2, <1>3, <1>4, KeepsTwice

\* Or after its key was pressed.
LEMMA FullProbeHopes ==
  ASSUME NEW s \in State, NEW silent \in BOOLEAN, NEW t \in FullProbe(s, silent)
  PROVE  Keeps(s, t) /\ (~silent /\ t.present => Hopes(t))
  <1> DEFINE Gone == IF silent THEN s ELSE [s EXCEPT !.present = FALSE]
             b == Flush(Boot(Gone))
             Seen == IF b.power /\ ~silent THEN Found(b) ELSE {b}
             Fails(u) == Returns(IncrementProbeCount(u), FALSE)
  <1>1. t \in Each(Seen, LAMBDA u :
               IF u.present THEN {[u EXCEPT !.ok = TRUE, !.probes = 0]} ELSE Fails(u))
    BY DEF FullProbe
  <1>2. Keeps(s, Gone) /\ Gone \in State /\ (~silent => ~Gone.present)
    <2> DEFINE New == [s EXCEPT !.present = FALSE]
    <2>1. New \in State /\ ~New.present
      BY DEF State
    <2>2. /\ New.connected = s.connected /\ New.power = s.power /\ New.link = s.link
          /\ New.missed = s.missed /\ New.urc = s.urc /\ New.asked = s.asked
          /\ New.gps_active = s.gps_active /\ New.run = s.run /\ (Due(s) => Due(New))
      BY DEF Due, State
    <2>3. Alike(s, New)
      BY <2>1, <2>2 DEF Alike
    <2> HIDE DEF New
    <2>4. Gone = IF silent THEN s ELSE New
      BY DEF New
    <2> QED
      BY <2>1, <2>3, <2>4, AlikeKeeps, KeepsSelf
  <1> HIDE DEF Gone
  <1>3. Keeps(s, b) /\ b \in State /\ b.present = Gone.present
    <2>1. Keeps(Gone, Boot(Gone)) /\ Boot(Gone) \in State
      BY <1>2, BootKeeps
    <2>2. Keeps(Boot(Gone), b)
      BY <2>1, FlushKeeps
    <2>3. Boot(Gone).present = Gone.present
      BY <1>2 DEF Boot, State
    <2>4. b.present = Boot(Gone).present
      BY <2>1 DEF Flush, State
    <2> HIDE DEF b
    <2> QED
      BY <1>2, <2>1, <2>2, <2>3, <2>4, KeepsTwice
  <1> HIDE DEF b
  <1>4. ASSUME NEW u \in Seen
        PROVE  Keeps(s, u) /\ u \in State /\ (~silent /\ u.present => Hopes(u))
    <2>1. CASE u \in Found(b) /\ ~silent
      BY <1>2, <1>3, <2>1, FoundHopes, KeepsTwice
    <2>2. CASE u = b
      BY <1>2, <1>3, <2>2
    <2> QED
      BY <1>4, <2>1, <2>2
  <1>5. ASSUME NEW u \in State, NEW v \in Fails(u)
        PROVE  Keeps(u, v) /\ v.present = u.present
    <2>1. Keeps(u, IncrementProbeCount(u)) /\ IncrementProbeCount(u) \in State
          /\ IncrementProbeCount(u).present = u.present
      BY <1>5, IncrementProbeCountKeeps
    <2>2. Keeps(IncrementProbeCount(u), v) /\ v.present = IncrementProbeCount(u).present
      BY <1>5, <2>1, ReturnsKeeps
    <2> QED
      BY <2>1, <2>2, KeepsTwice
  <1> HIDE DEF Seen, Fails
  <1>6. PICK u \in Seen :
          \/ u.present /\ t = [u EXCEPT !.ok = TRUE, !.probes = 0]
          \/ ~u.present /\ t \in Fails(u)
    BY <1>1 DEF Each
  <1>7. Keeps(s, u) /\ u \in State /\ (~silent /\ u.present => Hopes(u))
    BY <1>4
  <1>8. CASE u.present /\ t = [u EXCEPT !.ok = TRUE, !.probes = 0]
    <2>1. Alike(u, t) /\ t.present = u.present
      BY <1>7, <1>8 DEF Alike, Due, State
    <2>2. Keeps(u, t)
      BY <1>7, <1>8, AnswersKeeps
    <2>3. Hopes(u) => Hopes(t)
      BY <1>8, <2>1 DEF Hopes, Alike
    <2> QED
      BY <1>7, <1>8, <2>2, <2>3, KeepsTwice
  <1>9. CASE ~u.present /\ t \in Fails(u)
    BY <1>5, <1>7, <1>9, KeepsTwice
  <1> QED
    BY <1>6, <1>8, <1>9

\* A probe; one that is not quick and finds the modem has IP tried.
LEMMA ModemProbeHopes ==
  ASSUME NEW s \in State, NEW quick \in BOOLEAN, NEW t \in ModemProbe(s, quick)
  PROVE  Keeps(s, t) /\ t \in State /\ (~quick /\ t.present => Hopes(t))
  <1>1. (quick /\ t \in QuickProbe(s)) \/ t \in FullProbe(s, FALSE)
    BY DEF ModemProbe
  <1> QED
    BY <1>1, QuickProbeKeeps, FullProbeHopes, KeepsTwice

\* A modem that was restarted or switched off.
LEMMA RestartedKeeps ==
  ASSUME NEW s \in State
  PROVE  /\ Keeps(s, [Restarted(s) EXCEPT !.urc = <<"rdy">>])
         /\ Keeps(s, [Restarted(s) EXCEPT !.power = FALSE])
         /\ Keeps(s, [s EXCEPT !.urc = <<"rdy">>])
  <1> DEFINE A == [Restarted(s) EXCEPT !.urc = <<"rdy">>]
             B == [Restarted(s) EXCEPT !.power = FALSE]
             C == [s EXCEPT !.urc = <<"rdy">>]
             Rest(t) == /\ t.asked = s.asked /\ t.connected = s.connected
                        /\ t.gps_active = s.gps_active /\ t.run = s.run
                        /\ t.present = s.present /\ (Due(s) => Due(t))
  <1>1. <<"rdy">> \in Seq(Reports)
    BY DEF Reports
  <1>2. A \in State /\ B \in State /\ C \in State
    <2>1. Restarted(s) \in State
      BY DEF Restarted, State
    <2>2. A \in State
      BY <1>1, <2>1 DEF State
    <2>3. B \in State
      BY <2>1 DEF State
    <2>4. C \in State
      BY <1>1 DEF State
    <2> QED
      BY <2>2, <2>3, <2>4
  <1>3. A.urc = <<"rdy">> /\ ~B.power /\ C.urc = <<"rdy">>
    BY DEF Restarted, State
  <1>4. Rest(A)
    BY DEF Restarted, Due, State
  <1>5. Rest(B)
    BY DEF Restarted, Due, State
  <1>6. Rest(C)
    BY DEF Due, State
  <1> HIDE DEF A, B, C
  <1>7. ASSUME NEW t \in State, Rest(t), Known(t) PROVE Keeps(s, t)
    BY <1>7 DEF Keeps, Calm, Quiet, Hopes
  <1>8. Keeps(s, A) /\ Keeps(s, B) /\ Keeps(s, C)
    BY <1>2, <1>3, <1>4, <1>5, <1>6, <1>7, KnownWhen
  <1> QED
    BY <1>8 DEF A, B, C

\* A reboot by the leaf.
LEMMA IpModemRebootKeeps ==
  ASSUME NEW s \in State, NEW t \in IpModemReboot(s)
  PROVE  Keeps(s, t) /\ t \in State
  <1> DEFINE R(u) == [Restarted(u) EXCEPT !.urc = <<"rdy">>]
             Off(u) == [Restarted(u) EXCEPT !.power = FALSE]
             Late(u) == [u EXCEPT !.urc = <<"rdy">>]
             Fails(u) == Returns(u, FALSE)
             Probed(u) == FullProbe(u, FALSE)
  <1>1. t \in Each(Ask(s), LAMBDA u :
          IF u.ok THEN Each(QuickProbe(R(u)) \cup Probed(R(u)), LAMBDA v : {v, Late(v)})
          ELSE IF ~opt.key THEN Fails(u)
          ELSE Each(Probed(u), LAMBDA v : IF v.ok THEN {v} ELSE Probed(Off(v))))
    BY DEF IpModemReboot
  <1>2. ASSUME NEW u \in State
        PROVE  /\ Keeps(u, R(u)) /\ Keeps(u, Off(u)) /\ Keeps(u, Late(u))
               /\ R(u) \in State /\ Off(u) \in State
    BY <1>2, RestartedKeeps, KeepsTwice
  <1>3. ASSUME NEW u \in State, NEW v \in QuickProbe(u) \cup Probed(u) \cup Fails(u)
        PROVE  Keeps(u, v) /\ v \in State
    BY <1>3, QuickProbeKeeps, FullProbeHopes, ReturnsKeeps, KeepsTwice
  <1> HIDE DEF R, Off, Late, Fails, Probed
  <1>4. PICK u \in Ask(s) :
          \/ \E v \in QuickProbe(R(u)) \cup Probed(R(u)) : t = v \/ t = Late(v)
          \/ t \in Fails(u)
          \/ \E v \in Probed(u) : t = v \/ t \in Probed(Off(v))
    BY <1>1 DEF Each
  <1>5. Keeps(s, u) /\ u \in State
    BY AskKeeps
  <1>6. CASE \E v \in QuickProbe(R(u)) \cup Probed(R(u)) : t = v \/ t = Late(v)
    <2>1. PICK v \in QuickProbe(R(u)) \cup Probed(R(u)) : t = v \/ t = Late(v)
      BY <1>6
    <2>2. Keeps(u, R(u)) /\ Keeps(R(u), v) /\ v \in State
      BY <1>2, <1>3, <1>5
    <2>3. Keeps(s, v)
      BY <1>5, <2>2, KeepsTwice
    <2> QED
      BY <1>2, <2>1, <2>2, <2>3, KeepsTwice
  <1>7. CASE t \in Fails(u)
    BY <1>3, <1>5, <1>7, KeepsTwice
  <1>8. CASE \E v \in Probed(u) : t = v \/ t \in Probed(Off(v))
    <2>1. PICK v \in Probed(u) : t = v \/ t \in Probed(Off(v))
      BY <1>8
    <2>2. Keeps(s, v) /\ v \in State
      BY <1>3, <1>5, KeepsTwice
    <2>3. Keeps(v, Off(v)) /\ Off(v) \in State
      BY <1>2, <2>2
    <2>4. t \in Probed(Off(v)) => Keeps(Off(v), t)
      BY <1>3, <2>3
    <2> QED
      BY <2>1, <2>2, <2>3, <2>4, KeepsTwice
  <1>9. Keeps(s, t)
    BY <1>4, <1>6, <1>7, <1>8, KeepsTwice
  <1> QED
    BY <1>9, KeepsTwice

\* A modem that is powered off by command.
LEMMA IpModemPowerOffKeeps ==
  ASSUME NEW s \in State, NEW t \in IpModemPowerOff(s)
  PROVE  Keeps(s, t) /\ t \in State
  <1> DEFINE Off(u) == [Restarted(u) EXCEPT !.power = FALSE]
  <1>1. PICK u \in Ask(s) : t = u \/ t = Off(u)
    BY DEF IpModemPowerOff, Each
  <1>2. Keeps(s, u) /\ u \in State
    BY AskKeeps
  <1>3. Keeps(u, Off(u))
    BY <1>2, RestartedKeeps
  <1> HIDE DEF Off
  <1> QED
    BY <1>1, <1>2, <1>3, KeepsTwice

-----------------------------------------------------------------------------
(* Connecting.                                                             *)

\* A call that answers an attempt: if it is refused something will try again.
Answers(s, t) == Keeps(s, t) /\ (Quiet(s) /\ ~t.ok => Hopes(t))

\* AbstractIpModemLeaf may find no modem.
LEMMA ModemConnectAnswers ==
  ASSUME NEW s \in State, NEW reason, NEW t \in ModemConnect(s, reason)
  PROVE  Answers(s, t)
  <1> DEFINE There == IF reason = "reconnect" \/ ~s.present THEN ModemProbe(s, TRUE)
                      ELSE Returns(s, TRUE)
             Counted(u) == [u EXCEPT !.reinit = FALSE,
                                     !.attempts = IF @ = Threshold THEN 1 ELSE @ + 1]
  <1>1. t \in Each(There, LAMBDA u : IF ~u.ok THEN IpScheduleProbe(u) ELSE {Counted(u)})
    BY DEF ModemConnect
  <1>2. ASSUME NEW u \in There PROVE Keeps(s, u) /\ u \in State
    BY <1>2, ModemProbeHopes, ReturnsKeeps, KeepsTwice
  <1>3. ASSUME NEW u \in State PROVE Keeps(u, Counted(u)) /\ Counted(u).ok = u.ok
    <2> DEFINE n == IF u.attempts = Threshold THEN 1 ELSE u.attempts + 1
               New == [u EXCEPT !.reinit = FALSE, !.attempts = n]
    <2>1. n \in 0..Threshold
      BY <1>3, ModemAssumption DEF State
    <2>2. Counted(u) = New
      OBVIOUS
    <2> HIDE DEF Counted, n
    <2>3. New \in State
      BY <1>3, <2>1 DEF State
    <2>4. Alike(u, New) /\ New.ok = u.ok
      BY <1>3 DEF Alike, Due, State
    <2> HIDE DEF New
    <2> QED
      BY <2>2, <2>3, <2>4, AlikeKeeps
  <1> HIDE DEF There, Counted
  <1>4. PICK u \in There : (~u.ok /\ t \in IpScheduleProbe(u)) \/ (u.ok /\ t = Counted(u))
    BY <1>1 DEF Each
  <1>5. CASE t \in IpScheduleProbe(u)
    BY <1>2, <1>5, IpScheduleProbeHopes, KeepsTwice DEF Answers
  <1>6. CASE u.ok /\ t = Counted(u)
    BY <1>2, <1>3, <1>6, KeepsTwice DEF Answers
  <1> QED
    BY <1>4, <1>5, <1>6

\* AbstractIpLTELeaf refuses while a position is looked for.
LEMMA LteConnectAnswers ==
  ASSUME NEW s \in State, NEW reason, NEW t \in LteConnect(s, reason)
  PROVE  Answers(s, t)
  <1> DEFINE Fails(u) == Returns(u, FALSE)
             Tries(u) == ModemConnect(u, reason)
  <1>1. \/ opt.use_gps /\ t \in Each(IpEnableGPS(s), LAMBDA u : Fails(u))
        \/ s.gps_active /\ t \in Fails(s)
        \/ t \in Each(Ask(s), LAMBDA u : Tries(u))
    BY DEF LteConnect
  <1>2. ASSUME NEW u \in State, NEW v \in Fails(u) PROVE Keeps(u, v)
    BY <1>2, ReturnsKeeps
  <1>3. ASSUME NEW u \in State, NEW v \in Tries(u) PROVE Answers(u, v)
    BY <1>3, ModemConnectAnswers
  <1> HIDE DEF Fails, Tries
  <1>4. CASE opt.use_gps /\ t \in Each(IpEnableGPS(s), LAMBDA u : Fails(u))
    <2>1. PICK u \in IpEnableGPS(s) : t \in Fails(u)
      BY <1>4 DEF Each
    <2>2. Calm(s, u) /\ Calm(u, t)
      BY <1>2, <2>1, IpEnableGPSCalm, KeepsTwice
    <2>3. Calm(s, t)
      BY <2>2, KeepsTwice
    <2> QED
      BY <1>4, <2>3 DEF Answers, Keeps, Quiet, Hopes, Plain
  <1>5. CASE s.gps_active /\ t \in Fails(s)
    <2>1. Keeps(s, t)
      BY <1>2, <1>5
    <2> QED
      BY <1>5, <2>1 DEF Answers, Keeps, Calm, Quiet, Hopes
  <1>6. CASE t \in Each(Ask(s), LAMBDA u : Tries(u))
    <2>1. PICK u \in Ask(s) : t \in Tries(u)
      BY <1>6 DEF Each
    <2>2. Keeps(s, u) /\ Answers(u, t)
      BY <1>3, <2>1, AskKeeps
    <2>3. Keeps(s, t)
      BY <2>2, KeepsTwice DEF Answers
    <2> QED
      BY <2>2, <2>3 DEF Answers, Keeps
  <1> QED
    BY <1>1, <1>4, <1>5, <1>6

\* Waiting for an address.
LEMMA IpAwaitAddressKeeps ==
  ASSUME NEW s \in State, NEW t \in IpAwaitAddress(s)
  PROVE  Keeps(s, t) /\ t \in State /\ (t.ok => t.link)
  <1>1. PICK u \in IpGetAddress(s) : t = u \/ t \in IpGetAddress(u)
    BY DEF IpAwaitAddress, Each
  <1>2. Keeps(s, u) /\ u \in State /\ (u.ok => u.link)
    BY IpGetAddressKeeps
  <1> QED
    BY <1>1, <1>2, IpGetAddressKeeps, KeepsTwice

\* An attempt starts with the leaf believing in nothing, and ends with it
\* believing in nothing but a link.
Down(s) == [s EXCEPT !.connected = FALSE, !.missed = FALSE]
Up(s) == [s EXCEPT !.connected = s.ok]
Tries(s, t) ==
  /\ t \in State /\ t.asked = s.asked /\ Known(t) /\ (Quiet(s) => Quiet(t))
  /\ t.ok => t.link

\* What an attempt may do between the two.
LEMMA TriesBetween ==
  ASSUME NEW s \in State
  PROVE  /\ Down(s) \in State
         /\ \A t : Keeps(Down(s), t) /\ (t.ok => t.link) => Tries(s, t) /\ Tries(s, Up(t))
  <1>1. Down(s) \in State
    BY DEF Down, State
  <1>2. /\ ~Down(s).connected /\ Down(s).asked = s.asked
        /\ Down(s).gps_active = s.gps_active
    BY DEF Down, State
  <1>3. Known(Down(s)) /\ (Quiet(s) => Quiet(Down(s)))
    BY <1>2 DEF Known, Quiet
  <1>4. ASSUME NEW t, Keeps(Down(s), t), t.ok => t.link
        PROVE  Tries(s, t) /\ Tries(s, Up(t))
    <2>1. Tries(s, t) /\ t \in State
      BY <1>2, <1>3, <1>4 DEF Tries, Keeps, Calm
    <2>2. Up(t) \in State
      BY <2>1 DEF Up, State
    <2>3. /\ Up(t).connected = t.ok /\ Up(t).ok = t.ok /\ Up(t).link = t.link
          /\ Up(t).asked = t.asked /\ Up(t).gps_active = t.gps_active
      BY <2>1 DEF Up, State
    <2>4. Tries(s, Up(t))
      BY <1>4, <2>1, <2>2, <2>3, Zenon DEF Tries, Known, Quiet
    <2> QED
      BY <2>1, <2>4
  <1> QED
    BY <1>1, <1>4

\* The fast attempt.
LEMMA IpConnectFastTries ==
  ASSUME NEW s \in State, NEW t \in IpConnectFast(s)
  PROVE  Tries(s, t)
  <1> DEFINE Fails(u) == Returns(u, FALSE)
             Got(u) == Keeps(Down(s), u) /\ u \in State
  <1>1. t \in Each(Ask(Down(s)), LAMBDA u :
          IF ~(u.ok /\ u.coverage) THEN Fails(u)
          ELSE Each(IpGetAddress(u), LAMBDA v :
            IF v.needs_reboot THEN Fails(v)
            ELSE Each(IpLinkUp(v), LAMBDA w :
              IF ~w.ok THEN {w} ELSE Each(IpAwaitAddress(w), LAMBDA x : {Up(x)}))))
    BY DEF IpConnectFast, Down, Up
  <1>2. ASSUME NEW u, Got(u), NEW v \in Fails(u) PROVE Tries(s, v)
    <2>1. Keeps(Down(s), v) /\ ~v.ok
      BY <1>2, ReturnsKeeps, KeepsTwice
    <2> QED
      BY <2>1, TriesBetween
  <1>3. ASSUME NEW u \in Ask(Down(s)) PROVE Got(u)
    BY <1>3, TriesBetween, AskKeeps
  <1>4. ASSUME NEW u, Got(u), NEW v \in IpGetAddress(u) \cup IpLinkUp(u) PROVE Got(v)
    BY <1>4, IpGetAddressKeeps, IpLinkUpKeeps, KeepsTwice
  <1>5. ASSUME NEW u, Got(u), NEW v \in IpAwaitAddress(u) PROVE Tries(s, Up(v))
    <2>1. Keeps(Down(s), v) /\ (v.ok => v.link)
      BY <1>5, IpAwaitAddressKeeps, KeepsTwice
    <2> QED
      BY <2>1, TriesBetween
  <1>6. ASSUME NEW u, Got(u), ~u.ok PROVE Tries(s, u)
    BY <1>6, TriesBetween
  <1> HIDE DEF Fails, Got
  <1> QED
    BY <1>1, <1>2, <1>3, <1>4, <1>5, <1>6 DEF Each

\* Whether the modem is activated and has a SIM changes nothing the leaf holds.
LEMMA ActivateKeeps ==
  ASSUME NEW s \in State, NEW t \in Activate(s)
  PROVE  Keeps(s, t) /\ t \in State
  <1> DEFINE Fails(u) == Returns(u, FALSE)
  <1>1. t \in Each(Ask(s), LAMBDA u :
                 {u} \cup (IF u.ok /\ ~u.coverage THEN Fails(u) ELSE {}))
    BY DEF Activate
  <1>2. ASSUME NEW u \in State, NEW v \in Fails(u)
        PROVE  Keeps(u, v) /\ v \in State
    BY <1>2, ReturnsKeeps, KeepsTwice
  <1> HIDE DEF Fails
  <1>3. PICK u \in Ask(s) : t = u \/ t \in Fails(u)
    BY <1>1 DEF Each
  <1>4. Keeps(s, u) /\ u \in State
    BY AskKeeps
  <1> QED
    BY <1>2, <1>3, <1>4, KeepsTwice

\* A modem that is configured.
LEMMA IpModemConfigureKeeps ==
  ASSUME NEW s \in State, NEW t \in IpModemConfigure(s)
  PROVE  Keeps(s, t) /\ t \in State
  <1> DEFINE Again(u) == [u EXCEPT !.needs_reboot = TRUE]
             Fails(u) == Returns(u, FALSE)
             Probe(u) == ModemProbe(u, TRUE)
  <1>1. t \in Each(Ask(s), LAMBDA u :
          IF u.ok THEN Activate(u)
          ELSE Each(Probe(u), LAMBDA v :
                      IF v.ok THEN Activate(v) ELSE Fails(Again(v))))
    BY DEF IpModemConfigure
  <1>2. ASSUME NEW u \in State PROVE Keeps(u, Again(u)) /\ Again(u) \in State
    <2>1. Again(u) \in State
      BY <1>2 DEF State
    <2>2. Alike(u, Again(u))
      BY <1>2 DEF Alike, Due, State
    <2> QED
      BY <2>1, <2>2, AlikeKeeps
  <1>3. ASSUME NEW u \in State, NEW v \in Fails(u) \cup Probe(u)
        PROVE  Keeps(u, v) /\ v \in State
    BY <1>3, ReturnsKeeps, ModemProbeHopes, KeepsTwice
  <1> HIDE DEF Again, Fails, Probe
  <1>4. PICK u \in Ask(s) :
          \/ t \in Activate(u)
          \/ \E v \in Probe(u) : t \in Activate(v) \/ t \in Fails(Again(v))
    BY <1>1 DEF Each
  <1>5. Keeps(s, u) /\ u \in State
    BY AskKeeps
  <1>6. ASSUME NEW v \in Probe(u), t \in Activate(v) \/ t \in Fails(Again(v))
        PROVE  Keeps(s, t)
    <2>1. Keeps(u, v) /\ v \in State
      BY <1>3, <1>5, <1>6
    <2>2. Keeps(v, Again(v)) /\ Again(v) \in State
      BY <1>2, <2>1
    <2>3. Keeps(v, t)
      BY <1>3, <1>6, <2>1, <2>2, ActivateKeeps, KeepsTwice
    <2> QED
      BY <1>5, <2>1, <2>3, KeepsTwice
  <1>7. Keeps(s, t)
    BY <1>4, <1>5, <1>6, ActivateKeeps, KeepsTwice
  <1> QED
    BY <1>7, KeepsTwice

\* The cautious attempt.
LEMMA IpConnectCautiousTries ==
  ASSUME NEW s \in State, NEW t \in IpConnectCautious(s)
  PROVE  Tries(s, t)
  <1> DEFINE Start == IF opt.configure THEN IpModemConfigure(Down(s))
                      ELSE Returns(Down(s), TRUE)
             Got(u) == Keeps(Down(s), u) /\ u \in State
  <1>1. t \in Each(Start, LAMBDA u :
          IF ~u.ok THEN {u}
          ELSE Each(IpGetAddress(u), LAMBDA v :
            IF v.ok THEN {Up(v)}
            ELSE IF v.needs_reboot THEN {v}
            ELSE Each(IpLinkUp(v), LAMBDA w : Each(IpGetAddress(w), LAMBDA x : {Up(x)}))))
    BY DEF IpConnectCautious, Down, Up
  <1>2. ASSUME NEW u \in Start PROVE Got(u)
    BY <1>2, TriesBetween, IpModemConfigureKeeps, ReturnsKeeps, KeepsTwice
  <1>3. ASSUME NEW u, Got(u), NEW v \in IpGetAddress(u)
        PROVE  Got(v) /\ Tries(s, v) /\ Tries(s, Up(v))
    <2>1. Got(v) /\ (v.ok => v.link)
      BY <1>3, IpGetAddressKeeps, KeepsTwice
    <2> QED
      BY <2>1, TriesBetween
  <1>4. ASSUME NEW u, Got(u), NEW v \in IpLinkUp(u) PROVE Got(v)
    BY <1>4, IpLinkUpKeeps, KeepsTwice
  <1>5. ASSUME NEW u, Got(u), ~u.ok PROVE Tries(s, u)
    BY <1>5, TriesBetween
  <1> HIDE DEF Start, Got
  <1> QED
    BY <1>1, <1>2, <1>3, <1>4, <1>5 DEF Each

\* An attempt from one end to the other: whoever refuses it, something tries
\* again.
LEMMA IpConnectDials ==
  ASSUME NEW s \in State, NEW reason, NEW t \in IpConnect(s, reason)
  PROVE  Dials(s, t)
  <1> DEFINE Lte == LteConnect(s, reason)
             Both(u) == Each(IpConnectFast(u), LAMBDA v :
                               IF v.ok THEN {v} ELSE IpConnectCautious(v))
  <1>1. t \in Each(Lte, LAMBDA u :
          IF ~u.ok THEN {u}
          ELSE Each(Both(u), LAMBDA v :
                      IF v.ok THEN IpOnConnect(v) ELSE {IpScheduleReconnect(v)}))
    BY DEF IpConnect
  <1>2. ASSUME NEW u \in Lte PROVE Answers(s, u) /\ u \in State
    BY <1>2, LteConnectAnswers, KeepsTwice DEF Answers
  <1>3. ASSUME NEW u \in State, NEW v \in Both(u) PROVE Tries(u, v)
    <2>1. PICK w \in IpConnectFast(u) : v = w \/ v \in IpConnectCautious(w)
      BY <1>3 DEF Each
    <2>2. Tries(u, w)
      BY <1>3, <2>1, IpConnectFastTries
    <2>3. v \in IpConnectCautious(w) => Tries(w, v)
      BY <2>2, IpConnectCautiousTries DEF Tries
    <2> QED
      BY <2>1, <2>2, <2>3 DEF Tries
  <1> HIDE DEF Lte, Both
  <1>4. PICK u \in Lte :
          \/ ~u.ok /\ t = u
          \/ \E v \in Both(u) : (v.ok /\ t \in IpOnConnect(v)) \/ t = IpScheduleReconnect(v)
    BY <1>1 DEF Each
  <1>5. Keeps(s, u) /\ u \in State /\ (Quiet(s) /\ ~u.ok => Hopes(u))
    BY <1>2 DEF Answers
  <1>6. ASSUME NEW v \in Both(u),
               (v.ok /\ t \in IpOnConnect(v)) \/ t = IpScheduleReconnect(v)
        PROVE  Dials(s, t)
    <2>1. Tries(u, v) /\ v \in State
      BY <1>3, <1>5 DEF Tries
    <2>2. /\ t \in State /\ t.asked = v.asked /\ Known(t)
          /\ Quiet(v) => Quiet(t) /\ Hopes(t)
      <3>1. CASE v.ok /\ t \in IpOnConnect(v)
        BY <2>1, <3>1, IpOnConnectKnows DEF Tries
      <3>2. CASE t = IpScheduleReconnect(v)
        BY <2>1, <3>2, IpScheduleReconnectHopes DEF Tries, Keeps, Calm
      <3> QED
        BY <1>6, <3>1, <3>2
    <2> QED
      BY <1>5, <2>1, <2>2 DEF Tries, Dials, Keeps, Calm
  <1>7. CASE ~u.ok /\ t = u
    BY <1>5, <1>7 DEF Dials, Keeps
  <1> QED
    BY <1>4, <1>6, <1>7

-----------------------------------------------------------------------------
(* The position, and what the modem says unasked.                          *)

\* The receiver is not needed any more.
LEMMA IpResumeKeeps ==
  ASSUME NEW s \in State, NEW t \in IpResume(s)
  PROVE  Keeps(s, t)
  <1>1. PICK u \in GpsOff(s) : t = u \/ t \in IpConnect(u, "resume")
    BY DEF IpResume, Each
  <1>2. Keeps(s, u) /\ u \in State
    BY GpsOffKeeps
  <1> QED
    BY <1>1, <1>2, IpConnectDials, KeepsTwice

\* What it has seen.
LEMMA ParseGPSKeeps ==
  ASSUME NEW s \in State, NEW t \in ParseGPS(s)
  PROVE  Keeps(s, t)
  <1> DEFINE Moved(q) == [s EXCEPT !.stale = q]
             Fixed(u) == [u EXCEPT !.gps_fix = TRUE]
  <1>1. \E q \in BOOLEAN : t = Moved(q) \/ t \in IpResume(Fixed(Moved(q)))
    <2>1. PICK moved \in BOOLEAN :
            LET u == [s EXCEPT !.stale = s.stale /\ ~moved]
            IN  t = u \/ t \in IpResume(Fixed(u))
      BY DEF ParseGPS
    <2> DEFINE q == s.stale /\ ~moved
    <2>2. q \in BOOLEAN
      OBVIOUS
    <2>3. t = Moved(q) \/ t \in IpResume(Fixed(Moved(q)))
      BY <2>1
    <2> HIDE DEF q, Moved
    <2> QED
      BY <2>2, <2>3
  <1>2. ASSUME NEW q \in BOOLEAN PROVE Keeps(s, Moved(q)) /\ Moved(q) \in State
    <2>1. Moved(q) \in State
      BY DEF State
    <2>2. Alike(s, Moved(q))
      BY DEF Alike, Due, State
    <2> QED
      BY <2>1, <2>2, AlikeKeeps
  <1>3. ASSUME NEW u \in State PROVE Keeps(u, Fixed(u)) /\ Fixed(u) \in State
    <2>1. Fixed(u) \in State
      BY <1>3 DEF State
    <2>2. Alike(u, Fixed(u))
      BY <1>3 DEF Alike, Due, State
    <2> QED
      BY <2>1, <2>2, AlikeKeeps
  <1> HIDE DEF Moved, Fixed
  <1>4. PICK q \in BOOLEAN : t = Moved(q) \/ t \in IpResume(Fixed(Moved(q)))
    BY <1>1
  <1>5. /\ Keeps(s, Moved(q)) /\ Keeps(Moved(q), Fixed(Moved(q)))
        /\ Fixed(Moved(q)) \in State
    BY <1>2, <1>3
  <1>6. t \in IpResume(Fixed(Moved(q))) => Keeps(Fixed(Moved(q)), t)
    BY <1>5, IpResumeKeeps
  <1> QED
    BY <1>4, <1>5, <1>6, KeepsTwice

\* The end of the search without a position.
LEMMA GiveUpGPSKeeps ==
  ASSUME NEW s \in State, NEW t \in GiveUpGPS(s)
  PROVE  Keeps(s, t)
  <1> DEFINE Lost == [s EXCEPT !.gps_fix = FALSE]
  <1>1. t \in IpResume(Lost)
    BY DEF GiveUpGPS
  <1>2. Lost \in State
    BY DEF State
  <1>3. Alike(s, Lost)
    BY DEF Alike, Due, State
  <1> HIDE DEF Lost
  <1> QED
    BY <1>1, <1>2, <1>3, AlikeKeeps, IpResumeKeeps, KeepsTwice

\* A query of the receiver.
LEMMA IpPollGPSCalm ==
  ASSUME NEW s \in State, NEW force \in BOOLEAN, NEW t \in IpPollGPS(s, force)
  PROVE  Calm(s, t)
  <1> DEFINE Probe(u) == ModemProbe(u, TRUE)
             Powered(u) == Each(Ask(u), LAMBDA v :
               IF v.gps_active /\ ~(v.ok /\ v.gps) THEN IpEnableGPS(v) ELSE {v})
             On(u) == IF u.gps_active THEN {u} ELSE IpEnableGPS(u)
             Query(u) ==
               IF ~u.gps_active /\ ~force THEN {u}
               ELSE Each(On(u), LAMBDA v : Each(Ask(v), LAMBDA w :
                      {w} \cup (IF w.ok /\ w.gps THEN ParseGPS(w) ELSE {})))
             Present == IF s.present THEN {s} ELSE Each(Probe(s), LAMBDA u : Powered(u))
             Then(u, v) == Calm(u, v) /\ v \in State
  <1>1. t \in Each(Present, LAMBDA u :
               IF ~u.present THEN {u} ELSE Each(Powered(u), LAMBDA v : Query(v)))
    BY DEF IpPollGPS
  <1>2. ASSUME NEW u \in State
        PROVE  /\ Then(u, u)
               /\ \A v \in Ask(u) \cup Probe(u) \cup IpEnableGPS(u) \cup ParseGPS(u) : Then(u, v)
    <2>1. Then(u, u)
      BY <1>2, KeepsSelf, KeepsTwice
    <2>2. \A v \in Ask(u) : Then(u, v)
      BY <1>2, AskKeeps, KeepsTwice
    <2>3. \A v \in Probe(u) : Then(u, v)
      BY <1>2, ModemProbeHopes, KeepsTwice
    <2>4. \A v \in IpEnableGPS(u) : Then(u, v)
      BY <1>2, IpEnableGPSCalm, KeepsTwice
    <2>5. \A v \in ParseGPS(u) : Then(u, v)
      BY <1>2, ParseGPSKeeps, KeepsTwice
    <2> QED
      BY <2>1, <2>2, <2>3, <2>4, <2>5
  <1>3. ASSUME NEW u, NEW v, NEW w, Then(u, v), Then(v, w) PROVE Then(u, w)
    BY <1>3, KeepsTwice
  <1> HIDE DEF Probe, Then
  <1>4. ASSUME NEW u, NEW v, Then(u, v) PROVE v \in State /\ Calm(u, v)
    BY <1>4 DEF Then
  <1>5. ASSUME NEW u \in State, NEW v \in Powered(u) PROVE Then(u, v)
    <2>1. PICK w \in Ask(u) : v = w \/ v \in IpEnableGPS(w)
      BY <1>5 DEF Each
    <2>2. Then(u, w) /\ w \in State
      BY <1>2, <1>4, <1>5
    <2> QED
      BY <1>2, <1>3, <2>1, <2>2
  <1> HIDE DEF Powered
  <1>6. ASSUME NEW u \in State, NEW v \in On(u) PROVE Then(u, v)
    BY <1>2, <1>6
  <1> HIDE DEF On
  <1>7. ASSUME NEW u \in State, NEW v \in Query(u) PROVE Then(u, v)
    <2>1. CASE v = u
      BY <1>2, <1>7, <2>1
    <2>2. CASE v # u
      <3>1. PICK w \in On(u) : \E x \in Ask(w) : v = x \/ v \in ParseGPS(x)
        BY <1>7, <2>2 DEF Each
      <3>2. PICK x \in Ask(w) : v = x \/ v \in ParseGPS(x)
        BY <3>1
      <3>3. Then(u, w) /\ w \in State
        BY <1>4, <1>6, <1>7
      <3>4. Then(w, x) /\ x \in State
        BY <1>2, <1>4, <3>3
      <3>5. Then(x, v)
        BY <1>2, <3>2, <3>4
      <3> QED
        BY <1>3, <3>3, <3>4, <3>5
    <2> QED
      BY <2>1, <2>2
  <1> HIDE DEF Query
  <1>8. ASSUME NEW u \in Present PROVE Then(s, u)
    <2>1. CASE s.present
      BY <1>2, <1>8, <2>1
    <2>2. CASE ~s.present
      <3>1. PICK v \in Probe(s) : u \in Powered(v)
        BY <1>8, <2>2 DEF Each
      <3>2. Then(s, v) /\ v \in State
        BY <1>2, <1>4
      <3> QED
        BY <1>3, <1>5, <3>1, <3>2
    <2> QED
      BY <2>1, <2>2
  <1> HIDE DEF Present
  <1>9. PICK u \in Present : t = u \/ \E v \in Powered(u) : t \in Query(v)
    BY <1>1 DEF Each
  <1>10. Then(s, u) /\ u \in State
    BY <1>4, <1>8
  <1>11. ASSUME NEW v \in Powered(u), t \in Query(v) PROVE Then(s, t)
    <2>1. Then(u, v) /\ v \in State
      BY <1>4, <1>5, <1>10
    <2>2. Then(v, t)
      BY <1>7, <1>11, <2>1
    <2> QED
      BY <1>3, <1>10, <2>1, <2>2
  <1> QED
    BY <1>4, <1>9, <1>10, <1>11

\* "IP came back online": only over a link.
LEMMA CameBackKeeps ==
  ASSUME NEW s \in State, NEW t \in CameBack(s)
  PROVE  Keeps(s, t)
  <1> DEFINE Back(u) == [u EXCEPT !.connected = @ \/ u.ok]
  <1>1. PICK u \in IpGetAddress(s) : t = Back(u)
    BY DEF CameBack, Each
  <1>2. Keeps(s, u) /\ u \in State /\ (u.ok => u.link)
    BY IpGetAddressKeeps
  <1> DEFINE a == u.connected \/ u.ok
             New == [u EXCEPT !.connected = a]
  <1>3. t = New
    BY <1>1, Zenon
  <1>4. a \in BOOLEAN /\ (u.connected => a) /\ (a => u.connected \/ u.ok)
    BY Zenon
  <1> HIDE DEF a
  <1>5. New \in State
    BY <1>2, <1>4 DEF State
  <1>6. /\ New.connected = a /\ New.power = u.power /\ New.link = u.link
        /\ New.missed = u.missed /\ New.urc = u.urc /\ New.asked = u.asked
        /\ New.gps_active = u.gps_active /\ New.run = u.run
        /\ New.present = u.present /\ (Due(u) => Due(New))
    BY <1>2 DEF Due, State
  <1> HIDE DEF New
  <1>7. Told(u) /\ New.connected => Told(New)
    BY <1>6 DEF Told
  <1>8. Known(u) => Known(New)
    BY <1>2, <1>4, <1>6, <1>7, Zenon DEF Known
  <1>9. Keeps(u, New)
    BY <1>4, <1>5, <1>6, <1>8, Zenon DEF Keeps, Calm, Quiet, Hopes
  <1> QED
    BY <1>2, <1>3, <1>9, KeepsTwice

\* The time came, and with it the network.
LEMMA TimeCameKeeps ==
  ASSUME NEW s \in State, NEW t \in TimeCame(s)
  PROVE  Keeps(s, t)
  <1>1. PICK u \in ParseNetworkTime(s) : t = u \/ t \in IpConnect(u, "PSUTTZ")
    BY DEF TimeCame, Each
  <1> QED
    BY <1>1, ParseNetworkTimeKeeps, IpConnectDials, KeepsTwice

\* A line is taken from those that wait; one that tells of a loss ends the
\* connection, so that nothing is forgotten with it.
LEMMA ProcessURCKeeps ==
  ASSUME NEW s \in State, s.urc # <<>>,
         NEW t \in ProcessURC([s EXCEPT !.urc = Tail(@)], Head(s.urc))
  PROVE  Keeps(s, t)
  <1> DEFINE Read == [s EXCEPT !.urc = Tail(@)]
             line == Head(s.urc)
  <1>1. line \in Reports /\ Tail(s.urc) \in Seq(Reports) /\ s.urc \in Seq(Reports)
    BY DEF State
  <1>2. Read \in State
    BY <1>1 DEF State
  <1>3. /\ Read.connected = s.connected /\ Read.power = s.power /\ Read.link = s.link
        /\ Read.missed = s.missed /\ Read.urc = Tail(s.urc) /\ Read.asked = s.asked
        /\ Read.gps_active = s.gps_active /\ Read.run = s.run
        /\ Read.present = s.present /\ (Due(s) => Due(Read))
    BY DEF Due, State
  <1>4. (Quiet(s) => Quiet(Read)) /\ (Hopes(s) => Hopes(Read))
    BY <1>3 DEF Quiet, Hopes
  <1>5. \/ line = "active" /\ t \in CameBack(Read)
        \/ line = "deactive" /\ t = IpOnDisconnect(Read)
        \/ line = "rdy" /\ t \in Rebooted(Read)
        \/ line = "psuttz" /\ t \in TimeCame(Read)
    BY <1>1 DEF ProcessURC, Reports
  <1> HIDE DEF Read
  <1>6. ASSUME line \notin Losses PROVE Keeps(s, Read)
    <2>1. ASSUME Told(s) PROVE Told(Read)
      <3>1. PICK i \in DOMAIN s.urc : s.urc[i] \in Losses
        BY <2>1 DEF Told
      <3>2. i \in 1..Len(s.urc) /\ i # 1
        BY <1>1, <1>6, <3>1
      <3>3. i - 1 \in DOMAIN Tail(s.urc) /\ Tail(s.urc)[i - 1] = s.urc[i]
        BY <1>1, <3>2
      <3> QED
        BY <1>3, <2>1, <3>1, <3>3 DEF Told
    <2>2. Known(s) => Known(Read)
      BY <1>3, <2>1 DEF Known
    <2> QED
      BY <1>2, <1>3, <1>4, <2>2 DEF Keeps, Calm
  <1>7. CASE line = "active" /\ t \in CameBack(Read)
    <2>1. Keeps(s, Read)
      BY <1>6, <1>7 DEF Losses
    <2> QED
      BY <1>2, <1>7, <2>1, CameBackKeeps, KeepsTwice
  <1>8. CASE line = "psuttz" /\ t \in TimeCame(Read)
    <2>1. Keeps(s, Read)
      BY <1>6, <1>8 DEF Losses
    <2> QED
      BY <1>2, <1>8, <2>1, TimeCameKeeps, KeepsTwice
  <1>9. Keeps(Read, IpOnDisconnect(Read)) /\ Known(IpOnDisconnect(Read))
    BY <1>2, IpOnDisconnectHopes
  <1>10. Keeps(s, IpOnDisconnect(Read))
    BY <1>3, <1>4, <1>9 DEF Keeps, Calm
  <1>11. ~Read.connected => Keeps(s, Read)
    BY <1>2, <1>3, <1>4, KnownWhen DEF Keeps, Calm
  <1>12. CASE line = "rdy" /\ t \in Rebooted(Read)
    BY <1>10, <1>11, <1>12 DEF Rebooted
  <1> QED
    BY <1>5, <1>7, <1>8, <1>10, <1>12

-----------------------------------------------------------------------------
(* A pass of the loop.                                                     *)

\* What a call that is over leaves, whether or not the user asked for it.
LEMMA EndsFine ==
  ASSUME NEW u, Fine(u), NEW s, Calm(u, s), NEW a \in BOOLEAN, u.asked => a,
         a \/ Keeps(u, s)
  PROVE  Fine([s EXCEPT !.ok = FALSE, !.asked = a])
  <1> DEFINE New == [s EXCEPT !.ok = FALSE, !.asked = a]
  <1>1. s \in State /\ s.asked = u.asked /\ Known(s)
    BY DEF Calm, Fine
  <1>2. New \in State
    BY <1>1 DEF State
  <1>3. /\ New.connected = s.connected /\ New.power = s.power /\ New.link = s.link
        /\ New.missed = s.missed /\ New.urc = s.urc /\ New.asked = a
        /\ New.gps_active = s.gps_active /\ New.run = s.run /\ New.present = s.present
        /\ Due(s) = Due(New)
    BY <1>1 DEF State, Due
  <1> HIDE DEF New
  <1>4. Known(New)
    BY <1>1, <1>3 DEF Known, Told
  <1>5. Quiet(New) /\ Hopes(New)
    <2>1. CASE a
      BY <1>3, <2>1 DEF Quiet, Hopes
    <2>2. CASE ~a
      <3>1. Quiet(s) /\ Hopes(s)
        BY <2>2 DEF Fine, Keeps
      <3> QED
        BY <1>1, <1>3, <2>2, <3>1 DEF Quiet, Hopes
    <2> QED
      BY <2>1, <2>2
  <1>6. Fine(New)
    BY <1>2, <1>4, <1>5 DEF Fine
  <1> QED
    BY <1>6 DEF New

\* A section of the loop ends, and so does what the modem leaves alone.
LEMMA TurnsFine ==
  ASSUME Fine(m), NEW here, NEW next, NEW outcomes, Turn(here, next, outcomes),
         \A s \in outcomes : Keeps(m, s)
  PROVE  Fine(m')
  <1>1. PICK s \in outcomes : m' = [s EXCEPT !.ok = FALSE]
    BY DEF Turn
  <1>2. Keeps(m, s) /\ Calm(m, s) /\ s \in State /\ m.asked \in BOOLEAN
    BY KeepsTwice DEF Fine, State
  <1>3. s.asked = m.asked
    BY <1>2 DEF Calm
  <1>4. m' = [s EXCEPT !.ok = FALSE, !.asked = m.asked]
    BY <1>1, <1>2, <1>3 DEF State
  <1>5. Fine([s EXCEPT !.ok = FALSE, !.asked = m.asked])
    BY <1>2, EndsFine
  <1> QED
    BY <1>4, <1>5

\* A command ends.
LEMMA CommandsFine ==
  ASSUME Fine(m), NEW a \in BOOLEAN, m.asked => a, NEW outcomes, Command(a, outcomes),
         \A s \in outcomes : Calm(m, s) /\ (a \/ Keeps(m, s))
  PROVE  Fine(m')
  <1>1. PICK s \in outcomes : m' = [s EXCEPT !.ok = FALSE, !.asked = a]
    BY DEF Command
  <1> QED
    BY <1>1, EndsFine

\* The flag of a probe that is due, of a reboot or of a retry is taken back
\* before the call it stands for.
LEMMA TakenBackKnows ==
  ASSUME NEW s \in State
  PROVE  /\ Calm(s, [s EXCEPT !.probe_due = FALSE])
         /\ Calm(s, [s EXCEPT !.needs_reboot = FALSE])
         /\ Calm(s, [s EXCEPT !.due = FALSE])
         /\ Quiet(s) => /\ Quiet([s EXCEPT !.probe_due = FALSE])
                        /\ Quiet([s EXCEPT !.needs_reboot = FALSE])
                        /\ Quiet([s EXCEPT !.due = FALSE])
  <1> DEFINE A == [s EXCEPT !.probe_due = FALSE]
             B == [s EXCEPT !.needs_reboot = FALSE]
             C == [s EXCEPT !.due = FALSE]
             Same(t) == /\ t.connected = s.connected /\ t.power = s.power
                        /\ t.link = s.link /\ t.missed = s.missed /\ t.urc = s.urc
                        /\ t.asked = s.asked /\ t.gps_active = s.gps_active
  <1>1. A \in State /\ Same(A)
    BY DEF State
  <1>2. B \in State /\ Same(B)
    BY DEF State
  <1>3. C \in State /\ Same(C)
    BY DEF State
  <1> HIDE DEF A, B, C
  <1>4. ASSUME NEW t, t \in State, Same(t) PROVE Calm(s, t) /\ (Quiet(s) => Quiet(t))
    BY <1>4 DEF Calm, Known, Told, Quiet
  <1>5. Calm(s, A) /\ (Quiet(s) => Quiet(A))
    BY <1>1, <1>4
  <1>6. Calm(s, B) /\ (Quiet(s) => Quiet(B))
    BY <1>2, <1>4
  <1>7. Calm(s, C) /\ (Quiet(s) => Quiet(C))
    BY <1>3, <1>4
  <1> QED
    BY <1>5, <1>6, <1>7 DEF A, B, C

\* A flag that is taken back is replaced by what hopes.
LEMMA RenewsKeeps ==
  ASSUME NEW s, NEW t, NEW u, Calm(s, t), Quiet(s) => Quiet(t), Calm(t, u),
         Quiet(t) => Quiet(u) /\ Hopes(u)
  PROVE  Keeps(s, u)
  BY DEF Calm, Keeps

\* With a search anything goes, as far as the retry is concerned.
LEMMA CalmSuffices ==
  ASSUME NEW s, NEW t, Calm(s, t), ~Plain
  PROVE  Keeps(s, t)
  BY DEF Keeps, Calm, Quiet, Hopes

\* A probe that was due finds the modem, or the next one is scheduled.
LEMMA LoopProbeFine ==
  ASSUME Fine(m), LoopProbe
  PROVE  Fine(m')
  <1> DEFINE Taken == [m EXCEPT !.probe_due = FALSE]
             Probe == ModemProbe(Taken, FALSE)
             Outcomes == IF opt.autoprobe /\ m.probe_due
                         THEN Each(Probe,
                                   LAMBDA s : IF s.present THEN {s} ELSE IpScheduleProbe(s))
                         ELSE {m}
  <1>1. Turn("probe", "reboot", Outcomes)
    BY DEF LoopProbe
  <1>2. m \in State
    BY DEF Fine
  <1>3. Taken \in State /\ Calm(m, Taken) /\ (Quiet(m) => Quiet(Taken))
    BY <1>2, TakenBackKnows DEF Calm
  <1>4. ASSUME NEW s \in Probe
        PROVE  Keeps(Taken, s) /\ s \in State /\ (s.present => Hopes(s))
    BY <1>3, <1>4, ModemProbeHopes
  <1> HIDE DEF Probe, Taken
  <1>5. ASSUME NEW t \in Outcomes PROVE Keeps(m, t)
    <2>1. CASE t = m
      BY <1>2, <2>1, KeepsSelf
    <2>2. CASE \E s \in Probe : (s.present /\ t = s) \/ t \in IpScheduleProbe(s)
      <3>1. PICK s \in Probe : (s.present /\ t = s) \/ t \in IpScheduleProbe(s)
        BY <2>2
      <3>2. Keeps(Taken, s) /\ s \in State /\ (s.present => Hopes(s))
        BY <1>4
      <3>3. CASE s.present /\ t = s
        BY <1>3, <3>2, <3>3, RenewsKeeps DEF Keeps
      <3>4. CASE t \in IpScheduleProbe(s)
        <4>1. Keeps(s, t) /\ Hopes(t)
          BY <3>2, <3>4, IpScheduleProbeHopes
        <4>2. Keeps(Taken, t)
          BY <3>2, <4>1, KeepsTwice
        <4> QED
          BY <1>3, <4>1, <4>2, RenewsKeeps DEF Keeps
      <3> QED
        BY <3>1, <3>3, <3>4
    <2> QED
      BY <2>1, <2>2 DEF Each
  <1> HIDE DEF Outcomes
  <1> QED
    BY <1>1, <1>5, TurnsFine

\* After a reboot a probe is scheduled, whatever came of it.
LEMMA LoopRebootFine ==
  ASSUME Fine(m), LoopReboot
  PROVE  Fine(m')
  <1> DEFINE Taken == [m EXCEPT !.needs_reboot = FALSE]
             Outcomes == IF m.needs_reboot
                         THEN Each(IpModemReboot(Taken), IpScheduleProbe)
                         ELSE {m}
  <1>1. Turn("reboot", "connect", Outcomes)
    BY DEF LoopReboot
  <1>2. m \in State
    BY DEF Fine
  <1>3. Taken \in State /\ Calm(m, Taken) /\ (Quiet(m) => Quiet(Taken))
    BY <1>2, TakenBackKnows DEF Calm
  <1> HIDE DEF Taken
  <1>4. ASSUME NEW t \in Outcomes PROVE Keeps(m, t)
    <2>1. CASE t = m
      BY <1>2, <2>1, KeepsSelf
    <2>2. CASE \E s \in IpModemReboot(Taken) : t \in IpScheduleProbe(s)
      <3>1. PICK s \in IpModemReboot(Taken) : t \in IpScheduleProbe(s)
        BY <2>2
      <3>2. Keeps(Taken, s) /\ s \in State
        BY <1>3, IpModemRebootKeeps
      <3>3. Keeps(s, t) /\ Hopes(t)
        BY <3>1, <3>2, IpScheduleProbeHopes
      <3>4. Keeps(Taken, t)
        BY <3>2, <3>3, KeepsTwice
      <3> QED
        BY <1>3, <3>3, <3>4, RenewsKeeps DEF Keeps
    <2> QED
      BY <2>1, <2>2 DEF Each
  <1> HIDE DEF Outcomes
  <1> QED
    BY <1>1, <1>4, TurnsFine

\* The retry ends with the leaf online, or with another retry.
LEMMA LoopConnectFine ==
  ASSUME Fine(m), LoopConnect
  PROVE  Fine(m')
  <1> DEFINE Taken == [m EXCEPT !.due = FALSE]
             Dialled == IpConnect(Taken, "reconnect")
             Outcomes == IF ~m.due THEN {m} ELSE IF m.connected THEN {Taken} ELSE Dialled
  <1>1. Turn("connect", "announce", Outcomes)
    BY DEF LoopConnect
  <1>2. m \in State
    BY DEF Fine
  <1>3. Taken \in State /\ Calm(m, Taken) /\ (Quiet(m) => Quiet(Taken))
    BY <1>2, TakenBackKnows DEF Calm
  <1>4. m.connected => Taken.connected
    BY <1>2 DEF State
  <1> HIDE DEF Taken
  <1>5. m.connected => Keeps(m, Taken)
    BY <1>3, <1>4 DEF Keeps, Hopes
  <1>6. ASSUME NEW t \in Dialled PROVE Keeps(m, t)
    <2>1. Dials(Taken, t)
      BY <1>3, <1>6, IpConnectDials
    <2> QED
      BY <1>3, <2>1, RenewsKeeps DEF Dials
  <1> HIDE DEF Dialled
  <1>7. ASSUME NEW t \in Outcomes PROVE Keeps(m, t)
    BY <1>2, <1>5, <1>6, KeepsSelf
  <1> HIDE DEF Outcomes
  <1> QED
    BY <1>1, <1>7, TurnsFine

\* News, and the status report.
LEMMA LoopAnnounceFine ==
  ASSUME Fine(m), LoopAnnounce \/ LoopReport
  PROVE  Fine(m')
  <1> DEFINE Told_ == [m EXCEPT !.notified = m.connected]
             Outcomes == {Told_} \cup IpLinkStatus(Told_)
  <1>1. m \in State
    BY DEF Fine
  <1>2. Told_ \in State
    BY <1>1 DEF State
  <1>3. Alike(m, Told_)
    BY <1>1 DEF Alike, Due, State
  <1>4. Turn("announce", "initial", {Told_}) \/ Turn("announce", "initial", IpLinkStatus(Told_))
    BY DEF LoopAnnounce, LoopReport
  <1> HIDE DEF Told_
  <1>5. Keeps(m, Told_)
    BY <1>1, <1>2, <1>3, AlikeKeeps
  <1>6. \A t \in IpLinkStatus(Told_) : Keeps(m, t)
    BY <1>2, <1>5, IpLinkStatusKeeps, KeepsTwice
  <1>7. \A t \in {Told_} : Keeps(m, t)
    BY <1>5
  <1> QED
    BY <1>4, <1>6, <1>7, TurnsFine

\* The first attempt after the start.
LEMMA LoopInitialFine ==
  ASSUME Fine(m), LoopInitial
  PROVE  Fine(m')
  <1> DEFINE Taken == [m EXCEPT !.first = FALSE]
             Dialled == IpConnect(Taken, "initial")
             Outcomes == IF m.first /\ m.present /\ ~m.connected THEN Dialled ELSE {m}
  <1>1. m \in State
    BY DEF Fine
  <1>2. Taken \in State
    BY <1>1 DEF State
  <1>3. Alike(m, Taken)
    BY <1>1 DEF Alike, Due, State
  <1>4. Turn("initial", "urc", Outcomes)
    BY DEF LoopInitial
  <1> HIDE DEF Taken
  <1>5. ASSUME NEW t \in Dialled PROVE Keeps(m, t)
    BY <1>1, <1>2, <1>3, <1>5, AlikeKeeps, IpConnectDials, KeepsTwice
  <1> HIDE DEF Dialled
  <1>6. ASSUME NEW t \in Outcomes PROVE Keeps(m, t)
    BY <1>1, <1>5, KeepsSelf
  <1> HIDE DEF Outcomes
  <1> QED
    BY <1>4, <1>6, TurnsFine

\* A line of the modem.
LEMMA LoopURCFine ==
  ASSUME Fine(m), LoopURC
  PROVE  Fine(m')
  <1> DEFINE Outcomes == ProcessURC([m EXCEPT !.urc = Tail(@)], Head(m.urc))
  <1>1. m \in State
    BY DEF Fine
  <1>2. m.urc # <<>> => \A t \in Outcomes : Keeps(m, t)
    BY <1>1, ProcessURCKeeps
  <1>3. \A t \in {m} : Keeps(m, t)
    BY <1>1, KeepsSelf
  <1>4. \/ m.urc # <<>> /\ Turn("urc", "urc", Outcomes)
        \/ Turn("urc", "gps", {m})
    BY DEF LoopURC
  <1> HIDE DEF Outcomes
  <1> QED
    BY <1>2, <1>3, <1>4, TurnsFine

\* The search for a position.
LEMMA LoopGPSFine ==
  ASSUME Fine(m), LoopGPS
  PROVE  Fine(m')
  <1> DEFINE Polled == IpPollGPS(m, FALSE)
             Outcomes == IF ~m.present \/ ~opt.use_gps THEN {m}
                         ELSE IF ~m.gps_active THEN IpCheckGPS(m)
                         ELSE IF m.gps_fix THEN Polled
                         ELSE Each(Polled, LAMBDA s : IF s.waited THEN GiveUpGPS(s) ELSE {s})
  <1>1. m \in State
    BY DEF Fine
  <1>2. Turn("gps", "sms", Outcomes)
    BY DEF LoopGPS
  <1>3. ASSUME NEW s \in Polled PROVE Calm(m, s) /\ s \in State
    BY <1>1, <1>3, IpPollGPSCalm, KeepsTwice
  <1> HIDE DEF Polled
  <1>4. ASSUME NEW t \in Outcomes PROVE Keeps(m, t)
    <2>1. CASE t = m
      BY <1>1, <2>1, KeepsSelf
    <2>2. CASE ~Plain /\ t \in IpCheckGPS(m)
      BY <1>1, <2>2, IpCheckGPSCalm, CalmSuffices
    <2>3. CASE ~Plain /\ t \in Polled
      BY <1>3, <2>3, CalmSuffices
    <2>4. CASE ~Plain /\ \E s \in Polled : t \in GiveUpGPS(s)
      BY <1>3, <2>4, GiveUpGPSKeeps, CalmSuffices, KeepsTwice
    <2>5. \/ t = m
          \/ opt.use_gps /\ t \in IpCheckGPS(m)
          \/ opt.use_gps /\ t \in Polled
          \/ opt.use_gps /\ \E s \in Polled : t \in GiveUpGPS(s)
      BY DEF Each
    <2>6. opt.use_gps => ~Plain
      BY DEF Plain
    <2> QED
      BY <2>1, <2>2, <2>3, <2>4, <2>5, <2>6
  <1> HIDE DEF Outcomes
  <1> QED
    BY <1>2, <1>4, TurnsFine

\* Messages, and a modem that does not answer.
LEMMA LoopSMSFine ==
  ASSUME Fine(m), LoopSMS
  PROVE  Fine(m')
  <1> DEFINE Probe(s) == ModemProbe(s, FALSE)
             Outcomes == {m} \cup (IF m.present
                                   THEN Each(Ask(m), LAMBDA s : IF s.ok THEN {s} ELSE Probe(s))
                                   ELSE {})
  <1>1. m \in State
    BY DEF Fine
  <1>2. Turn("sms", "probe", Outcomes)
    BY DEF LoopSMS
  <1>3. ASSUME NEW s \in State, NEW t \in Probe(s) PROVE Keeps(s, t)
    BY <1>3, ModemProbeHopes
  <1> HIDE DEF Probe
  <1>4. ASSUME NEW t \in Outcomes PROVE Keeps(m, t)
    <2>1. CASE t = m
      BY <1>1, <2>1, KeepsSelf
    <2>2. CASE \E s \in Ask(m) : t = s \/ t \in Probe(s)
      <3>1. PICK s \in Ask(m) : t = s \/ t \in Probe(s)
        BY <2>2
      <3>2. Keeps(m, s) /\ s \in State
        BY <1>1, AskKeeps
      <3>3. t \in Probe(s) => Keeps(s, t)
        BY <1>3, <3>2
      <3>4. t \in Probe(s) => Keeps(m, t)
        BY <3>2, <3>3, KeepsTwice
      <3> QED
        BY <3>1, <3>2, <3>4
    <2> QED
      BY <2>1, <2>2 DEF Each
  <1> HIDE DEF Outcomes
  <1> QED
    BY <1>2, <1>4, TurnsFine

\* A pass of the loop, section by section.
LEMMA PassFine ==
  ASSUME Fine(m), Pass
  PROVE  Fine(m')
  BY LoopProbeFine, LoopRebootFine, LoopConnectFine, LoopAnnounceFine, LoopInitialFine,
     LoopURCFine, LoopGPSFine, LoopSMSFine DEF Pass

-----------------------------------------------------------------------------
(* Commands, time and the world.                                           *)

\* What a command changes besides its call.
LEMMA CalmTooWith ==
  ASSUME NEW s \in State
  PROVE  /\ Calm(s, [s EXCEPT !.run = FALSE])
         /\ Calm(s, [s EXCEPT !.present = FALSE])
  <1> DEFINE A == [s EXCEPT !.run = FALSE]
             B == [s EXCEPT !.present = FALSE]
             Same(t) == /\ t.connected = s.connected /\ t.power = s.power
                        /\ t.link = s.link /\ t.missed = s.missed /\ t.urc = s.urc
                        /\ t.asked = s.asked
  <1>1. A \in State /\ Same(A)
    BY DEF State
  <1>2. B \in State /\ Same(B)
    BY DEF State
  <1> HIDE DEF A, B
  <1>3. Calm(s, A)
    BY <1>1 DEF Calm, Known, Told
  <1>4. Calm(s, B)
    BY <1>2 DEF Calm, Known, Told
  <1> QED
    BY <1>3, <1>4 DEF A, B

\* Commands that the leaf carries out as the loop would.
LEMMA CallsFine ==
  ASSUME Fine(m), CmdConnect \/ CmdConfigure \/ CmdReboot
  PROVE  Fine(m')
  <1> DEFINE Dialled == IpConnect(m, "cmd")
  <1>1. m \in State /\ m.asked \in BOOLEAN
    BY DEF Fine, State
  <1>2. \A t \in Dialled : Calm(m, t) /\ Keeps(m, t)
    BY <1>1, IpConnectDials, KeepsTwice
  <1>3. \A t \in IpModemConfigure(m) : Calm(m, t) /\ Keeps(m, t)
    BY <1>1, IpModemConfigureKeeps, KeepsTwice
  <1>4. \A t \in IpModemReboot(m) : Calm(m, t) /\ Keeps(m, t)
    BY <1>1, IpModemRebootKeeps, KeepsTwice
  <1>5. \/ Command(m.asked, Dialled)
        \/ Command(m.asked, IpModemConfigure(m))
        \/ Command(m.asked, IpModemReboot(m))
    BY DEF CmdConnect, CmdConfigure, CmdReboot
  <1> HIDE DEF Dialled
  <1> QED
    BY <1>1, <1>2, <1>3, <1>4, <1>5, CommandsFine

\* A probe by command, silent, quick or neither.
LEMMA CmdProbeFine ==
  ASSUME Fine(m), CmdProbe
  PROVE  Fine(m')
  <1> DEFINE Silent == FullProbe(m, TRUE)
             Quick == ModemProbe(m, TRUE)
             Full == ModemProbe(m, FALSE)
  <1>1. m \in State /\ m.asked \in BOOLEAN
    BY DEF Fine, State
  <1>2. Command(m.asked, Silent \cup Quick \cup Full)
    BY DEF CmdProbe
  <1>3. \A t \in Silent : Keeps(m, t)
    BY <1>1, FullProbeHopes
  <1>4. \A t \in Quick : Keeps(m, t)
    BY <1>1, ModemProbeHopes
  <1>5. \A t \in Full : Keeps(m, t)
    BY <1>1, ModemProbeHopes
  <1> HIDE DEF Silent, Quick, Full
  <1>6. \A t \in Silent \cup Quick \cup Full : Calm(m, t) /\ Keeps(m, t)
    BY <1>3, <1>4, <1>5, KeepsTwice
  <1> QED
    BY <1>1, <1>2, <1>6, CommandsFine

\* Commands that stop something.
LEMMA StopsFine ==
  ASSUME Fine(m), CmdDisconnect \/ CmdModemOff \/ CmdStop
  PROVE  Fine(m')
  <1> DEFINE Halted(s) == [s EXCEPT !.run = FALSE]
             Absent(s) == [s EXCEPT !.present = FALSE]
             HangUp(s) == IF s.connected THEN IpDisconnect(s) ELSE {s}
             Off == IF m.present THEN Each(HangUp(m), IpModemPowerOff) ELSE {m}
             Halts == {Halted(s) : s \in Off}
             Offs == {Absent(s) : s \in IpModemPowerOff(m)}
  <1>1. m \in State
    BY DEF Fine
  <1>2. \/ Command(TRUE, IpDisconnect(m))
        \/ Command(TRUE, Offs)
        \/ Command(TRUE, Halts)
    BY DEF CmdDisconnect, CmdModemOff, CmdStop
  <1>3. ASSUME NEW s \in State
        PROVE  Calm(s, Halted(s)) /\ Calm(s, Absent(s))
    BY <1>3, CalmTooWith
  <1> HIDE DEF Halted, Absent
  <1>4. \A s \in IpDisconnect(m) : Calm(m, s) /\ s \in State
    BY <1>1, IpDisconnectCalm, KeepsTwice
  <1>5. \A t \in Offs : Calm(m, t)
    BY <1>1, <1>3, IpModemPowerOffKeeps, KeepsTwice
  <1>6. \A s \in HangUp(m) : Calm(m, s) /\ s \in State
    BY <1>1, <1>4, KeepsSelf, KeepsTwice
  <1> HIDE DEF HangUp
  <1>7. \A s \in Off : Calm(m, s) /\ s \in State
    <2>1. ASSUME NEW s \in HangUp(m), NEW t \in IpModemPowerOff(s)
          PROVE  Calm(m, t) /\ t \in State
      BY <1>6, <2>1, IpModemPowerOffKeeps, KeepsTwice
    <2>2. Calm(m, m)
      BY <1>1, KeepsSelf, KeepsTwice
    <2> QED
      BY <1>1, <2>1, <2>2 DEF Each
  <1> HIDE DEF Off
  <1>8. \A t \in Halts : Calm(m, t)
    BY <1>3, <1>7, KeepsTwice
  <1> HIDE DEF Halts, Offs
  <1>9. m.asked => TRUE
    OBVIOUS
  <1> QED
    BY <1>2, <1>4, <1>5, <1>8, CommandsFine

\* The key.
LEMMA CmdKeyFine ==
  ASSUME Fine(m), CmdKey
  PROVE  Fine(m')
  <1> DEFINE Held == {[Restarted(m) EXCEPT !.power = FALSE]}
             Pressed == {Boot(m)}
  <1>1. m \in State /\ m.asked \in BOOLEAN
    BY DEF Fine, State
  <1>2. Command(m.asked, Pressed) \/ Command(TRUE, Held)
    BY DEF CmdKey
  <1>3. \A t \in Pressed : Calm(m, t) /\ Keeps(m, t)
    BY <1>1, BootKeeps, KeepsTwice
  <1>4. \A t \in Held : Calm(m, t)
    BY <1>1, RestartedKeeps, KeepsTwice
  <1> HIDE DEF Held, Pressed
  <1> QED
    BY <1>1, <1>2, <1>3, <1>4, CommandsFine

\* The receiver by command.
LEMMA CmdGpsFine ==
  ASSUME Fine(m), CmdGps \/ CmdGpsDisable
  PROVE  Fine(m')
  <1> DEFINE Polled == IpPollGPS(m, TRUE)
             Search == IpEnableGPS(m) \cup IpCheckGPS(m) \cup Polled
  <1>1. m \in State /\ m.asked \in BOOLEAN
    BY DEF Fine, State
  <1>2. \/ Command(TRUE, Search) \/ Command(TRUE, GpsOff(m)) \/ Command(m.asked, IpResume(m))
    BY DEF CmdGps, CmdGpsDisable
  <1>3. \A t \in Polled : Calm(m, t)
    BY <1>1, IpPollGPSCalm
  <1> HIDE DEF Polled
  <1>4. \A t \in Search : Calm(m, t)
    BY <1>1, <1>3, IpEnableGPSCalm, IpCheckGPSCalm
  <1>5. \A t \in GpsOff(m) : Calm(m, t)
    BY <1>1, GpsOffKeeps, KeepsTwice
  <1>6. \A t \in IpResume(m) : Calm(m, t) /\ Keeps(m, t)
    BY <1>1, IpResumeKeeps, KeepsTwice
  <1> HIDE DEF Search
  <1> QED
    BY <1>1, <1>2, <1>4, <1>5, <1>6, CommandsFine

\* The clock and the status by command.
LEMMA AsksFine ==
  ASSUME Fine(m), CmdTime \/ CmdStatus
  PROVE  Fine(m')
  <1> DEFINE Clock == Each(Ask(m), LAMBDA s : IF s.ok THEN ParseNetworkTime(s) ELSE {s})
             Status == Each(Ask(m), LAMBDA s : IF s.connected THEN IpLinkStatus(s) ELSE {s})
             a == m.asked \/ ~opt.use_gps
  <1>1. m \in State /\ m.asked \in BOOLEAN
    BY DEF Fine, State
  <1>2. Command(a, Clock) \/ Command(m.asked, Status)
    BY DEF CmdTime, CmdStatus
  <1>3. ASSUME NEW s \in Ask(m) PROVE Keeps(m, s) /\ s \in State
    BY <1>1, <1>3, AskKeeps
  <1>4. ASSUME NEW t \in Clock PROVE Calm(m, t) /\ Keeps(m, t)
    <2>1. PICK s \in Ask(m) : t = s \/ t \in ParseNetworkTime(s)
      BY <1>4 DEF Each
    <2>2. Keeps(m, s) /\ s \in State
      BY <1>3
    <2>3. t \in ParseNetworkTime(s) => Keeps(s, t)
      BY <2>2, ParseNetworkTimeKeeps
    <2>4. t \in ParseNetworkTime(s) => Keeps(m, t)
      BY <2>2, <2>3, KeepsTwice
    <2>5. Keeps(m, t)
      BY <2>1, <2>2, <2>4
    <2> QED
      BY <2>5, KeepsTwice
  <1>5. ASSUME NEW t \in Status PROVE Calm(m, t) /\ Keeps(m, t)
    <2>1. PICK s \in Ask(m) : t = s \/ t \in IpLinkStatus(s)
      BY <1>5 DEF Each
    <2>2. Keeps(m, s) /\ s \in State
      BY <1>3
    <2>3. t \in IpLinkStatus(s) => Keeps(s, t)
      BY <2>2, IpLinkStatusKeeps
    <2>4. t \in IpLinkStatus(s) => Keeps(m, t)
      BY <2>2, <2>3, KeepsTwice
    <2>5. Keeps(m, t)
      BY <2>1, <2>2, <2>4
    <2> QED
      BY <2>5, KeepsTwice
  <1>6. a \in BOOLEAN /\ (m.asked => a)
    BY Zenon
  <1> HIDE DEF Clock, Status, a
  <1>7. CASE Command(a, Clock)
    BY <1>4, <1>6, <1>7, CommandsFine
  <1>8. CASE Command(m.asked, Status)
    BY <1>1, <1>5, <1>8, CommandsFine
  <1> QED
    BY <1>2, <1>7, <1>8

\* A leaf that is started looks for its modem, unless it knows of it.
LEMMA CmdStartFine ==
  ASSUME Fine(m), CmdStart
  PROVE  Fine(m')
  <1> DEFINE a == m.probe_due \/ (opt.autoprobe /\ ~m.present)
             New == [m EXCEPT !.run = TRUE, !.probe_due = a]
  <1>1. m \in State /\ m.asked \in BOOLEAN
    BY DEF Fine, State
  <1>2. ~m.run /\ Command(m.asked, {New})
    BY Zenon DEF CmdStart
  <1>3. a \in BOOLEAN /\ (m.probe_due => a) /\ (Plain /\ ~m.present => a)
    BY Zenon DEF Plain
  <1> HIDE DEF a
  <1>4. New \in State
    BY <1>1, <1>3 DEF State
  <1>5. /\ New.connected = m.connected /\ New.power = m.power /\ New.link = m.link
        /\ New.missed = m.missed /\ New.urc = m.urc /\ New.asked = m.asked
        /\ New.gps_active = m.gps_active /\ New.probe_due = a
        /\ New.due = m.due /\ New.timer = m.timer /\ New.needs_reboot = m.needs_reboot
        /\ New.probe_timer = m.probe_timer
    BY <1>1 DEF State
  <1> HIDE DEF New
  <1>6. Calm(m, New) /\ (Quiet(m) => Quiet(New))
    BY <1>4, <1>5 DEF Calm, Known, Told, Quiet
  <1>7. Hopes(m) => Hopes(New)
    BY <1>3, <1>5 DEF Hopes, Due
  <1>8. \A t \in {New} : Calm(m, t) /\ (m.asked \/ Keeps(m, t))
    BY <1>6, <1>7 DEF Keeps
  <1> QED
    BY <1>1, <1>2, <1>8, CommandsFine

\* The commands.
LEMMA UserFine ==
  ASSUME Fine(m), User
  PROVE  Fine(m')
  BY CallsFine, CmdProbeFine, StopsFine, CmdKeyFine, CmdGpsFine, AsksFine, CmdStartFine
  DEF User

\* What a step keeps is fine.
LEMMA KeepsFine ==
  ASSUME NEW s, Fine(s), NEW t, Keeps(s, t)
  PROVE  Fine(t)
  BY DEF Fine, Keeps, Calm

\* A fault is counted.
LEMMA FaultKeeps ==
  ASSUME NEW s \in State, s.faults > 0
  PROVE  Keeps(s, [s EXCEPT !.faults = @ - 1])
  <1> DEFINE f == s.faults - 1
             New == [s EXCEPT !.faults = f]
  <1>1. f \in 0..Faults
    BY ModemAssumption DEF State
  <1> HIDE DEF f
  <1>2. New \in State
    BY <1>1 DEF State
  <1>3. Alike(s, New)
    BY DEF Alike, Due, State
  <1> HIDE DEF New
  <1>4. Keeps(s, New)
    BY <1>2, <1>3, AlikeKeeps
  <1> QED
    BY <1>4 DEF New, f

\* What the modem says unasked joins what it said before.
LEMMA SaysAdds ==
  ASSUME m \in State, NEW line \in Reports
  PROVE  /\ Says(line) \in Seq(Reports)
         /\ \A i \in DOMAIN m.urc : i \in DOMAIN Says(line) /\ Says(line)[i] = m.urc[i]
         /\ m.power /\ Len(m.urc) < Lines =>
              \E i \in DOMAIN Says(line) : Says(line)[i] = line
  <1> DEFINE q == m.urc
             n == Len(q) + 1
  <1>1. q \in Seq(Reports)
    BY DEF State
  <1> HIDE DEF q
  <1>2. /\ Append(q, line) \in Seq(Reports)
        /\ n \in DOMAIN Append(q, line) /\ Append(q, line)[n] = line
        /\ \A i \in DOMAIN q : i \in DOMAIN Append(q, line) /\ Append(q, line)[i] = q[i]
    BY <1>1
  <1> HIDE DEF n
  <1>3. Says(line) = IF m.power /\ Len(q) < Lines THEN Append(q, line) ELSE q
    BY DEF Says, q
  <1>4. /\ Says(line) \in Seq(Reports)
        /\ \A i \in DOMAIN q : i \in DOMAIN Says(line) /\ Says(line)[i] = q[i]
        /\ m.power /\ Len(q) < Lines =>
             \E i \in DOMAIN Says(line) : Says(line)[i] = line
    BY <1>1, <1>2, <1>3
  <1> QED
    BY <1>4 DEF q

\* Timers fire, and what is old gets older.
LEMMA TimeFine ==
  ASSUME Fine(m), TimerFires \/ ProbeTimerFires \/ GpsWaitEnds \/ LocationAges \/ ModemHeals
  PROVE  Fine(m')
  <1> DEFINE A == [m EXCEPT !.timer = FALSE, !.due = TRUE]
             B == [m EXCEPT !.probe_timer = FALSE, !.probe_due = TRUE]
             C == [m EXCEPT !.waited = TRUE]
             D == [m EXCEPT !.stale = TRUE]
             E == [m EXCEPT !.dead = FALSE]
  <1>1. m \in State
    BY DEF Fine
  <1>2. m' = A \/ m' = B \/ m' = C \/ m' = D \/ m' = E
    BY DEF TimerFires, ProbeTimerFires, GpsWaitEnds, LocationAges, ModemHeals, World
  <1>3. A \in State /\ Alike(m, A)
    BY <1>1 DEF Alike, Due, State
  <1>4. B \in State /\ Alike(m, B)
    BY <1>1 DEF Alike, Due, State
  <1>5. C \in State /\ Alike(m, C)
    BY <1>1 DEF Alike, Due, State
  <1>6. D \in State /\ Alike(m, D)
    BY <1>1 DEF Alike, Due, State
  <1>7. E \in State /\ Alike(m, E)
    BY <1>1 DEF Alike, Due, State
  <1> HIDE DEF A, B, C, D, E
  <1>8. Keeps(m, m')
    BY <1>1, <1>2, <1>3, <1>4, <1>5, <1>6, <1>7, AlikeKeeps
  <1> QED
    BY <1>8, KeepsFine

\* The world: the retries are the leaf's own, and a link that is lost is told
\* of, or the modem is off.
LEMMA WorldKeeps ==
  ASSUME NEW s \in State, NEW t \in State,
         t.connected = s.connected, t.missed = s.missed, t.asked = s.asked,
         t.gps_active = s.gps_active, t.run = s.run, t.present = s.present,
         Due(s) => Due(t), Known(s) => Known(t)
  PROVE  Keeps(s, t)
  BY DEF Keeps, Calm, Quiet, Hopes

\* The link drops, comes back, and so does the coverage.
LEMMA LinkFine ==
  ASSUME Fine(m), LinkDrops \/ LinkReturns \/ CoverageReturns
  PROVE  Fine(m')
  <1> DEFINE Dropped(c, q) == [m EXCEPT !.link = FALSE, !.coverage = c, !.urc = q]
             Back(q) == [m EXCEPT !.link = TRUE, !.urc = q]
             Near(q) == [m EXCEPT !.coverage = TRUE, !.urc = q]
             Counted(s) == [s EXCEPT !.faults = @ - 1]
  <1>1. m \in State /\ Known(m) /\ m.urc \in Seq(Reports)
    BY DEF Fine, State
  <1>2. "deactive" \in Reports /\ "active" \in Reports /\ "psuttz" \in Reports
    BY DEF Reports
  <1>3. ASSUME NEW s \in State, s.faults > 0, Keeps(m, s) PROVE Fine(Counted(s))
    BY <1>3, FaultKeeps, KeepsTwice, KeepsFine
  <1>4. ASSUME NEW q \in Seq(Reports), NEW c \in BOOLEAN
        PROVE  /\ Dropped(c, q) \in State /\ Dropped(c, q).urc = q
               /\ Dropped(c, q).connected = m.connected /\ Dropped(c, q).power = m.power
               /\ Dropped(c, q).missed = m.missed /\ Dropped(c, q).asked = m.asked
               /\ Dropped(c, q).gps_active = m.gps_active /\ Dropped(c, q).run = m.run
               /\ Dropped(c, q).present = m.present /\ Dropped(c, q).faults = m.faults
               /\ Due(m) => Due(Dropped(c, q))
    <2> DEFINE New == Dropped(c, q)
    <2>1. New \in State
      BY <1>1, <1>4 DEF State
    <2>2. /\ New.urc = q /\ New.connected = m.connected /\ New.power = m.power
          /\ New.missed = m.missed /\ New.asked = m.asked
      BY <1>1 DEF State
    <2>3. /\ New.gps_active = m.gps_active /\ New.run = m.run
          /\ New.present = m.present /\ New.faults = m.faults
      BY <1>1 DEF State
    <2>4. Due(m) => Due(New)
      BY <1>1 DEF State, Due
    <2> QED
      BY <2>1, <2>2, <2>3, <2>4
  <1>5. ASSUME NEW q \in Seq(Reports)
        PROVE  /\ Back(q) \in State /\ Back(q).link
               /\ Back(q).connected = m.connected
               /\ Back(q).missed = m.missed /\ Back(q).asked = m.asked
               /\ Back(q).gps_active = m.gps_active /\ Back(q).run = m.run
               /\ Back(q).present = m.present /\ Back(q).faults = m.faults
               /\ Due(m) => Due(Back(q))
    BY <1>1 DEF State, Due
  <1>6. ASSUME NEW q \in Seq(Reports)
        PROVE  /\ Near(q) \in State /\ Near(q).urc = q
               /\ Near(q).connected = m.connected /\ Near(q).power = m.power
               /\ Near(q).link = m.link
               /\ Near(q).missed = m.missed /\ Near(q).asked = m.asked
               /\ Near(q).gps_active = m.gps_active /\ Near(q).run = m.run
               /\ Near(q).present = m.present
               /\ Due(m) => Due(Near(q))
    BY <1>1 DEF State, Due
  <1>7. CASE LinkDrops
    <2>1. PICK c \in BOOLEAN :
            m.faults > 0 /\ m' = Counted(Dropped(c, Says("deactive")))
      BY <1>7 DEF LinkDrops, Fault, World
    <2>2. Len(m.urc) < Lines
      BY <1>7 DEF LinkDrops
    <2> DEFINE q == Says("deactive")
               t == Dropped(c, q)
    <2>3. q \in Seq(Reports)
      BY <1>1, <1>2, SaysAdds
    <2>4. m.power => \E i \in DOMAIN q : q[i] = "deactive"
      BY <1>1, <1>2, <2>2, SaysAdds
    <2> HIDE DEF q, Dropped
    <2>5. Known(t)
      BY <1>4, <2>3, <2>4 DEF Known, Told, Losses
    <2>6. Keeps(m, t) /\ t \in State /\ t.faults > 0
      BY <1>1, <1>4, <2>1, <2>3, <2>5, WorldKeeps
    <2> HIDE DEF t, Counted
    <2>7. Fine(Counted(t))
      BY <1>3, <2>6
    <2> QED
      BY <2>1, <2>7 DEF t, q
  <1>8. CASE LinkReturns
    <2> DEFINE q == Says("active")
               t == Back(q)
    <2>1. m.faults > 0 /\ m' = Counted(t)
      BY <1>8 DEF LinkReturns, Fault, World
    <2>2. q \in Seq(Reports)
      BY <1>1, <1>2, SaysAdds
    <2> HIDE DEF q, Back
    <2>3. Known(t)
      BY <1>5, <2>2, KnownWhen
    <2>4. Keeps(m, t) /\ t \in State /\ t.faults > 0
      BY <1>1, <1>5, <2>1, <2>2, <2>3, WorldKeeps
    <2> HIDE DEF t, Counted
    <2>5. Fine(Counted(t))
      BY <1>3, <2>4
    <2> QED
      BY <2>1, <2>5
  <1>9. CASE CoverageReturns
    <2>1. PICK q \in {m.urc, Says("psuttz")} : m' = Near(q)
      BY <1>9 DEF CoverageReturns, World
    <2>2. /\ q \in Seq(Reports)
          /\ \A i \in DOMAIN m.urc : i \in DOMAIN q /\ q[i] = m.urc[i]
      BY <1>1, <1>2, SaysAdds
    <2> DEFINE t == Near(q)
    <2>3. Known(t)
      <3> HIDE DEF Near
      <3>1. Told(m) => Told(t)
        BY <1>6, <2>2 DEF Told
      <3> QED
        BY <1>1, <1>6, <2>2, <3>1 DEF Known
    <2> HIDE DEF Near
    <2>4. Keeps(m, t)
      BY <1>1, <1>6, <2>2, <2>3, WorldKeeps
    <2> QED
      BY <2>1, <2>4, KeepsFine
  <1> QED
    BY <1>7, <1>8, <1>9

\* The modem resets or dies.
LEMMA ModemFine ==
  ASSUME Fine(m), ModemResets \/ ModemDies
  PROVE  Fine(m')
  <1> DEFINE A == [Restarted(m) EXCEPT !.urc = <<"rdy">>]
             B == [Restarted(m) EXCEPT !.power = FALSE, !.dead = TRUE, !.urc = <<>>]
             Counted(s) == [s EXCEPT !.faults = @ - 1]
  <1>1. m \in State
    BY DEF Fine
  <1>2. m.faults > 0 /\ (m' = Counted(A) \/ m' = Counted(B))
    BY DEF ModemResets, ModemDies, Fault, World
  <1>3. Keeps(m, A) /\ A \in State
    BY <1>1, RestartedKeeps, KeepsTwice
  <1>4. A.faults = m.faults
    BY <1>1 DEF State, Restarted
  <1>5. B \in State
    <2>1. <<>> \in Seq(Reports)
      OBVIOUS
    <2> QED
      BY ZenonT(40), <1>1, <2>1 DEF State, Restarted
  <1>6. /\ ~B.power /\ B.connected = m.connected /\ B.missed = m.missed
        /\ B.asked = m.asked /\ B.gps_active = m.gps_active /\ B.run = m.run
        /\ B.present = m.present /\ (Due(m) => Due(B)) /\ B.faults = m.faults
    BY <1>1 DEF State, Restarted, Due
  <1> HIDE DEF A, B
  <1>7. Keeps(m, B)
    BY <1>1, <1>5, <1>6, KnownWhen, WorldKeeps
  <1>8. ASSUME NEW s \in State, s.faults > 0, Keeps(m, s) PROVE Fine(Counted(s))
    BY <1>8, FaultKeeps, KeepsTwice, KeepsFine
  <1> HIDE DEF Counted
  <1> QED
    BY <1>2, <1>3, <1>4, <1>5, <1>6, <1>7, <1>8

\* The other users of the modem.
LEMMA OthersTalkFine ==
  ASSUME Fine(m), OthersTalk
  PROVE  Fine(m')
  <1>1. PICK s \in {Flush(m)} \cup IpLinkStatus(m) : m' = [s EXCEPT !.ok = FALSE]
    BY DEF OthersTalk, World
  <1>2. m \in State
    BY DEF Fine
  <1>3. Keeps(m, s) /\ s \in State
    BY <1>2, FlushKeeps, IpLinkStatusKeeps, KeepsTwice
  <1>4. m' \in Returns(s, FALSE)
    BY <1>1 DEF Returns
  <1>5. Keeps(s, m')
    BY <1>3, <1>4, ReturnsKeeps
  <1> QED
    BY <1>3, <1>5, KeepsTwice, KeepsFine

\* Time and the world.
LEMMA EnvironmentFine ==
  ASSUME Fine(m),
         TimerFires \/ ProbeTimerFires \/ GpsWaitEnds \/ LocationAges \/ Environment
  PROVE  Fine(m')
  BY TimeFine, LinkFine, ModemFine, OthersTalkFine DEF Environment

-----------------------------------------------------------------------------
(* The invariant.                                                          *)

Inv == TypeOK /\ Fine(m)

\* At the start nothing is connected, and a leaf that runs has a probe coming.
LEMMA InitFine == Init => Inv
  <1> SUFFICES ASSUME Init PROVE Inv
    OBVIOUS
  <1>1. PICK power \in BOOLEAN, coverage \in BOOLEAN, run \in BOOLEAN :
       m = [present |-> FALSE, connected |-> FALSE, notified |-> FALSE, run |-> run,
            needs_reboot |-> FALSE, attempts |-> 0, reinit |-> FALSE, probes |-> 0,
            probe_due |-> run /\ opt.autoprobe, probe_timer |-> FALSE,
            due |-> FALSE, timer |-> FALSE, first |-> TRUE,
            gps_active |-> FALSE, gps_fix |-> FALSE, waited |-> FALSE, stale |-> FALSE,
            power |-> power, dead |-> FALSE, link |-> FALSE, gps |-> FALSE,
            urc |-> <<>>, coverage |-> coverage,
            missed |-> FALSE, asked |-> FALSE,
            faults |-> Faults, ok |-> FALSE]
    BY DEF Init
  <1> DEFINE a == run /\ opt.autoprobe
  <1>2. a \in BOOLEAN /\ (run /\ Plain => a)
    BY Zenon DEF Plain
  <1>3. 0 \in 0..Threshold /\ 0 \in 0..ProbeLimit /\ Faults \in 0..Faults
        /\ Commands \in 0..Commands
    BY ModemAssumption
  <1>4. <<>> \in Seq(Reports)
    OBVIOUS
  <1> HIDE DEF a
  <1>5. m \in State
    BY <1>1, <1>2, <1>3, <1>4 DEF State, a
  <1>6. ~m.connected /\ ~m.gps_active /\ ~m.present /\ m.probe_due = a /\ m.run = run
    BY <1>1 DEF a
  <1>7. Fine(m)
    BY <1>2, <1>5, <1>6 DEF Fine, Known, Quiet, Hopes, Due
  <1> QED
    BY <1>3, <1>5, <1>7 DEF Init, Inv, TypeOK, Sections

\* It is inductive.
LEMMA SpecInv == Spec => []Inv
  <1>1. Inv /\ [Next]_vars => Inv'
    <2> SUFFICES ASSUME Inv, [Next]_vars PROVE Inv'
      OBVIOUS
    <2>1. Fine(m) /\ TypeOK
      BY DEF Inv
    <2>2. Fine(m')
      BY <2>1, PassFine, UserFine, EnvironmentFine DEF Next, vars
    <2>3. opt' = opt
      BY DEF Next, vars, Pass, LoopProbe, LoopReboot, LoopConnect, LoopAnnounce,
        LoopReport, LoopInitial, LoopURC, LoopGPS, LoopSMS, Turn, User, CmdConnect,
        CmdDisconnect, CmdConfigure, CmdReboot, CmdProbe, CmdModemOff, CmdKey, CmdGps,
        CmdGpsDisable, CmdTime, CmdStatus, CmdStop, CmdStart, Command, TimerFires,
        ProbeTimerFires, GpsWaitEnds, LocationAges, Environment, LinkDrops,
        CoverageReturns, LinkReturns, ModemResets, ModemDies, ModemHeals, OthersTalk,
        Fault, World
    <2>4. at' \in Sections
      BY <2>1 DEF TypeOK, Sections, Next, vars, Pass, LoopProbe, LoopReboot,
        LoopConnect, LoopAnnounce, LoopReport, LoopInitial, LoopURC, LoopGPS, LoopSMS,
        Turn, User, CmdConnect, CmdDisconnect, CmdConfigure, CmdReboot, CmdProbe,
        CmdModemOff, CmdKey, CmdGps, CmdGpsDisable, CmdTime, CmdStatus, CmdStop,
        CmdStart, Command, TimerFires, ProbeTimerFires, GpsWaitEnds, LocationAges,
        Environment, LinkDrops, CoverageReturns, LinkReturns, ModemResets, ModemDies,
        ModemHeals, OthersTalk, Fault, World
    <2>5. commands' = commands \/ (commands > 0 /\ commands' = commands - 1)
      BY DEF Next, vars, Pass, LoopProbe, LoopReboot, LoopConnect, LoopAnnounce,
        LoopReport, LoopInitial, LoopURC, LoopGPS, LoopSMS, Turn, User, CmdConnect,
        CmdDisconnect, CmdConfigure, CmdReboot, CmdProbe, CmdModemOff, CmdKey, CmdGps,
        CmdGpsDisable, CmdTime, CmdStatus, CmdStop, CmdStart, Command, TimerFires,
        ProbeTimerFires, GpsWaitEnds, LocationAges, Environment, LinkDrops,
        CoverageReturns, LinkReturns, ModemResets, ModemDies, ModemHeals, OthersTalk,
        Fault, World
    <2>6. commands' \in 0..Commands
      BY <2>1, <2>5, ModemAssumption DEF TypeOK
    <2>7. Fine(m)'
      BY <2>2, <2>3 DEF Fine, Known, Told, Quiet, Hopes, Due, Plain
    <2>8. m' \in State /\ opt' \in Options
      BY <2>1, <2>2, <2>3 DEF Fine, TypeOK
    <2> QED
      BY <2>4, <2>6, <2>7, <2>8 DEF Inv, TypeOK
  <1> QED
    BY <1>1, InitFine, PTL DEF Spec

\* The leaf and the modem stay within the records the model is made of: the
\* counters of failed attempts and probes within their limits, and what waits
\* in the UART one of the known lines.
THEOREM TypeCorrect == Spec => []TypeOK
  BY SpecInv, PTL DEF Inv

\* Whichever of the calls that go deep into each other was under way when the
\* modem told of a loss of its link, and whoever threw the line away, the leaf
\* that still believes in the link has the line waiting or threw it away.
THEOREM LossStaysKnown == Spec => []LossIsKnown
  <1>1. Inv => LossIsKnown
    BY DEF Inv, Fine, Known, LossIsKnown
  <1> QED
    BY <1>1, SpecInv, PTL

\* Wherever an attempt, a probe or a reboot of the modem fails, a leaf that is
\* offline and was not stopped has a retry, a reboot or a probe coming.
THEOREM RetryIsComing == Spec => []NeverStranded
  <1>1. Inv => NeverStranded
    BY DEF Inv, Fine, Hopes, Due, NeverStranded, Pending
  <1> QED
    BY <1>1, SpecInv, PTL

=============================================================================
