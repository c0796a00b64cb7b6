------------------------------ MODULE ModemPort ------------------------------
(***************************************************************************)
(* The lock on the serial port of the cellular modem (TraitModem), and the *)
(* transactions that hold it: text messages, TCP connections, files in the *)
(* modem and FTP.  In the build without threads of their own one task does *)
(* all of this, so the lock is never contended: whoever finds it taken has *)
(* met a transaction that ended without giving it back.                    *)
(*                                                                         *)
(* A call is an operator that maps a record s, what the leaves remember    *)
(* and what the modem is, to the set of records it may leave.  Of s this   *)
(* module knows port (the lock is taken), leaked (history: by a call that  *)
(* did not give it back), bearer (FTP's bearer is open), urc (the lines    *)
(* waiting in the UART), faults (answers that may still be garbled), hung  *)
(* (the task is in a loop that does not end) and ok (what the call         *)
(* returned).  Most commands are sent without the lock.                    *)
(*                                                                         *)
(* Left out: a certificate that cannot be installed turns ip_enable_ssl    *)
(* off until the next boot (modemProbe); here every probe looks for it     *)
(* again, which adds behaviours and takes none away.                       *)
(***************************************************************************)
EXTENDS Naturals, Sequences

CONSTANTS
  Options,          \* settings considered
  Faults            \* bound on the garbled answers and lost connections

VARIABLE opt        \* the settings of this device

\* breaker: mutex_deadlock_limit > 0; bearer: FTP needs one (the SIM7080 does
\* not); ssl: ip_enable_ssl; reuse: pubsub_reuse_connection; heartbeat:
\* pubsub_broker_heartbeat_topic is set.
OptionRecords ==
  [breaker: BOOLEAN, bearer: BOOLEAN, ssl: BOOLEAN, reuse: BOOLEAN, heartbeat: BOOLEAN]

ASSUME PortAssumption == Options \subseteq OptionRecords /\ Faults \in Nat

\* What F may leave, started in any of S; what hangs, hangs.
Each(S, F(_)) == UNION {IF s.hung THEN {s} ELSE F(s) : s \in S}

Returns(s, ok) == {[s EXCEPT !.ok = ok]}

\* Every command first throws away what the modem said unasked; its answer may
\* be garbled, or an error.
Flush(s) == [s EXCEPT !.urc = <<>>]

Ask(s) ==
  Returns(Flush(s), TRUE) \cup
  {[Flush(s) EXCEPT !.ok = FALSE, !.faults = f] : f \in {g \in 0..Faults : g + 1 = s.faults}}

-----------------------------------------------------------------------------
(* The lock.                                                               *)

\* Mutant: a lock that was not given back is waited for.
WaitPortPolite(s) == IF s.port THEN Returns(s, FALSE) ELSE {[s EXCEPT !.port = TRUE, !.ok = TRUE]}

\* modemWaitPortMutex: a lock that stays taken longer than the limit is called
\* a deadlock, and broken.
WaitPort(s) ==
  IF s.port /\ ~opt.breaker THEN Returns(s, FALSE)
  ELSE {[s EXCEPT !.port = TRUE, !.leaked = FALSE, !.ok = TRUE]}

\* modemReleasePortMutex.
Release(s) == [s EXCEPT !.port = FALSE]

Failed(s) == {[Release(s) EXCEPT !.ok = FALSE]}

\* A transaction: take the lock, run F, give the lock back.
Transaction(s, F(_)) ==
  Each(WaitPort(s), LAMBDA t :
         IF t.ok THEN Each(F(t), LAMBDA u : {Release(u)}) ELSE {t})

\* A call that returns with the lock taken.
Leaks(s) == [s EXCEPT !.leaked = TRUE]

-----------------------------------------------------------------------------
(* Transactions.                                                           *)

\* modem_at, modemChat; IpClientSim7080::connect, where a dangling connection is
\* closed and the open tried again, and dataIndication.
ModemAt(s)    == Transaction(s, Ask)
TcpConnect(s) ==
  Transaction(s, LAMBDA t : Each(Ask(t), LAMBDA u :
                   IF u.ok THEN {u} ELSE Each(Ask(u), LAMBDA v : IF v.ok THEN Ask(v) ELSE {v})))

\* cmdSendSMS: the format, and then the number and the text.
CmdSendSMS(s) ==
  Each(Ask(s), LAMBDA t :
         IF ~t.ok THEN {t}
         ELSE Transaction(t, LAMBDA u : Each(Ask(u), LAMBDA v : IF v.ok THEN Ask(v) ELSE {v})))

\* modemFsBegin returns with the lock taken, or FALSE; modemFsEnd.
ModemFsBegin(s) ==
  Each(WaitPort(s), LAMBDA t :
    IF ~t.ok THEN {t}
    ELSE Each(Ask(t), LAMBDA u :
      IF u.ok THEN {u}
      ELSE Each(Ask(u), LAMBDA v :
        IF ~v.ok THEN Failed(v)
        ELSE Each(Ask(v), LAMBDA w : IF w.ok THEN {w} ELSE Failed(w)))))

ModemFsEnd(s) == Each(Ask(s), LAMBDA t : {Release(t)})

\* modemReadFile ends the session on the modem and keeps the lock, whether it
\* read the file or not.
ModemReadFile(s) ==
  Each(ModemFsBegin(s), LAMBDA t :
    IF ~t.ok THEN {t}
    ELSE Each(Ask(t), LAMBDA u : IF u.ok THEN Each(Ask(u), LAMBDA v : {Leaks(v)})
                                 ELSE {Leaks(u)}))

ModemWriteFile(s) ==
  Each(Ask(s), LAMBDA t :
    IF ~t.ok THEN {t}
    ELSE Each(ModemFsBegin(t), LAMBDA u :
      IF ~u.ok THEN {u}
      ELSE Each(Ask(u), LAMBDA v :
        IF v.ok THEN ModemFsEnd(v) ELSE Each(ModemFsEnd(v), LAMBDA w : Returns(w, FALSE)))))

\* modemInstallCert; one certificate stands for the three.
ModemInstallCert(s) ==
  Each(ModemWriteFile(s), LAMBDA t : IF t.ok THEN ModemReadFile(t) ELSE {t})

\* modemProbe(FULL): its own transaction, and the certificates.
ModemProbe(s) ==
  Each(ModemAt(s), LAMBDA t :
         IF ~(t.ok /\ opt.ssl) THEN {t}
         ELSE Each(ModemReadFile(t), LAMBDA u : IF u.ok THEN {u} ELSE ModemInstallCert(u)))

-----------------------------------------------------------------------------
(* FTP, while there is coverage for the bearer.                            *)

\* A round of modemBearerBegin: the state, the APN, and the bearer is opened.  One
\* that is open already is asked about again and again, until an answer is garbled.
OpenBearer(s) ==
  Each(Ask(s), LAMBDA t :
    IF ~t.ok THEN Failed(t)
    ELSE IF t.bearer THEN {[t EXCEPT !.hung = TRUE]}
    ELSE Each(Ask(t), LAMBDA u :
      IF u.ok THEN Each(Ask(u), LAMBDA v : {[v EXCEPT !.bearer = v.ok]}) ELSE Failed(u)))

Refused(s) == ~s.ok /\ s.port

\* modemBearerBegin returns with the lock taken.  A bearer that is refused is closed
\* and tried again; refused then, it is tried for ever, or until that ends.
ModemBearerBegin(s) ==
  LET Reopen(t) == Each(Ask(t), LAMBDA u : IF u.ok THEN OpenBearer(u) ELSE Failed(u))
      Insist(t) ==
        {[t EXCEPT !.hung = TRUE]} \cup {u \in OpenBearer(t) : ~Refused(u)}
      Retry(t) ==
        Each(Reopen(t), LAMBDA u : IF Refused(u) THEN Insist(u) ELSE {u})
  IN  IF ~opt.bearer THEN Returns(s, TRUE)
      ELSE Each(WaitPort(s), LAMBDA t :
        IF ~t.ok THEN {t}
        ELSE Each(OpenBearer(t), LAMBDA u : IF Refused(u) THEN Retry(u) ELSE {u}))

\* A bearer that does not close stays open.
ModemBearerEnd(s) ==
  IF ~opt.bearer THEN {s}
  ELSE Each(Ask(s), LAMBDA t : {[Release(t) EXCEPT !.bearer = @ /\ ~t.ok]})

ModemFtpEnd(s) == Each(IF opt.bearer THEN {s} ELSE Ask(s), ModemBearerEnd)

\* FTP calls that end without ending the session.
Abandons(s) == {IF opt.bearer THEN Leaks(s) ELSE s}

\* modemFtpBegin: a channel that is refused has the bearer closed that was tried
\* last, which is not the one that is open; a mode that is refused, the right
\* one; and if the login is refused nothing is closed.
ModemFtpBegin(s) ==
  LET Login(t) == Each(Ask(t), LAMBDA u : IF u.ok THEN {u} ELSE Abandons(u))
      Mode(t) ==
        Each(Ask(t), LAMBDA u :
          IF u.ok THEN Login(u) ELSE Each(ModemBearerEnd(u), LAMBDA v : Returns(v, FALSE)))
      Channel(t) ==
        Each(Ask(t), LAMBDA u :
          IF u.ok THEN Mode(u) ELSE IF opt.bearer THEN Failed(u) ELSE {u})
  IN  Each(ModemBearerBegin(s), LAMBDA t : IF t.ok THEN Channel(t) ELSE {t})

ModemFtpPut(s) ==
  Each(ModemFtpBegin(s), LAMBDA t : IF t.ok THEN Each(Ask(t), ModemFtpEnd) ELSE {t})

\* modemFtpGet: "FTP data fetch failed" returns at once.
ModemFtpGet(s) ==
  Each(ModemFtpBegin(s), LAMBDA t :
    IF ~t.ok THEN {t}
    ELSE Each(Ask(t), LAMBDA u :
      IF ~u.ok THEN ModemFtpEnd(u)
      ELSE Each(Ask(u), LAMBDA v : IF v.ok THEN ModemFtpEnd(v) ELSE Abandons(v))))

=============================================================================
