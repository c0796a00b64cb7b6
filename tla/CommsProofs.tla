------------------------------ MODULE CommsProofs ------------------------------
(***************************************************************************)
(* Proofs about Comms, for any leaf tables, defaults and number of         *)
(* commands: which leaves a boot and the commands after it leave set up,   *)
(* started and with which partners, and that what was asked for is what    *)
(* the next boot finds.                                                    *)
(*                                                                         *)
(* The calls are operators on the state d of all leaves.  A lemma says of  *)
(* each what it makes of the leaf it is called for, and that it leaves the *)
(* others as they are.                                                     *)
(***************************************************************************)
EXTENDS Comms, WellFoundedInduction, TLAPS

Leaves  == ToSet(device.table) \cup {App}
Ips     == {Ip(t) : t \in Transports} \cup {None}
Pubsubs == {Pubsub(t) : t \in Transports} \cup {None}
States  == [Leaves -> LeafStates]

\* Leaves have names of their own.
LEMMA Names ==
  /\ \A t, u \in Transports : Ip(t) # Pubsub(u)
  /\ \A t, u \in Transports : (Ip(t) = Ip(u) => t = u) /\ (Pubsub(t) = Pubsub(u) => t = u)
  /\ \A t \in Transports : Ip(t) \notin {App, None} /\ Pubsub(t) \notin {App, None}
  /\ App # None
  /\ "lte" \in Transports /\ "wifi" \in Transports /\ "null" \in Transports
  /\ "lte" # "wifi" /\ "lte" # "null" /\ "wifi" # "null"
  BY DEF Transports, Ip, Pubsub, App, None

\* The table holds leaves of the transports, and the app beside them.
LEMMA TableLeaves ==
  ASSUME device \in Devices
  PROVE  /\ ToSet(device.table) \subseteq CommsLeaves
         /\ DOMAIN device.table \subseteq Nat
         /\ \A i \in DOMAIN device.table : device.table[i] \in ToSet(device.table)
         /\ None \notin Leaves /\ App \notin ToSet(device.table) /\ App \in Leaves
         /\ \A l \in Leaves : l = App \/ Has(l)
  <1> DEFINE q == device.table
  <1>1. q \in Seq(CommsLeaves)
    BY CommsAssumption
  <1>2. \A l \in CommsLeaves : l \notin {App, None}
    BY Names DEF CommsLeaves, Pair
  <1> HIDE DEF q
  <1>3. DOMAIN q \subseteq Nat /\ \A i \in DOMAIN q : q[i] \in CommsLeaves
    BY <1>1
  <1>4. ToSet(q) = {q[i] : i \in DOMAIN q}
    BY DEF ToSet
  <1>5. ToSet(q) \subseteq CommsLeaves /\ \A i \in DOMAIN q : q[i] \in ToSet(q)
    BY <1>3, <1>4
  <1> QED
    BY <1>2, <1>3, <1>5, Names DEF Leaves, Has, q

\* The smallest of some numbers is one of them.
LEMMA MinIsOne ==
  ASSUME NEW S \in SUBSET Nat, S # {}
  PROVE  Min(S) \in S
  <1> DEFINE R == {ss \in Nat \X Nat : ss[1] < ss[2]}
  <1>1. OpToRel(<, Nat) = R
    BY Zenon DEF OpToRel
  <1>2. IsWellFoundedOn(R, Nat)
    BY <1>1, NatLessThanWellFounded, Zenon
  <1>3. PICK n \in S : \A k \in S : <<k, n>> \notin R
    BY <1>2, WFMin
  <1>4. ASSUME NEW k \in S PROVE n <= k
    <2>1. <<k, n>> \in Nat \X Nat /\ <<k, n>>[1] = k /\ <<k, n>>[2] = n
      OBVIOUS
    <2>2. ~(k < n)
      BY <1>3, <2>1
    <2> QED
      BY <2>2
  <1> QED
    BY <1>4, Zenon DEF Min

-----------------------------------------------------------------------------
(* Setting up, starting and stopping a leaf.                               *)

\* find_type finds a leaf of the table that is of that kind and can run.
LEMMA FindTypeIs ==
  ASSUME device \in Devices, NEW d \in States, NEW kind
  PROVE  LET l == FindType(d, kind)
         IN  l = None \/ (Has(l) /\ l[1] = kind /\ d[l].run)
  <1> DEFINE May(l) == l[1] = kind /\ d[l].run
             found == {i \in DOMAIN device.table : May(device.table[i])}
  <1>1. FindType(d, kind) = IF found = {} THEN None ELSE device.table[Min(found)]
    BY DEF FindType
  <1>2. found \subseteq Nat
    BY TableLeaves
  <1>3. found # {} => Min(found) \in found
    BY <1>2, MinIsOne
  <1>4. found # {} => Has(device.table[Min(found)]) /\ May(device.table[Min(found)])
    BY <1>3, TableLeaves DEF Has
  <1> HIDE DEF found
  <1> QED
    BY <1>1, <1>4

\* So it fits the pointer it is kept in.
LEMMA FindTypeType ==
  ASSUME device \in Devices, NEW d \in States
  PROVE  FindType(d, "ip") \in Ips /\ FindType(d, "pubsub") \in Pubsubs
  <1>1. ASSUME NEW l \in CommsLeaves
        PROVE  /\ l[1] = "ip" => l \in Ips
               /\ l[1] = "pubsub" => l \in Pubsubs
    BY DEF CommsLeaves, Pair, Ip, Pubsub, Ips, Pubsubs
  <1>2. \A kind : FindType(d, kind) = None \/
          (FindType(d, kind) \in CommsLeaves /\ FindType(d, kind)[1] = kind)
    BY FindTypeIs, TableLeaves DEF Has
  <1>3. None \in Ips /\ None \in Pubsubs
    BY DEF Ips, Pubsubs
  <1> QED
    BY <1>1, <1>2, <1>3

\* setup() of a leaf.
LEMMA SetUpIs ==
  ASSUME device \in Devices, NEW d \in States, NEW l \in Leaves
  PROVE  /\ SetUp(d, l) \in States
         /\ \A k \in Leaves : k # l => SetUp(d, l)[k] = d[k]
         /\ SetUp(d, l)[l].setup
         /\ SetUp(d, l)[l].run = d[l].run /\ SetUp(d, l)[l].started = d[l].started
         /\ SetUp(d, l)[l].service = d[l].service
         /\ SetUp(d, l)[l].ip = IF d[l].ip = None THEN FindType(d, "ip") ELSE d[l].ip
         /\ SetUp(d, l)[l].pubsub =
              IF d[l].pubsub = None THEN FindType(d, "pubsub") ELSE d[l].pubsub
         /\ SetUp(d, l)[l].modem =
              IF l = Pubsub("lte") THEN SetUp(d, l)[l].ip ELSE d[l].modem
  <1> DEFINE ip == IF d[l].ip = None THEN FindType(d, "ip") ELSE d[l].ip
             pubsub == IF d[l].pubsub = None THEN FindType(d, "pubsub") ELSE d[l].pubsub
             modem == IF l = Pubsub("lte") THEN ip ELSE d[l].modem
             new == [d[l] EXCEPT !.setup = TRUE, !.ip = ip, !.pubsub = pubsub, !.modem = modem]
  <1>1. d[l] \in LeafStates
    BY DEF States
  <1>2. ip \in Ips /\ pubsub \in Pubsubs
    BY <1>1, FindTypeType DEF LeafStates, Ips, Pubsubs
  <1>3. modem \in Ips
    BY <1>1, <1>2 DEF LeafStates, Ips
  <1>4. SetUp(d, l) = [d EXCEPT ![l] = new]
    BY <1>1 DEF SetUp, States, LeafStates
  <1> HIDE DEF ip, pubsub, modem
  <1>5. /\ new \in LeafStates /\ new.setup /\ new.ip = ip /\ new.pubsub = pubsub
        /\ new.modem = modem /\ new.run = d[l].run /\ new.started = d[l].started
        /\ new.service = d[l].service
    BY <1>1, <1>2, <1>3 DEF LeafStates, Ips, Pubsubs
  <1> HIDE DEF new
  <1>6. /\ SetUp(d, l) \in States /\ SetUp(d, l)[l] = new
        /\ \A k \in Leaves : k # l => SetUp(d, l)[k] = d[k]
    BY <1>4, <1>5 DEF States
  <1> QED
    BY <1>5, <1>6 DEF ip, pubsub, modem

\* And it finds one if there is one.
LEMMA FindTypeNone ==
  ASSUME device \in Devices, NEW d \in States, NEW kind, FindType(d, kind) = None,
         NEW l \in Leaves, l # App, l[1] = kind
  PROVE  ~d[l].run
  <1> DEFINE May(k) == k[1] = kind /\ d[k].run
             found == {i \in DOMAIN device.table : May(device.table[i])}
  <1>1. FindType(d, kind) = IF found = {} THEN None ELSE device.table[Min(found)]
    BY DEF FindType
  <1>2. found # {} => Min(found) \in found
    BY TableLeaves, MinIsOne
  <1>3. \A i \in DOMAIN device.table : device.table[i] # None
    BY TableLeaves DEF Leaves
  <1>4. found = {}
    <2> HIDE DEF May
    <2> QED
      BY <1>1, <1>2, <1>3
  <1>5. PICK i \in DOMAIN device.table : device.table[i] = l
    BY TableLeaves DEF Has, ToSet
  <1> QED
    BY <1>4, <1>5

\* Nothing but l is changed.
Only(d, e, l) == e \in States /\ \A k \in Leaves : k # l => e[k] = d[k]

\* start() of a leaf: one that could not run is set up, unless it was before.
LEMMA StartIs ==
  ASSUME device \in Devices, NEW d \in States, NEW l \in Leaves
  PROVE  /\ Only(d, Start(d, l), l)
         /\ Start(d, l)[l].started /\ Start(d, l)[l].service = d[l].service
         /\ d[l].setup \/ ~d[l].run => Start(d, l)[l].setup
         /\ d[l].ip # None \/ d[l].run => Start(d, l)[l].ip = d[l].ip
         /\ d[l].pubsub # None \/ d[l].run => Start(d, l)[l].pubsub = d[l].pubsub
         /\ l # Pubsub("lte") => Start(d, l)[l].run
         /\ l = Pubsub("lte") => /\ Start(d, l)[l].modem = Start(d, l)[l].ip
                                 /\ Start(d, l)[l].run <=> Start(d, l)[l].ip # None
  <1> DEFINE r == [d EXCEPT ![l].run = TRUE]
             ready == IF d[l].run THEN d ELSE IF d[l].setup THEN r ELSE SetUp(r, l)
             begun == [ready EXCEPT ![l].started = TRUE]
             able == begun[l].ip # None
             tried == [begun EXCEPT ![l].modem = begun[l].ip, ![l].run = able]
  <1>1. Start(d, l) = IF l # Pubsub("lte") THEN begun ELSE tried
    BY Zenon DEF Start
  <1>2. /\ r \in States /\ \A k \in Leaves : k # l => r[k] = d[k]
        /\ r[l].run /\ r[l].setup = d[l].setup /\ r[l].service = d[l].service
        /\ r[l].ip = d[l].ip /\ r[l].pubsub = d[l].pubsub
    BY DEF States, LeafStates
  <1> HIDE DEF r
  <1>3. /\ ready \in States /\ \A k \in Leaves : k # l => ready[k] = d[k]
        /\ ready[l].run /\ ready[l].service = d[l].service
        /\ d[l].setup \/ ~d[l].run => ready[l].setup
        /\ d[l].ip # None \/ d[l].run => ready[l].ip = d[l].ip
        /\ d[l].pubsub # None \/ d[l].run => ready[l].pubsub = d[l].pubsub
    <2>1. CASE d[l].run
      BY <2>1
    <2>2. CASE ~d[l].run /\ d[l].setup
      BY <1>2, <2>2
    <2>3. CASE ~d[l].run /\ ~d[l].setup
      BY <1>2, <2>3, SetUpIs
    <2> QED
      BY <2>1, <2>2, <2>3
  <1> HIDE DEF ready
  <1>4. /\ begun \in States /\ \A k \in Leaves : k # l => begun[k] = ready[k]
        /\ begun[l].started /\ begun[l].run = ready[l].run
        /\ begun[l].service = ready[l].service /\ begun[l].setup = ready[l].setup
        /\ begun[l].ip = ready[l].ip /\ begun[l].pubsub = ready[l].pubsub
    <2> DEFINE on == [ready[l] EXCEPT !.started = TRUE]
    <2>1. ready \in States /\ ready[l] \in LeafStates
      BY <1>3 DEF States
    <2>2. begun = [ready EXCEPT ![l] = on]
      BY DEF States
    <2>3. /\ on \in LeafStates /\ on.started /\ on.run = ready[l].run
          /\ on.service = ready[l].service /\ on.setup = ready[l].setup
          /\ on.ip = ready[l].ip /\ on.pubsub = ready[l].pubsub
      BY <2>1 DEF LeafStates
    <2> HIDE DEF begun, on
    <2>4. /\ begun \in States /\ begun[l] = on
          /\ \A k \in Leaves : k # l => begun[k] = ready[k]
      BY <2>1, <2>2, <2>3 DEF States
    <2> QED
      BY <2>3, <2>4
  <1>5. begun[l] \in LeafStates /\ begun[l].ip \in Ips
    <2> HIDE DEF begun
    <2>1. begun[l] \in LeafStates
      BY <1>4 DEF States
    <2> QED
      BY <2>1 DEF LeafStates, Ips
  <1> DEFINE new == [begun[l] EXCEPT !.modem = begun[l].ip, !.run = able]
  <1>6. /\ tried \in States /\ \A k \in Leaves : k # l => tried[k] = begun[k]
        /\ tried[l].started = begun[l].started
        /\ tried[l].run <=> begun[l].ip # None
        /\ tried[l].service = begun[l].service /\ tried[l].setup = begun[l].setup
        /\ tried[l].ip = begun[l].ip /\ tried[l].pubsub = begun[l].pubsub
        /\ tried[l].modem = begun[l].ip
    <2>1. able \in BOOLEAN /\ (able <=> begun[l].ip # None)
      OBVIOUS
    <2> HIDE DEF begun, able
    <2>2. tried = [begun EXCEPT ![l] = new]
      BY <1>4, <1>5 DEF States, LeafStates
    <2>3. /\ new \in LeafStates /\ new.started = begun[l].started /\ new.run = able
          /\ new.service = begun[l].service /\ new.setup = begun[l].setup
          /\ new.ip = begun[l].ip /\ new.pubsub = begun[l].pubsub
          /\ new.modem = begun[l].ip
      BY <1>5, <2>1 DEF LeafStates, Ips
    <2> HIDE DEF new
    <2>4. /\ tried \in States /\ tried[l] = new
          /\ \A k \in Leaves : k # l => tried[k] = begun[k]
      BY <1>4, <2>2, <2>3 DEF States
    <2> QED
      BY <2>1, <2>3, <2>4
  <1> HIDE DEF begun, able, tried, new
  <1>7. CASE l # Pubsub("lte")
    BY <1>1, <1>3, <1>4, <1>7 DEF Only
  <1>8. CASE l = Pubsub("lte")
    <2>1. Start(d, l) = tried
      BY <1>1, <1>8
    <2>2. Only(d, tried, l)
      BY <1>3, <1>4, <1>6 DEF Only
    <2>3. /\ tried[l].started /\ tried[l].service = d[l].service
          /\ d[l].setup \/ ~d[l].run => tried[l].setup
      BY <1>3, <1>4, <1>6
    <2>4. /\ d[l].ip # None \/ d[l].run => tried[l].ip = d[l].ip
          /\ d[l].pubsub # None \/ d[l].run => tried[l].pubsub = d[l].pubsub
      BY <1>3, <1>4, <1>6
    <2>5. tried[l].modem = tried[l].ip /\ (tried[l].run <=> tried[l].ip # None)
      BY <1>6
    <2> QED
      BY <1>8, <2>1, <2>2, <2>3, <2>4, <2>5
  <1> QED
    BY <1>7, <1>8

\* stop() of a leaf.
LEMMA StopIs ==
  ASSUME device \in Devices, NEW d \in States, NEW l \in Leaves
  PROVE  /\ Only(d, Stop(d, l), l)
         /\ Stop(d, l)[l].setup = d[l].setup /\ Stop(d, l)[l].modem = d[l].modem
         /\ l = Ip("wifi") => Stop(d, l) = d
         /\ l # Ip("wifi") => ~Stop(d, l)[l].run /\ ~Stop(d, l)[l].started
  <1> DEFINE off == [d EXCEPT ![l].run = FALSE, ![l].started = FALSE]
  <1>1. /\ off \in States /\ \A k \in Leaves : k # l => off[k] = d[k]
        /\ off[l].setup = d[l].setup /\ off[l].modem = d[l].modem
        /\ ~off[l].run /\ ~off[l].started
    BY DEF States, LeafStates
  <1>2. Stop(d, l) = IF l = Ip("wifi") THEN d ELSE off
    BY DEF Stop
  <1> HIDE DEF off
  <1> QED
    BY <1>1, <1>2 DEF Only

-----------------------------------------------------------------------------
(* Choosing a transport.                                                   *)

\* setComms of one leaf.
LEMMA OwnCommsIs ==
  ASSUME device \in Devices, NEW d \in States, NEW l \in Leaves,
         NEW ip \in Ips, NEW pubsub \in Pubsubs
  PROVE  LET e == OwnComms(d, l, ip, pubsub)
         IN  /\ Only(d, e, l)
             /\ e[l].run = d[l].run /\ e[l].setup = d[l].setup
             /\ e[l].started = d[l].started /\ e[l].service = d[l].service
             /\ e[l].modem = d[l].modem
             /\ e[l].ip = IF ip = None THEN d[l].ip ELSE ip
             /\ e[l].pubsub = IF pubsub = None THEN d[l].pubsub ELSE pubsub
  <1> DEFINE i == IF ip = None THEN d[l].ip ELSE ip
             p == IF pubsub = None THEN d[l].pubsub ELSE pubsub
             new == [d EXCEPT ![l].ip = i, ![l].pubsub = p]
  <1>1. d[l] \in LeafStates
    BY DEF States
  <1>2. i \in Ips /\ p \in Pubsubs
    BY <1>1 DEF LeafStates, Ips, Pubsubs
  <1>3. OwnComms(d, l, ip, pubsub) = new
    BY <1>1 DEF OwnComms, States, LeafStates
  <1> HIDE DEF i, p
  <1>4. /\ new \in States /\ \A k \in Leaves : k # l => new[k] = d[k]
        /\ new[l].run = d[l].run /\ new[l].setup = d[l].setup
        /\ new[l].started = d[l].started /\ new[l].service = d[l].service
        /\ new[l].modem = d[l].modem /\ new[l].ip = i /\ new[l].pubsub = p
    BY <1>2 DEF States, LeafStates, Ips, Pubsubs
  <1> HIDE DEF new
  <1> QED
    BY <1>3, <1>4 DEF Only, i, p

\* A leaf that is permitted to run.
Permitted(d, e, l) ==
  /\ Only(d, e, l)
  /\ e[l].run /\ e[l].started = d[l].started /\ e[l].service = d[l].service
  /\ d[l].setup \/ ~d[l].run => e[l].setup
  /\ d[l].ip # None => e[l].ip = d[l].ip
  /\ d[l].pubsub # None => e[l].pubsub = d[l].pubsub
  /\ e[l].modem = d[l].modem \/ (l = Pubsub("lte") /\ e[l].modem = e[l].ip)

\* It is set up, if it was not.
LEMMA PermitIs ==
  ASSUME device \in Devices, NEW d \in States, NEW l \in Leaves
  PROVE  Permitted(d, Permit(d, l), l)
  <1> DEFINE r == [d EXCEPT ![l].run = TRUE]
  <1>1. /\ r \in States /\ \A k \in Leaves : k # l => r[k] = d[k]
        /\ r[l].run /\ r[l].setup = d[l].setup /\ r[l].service = d[l].service
        /\ r[l].started = d[l].started /\ r[l].modem = d[l].modem
        /\ r[l].ip = d[l].ip /\ r[l].pubsub = d[l].pubsub
    BY DEF States, LeafStates
  <1>2. Permit(d, l) = IF d[l].run THEN d ELSE SetUp(r, l)
    BY TableLeaves DEF Permit
  <1> HIDE DEF r
  <1>3. CASE d[l].run
    BY <1>2, <1>3 DEF Only, Permitted
  <1>4. CASE ~d[l].run
    BY <1>1, <1>2, <1>4, SetUpIs DEF Only, Permitted
  <1> QED
    BY <1>3, <1>4

\* A leaf of the device, or nobody.
Here(l) == l = None \/ l \in Leaves

\* stacxSetComms: everyone is told, and the two take part; what they have set
\* up they have set up for the pair.
LEMMA SetCommsIs ==
  ASSUME device \in Devices, NEW d \in States,
         NEW ip \in Ips, Here(ip), NEW pubsub \in Pubsubs, Here(pubsub),
         NEW k \in Leaves
  PROVE  LET e == SetComms(d, ip, pubsub)
         IN  /\ e \in States
             /\ e[k].run <=> d[k].run \/ k \in {ip, pubsub}
             /\ e[k].started = d[k].started /\ e[k].service = d[k].service
             /\ d[k].setup \/ (~d[k].run /\ e[k].run) => e[k].setup
             /\ ip # None => e[k].ip = ip
             /\ pubsub # None => e[k].pubsub = pubsub
             /\ \/ e[k].modem = d[k].modem
                \/ k = Pubsub("lte") /\ k \in {ip, pubsub} /\ e[k].modem = e[k].ip
  <1> DEFINE told == [l \in DOMAIN d |-> OwnComms(d, l, ip, pubsub)[l]]
             one == Permit(told, ip)
             two == Permit(one, pubsub)
  <1>1. SetComms(d, ip, pubsub) = two
    BY DEF SetComms
  <1>2. /\ told \in States
        /\ \A l \in Leaves :
             /\ told[l].run = d[l].run /\ told[l].setup = d[l].setup
             /\ told[l].started = d[l].started /\ told[l].service = d[l].service
             /\ told[l].modem = d[l].modem
             /\ ip # None => told[l].ip = ip
             /\ pubsub # None => told[l].pubsub = pubsub
    <2>1. \A l \in Leaves : told[l] = OwnComms(d, l, ip, pubsub)[l]
      BY DEF States
    <2>2. \A l \in Leaves : OwnComms(d, l, ip, pubsub)[l] \in LeafStates
      BY OwnCommsIs DEF Only, States
    <2>3. told \in States
      BY <2>2 DEF States
    <2> HIDE DEF told
    <2> QED
      BY <2>1, <2>3, OwnCommsIs
  <1> HIDE DEF told
  <1>3. ip # None /\ pubsub # None => ip # pubsub
    BY Names DEF Ips, Pubsubs
  <1>4. IF ip = None THEN one = told ELSE Permitted(told, one, ip)
    <2>1. CASE ip = None
      BY <2>1 DEF Permit
    <2>2. CASE ip # None
      <3>1. ip \in Leaves
        BY <2>2 DEF Here
      <3> QED
        BY <1>2, <2>2, <3>1, PermitIs
    <2> QED
      BY <2>1, <2>2
  <1>5. one \in States
    <2> HIDE DEF one
    <2> QED
      BY <1>2, <1>4 DEF Permitted, Only
  <1>6. IF pubsub = None THEN two = one ELSE Permitted(one, two, pubsub)
    <2> HIDE DEF one
    <2>1. CASE pubsub = None
      BY <2>1 DEF Permit
    <2>2. CASE pubsub # None
      <3>1. pubsub \in Leaves
        BY <2>2 DEF Here
      <3> QED
        BY <1>5, <2>2, <3>1, PermitIs
    <2> QED
      BY <2>1, <2>2
  <1> HIDE DEF one, two
  <1>7. ip # None => ip \in Leaves
    BY DEF Here
  <1>8. pubsub # None => pubsub \in Leaves
    BY DEF Here
  <1>9. two \in States
    BY <1>5, <1>6 DEF Permitted, Only
  <1>10. CASE k \notin {ip, pubsub}
    <2>1. one[k] = told[k] /\ two[k] = one[k]
      BY <1>4, <1>6, <1>10 DEF Permitted, Only
    <2>2. told[k].run \in BOOLEAN /\ d[k].run \in BOOLEAN
      BY <1>2 DEF States, LeafStates
    <2> QED
      BY <1>1, <1>2, <1>9, <1>10, <2>1, <2>2
  <1>11. CASE k = ip
    <2>1. k # None /\ k # pubsub
      BY <1>3, <1>11, TableLeaves
    <2>2. Permitted(told, one, k) /\ two[k] = one[k]
      BY <1>4, <1>6, <1>11, <2>1 DEF Permitted, Only
    <2> QED
      BY <1>1, <1>2, <1>9, <1>11, <2>1, <2>2 DEF Permitted
  <1>12. CASE k = pubsub
    <2>1. k # None /\ k # ip
      BY <1>3, <1>12, TableLeaves
    <2>2. one[k] = told[k] /\ Permitted(one, two, k)
      BY <1>4, <1>6, <1>12, <2>1 DEF Permitted, Only
    <2> QED
      BY <1>1, <1>2, <1>9, <1>12, <2>1, <2>2 DEF Permitted
  <1> QED
    BY <1>10, <1>11, <1>12

\* A leaf that stacxSetServiceComms finds idle serves the pair.
Serves(d, e, l, ip, pubsub) ==
  /\ Only(d, e, l)
  /\ e[l].run /\ e[l].started = d[l].started
  /\ d[l].setup \/ ~d[l].run => e[l].setup
  /\ ~d[l].run => e[l].service /\ e[l].ip = ip /\ e[l].pubsub = pubsub

\* Its two halves, which differ in when the leaf is told of the pair.
LEMMA ServesIs ==
  ASSUME device \in Devices, NEW d \in States, NEW l \in Leaves, ~d[l].run,
         NEW ip \in Ips \ {None}, NEW pubsub \in Pubsubs \ {None}
  PROVE  LET s == [d EXCEPT ![l].service = TRUE]
         IN  /\ Serves(d, OwnComms(Permit(s, l), l, ip, pubsub), l, ip, pubsub)
             /\ Serves(d, Permit(OwnComms(s, l, ip, pubsub), l), l, ip, pubsub)
  <1> DEFINE s == [d EXCEPT ![l].service = TRUE]
             a == Permit(s, l)
             b == OwnComms(a, l, ip, pubsub)
             f == OwnComms(s, l, ip, pubsub)
             g == Permit(f, l)
  <1>1. Only(d, s, l) /\ s[l].service /\ ~s[l].run /\ s[l].started = d[l].started
    BY DEF Only, States, LeafStates
  <1> HIDE DEF s
  <1>2. Permitted(s, a, l)
    BY <1>1, PermitIs DEF Only
  <1>3. a \in States
    BY <1>2 DEF Permitted, Only
  <1> HIDE DEF a
  <1>4. /\ Only(a, b, l) /\ b[l].run = a[l].run /\ b[l].setup = a[l].setup
        /\ b[l].started = a[l].started /\ b[l].service = a[l].service
        /\ b[l].ip = ip /\ b[l].pubsub = pubsub
    BY <1>3, OwnCommsIs
  <1> HIDE DEF b
  <1>5. Serves(d, b, l, ip, pubsub)
    BY <1>1, <1>2, <1>4 DEF Serves, Permitted, Only
  <1>6. /\ Only(s, f, l) /\ f[l].run = s[l].run /\ f[l].started = s[l].started
        /\ f[l].service = s[l].service /\ f[l].ip = ip /\ f[l].pubsub = pubsub
    <2>1. s \in States
      BY <1>1 DEF Only
    <2> HIDE DEF f
    <2>2. f = OwnComms(s, l, ip, pubsub)
      BY DEF f
    <2> QED
      BY <2>1, <2>2, OwnCommsIs
  <1>7. f \in States
    BY <1>6 DEF Only
  <1> HIDE DEF f
  <1>8. Permitted(f, g, l)
    BY <1>7, PermitIs
  <1> HIDE DEF g
  <1>9. Serves(d, g, l, ip, pubsub)
    BY <1>1, <1>6, <1>8 DEF Serves, Permitted, Only
  <1> QED
    BY <1>5, <1>9 DEF b, a, g, f, s

\* stacxSetServiceComms.
LEMMA SetServiceCommsIs ==
  ASSUME device \in Devices, NEW d \in States,
         NEW ip \in Ips, ip \in Leaves, NEW pubsub \in Pubsubs, pubsub \in Leaves
  PROVE  LET e == SetServiceComms(d, ip, pubsub)
         IN  /\ e \in States
             /\ \A k \in Leaves : k \notin {ip, pubsub} => e[k] = d[k]
             /\ \A k \in {ip, pubsub} :
                  /\ e[k].run /\ e[k].started = d[k].started
                  /\ d[k].setup \/ ~d[k].run => e[k].setup
                  /\ ~d[k].run => e[k].service /\ e[k].ip = ip /\ e[k].pubsub = pubsub
  <1> DEFINE s == [d EXCEPT ![ip].service = TRUE]
             up == IF d[ip].run THEN d ELSE OwnComms(Permit(s, ip), ip, ip, pubsub)
             v == [up EXCEPT ![pubsub].service = TRUE]
             two == IF up[pubsub].run THEN up
                    ELSE Permit(OwnComms(v, pubsub, ip, pubsub), pubsub)
  <1>1. SetServiceComms(d, ip, pubsub) = two
    BY DEF SetServiceComms
  <1>2. ip # None /\ pubsub # None /\ ip # pubsub
    BY TableLeaves, Names DEF Ips, Pubsubs
  <1>3. IF d[ip].run THEN up = d ELSE Serves(d, up, ip, ip, pubsub)
    <2>1. CASE d[ip].run
      BY <2>1
    <2>2. CASE ~d[ip].run
      BY <1>2, <2>2, ServesIs
    <2> QED
      BY <2>1, <2>2
  <1> HIDE DEF up
  <1>4. up \in States /\ up[pubsub] = d[pubsub]
    BY <1>2, <1>3 DEF Serves, Only
  <1>5. IF up[pubsub].run THEN two = up ELSE Serves(up, two, pubsub, ip, pubsub)
    <2>1. CASE up[pubsub].run
      BY <2>1
    <2>2. CASE ~up[pubsub].run
      BY <1>2, <1>4, <2>2, ServesIs
    <2> QED
      BY <2>1, <2>2
  <1> HIDE DEF two
  <1>6. two \in States /\ \A k \in Leaves : k \notin {ip, pubsub} => two[k] = d[k]
    BY <1>2, <1>3, <1>4, <1>5 DEF Serves, Only
  <1>7. /\ two[ip].run /\ two[ip].started = d[ip].started
        /\ d[ip].setup \/ ~d[ip].run => two[ip].setup
        /\ ~d[ip].run => two[ip].service /\ two[ip].ip = ip /\ two[ip].pubsub = pubsub
    <2>1. two[ip] = up[ip]
      BY <1>2, <1>5 DEF Serves, Only
    <2> QED
      BY <1>3, <2>1 DEF Serves
  <1>8. /\ two[pubsub].run /\ two[pubsub].started = d[pubsub].started
        /\ d[pubsub].setup \/ ~d[pubsub].run => two[pubsub].setup
        /\ ~d[pubsub].run =>
             two[pubsub].service /\ two[pubsub].ip = ip /\ two[pubsub].pubsub = pubsub
    BY <1>4, <1>5 DEF Serves
  <1> QED
    BY <1>1, <1>6, <1>7, <1>8

\* Both leaves of a transport are there; and it is chosen.
Whole(t) == Has(Ip(t)) /\ Has(Pubsub(t))
Chose(d, t) == SetComms(d, Ip(t), Pubsub(t))

\* The app chooses when no IP leaf can run yet: LTE, with WiFi for service only,
\* or WiFi, or neither.
LEMMA ChosenIs ==
  ASSUME device \in Devices, NEW d \in States, Has(Ip("lte")) => ~d[Ip("lte")].run,
         NEW u \in [Switches -> BOOLEAN]
  PROVE  LET lte  == u["lte"] /\ Whole("lte")
             wifi == u["wifi"] /\ Whole("wifi")
             e    == Chosen(d, u)
         IN  /\ lte /\ wifi =>
                  e = SetServiceComms(Chose(d, "lte"), Ip("wifi"), Pubsub("wifi"))
             /\ lte /\ ~wifi => e = Chose(d, "lte")
             /\ ~lte /\ wifi => e = Chose(d, "wifi")
             /\ ~lte /\ ~wifi /\ Whole("null") => e = Chose(d, "null")
             /\ ~lte /\ ~wifi /\ ~Whole("null") => e = d
  <1> DEFINE lte == u["lte"] /\ Whole("lte")
             d1 == IF lte THEN Chose(d, "lte") ELSE d
             beside == u["wifi"] /\ Has(Ip("wifi")) /\ u["lte"] /\ Has(Ip("lte"))
                         /\ d1[Ip("lte")].run
             wifi == u["wifi"] /\ Whole("wifi") /\ ~beside
             d2 == CASE beside /\ Has(Pubsub("wifi")) ->
                          SetServiceComms(d1, Ip("wifi"), Pubsub("wifi"))
                     [] wifi -> Chose(d1, "wifi")
                     [] OTHER -> d1
  <1>1. Chosen(d, u) = IF ~lte /\ ~wifi /\ Whole("null") THEN Chose(d2, "null") ELSE d2
    BY DEF Chosen, Whole, Chose
  <1>2. CASE lte
    <2>1. Ip("lte") \in Leaves /\ Pubsub("lte") \in Leaves
      BY <1>2 DEF Whole, Has, Leaves
    <2>2. Ip("lte") \in Ips /\ Pubsub("lte") \in Pubsubs
      BY Names DEF Ips, Pubsubs
    <2>3. d1[Ip("lte")].run
      BY <1>2, <2>1, <2>2, SetCommsIs DEF Here, Chose
    <2> HIDE DEF d1
    <2>4. d2 = IF u["wifi"] /\ Whole("wifi")
               THEN SetServiceComms(d1, Ip("wifi"), Pubsub("wifi")) ELSE d1
      BY <1>2, <2>3 DEF Whole
    <2> HIDE DEF d2
    <2> QED
      BY <1>1, <1>2, <2>4 DEF d1
  <1>3. CASE ~lte
    <2>1. ~beside
      BY <1>3
    <2>2. d2 = IF u["wifi"] /\ Whole("wifi") THEN Chose(d, "wifi") ELSE d
      BY <1>3, <2>1
    <2>3. wifi <=> u["wifi"] /\ Whole("wifi")
      BY <2>1
    <2> HIDE DEF d2, wifi, beside
    <2> QED
      BY <1>1, <1>3, <2>2, <2>3
  <1> QED
    BY <1>2, <1>3

-----------------------------------------------------------------------------
(* Boot.                                                                   *)

\* Saved values are on or off.
SettingsOK ==
  /\ use \in [Switches -> BOOLEAN] /\ asked \in [Switches -> BOOLEAN]
  /\ saved \in [Switches -> {"unset", "on", "off"}]
  /\ temporary \in BOOLEAN

\* A switch as it is on flash is on or off.
LEMMA SavedType ==
  ASSUME SettingsOK, NEW t \in Switches
  PROVE  Saved(t) \in BOOLEAN
  BY CommsAssumption DEF SettingsOK, Saved

\* What runs was set up.
Ready(d) == \A l \in Leaves : d[l].run \/ d[l].started => d[l].setup

\* The leaves after the setup() of those the table and the preferences allow to
\* run, and what a boot makes of them.
AllSetUp(d) ==
  /\ d \in States /\ Ready(d)
  /\ \A l \in Leaves : ~d[l].started /\ ~d[l].service
  /\ \A l \in Leaves : d[l].run <=> l = App \/ Allowed(l)
  /\ \A l \in Leaves : ~d[l].run => d[l].modem = None
  /\ d[App].ip = None => \A l \in Leaves : l[1] = "ip" => ~d[l].run
  /\ (\A l \in Leaves \ {App} : ~Allowed(l)) => d[App].ip = None

AllStarted(d, e) ==
  /\ e \in States
  /\ \A l \in Leaves : e[l] = IF d[l].run THEN Start(d, l)[l] ELSE d[l]

Switched == [t \in Switches |-> Saved(t)]

\* A boot sets up, lets the app choose if it found nobody, and starts.
LEMMA BootedIs ==
  ASSUME device \in Devices
  PROVE  \E d : /\ AllSetUp(d)
                /\ LET e == IF d[App].ip # None THEN d ELSE Chosen(d, Switched)
                   IN  e \in States => AllStarted(e, Booted)
  <1> DEFINE blank == [run |-> FALSE, setup |-> FALSE, started |-> FALSE,
                       service |-> FALSE, ip |-> None, pubsub |-> None, modem |-> None]
             may(l) == l = App \/ Allowed(l)
             d0 == [l \in Leaves |-> [blank EXCEPT !.run = may(l)]]
             d1 == [l \in DOMAIN d0 |-> IF d0[l].run THEN SetUp(d0, l)[l] ELSE d0[l]]
             e == IF d1[App].ip # None THEN d1 ELSE Chosen(d1, Switched)
             b == [l \in DOMAIN e |-> IF e[l].run THEN Start(e, l)[l] ELSE e[l]]
  <1>1. Booted = b
    BY Zenon DEF Booted, SetUpAll, StartAll, Switched, Leaves
  <1>2. \A l \in Leaves : may(l) \in BOOLEAN
    BY Zenon DEF Allowed
  <1>3. /\ d0 \in States
        /\ \A l \in Leaves :
             /\ d0[l].run = may(l) /\ ~d0[l].started /\ ~d0[l].service
             /\ d0[l].ip = None /\ d0[l].modem = None
    <2> HIDE DEF may
    <2> QED
      BY <1>2 DEF States, LeafStates
  <1> HIDE DEF d0
  <1>4. \A l \in Leaves : d1[l] = IF d0[l].run THEN SetUp(d0, l)[l] ELSE d0[l]
    BY <1>3 DEF States
  <1>5. d1 \in States
    <2>1. ASSUME NEW l \in Leaves PROVE SetUp(d0, l)[l] \in LeafStates
      BY <1>3, SetUpIs DEF States
    <2>2. \A l \in Leaves : d0[l] \in LeafStates
      BY <1>3 DEF States
    <2> QED
      BY <1>3, <2>1, <2>2 DEF States
  <1> HIDE DEF d1
  <1>6. \A l \in Leaves :
          /\ d1[l].run = d0[l].run /\ ~d1[l].started /\ ~d1[l].service
          /\ d1[l].run => d1[l].setup
          /\ ~d1[l].run => d1[l].modem = None
    BY <1>3, <1>4, SetUpIs
  <1>7. App \in Leaves /\ d1[App].ip = FindType(d0, "ip")
    <2>1. App \in Leaves
      BY TableLeaves
    <2>2. d0[App].run
      BY <1>3, <2>1
    <2>3. d1[App] = SetUp(d0, App)[App]
      BY <1>4, <2>1, <2>2
    <2>4. SetUp(d0, App)[App].ip = FindType(d0, "ip")
      BY <1>3, <2>1, SetUpIs
    <2> QED
      BY <2>1, <2>3, <2>4
  <1>8. ASSUME d1[App].ip = None, NEW l \in Leaves, l[1] = "ip" PROVE ~d1[l].run
    <2>1. l # App
      BY <1>8 DEF App
    <2>2. FindType(d0, "ip") = None
      BY <1>7, <1>8
    <2>3. ~d0[l].run
      BY <1>3, <1>8, <2>1, <2>2, FindTypeNone
    <2> QED
      BY <1>6, <2>3
  <1>9. (\A l \in Leaves \ {App} : ~Allowed(l)) => d1[App].ip = None
    <2>1. FindType(d0, "ip") = None
            \/ (Has(FindType(d0, "ip")) /\ d0[FindType(d0, "ip")].run)
      BY <1>3, FindTypeIs
    <2>2. \A l : Has(l) => l \in Leaves \ {App}
      BY TableLeaves DEF Has, Leaves
    <2> QED
      BY <1>3, <1>7, <2>1, <2>2
  <1>10. AllSetUp(d1)
    BY <1>3, <1>5, <1>6, <1>8, <1>9 DEF AllSetUp, Ready
  <1>11. ASSUME e \in States PROVE AllStarted(e, Booted)
    <2> HIDE DEF e
    <2>1. \A l \in Leaves : b[l] = IF e[l].run THEN Start(e, l)[l] ELSE e[l]
      BY <1>11 DEF States
    <2>2. ASSUME NEW l \in Leaves PROVE Start(e, l)[l] \in LeafStates /\ e[l] \in LeafStates
      BY <1>11, StartIs DEF Only, States
    <2>3. b \in States
      BY <1>11, <2>2 DEF States
    <2> QED
      BY <1>1, <2>1, <2>3 DEF AllStarted
  <1> QED
    BY <1>10, <1>11

\* One transport is chosen.
LEMMA ChoseIs ==
  ASSUME device \in Devices, NEW d, AllSetUp(d), NEW t \in Transports, Whole(t)
  PROVE  LET e == Chose(d, t)
         IN  /\ e \in States /\ Ready(e)
             /\ \A l \in Leaves :
                  /\ e[l].run <=> d[l].run \/ l \in Pair(t)
                  /\ ~e[l].started /\ ~e[l].service
                  /\ e[l].ip = Ip(t) /\ e[l].pubsub = Pubsub(t)
                  /\ \/ e[l].modem = d[l].modem
                     \/ l = Pubsub("lte") /\ t = "lte" /\ e[l].modem = Ip(t)
  <1> DEFINE e == Chose(d, t)
  <1>1. /\ Ip(t) \in Ips /\ Ip(t) # None /\ Here(Ip(t))
        /\ Pubsub(t) \in Pubsubs /\ Pubsub(t) # None /\ Here(Pubsub(t))
    BY Names DEF Ips, Pubsubs, Here, Whole, Has, Leaves
  <1>2. d \in States /\ Ready(d) /\ \A l \in Leaves : ~d[l].started /\ ~d[l].service
    BY DEF AllSetUp
  <1>3. ASSUME NEW l \in Leaves
        PROVE  /\ e \in States
               /\ e[l].run <=> d[l].run \/ l \in Pair(t)
               /\ ~e[l].started /\ ~e[l].service
               /\ d[l].setup \/ (~d[l].run /\ e[l].run) => e[l].setup
               /\ e[l].ip = Ip(t) /\ e[l].pubsub = Pubsub(t)
               /\ \/ e[l].modem = d[l].modem
                  \/ l = Pubsub("lte") /\ l \in Pair(t) /\ e[l].modem = Ip(t)
    BY <1>1, <1>2, SetCommsIs DEF Chose, Pair
  <1>4. \A l \in Leaves : l = Pubsub("lte") /\ l \in Pair(t) => t = "lte"
    BY Names DEF Pair
  <1>5. e \in States
    BY <1>3, TableLeaves
  <1> HIDE DEF e
  <1>6. Ready(e)
    BY <1>2, <1>3 DEF Ready
  <1>7. \A l \in Leaves :
          /\ e[l].run <=> d[l].run \/ l \in Pair(t)
          /\ ~e[l].started /\ ~e[l].service
          /\ e[l].ip = Ip(t) /\ e[l].pubsub = Pubsub(t)
          /\ \/ e[l].modem = d[l].modem
             \/ l = Pubsub("lte") /\ t = "lte" /\ e[l].modem = Ip(t)
    BY <1>3, <1>4
  <1> QED
    BY <1>5, <1>6, <1>7 DEF e

\* LTE is chosen, and WiFi for service.
Both(d) == SetServiceComms(Chose(d, "lte"), Ip("wifi"), Pubsub("wifi"))

\* The leaves of WiFi serve, the others are as LTE's choice left them.
LEMMA BothIs ==
  ASSUME device \in Devices, NEW d, AllSetUp(d), Whole("lte"), Whole("wifi")
  PROVE  /\ Both(d) \in States /\ Ready(Both(d))
         /\ \A l \in Leaves : ~Both(d)[l].started
         /\ \A l \in Leaves \ Pair("wifi") : Both(d)[l] = Chose(d, "lte")[l]
         /\ \A l \in Pair("wifi") : Both(d)[l].run
         /\ \A l \in Pair("wifi") :
              ~d[l].run => /\ Both(d)[l].service /\ Both(d)[l].ip = Ip("wifi")
                           /\ Both(d)[l].pubsub = Pubsub("wifi")
  <1> DEFINE c == Chose(d, "lte")
             ip == Ip("wifi")
             pubsub == Pubsub("wifi")
             e == SetServiceComms(c, ip, pubsub)
  <1>1. /\ c \in States /\ Ready(c)
        /\ \A l \in Leaves : ~c[l].started /\ (c[l].run <=> d[l].run \/ l \in Pair("lte"))
    BY ChoseIs, Names
  <1>2. ip \in Ips /\ ip \in Leaves /\ pubsub \in Pubsubs /\ pubsub \in Leaves
    BY Names DEF Ips, Pubsubs, Whole, Has, Leaves
  <1>3. Pair("wifi") = {ip, pubsub} /\ ip \notin Pair("lte") /\ pubsub \notin Pair("lte")
    BY Names DEF Pair
  <1>4. Both(d) = e
    BY DEF Both
  <1> HIDE DEF c, ip, pubsub
  <1>5. /\ e \in States
        /\ \A k \in Leaves : k \notin {ip, pubsub} => e[k] = c[k]
        /\ \A k \in {ip, pubsub} :
             /\ e[k].run /\ e[k].started = c[k].started
             /\ c[k].setup \/ ~c[k].run => e[k].setup
             /\ ~c[k].run => e[k].service /\ e[k].ip = ip /\ e[k].pubsub = pubsub
    BY <1>1, <1>2, SetServiceCommsIs
  <1> HIDE DEF e
  <1>6. Ready(e)
    BY <1>1, <1>2, <1>5 DEF Ready
  <1>7. \A l \in Leaves : ~e[l].started
    BY <1>1, <1>2, <1>5
  <1>8. \A l \in {ip, pubsub} : ~d[l].run => ~c[l].run
    BY <1>1, <1>2, <1>3
  <1> QED
    BY <1>3, <1>4, <1>5, <1>6, <1>7, <1>8 DEF c, ip, pubsub

\* The modem of ltemqtt is the modem, and will be when it is started.
ModemGood(d) ==
  /\ d[Pubsub("lte")].modem \in {None, Ip("lte")}
  /\ d[Pubsub("lte")].run => d[Pubsub("lte")].ip = Ip("lte")

\* What the app's choice may make of the leaves.
LEMMA ChoiceIs ==
  ASSUME device \in Devices, SettingsOK, NEW d, AllSetUp(d),
         NEW e, e = IF d[App].ip # None THEN d ELSE Chosen(d, Switched)
  PROVE  /\ e \in States /\ Ready(e) /\ \A l \in Leaves : ~e[l].started
         /\ \A l \in Leaves : l \in Pair("lte") /\ ~Saved("lte") /\ ~d[l].run => ~e[l].run
         /\ Pair("lte") \subseteq Leaves /\ ~d[Pubsub("lte")].run => ModemGood(e)
  <1> DEFINE lte == Saved("lte") /\ Whole("lte")
             wifi == Saved("wifi") /\ Whole("wifi")
             P == Pubsub("lte")
             Fine(x) == /\ x \in States /\ Ready(x) /\ \A l \in Leaves : ~x[l].started
                        /\ \A l \in Leaves :
                             l \in Pair("lte") /\ ~Saved("lte") /\ ~d[l].run => ~x[l].run
                        /\ Pair("lte") \subseteq Leaves /\ ~d[P].run => ModemGood(x)
  <1>1. /\ d \in States /\ Ready(d) /\ \A l \in Leaves : ~d[l].started
        /\ \A l \in Leaves : ~d[l].run => d[l].modem = None
        /\ d[App].ip = None => \A l \in Leaves : l[1] = "ip" => ~d[l].run
    BY DEF AllSetUp
  <1>2. P \in Pair("lte") /\ \A t \in Transports \ {"lte"} : Pair(t) \cap Pair("lte") = {}
    BY Names DEF Pair
  <1>3. Fine(d)
    BY <1>1, <1>2 DEF ModemGood
  <1>4. ASSUME NEW t \in Transports, Whole(t), t = "lte" => Saved("lte")
        PROVE  Fine(Chose(d, t))
    <2> DEFINE c == Chose(d, t)
    <2>1. /\ c \in States /\ Ready(c)
          /\ \A l \in Leaves :
               /\ c[l].run <=> d[l].run \/ l \in Pair(t)
               /\ ~c[l].started
               /\ c[l].ip = Ip(t)
               /\ c[l].modem = d[l].modem
                    \/ (l = Pubsub("lte") /\ t = "lte" /\ c[l].modem = Ip(t))
      BY <1>4, ChoseIs
    <2> HIDE DEF c
    <2>2. ASSUME NEW l \in Leaves, l \in Pair("lte"), ~Saved("lte"), ~d[l].run
          PROVE  ~c[l].run
      BY <1>2, <1>4, <2>1, <2>2
    <2>3. ASSUME Pair("lte") \subseteq Leaves, ~d[P].run PROVE ModemGood(c)
      <3>1. P \in Leaves /\ d[P].modem = None
        BY <1>1, <1>2, <2>3
      <3>2. c[P].modem \in {None, Ip("lte")}
        BY <2>1, <3>1
      <3>3. c[P].run => t = "lte"
        BY <1>2, <2>1, <2>3, <3>1
      <3> QED
        BY <2>1, <3>1, <3>2, <3>3 DEF ModemGood
    <2>4. Fine(c)
      BY <2>1, <2>2, <2>3
    <2> QED
      BY <2>4 DEF c
  <1>5. ASSUME Saved("lte"), Whole("lte"), Whole("wifi") PROVE Fine(Both(d))
    <2>1. /\ Both(d) \in States /\ Ready(Both(d)) /\ \A l \in Leaves : ~Both(d)[l].started
          /\ \A l \in Leaves \ Pair("wifi") : Both(d)[l] = Chose(d, "lte")[l]
      BY <1>5, BothIs
    <2>2. Fine(Chose(d, "lte"))
      BY <1>4, <1>5, Names
    <2>3. P \notin Pair("wifi")
      BY Names DEF Pair
    <2>4. Pair("lte") \subseteq Leaves => P \in Leaves
      BY <1>2
    <2> QED
      BY <1>5, <2>1, <2>2, <2>3, <2>4 DEF ModemGood
  <1> HIDE DEF Fine, P
  <1>6. CASE d[App].ip # None
    BY <1>3, <1>6 DEF Fine, P
  <1>7. CASE d[App].ip = None
    <2>1. Has(Ip("lte")) => ~d[Ip("lte")].run
      <3>1. Ip("lte")[1] = "ip"
        BY DEF Ip
      <3> QED
        BY <1>1, <1>7, <3>1 DEF Has, Leaves
    <2>2. Switched \in [Switches -> BOOLEAN]
      BY SavedType DEF Switched
    <2>3. Switched["lte"] = Saved("lte") /\ Switched["wifi"] = Saved("wifi")
      BY DEF Switched, Switches
    <2>4. e = Chosen(d, Switched)
      BY <1>7
    <2>5. /\ lte /\ wifi => e = Both(d)
          /\ lte /\ ~wifi => e = Chose(d, "lte")
          /\ ~lte /\ wifi => e = Chose(d, "wifi")
          /\ ~lte /\ ~wifi /\ Whole("null") => e = Chose(d, "null")
          /\ ~lte /\ ~wifi /\ ~Whole("null") => e = d
      BY <1>1, <2>1, <2>2, <2>3, <2>4, ChosenIs DEF Both
    <2>6. Fine(e)
      <3>1. CASE lte /\ wifi
        BY <1>5, <2>5, <3>1
      <3>2. CASE lte /\ ~wifi
        BY <1>4, <2>5, <3>2, Names
      <3>3. CASE ~lte /\ wifi
        BY <1>4, <2>5, <3>3, Names
      <3>4. CASE ~lte /\ ~wifi /\ Whole("null")
        BY <1>4, <2>5, <3>4, Names
      <3>5. CASE ~lte /\ ~wifi /\ ~Whole("null")
        BY <1>3, <2>5, <3>5
      <3> HIDE DEF lte, wifi
      <3> QED
        BY <3>1, <3>2, <3>3, <3>4, <3>5
    <2> QED
      BY <2>6 DEF Fine, P
  <1> QED
    BY <1>6, <1>7

\* What a boot may make of the leaves.
LEMMA BootIs ==
  ASSUME device \in Devices, SettingsOK
  PROVE  /\ Booted \in States /\ Ready(Booted)
         /\ \A l \in Leaves :
              l \in Pair("lte") /\ ~Saved("lte") /\ ~Allowed(l) => ~Booted[l].started
         /\ Pair("lte") \subseteq Leaves /\ ~Allowed(Pubsub("lte")) =>
              Booted[Pubsub("lte")].modem \in {None, Ip("lte")}
  <1> DEFINE P == Pubsub("lte")
             Choice(d) == IF d[App].ip # None THEN d ELSE Chosen(d, Switched)
             b == Booted
  <1>1. PICK d : AllSetUp(d) /\ (Choice(d) \in States => AllStarted(Choice(d), b))
    BY BootedIs
  <1> DEFINE e == Choice(d)
  <1>2. /\ e \in States /\ Ready(e) /\ \A l \in Leaves : ~e[l].started
        /\ \A l \in Leaves : l \in Pair("lte") /\ ~Saved("lte") /\ ~d[l].run => ~e[l].run
        /\ Pair("lte") \subseteq Leaves /\ ~d[P].run => ModemGood(e)
    BY <1>1, ChoiceIs
  <1>3. AllStarted(e, b)
    BY <1>1, <1>2
  <1> HIDE DEF e, b
  <1>4. \A l \in Leaves \ {App} : d[l].run <=> Allowed(l)
    BY <1>1 DEF AllSetUp
  <1>5. \A l \in Leaves : l \in Pair("lte") => l # App
    BY Names DEF Pair
  <1>6. b \in States /\ \A l \in Leaves : b[l] = IF e[l].run THEN Start(e, l)[l] ELSE e[l]
    BY <1>3 DEF AllStarted
  <1>7. Ready(b)
    <2>1. ASSUME NEW l \in Leaves, e[l].run PROVE Start(e, l)[l].setup
      <3>1. e[l].setup
        BY <1>2, <2>1 DEF Ready
      <3> QED
        BY <1>2, <3>1, StartIs
    <2> QED
      BY <1>2, <1>6, <2>1 DEF Ready
  <1>8. ASSUME NEW l \in Leaves, l \in Pair("lte"), ~Saved("lte"), ~Allowed(l)
        PROVE  ~b[l].started
    BY <1>2, <1>4, <1>5, <1>6, <1>8
  <1>9. ASSUME Pair("lte") \subseteq Leaves, ~Allowed(P) PROVE b[P].modem \in {None, Ip("lte")}
    <2>1. P \in Leaves /\ P \in Pair("lte")
      BY <1>9 DEF Pair
    <2>2. ModemGood(e)
      BY <1>2, <1>4, <1>5, <1>9, <2>1
    <2>3. CASE e[P].run
      <3>1. Start(e, P)[P].modem = Start(e, P)[P].ip
        BY <1>2, <2>1, StartIs
      <3>2. Start(e, P)[P].ip = e[P].ip
        BY <1>2, <2>1, <2>3, StartIs
      <3> QED
        BY <1>6, <2>1, <2>2, <2>3, <3>1, <3>2 DEF ModemGood
    <2>4. CASE ~e[P].run
      BY <1>6, <2>1, <2>2, <2>4 DEF ModemGood
    <2> QED
      BY <2>3, <2>4
  <1> QED
    BY <1>6, <1>7, <1>8, <1>9 DEF b

\* The roles of the leaves, as RolesAsSaved has them.
Main == IF Saved("lte") /\ Whole("lte") THEN Pair("lte")
        ELSE IF Saved("wifi") /\ Whole("wifi") THEN Pair("wifi")
        ELSE IF Whole("null") THEN Pair("null") ELSE {}
Service == IF Saved("lte") /\ Whole("lte") /\ Saved("wifi") /\ Whole("wifi")
           THEN Pair("wifi") ELSE {}
Uses(r, pair) == pair # {} => {r.ip, r.pubsub} = pair
Roles(d) ==
  /\ \A l \in Main \cup Service : d[l].run /\ d[l].setup /\ d[l].started
  /\ \A l \in Leaves \ (Main \cup Service \cup {App}) : ~d[l].run /\ ~d[l].started
  /\ {l \in Leaves : d[l].service} = Service
  /\ Uses(d[App], Main) /\ \A l \in Main : Uses(d[l], Main)
  /\ \A l \in Service : Uses(d[l], Service)

\* The same before the leaves are started.
Cast(d) ==
  /\ d \in States /\ Ready(d)
  /\ \A l \in Leaves : ~d[l].started /\ (d[l].run <=> l \in Main \cup Service \cup {App})
  /\ \A l \in Leaves : d[l].service <=> l \in Service
  /\ Main # {} => Main = {d[App].ip, d[App].pubsub}
  /\ \A l \in Main : d[l].ip # None /\ d[l].pubsub # None /\ Main = {d[l].ip, d[l].pubsub}
  /\ \A l \in Service :
       d[l].ip # None /\ d[l].pubsub # None /\ Service = {d[l].ip, d[l].pubsub}

\* When nobody but the app may run, the choice casts the leaves.
LEMMA CastIs ==
  ASSUME device \in Devices, SettingsOK, \A l \in Leaves \ {App} : ~Allowed(l),
         NEW d, AllSetUp(d)
  PROVE  Cast(Chosen(d, Switched))
  <1> DEFINE lte == Saved("lte") /\ Whole("lte")
             wifi == Saved("wifi") /\ Whole("wifi")
             e == Chosen(d, Switched)
  <1>1. /\ d \in States /\ Ready(d) /\ \A l \in Leaves : ~d[l].started /\ ~d[l].service
        /\ \A l \in Leaves : d[l].run <=> l = App
    BY DEF AllSetUp
  <1>2. App \in Leaves /\ \A t \in Transports : App \notin Pair(t)
    BY Names, TableLeaves DEF Pair
  <1>3. \A t, v \in Transports : t # v => Pair(t) \cap Pair(v) = {}
    BY Names DEF Pair
  <1>4. \A t \in Transports :
          /\ Ip(t) # None /\ Pubsub(t) # None /\ Pair(t) = {Ip(t), Pubsub(t)}
          /\ Whole(t) => Pair(t) \subseteq Leaves
    BY Names DEF Pair, Whole, Has, Leaves
  <1>5. ASSUME NEW t \in Transports, Whole(t), Main = Pair(t), Service = {}
        PROVE  Cast(Chose(d, t))
    <2> DEFINE c == Chose(d, t)
    <2>1. /\ c \in States /\ Ready(c)
          /\ \A l \in Leaves :
               /\ c[l].run <=> d[l].run \/ l \in Pair(t)
               /\ ~c[l].started /\ ~c[l].service
               /\ c[l].ip = Ip(t) /\ c[l].pubsub = Pubsub(t)
      BY <1>5, ChoseIs
    <2> HIDE DEF c
    <2>2. Cast(c)
      BY <1>1, <1>2, <1>4, <1>5, <2>1 DEF Cast
    <2> QED
      BY <2>2 DEF c
  <1>6. ASSUME lte, wifi PROVE Cast(Both(d))
    <2> DEFINE c == Chose(d, "lte")
               b == Both(d)
    <2>1. /\ c \in States
          /\ \A l \in Leaves :
               /\ c[l].run <=> d[l].run \/ l \in Pair("lte")
               /\ ~c[l].started /\ ~c[l].service
               /\ c[l].ip = Ip("lte") /\ c[l].pubsub = Pubsub("lte")
      BY <1>6, ChoseIs, Names
    <2>2. /\ b \in States /\ Ready(b) /\ \A l \in Leaves : ~b[l].started
          /\ \A l \in Leaves \ Pair("wifi") : b[l] = c[l]
          /\ \A l \in Pair("wifi") : b[l].run
          /\ \A l \in Pair("wifi") :
               ~d[l].run => /\ b[l].service /\ b[l].ip = Ip("wifi")
                            /\ b[l].pubsub = Pubsub("wifi")
      BY <1>6, BothIs
    <2> HIDE DEF b, c
    <2>3. Main = Pair("lte") /\ Service = Pair("wifi")
      BY <1>6 DEF Main, Service
    <2>4. /\ Pair("lte") \subseteq Leaves \ Pair("wifi") /\ Pair("wifi") \subseteq Leaves
          /\ App \in Leaves \ Pair("wifi")
          /\ \A l \in Pair("wifi") : ~d[l].run
      BY <1>1, <1>2, <1>3, <1>4, <1>6, Names
    <2>5. \A l \in Leaves :
            /\ ~b[l].started
            /\ b[l].run <=> l \in Main \cup Service \cup {App}
            /\ b[l].service <=> l \in Service
      <3>1. ASSUME NEW l \in Leaves, l \in Pair("wifi") PROVE b[l].run /\ b[l].service
        BY <2>2, <2>4, <3>1
      <3>2. ASSUME NEW l \in Leaves, l \notin Pair("wifi")
            PROVE  ~b[l].service /\ (b[l].run <=> l = App \/ l \in Pair("lte"))
        BY <1>1, <2>1, <2>2, <3>2
      <3> QED
        BY <2>2, <2>3, <3>1, <3>2
    <2>6. \A l \in Main \cup {App} : b[l].ip = Ip("lte") /\ b[l].pubsub = Pubsub("lte")
      BY <2>1, <2>2, <2>3, <2>4
    <2>7. \A l \in Service : b[l].ip = Ip("wifi") /\ b[l].pubsub = Pubsub("wifi")
      BY <2>2, <2>3, <2>4
    <2>8. Cast(b)
      BY <1>4, <2>2, <2>3, <2>5, <2>6, <2>7, Names DEF Cast
    <2> QED
      BY <2>8 DEF b
  <1>7. ASSUME Main = {}, Service = {} PROVE Cast(d)
    BY <1>1, <1>7 DEF Cast
  <1>8. Has(Ip("lte")) => ~d[Ip("lte")].run
    BY <1>1, <1>2, Names DEF Has, Leaves
  <1>9. Switched \in [Switches -> BOOLEAN]
    BY SavedType DEF Switched
  <1>10. Switched["lte"] = Saved("lte") /\ Switched["wifi"] = Saved("wifi")
    BY DEF Switched, Switches
  <1>11. /\ lte /\ wifi => e = Both(d)
         /\ lte /\ ~wifi => e = Chose(d, "lte")
         /\ ~lte /\ wifi => e = Chose(d, "wifi")
         /\ ~lte /\ ~wifi /\ Whole("null") => e = Chose(d, "null")
         /\ ~lte /\ ~wifi /\ ~Whole("null") => e = d
    BY <1>1, <1>8, <1>9, <1>10, ChosenIs DEF Both
  <1>12. /\ lte /\ ~wifi => Main = Pair("lte") /\ Service = {}
         /\ ~lte /\ wifi => Main = Pair("wifi") /\ Service = {}
         /\ ~lte /\ ~wifi /\ Whole("null") => Main = Pair("null") /\ Service = {}
         /\ ~lte /\ ~wifi /\ ~Whole("null") => Main = {} /\ Service = {}
    BY DEF Main, Service
  <1>13. CASE lte /\ wifi
    BY <1>6, <1>11, <1>13
  <1>14. CASE lte /\ ~wifi
    BY <1>5, <1>11, <1>12, <1>14, Names
  <1>15. CASE ~lte /\ wifi
    BY <1>5, <1>11, <1>12, <1>15, Names
  <1>16. CASE ~lte /\ ~wifi /\ Whole("null")
    BY <1>5, <1>11, <1>12, <1>16, Names
  <1>17. CASE ~lte /\ ~wifi /\ ~Whole("null")
    BY <1>7, <1>11, <1>12, <1>17
  <1> HIDE DEF lte, wifi
  <1> QED
    BY <1>13, <1>14, <1>15, <1>16, <1>17

\* And the boot gives them their roles.
LEMMA RolesIs ==
  ASSUME device \in Devices, SettingsOK, \A l \in Leaves \ {App} : ~Allowed(l)
  PROVE  Roles(Booted)
  <1> DEFINE Choice(d) == IF d[App].ip # None THEN d ELSE Chosen(d, Switched)
             b == Booted
  <1>1. PICK d : AllSetUp(d) /\ (Choice(d) \in States => AllStarted(Choice(d), b))
    BY BootedIs
  <1> DEFINE e == Chosen(d, Switched)
  <1>2. d[App].ip = None
    BY <1>1 DEF AllSetUp
  <1>3. Cast(e)
    BY <1>1, CastIs
  <1>4. AllStarted(e, b)
    BY <1>1, <1>2, <1>3 DEF Cast
  <1> HIDE DEF e, b
  <1>5. Main \subseteq Leaves /\ Service \subseteq Leaves
    BY DEF Main, Service, Whole, Pair, Has, Leaves
  <1>6. App \in Leaves
    BY TableLeaves
  <1>7. ASSUME NEW l \in Leaves, e[l].run, l # App => e[l].ip # None
        PROVE  /\ b[l].started /\ b[l].setup /\ b[l].run
               /\ b[l].ip = e[l].ip /\ b[l].pubsub = e[l].pubsub
               /\ b[l].service = e[l].service
    <2>1. e[l].setup /\ e \in States
      BY <1>3, <1>7 DEF Cast, Ready
    <2>2. b[l] = Start(e, l)[l]
      BY <1>4, <1>7 DEF AllStarted
    <2>3. l = Pubsub("lte") => l # App
      BY Names
    <2> QED
      BY <1>7, <2>1, <2>2, <2>3, StartIs
  <1>8. ASSUME NEW l \in Leaves, ~e[l].run PROVE b[l] = e[l]
    BY <1>4, <1>8 DEF AllStarted
  <1>9. \A l \in Main \cup Service : e[l].run /\ e[l].ip # None
    BY <1>3, <1>5 DEF Cast
  <1>10. \A l \in Main \cup Service \cup {App} :
           /\ b[l].started /\ b[l].setup /\ b[l].run
           /\ b[l].ip = e[l].ip /\ b[l].pubsub = e[l].pubsub
           /\ b[l].service = e[l].service
    BY <1>3, <1>5, <1>6, <1>7, <1>9 DEF Cast
  <1>11. \A l \in Leaves \ (Main \cup Service \cup {App}) :
           b[l] = e[l] /\ ~e[l].run /\ ~e[l].started
    BY <1>3, <1>8 DEF Cast
  <1>12. \A l \in Leaves : b[l].service <=> l \in Service
    BY <1>3, <1>10, <1>11 DEF Cast
  <1>13. {l \in Leaves : b[l].service} = Service
    BY <1>5, <1>12
  <1>14. Uses(b[App], Main) /\ \A l \in Main : Uses(b[l], Main)
    BY <1>3, <1>10 DEF Cast, Uses
  <1>15. \A l \in Service : Uses(b[l], Service)
    BY <1>3, <1>10 DEF Cast, Uses
  <1>16. Roles(b)
    BY <1>10, <1>11, <1>13, <1>14, <1>15 DEF Roles
  <1> QED
    BY <1>16 DEF b

-----------------------------------------------------------------------------
(* Commands.                                                               *)

\* Setting up, starting or stopping a leaf, or telling it whom to use, leaves
\* everyone who runs set up.
LEMMA ReadyKept ==
  ASSUME device \in Devices, NEW d \in States, Ready(d), NEW l \in Leaves
  PROVE  /\ Ready(SetUp(d, l)) /\ Ready(Start(d, l)) /\ Ready(Stop(d, l))
         /\ \A ip \in Ips, pubsub \in Pubsubs : Ready(OwnComms(d, l, ip, pubsub))
  <1>1. d[l].run \/ d[l].started => d[l].setup
    BY DEF Ready
  <1>2. Ready(SetUp(d, l))
    BY SetUpIs DEF Ready
  <1>3. Ready(Start(d, l))
    BY <1>1, StartIs DEF Ready, Only
  <1>4. Ready(Stop(d, l))
    BY StopIs DEF Ready, Only
  <1>5. ASSUME NEW ip \in Ips, NEW pubsub \in Pubsubs
        PROVE  Ready(OwnComms(d, l, ip, pubsub))
    <2> DEFINE e == OwnComms(d, l, ip, pubsub)
    <2>1. /\ Only(d, e, l) /\ e[l].run = d[l].run /\ e[l].setup = d[l].setup
          /\ e[l].started = d[l].started
      BY OwnCommsIs
    <2> HIDE DEF e
    <2>2. Ready(e)
      BY <2>1 DEF Ready, Only
    <2> QED
      BY <2>2 DEF e
  <1> QED
    BY <1>2, <1>3, <1>4, <1>5

\* A leaf of the table that was started is stopped; WiFi's goes on.
LEMMA StopStartedIs ==
  ASSUME device \in Devices, NEW d \in States, Ready(d), NEW l
  PROVE  LET e == StopStarted(d, l)
         IN  /\ e \in States /\ Ready(e)
             /\ \A k \in Leaves :
                  /\ k # l => e[k] = d[k]
                  /\ e[k].modem = d[k].modem
                  /\ k = l /\ k \notin {App, Ip("wifi")} => ~e[k].started
  <1> DEFINE e == StopStarted(d, l)
  <1>1. CASE Has(l) /\ d[l].started
    <2>1. l \in Leaves /\ e = Stop(d, l)
      BY <1>1 DEF Has, Leaves, StopStarted
    <2> HIDE DEF e
    <2>2. Only(d, e, l) /\ Ready(e) /\ e[l].modem = d[l].modem
      BY <2>1, StopIs, ReadyKept
    <2>3. l # Ip("wifi") => ~e[l].started
      BY <2>1, StopIs
    <2> QED
      BY <2>2, <2>3 DEF Only, e
  <1>2. CASE ~(Has(l) /\ d[l].started)
    <2>1. e = d
      BY <1>2 DEF StopStarted
    <2>2. \A k \in Leaves : k = l /\ k # App => ~d[k].started
      BY <1>2, TableLeaves
    <2> HIDE DEF e
    <2> QED
      BY <2>1, <2>2 DEF e
  <1> QED
    BY <1>1, <1>2

\* The pair as the app has it: leaves of the table, or nobody.
LEMMA PresentIs ==
  ASSUME device \in Devices, NEW t \in Transports
  PROVE  /\ Present(Ip(t)) \in Ips /\ Here(Present(Ip(t)))
         /\ Present(Pubsub(t)) \in Pubsubs /\ Here(Present(Pubsub(t)))
         /\ Present(Ip(t)) \in {Ip(t), None} /\ Present(Pubsub(t)) \in {Pubsub(t), None}
         /\ Ip(t) \in Leaves => Present(Ip(t)) = Ip(t)
         /\ Pubsub(t) \in Leaves => Present(Pubsub(t)) = Pubsub(t)
  BY TableLeaves, Names DEF Present, Has, Here, Leaves, Ips, Pubsubs

\* LTE switched: off, neither of its leaves is started; on, its MQTT leaf has
\* the modem for its modem.
LEMMA HandleLteIs ==
  ASSUME device \in Devices, NEW d \in States, Ready(d), NEW v \in BOOLEAN
  PROVE  LET e == HandleLte(d, v)
             P == Pubsub("lte")
         IN  /\ e \in States /\ Ready(e)
             /\ ~v => \A l \in Leaves : l \in Pair("lte") => ~e[l].started
             /\ Pair("lte") \subseteq Leaves =>
                  e[P].modem \in {d[P].modem, Ip("lte")}
  <1> DEFINE e == HandleLte(d, v)
             P == Pubsub("lte")
  <1>1. CASE ~v
    <2> DEFINE one == StopStarted(d, P)
    <2>1. e = StopStarted(one, Ip("lte"))
      BY <1>1 DEF HandleLte
    <2>2. /\ one \in States /\ Ready(one)
          /\ \A k \in Leaves :
               /\ k # P => one[k] = d[k]
               /\ one[k].modem = d[k].modem
               /\ k = P /\ k \notin {App, Ip("wifi")} => ~one[k].started
      BY StopStartedIs
    <2> HIDE DEF one, e
    <2>3. /\ e \in States /\ Ready(e)
          /\ \A k \in Leaves :
               /\ k # Ip("lte") => e[k] = one[k]
               /\ e[k].modem = one[k].modem
               /\ k = Ip("lte") /\ k \notin {App, Ip("wifi")} => ~e[k].started
      BY <2>1, <2>2, StopStartedIs
    <2>4. P # Ip("lte") /\ {P, Ip("lte")} \cap {App, Ip("wifi")} = {}
      BY Names
    <2>5. \A l \in Leaves : l \in Pair("lte") => ~e[l].started
      BY <2>2, <2>3, <2>4 DEF Pair
    <2>6. Pair("lte") \subseteq Leaves => e[P].modem = d[P].modem
      BY <2>2, <2>3 DEF Pair
    <2> QED
      BY <2>3, <2>5, <2>6 DEF e
  <1>2. CASE v
    <2> DEFINE ip == Present(Ip("lte"))
               pubsub == Present(P)
               up == IF ip = None THEN d ELSE Start(d, ip)
               told == OwnComms(up, pubsub, ip, pubsub)
               on == IF pubsub = None THEN up ELSE Start(told, pubsub)
    <2>1. e = SetComms(on, ip, pubsub)
      BY <1>2 DEF HandleLte
    <2>2. /\ ip \in Ips /\ Here(ip) /\ pubsub \in Pubsubs /\ Here(pubsub)
          /\ ip \in {Ip("lte"), None} /\ pubsub \in {P, None}
          /\ Pair("lte") \subseteq Leaves => ip = Ip("lte") /\ pubsub = P /\ P \in Leaves
      BY PresentIs, Names DEF Pair
    <2>3. Ip("lte") # None /\ P # None /\ P # Ip("lte")
      BY Names
    <2> HIDE DEF ip, pubsub, e
    <2>4. /\ up \in States /\ Ready(up)
          /\ \A k \in Leaves : k # ip => up[k] = d[k]
      <3>1. CASE ip = None
        BY <3>1
      <3>2. CASE ip # None
        BY <2>2, <3>2, StartIs, ReadyKept DEF Here, Only
      <3> QED
        BY <3>1, <3>2
    <2> HIDE DEF up
    <2>5. /\ on \in States /\ Ready(on)
          /\ Pair("lte") \subseteq Leaves => on[P].modem = Ip("lte")
      <3>1. CASE pubsub = None
        BY <2>2, <2>3, <2>4, <3>1
      <3>2. CASE pubsub # None
        <4>1. pubsub \in Leaves /\ pubsub = P
          BY <2>2, <3>2 DEF Here
        <4>2. /\ Only(up, told, pubsub) /\ Ready(told)
              /\ ip # None => told[pubsub].ip = ip
          BY <2>2, <2>4, <4>1, OwnCommsIs, ReadyKept
        <4>3. told \in States
          BY <4>2 DEF Only
        <4> HIDE DEF told
        <4>4. Only(told, on, pubsub) /\ Ready(on)
          BY <3>2, <4>1, <4>2, <4>3, StartIs, ReadyKept
        <4>5. ip # None => on[P].ip = ip /\ on[P].modem = on[P].ip
          BY <3>2, <4>1, <4>2, <4>3, StartIs
        <4> QED
          BY <2>2, <2>3, <4>4, <4>5 DEF Only
      <3> QED
        BY <3>1, <3>2
    <2> HIDE DEF on
    <2>6. ASSUME NEW k \in Leaves
          PROVE  /\ e \in States
                 /\ e[k].run <=> on[k].run \/ k \in {ip, pubsub}
                 /\ e[k].started = on[k].started
                 /\ on[k].setup \/ (~on[k].run /\ e[k].run) => e[k].setup
                 /\ ip # None => e[k].ip = ip
                 /\ e[k].modem = on[k].modem \/ e[k].modem = e[k].ip
      BY <2>1, <2>2, <2>5, SetCommsIs
    <2>7. e \in States
      BY <2>6, TableLeaves
    <2>8. Ready(e)
      BY <2>5, <2>6 DEF Ready
    <2>9. Pair("lte") \subseteq Leaves => e[P].modem = Ip("lte")
      BY <2>2, <2>3, <2>5, <2>6
    <2> QED
      BY <1>2, <2>7, <2>8, <2>9 DEF e
  <1> QED
    BY <1>1, <1>2

\* WiFi switched, which concerns its own leaves only.
LEMMA HandleWifiIs ==
  ASSUME device \in Devices, NEW d \in States, Ready(d), NEW v \in BOOLEAN
  PROVE  LET e == HandleWifi(d, v)
         IN  /\ e \in States /\ Ready(e)
             /\ \A l \in Leaves : l \notin Pair("wifi") => e[l] = d[l]
  <1> DEFINE e == HandleWifi(d, v)
             P == Pubsub("wifi")
  <1>1. CASE ~v
    <2> DEFINE one == StopStarted(d, P)
    <2>1. e = StopStarted(one, Ip("wifi"))
      BY <1>1 DEF HandleWifi
    <2>2. one \in States /\ Ready(one) /\ \A k \in Leaves : k # P => one[k] = d[k]
      BY StopStartedIs
    <2> HIDE DEF one, e
    <2>3. e \in States /\ Ready(e) /\ \A k \in Leaves : k # Ip("wifi") => e[k] = one[k]
      BY <2>1, <2>2, StopStartedIs
    <2> QED
      BY <2>2, <2>3 DEF e, Pair
  <1>2. CASE v
    <2> DEFINE ip == Present(Ip("wifi"))
               pubsub == Present(P)
               up == IF ip = None \/ d[ip].started THEN d ELSE Start(d, ip)
               told == OwnComms(up, pubsub, ip, pubsub)
    <2>1. e = IF pubsub = None THEN up
              ELSE IF up[pubsub].started THEN Start(told, pubsub) ELSE up
      BY <1>2 DEF HandleWifi
    <2>2. /\ ip \in Ips /\ Here(ip) /\ pubsub \in Pubsubs /\ Here(pubsub)
          /\ ip \in {Ip("wifi"), None} /\ pubsub \in {P, None}
      BY PresentIs, Names
    <2>3. \A k \in Leaves : k # None
      BY TableLeaves
    <2> HIDE DEF ip, pubsub, e
    <2>4. up \in States /\ Ready(up) /\ \A k \in Leaves : k # ip => up[k] = d[k]
      <3>1. CASE ip = None \/ d[ip].started
        BY <3>1
      <3>2. CASE ~(ip = None \/ d[ip].started)
        BY <2>2, <3>2, StartIs, ReadyKept DEF Here, Only
      <3> QED
        BY <3>1, <3>2
    <2> HIDE DEF up
    <2>5. e \in States /\ Ready(e) /\ \A k \in Leaves : k # pubsub => e[k] = up[k]
      <3>1. CASE pubsub = None \/ ~up[pubsub].started
        BY <2>1, <2>4, <3>1
      <3>2. CASE pubsub # None /\ up[pubsub].started
        <4>1. pubsub \in Leaves
          BY <2>2, <3>2 DEF Here
        <4>2. Only(up, told, pubsub) /\ Ready(told)
          BY <2>2, <2>4, <4>1, OwnCommsIs, ReadyKept
        <4>3. told \in States
          BY <4>2 DEF Only
        <4> HIDE DEF told
        <4>4. Only(told, e, pubsub) /\ Ready(e)
          BY <2>1, <3>2, <4>1, <4>2, <4>3, StartIs, ReadyKept
        <4> QED
          BY <4>2, <4>4 DEF Only
      <3> QED
        BY <3>1, <3>2
    <2> QED
      BY <2>2, <2>3, <2>4, <2>5 DEF e, Pair
  <1> QED
    BY <1>1, <1>2

-----------------------------------------------------------------------------
(* Settings.                                                               *)

\* The variable is what is on flash, or was lent to "set wifi".  It is why a
\* value that is not a change need not be saved.
UseIsSaved == \A t \in Switches : use[t] = Saved(t) \/ (t = "wifi" /\ temporary)

SettingsInv == SettingsOK /\ UseIsSaved /\ SettingKept

\* What saving a switch does to the two.
LEMMA SaveUseKeeps ==
  ASSUME SettingsOK, NEW t \in Switches, NEW v \in BOOLEAN, SaveUse(t, v)
  PROVE  /\ saved' \in [Switches -> {"unset", "on", "off"}] /\ temporary' \in BOOLEAN
         /\ Saved(t)' = v
         /\ \A u \in Switches \ {t} : Saved(u)' = Saved(u)
         /\ \A u \in Switches \ {t} : u = "wifi" => temporary' = temporary
  <1>1. saved' = [saved EXCEPT ![t] = IF v THEN "on" ELSE "off"]
    BY DEF SaveUse
  <1>2. saved' \in [Switches -> {"unset", "on", "off"}]
    BY <1>1 DEF SettingsOK
  <1>3. temporary' \in BOOLEAN /\ (t # "wifi" => temporary' = temporary)
    BY DEF SaveUse, SettingsOK
  <1>4. saved'[t] = IF v THEN "on" ELSE "off"
    BY <1>1 DEF SettingsOK
  <1>5. \A u \in Switches \ {t} : saved'[u] = saved[u]
    BY <1>1 DEF SettingsOK
  <1>6. Saved(t)' = v
    BY <1>4 DEF Saved
  <1>7. \A u \in Switches \ {t} : Saved(u)' = Saved(u)
    BY <1>5 DEF Saved
  <1> QED
    BY <1>2, <1>3, <1>6, <1>7

\* A switch set by the user: a change is saved, and what is no change was saved.
LEMMA SetUseKeeps ==
  ASSUME SettingsInv, NEW t \in Switches, NEW v \in BOOLEAN, NEW direct \in BOOLEAN,
         SetUse(t, v, direct)
  PROVE  SettingsInv'
  <1>1. /\ asked' = [asked EXCEPT ![t] = v] /\ use' = [use EXCEPT ![t] = v]
        /\ asked' \in [Switches -> BOOLEAN] /\ use' \in [Switches -> BOOLEAN]
    BY DEF SetUse, SettingsInv, SettingsOK
  <1>2. /\ asked'[t] = v /\ use'[t] = v
        /\ \A u \in Switches \ {t} : asked'[u] = asked[u] /\ use'[u] = use[u]
    BY <1>1 DEF SettingsInv, SettingsOK
  <1>3. CASE use[t] = v
    <2>1. UNCHANGED <<saved, temporary>>
      BY <1>3 DEF SetUse
    <2>2. \A u \in Switches : Saved(u)' = Saved(u)
      BY <2>1 DEF Saved
    <2> QED
      BY <1>1, <1>2, <1>3, <2>1, <2>2
      DEF SettingsInv, SettingsOK, UseIsSaved, SettingKept
  <1>4. CASE use[t] # v
    <2>1. SaveUse(t, v)
      BY <1>4 DEF SetUse
    <2> QED
      BY <1>1, <1>2, <2>1, SaveUseKeeps
      DEF SettingsInv, SettingsOK, UseIsSaved, SettingKept
  <1> QED
    BY <1>3, <1>4

\* "set wifi" changes the variable and says so.
LEMMA SetTemporaryKeeps ==
  ASSUME SettingsInv, NEW v \in BOOLEAN, SetTemporary(v)
  PROVE  SettingsInv'
  <1>1. /\ use' = [use EXCEPT !["wifi"] = v] /\ temporary' = TRUE
        /\ UNCHANGED <<saved, asked>>
    BY DEF SetTemporary
  <1>2. \A u \in Switches : Saved(u)' = Saved(u)
    BY <1>1 DEF Saved
  <1>3. use' \in [Switches -> BOOLEAN]
    BY <1>1 DEF SettingsInv, SettingsOK
  <1>4. \A u \in Switches : u # "wifi" => use'[u] = use[u]
    BY <1>1 DEF SettingsInv, SettingsOK
  <1> QED
    BY <1>1, <1>2, <1>3, <1>4 DEF SettingsInv, SettingsOK, UseIsSaved, SettingKept

\* A boot reads the variables from flash.
LEMMA RebootKeeps ==
  ASSUME SettingsInv, Reboot
  PROVE  SettingsInv'
  <1>1. use' = [t \in Switches |-> Saved(t)] /\ UNCHANGED <<saved, asked, temporary>>
    BY DEF Reboot
  <1>2. \A u \in Switches : Saved(u)' = Saved(u)
    BY <1>1 DEF Saved
  <1>3. use' \in [Switches -> BOOLEAN]
    BY <1>1, SavedType DEF SettingsInv
  <1> QED
    BY <1>1, <1>2, <1>3 DEF SettingsInv, SettingsOK, UseIsSaved, SettingKept

\* Everything else leaves the settings alone.
LEMMA OthersKeep ==
  ASSUME SettingsInv, UNCHANGED <<use, saved, asked, temporary>>
  PROVE  SettingsInv'
  BY DEF SettingsInv, SettingsOK, UseIsSaved, SettingKept, Saved

\* A device as it leaves the factory has the defaults.
LEMMA SettingsAtFirst ==
  ASSUME Init
  PROVE  SettingsInv
  <1>1. /\ use = Default /\ asked = Default /\ temporary = FALSE
        /\ saved = [t \in Switches |-> "unset"]
    BY DEF Init
  <1>2. SettingsOK
    BY <1>1, CommsAssumption DEF SettingsOK
  <1>3. \A t \in Switches : Saved(t) = Default[t]
    BY <1>1 DEF Saved
  <1> QED
    BY <1>1, <1>2, <1>3 DEF SettingsInv, UseIsSaved, SettingKept

\* So the settings, the variables and what is on flash agree throughout.
LEMMA SettingsHold == Spec => []SettingsInv
  <1>1. Init => SettingsInv
    BY SettingsAtFirst
  <1>2. SettingsInv /\ [Next]_vars => SettingsInv'
    <2> SUFFICES ASSUME SettingsInv, [Next]_vars PROVE SettingsInv'
      OBVIOUS
    <2>1. CASE UNCHANGED vars
      BY <2>1, OthersKeep DEF vars, history
    <2>2. CASE Reboot
      BY <2>2, RebootKeeps
    <2>3. CASE \E t \in Switches, v, direct \in BOOLEAN : SetUse(t, v, direct)
      BY <2>3, SetUseKeeps
    <2>4. CASE \E v \in BOOLEAN : SetTemporary(v)
      BY <2>4, SetTemporaryKeeps
    <2>5. CASE \E l \in ToSet(device.table) :
                 \/ \E v \in {"unset", "on", "off"} : SetEnable(l, v)
                 \/ LeafSetup(l) \/ LeafStart(l) \/ LeafStop(l) \/ LeafRestart(l)
      <3>1. UNCHANGED <<use, saved, asked, temporary>>
        BY <2>5 DEF SetEnable, LeafSetup, LeafStart, LeafStop, LeafRestart, OnLeaf
      <3> QED
        BY <3>1, OthersKeep
    <2> QED
      BY <2>1, <2>2, <2>3, <2>4, <2>5 DEF Next
  <1> QED
    BY <1>1, <1>2, PTL DEF Spec

\* A setting asked for, by whichever of its three names, is what the next boot
\* finds, unless "set wifi" had given the shared variable that value before.
THEOREM SettingsStay == Spec => []SettingKept
  <1>1. SettingsInv => SettingKept
    BY DEF SettingsInv
  <1> QED
    BY <1>1, SettingsHold, PTL

-----------------------------------------------------------------------------
(* The leaves.                                                             *)

\* That ltemqtt is not permitted by a preference unless by the user's hand.
NotPermitted ==
  ~by_hand /\ Has(Pubsub("lte")) => enable[Pubsub("lte")] # "on"

\* LTE that was turned off is off on flash, so that a boot does not choose it.
OffIsSaved == lte_off => ~Saved("lte")

LeafInv ==
  /\ TypeOK /\ Ready(leaf)
  /\ LteOffStays /\ OffIsSaved
  /\ ModemIsModem /\ NotPermitted
  /\ RolesAsSaved

\* The state of the leaves is one the operators were stated for.
LEMMA LeafType ==
  ASSUME LeafInv
  PROVE  /\ device \in Devices /\ leaf \in States /\ Ready(leaf)
         /\ enable \in [ToSet(device.table) -> {"unset", "on", "off"}]
         /\ \A l : Has(l) <=> l \in Leaves \ {App}
         /\ Pair("lte") \subseteq Leaves <=> Pair("lte") \subseteq ToSet(device.table)
  <1>1. device \in Devices
    BY DEF LeafInv, TypeOK
  <1>2. App \notin Pair("lte")
    BY Names DEF Pair
  <1> QED
    BY <1>1, <1>2, TableLeaves DEF LeafInv, TypeOK, States, Leaves, Has

\* What a command must see to.
LEMMA CommandKeeps ==
  ASSUME LeafInv, SettingsOK', device' = device,
         enable' \in [ToSet(device.table) -> {"unset", "on", "off"}],
         fresh' = FALSE, by_hand' \in BOOLEAN, lte_off' \in BOOLEAN,
         commands' \in 0..Commands,
         leaf' \in States, Ready(leaf'),
         ~by_hand' => /\ ~by_hand
                      /\ Has(Pubsub("lte")) => enable'[Pubsub("lte")] # "on"
                      /\ Pair("lte") \subseteq Leaves =>
                           leaf'[Pubsub("lte")].modem
                             \in {leaf[Pubsub("lte")].modem, Ip("lte")},
         lte_off' => /\ Saved("lte")' = FALSE
                     /\ \A l \in Leaves : l \in Pair("lte") => ~leaf'[l].started
  PROVE  LeafInv'
  <1>1. TypeOK'
    BY DEF LeafInv, TypeOK, SettingsOK, States, Leaves
  <1>2. Ready(leaf)'
    BY DEF Ready, Leaves
  <1>3. LteOffStays'
    BY LeafType DEF LteOffStays, Has
  <1>4. OffIsSaved'
    BY DEF OffIsSaved
  <1>5. ModemIsModem'
    <2>1. ModemIsModem
      BY DEF LeafInv
    <2> QED
      BY <2>1, LeafType DEF ModemIsModem
  <1>6. NotPermitted'
    BY DEF NotPermitted, Has
  <1>7. RolesAsSaved'
    BY DEF RolesAsSaved
  <1> QED
    BY <1>1, <1>2, <1>3, <1>4, <1>5, <1>6, <1>7 DEF LeafInv

\* One less command, on the same device.
LEMMA CommandIs ==
  ASSUME LeafInv, Command
  PROVE  commands' \in 0..Commands /\ device' = device
  BY CommsAssumption DEF LeafInv, TypeOK, Command

\* A switch of the settings; its handler sees to its own leaves.
LEMMA SetUseLeaves ==
  ASSUME LeafInv, SettingsInv, NEW t \in Switches, NEW v \in BOOLEAN,
         NEW direct \in BOOLEAN, SetUse(t, v, direct)
  PROVE  LeafInv'
  <1> DEFINE P == Pubsub("lte")
  <1>1. /\ commands' \in 0..Commands /\ device' = device /\ fresh' = FALSE
        /\ enable' = enable /\ by_hand' = by_hand
    BY CommandIs DEF SetUse
  <1>2. SettingsOK'
    BY SetUseKeeps DEF SettingsInv
  <1>3. /\ device \in Devices /\ leaf \in States /\ Ready(leaf)
        /\ by_hand \in BOOLEAN /\ lte_off \in BOOLEAN /\ SettingsOK
        /\ lte_off => ~Saved("lte") /\ \A l \in Leaves : l \in Pair("lte") => ~leaf[l].started
    <2>1. \A l \in Leaves : l \in Pair("lte") => Has(l)
      BY LeafType, Names DEF Pair
    <2> QED
      BY <2>1, LeafType DEF LeafInv, TypeOK, SettingsInv, LteOffStays, OffIsSaved
  <1>4. /\ leaf' \in States /\ Ready(leaf') /\ lte_off' \in BOOLEAN
        /\ Pair("lte") \subseteq Leaves => leaf'[P].modem \in {leaf[P].modem, Ip("lte")}
        /\ lte_off' => /\ Saved("lte")' = FALSE
                       /\ \A l \in Leaves : l \in Pair("lte") => ~leaf'[l].started
    <2>1. CASE use[t] = v
      <3>1. leaf' = leaf /\ lte_off' = lte_off /\ saved' = saved
        BY <2>1 DEF SetUse
      <3>2. Saved("lte")' = Saved("lte")
        BY <3>1 DEF Saved
      <3>3. Saved("lte") \in BOOLEAN
        BY <1>3, SavedType DEF Switches
      <3> QED
        BY <1>3, <3>1, <3>2, <3>3
    <2>2. CASE use[t] # v /\ t = "lte"
      <3> DEFINE next == CASE ~direct -> leaf
                           [] direct /\ t = "lte" -> HandleLte(leaf, v)
                           [] OTHER -> HandleWifi(leaf, v)
      <3>0. /\ SaveUse(t, v) /\ leaf' = next
            /\ lte_off' = IF t = "lte" THEN direct /\ ~v ELSE lte_off
        BY <2>2 DEF SetUse
      <3>1. (lte_off' <=> direct /\ ~v) /\ lte_off' \in BOOLEAN
        BY <2>2, <3>0
      <3>2. SaveUse(t, v)
        BY <3>0
      <3>3. Saved("lte")' = v
        BY <1>3, <2>2, <3>2, SaveUseKeeps
      <3>4. CASE direct
        <4>1. leaf' = HandleLte(leaf, v)
          BY <2>2, <3>0, <3>4
        <4> QED
          BY <1>3, <3>1, <3>3, <3>4, <4>1, HandleLteIs
      <3>5. CASE ~direct
        <4>1. leaf' = leaf
          BY <2>2, <3>0, <3>5
        <4> QED
          BY <1>3, <3>1, <3>5, <4>1
      <3> QED
        BY <3>4, <3>5
    <2>3. CASE use[t] # v /\ t # "lte"
      <3>1. lte_off' = lte_off /\ leaf' = IF direct THEN HandleWifi(leaf, v) ELSE leaf
        BY <2>3 DEF SetUse
      <3>2. SaveUse(t, v)
        BY <2>3 DEF SetUse
      <3>3. Saved("lte")' = Saved("lte") /\ Saved("lte") \in BOOLEAN
        BY <1>3, <2>3, <3>2, SaveUseKeeps, SavedType DEF Switches
      <3>4. /\ leaf' \in States /\ Ready(leaf')
            /\ \A l \in Leaves : l \in Pair("lte") => leaf'[l] = leaf[l]
        <4>1. Pair("lte") \cap Pair("wifi") = {}
          BY Names DEF Pair
        <4> QED
          BY <1>3, <3>1, <4>1, HandleWifiIs
      <3> QED
        BY <1>3, <3>1, <3>3, <3>4 DEF Pair
    <2> QED
      BY <2>1, <2>2, <2>3
  <1>5. ~by_hand => (Has(P) => enable[P] # "on")
    BY DEF LeafInv, NotPermitted
  <1> QED
    BY <1>1, <1>2, <1>3, <1>4, <1>5, LeafType, CommandKeeps

\* A command that leaves the leaves alone.
LEMMA QuietLeaves ==
  ASSUME LeafInv, SettingsInv,
         \/ \E v \in BOOLEAN : SetTemporary(v)
         \/ \E l \in ToSet(device.table), v \in {"unset", "on", "off"} : SetEnable(l, v)
  PROVE  LeafInv'
  <1> DEFINE P == Pubsub("lte")
  <1>1. /\ Command /\ fresh' = FALSE
        /\ leaf' = leaf /\ saved' = saved /\ lte_off' = lte_off
    BY DEF SetTemporary, SetEnable
  <1>2. commands' \in 0..Commands /\ device' = device
    BY <1>1, CommandIs
  <1>3. SettingsOK'
    <2>1. CASE \E v \in BOOLEAN : SetTemporary(v)
      BY <2>1, SetTemporaryKeeps DEF SettingsInv
    <2>2. CASE \E l \in ToSet(device.table), v \in {"unset", "on", "off"} : SetEnable(l, v)
      BY <2>2, OthersKeep DEF SettingsInv, SetEnable
    <2> QED
      BY <2>1, <2>2
  <1>4. /\ enable' \in [ToSet(device.table) -> {"unset", "on", "off"}]
        /\ by_hand' \in BOOLEAN
        /\ ~by_hand' => ~by_hand /\ (Has(P) => enable'[P] # "on")
    <2>1. /\ enable \in [ToSet(device.table) -> {"unset", "on", "off"}]
          /\ by_hand \in BOOLEAN
          /\ ~by_hand /\ Has(P) => enable[P] # "on"
      BY DEF LeafInv, TypeOK, NotPermitted
    <2>2. CASE \E v \in BOOLEAN : SetTemporary(v)
      BY <2>1, <2>2 DEF SetTemporary
    <2>3. CASE \E l \in ToSet(device.table), v \in {"unset", "on", "off"} : SetEnable(l, v)
      <3>1. PICK l \in ToSet(device.table), v \in {"unset", "on", "off"} : SetEnable(l, v)
        BY <2>3
      <3>2. /\ enable' = [enable EXCEPT ![l] = v]
            /\ by_hand' = (by_hand \/ (l = P /\ v = "on"))
        BY <3>1 DEF SetEnable
      <3> HIDE DEF P
      <3> QED
        BY <2>1, <3>2 DEF Has
    <2> QED
      BY <2>2, <2>3
  <1>5. /\ lte_off \in BOOLEAN /\ Saved("lte") \in BOOLEAN
        /\ lte_off => ~Saved("lte") /\ \A l \in Leaves : l \in Pair("lte") => ~leaf[l].started
    <2>1. \A l \in Leaves : l \in Pair("lte") => Has(l)
      BY LeafType, Names DEF Pair
    <2> QED
      BY <2>1, SavedType DEF LeafInv, TypeOK, SettingsInv, LteOffStays, OffIsSaved, Switches
  <1>6. Saved("lte")' = Saved("lte")
    BY <1>1 DEF Saved
  <1> QED
    BY <1>1, <1>2, <1>3, <1>4, <1>5, <1>6, LeafType, CommandKeeps

\* A command on a leaf touches that leaf only, and one on a leaf of LTE that
\* starts it says so.
LEMMA OnLeafKeeps ==
  ASSUME LeafInv, SettingsInv, NEW l \in ToSet(device.table), NEW d, OnLeaf(l, d),
         Only(leaf, d, l), Ready(d),
         lte_off' \in BOOLEAN, lte_off' => lte_off,
         lte_off' /\ l \in Pair("lte") => (d[l].started => leaf[l].started)
  PROVE  LeafInv'
  <1> DEFINE P == Pubsub("lte")
  <1>1. /\ Command /\ fresh' = FALSE /\ leaf' = d
        /\ enable' = enable /\ saved' = saved
        /\ by_hand' = (by_hand \/ l = P)
    BY DEF OnLeaf
  <1>2. commands' \in 0..Commands /\ device' = device
    BY <1>1, CommandIs
  <1>3. SettingsOK'
    BY OthersKeep DEF SettingsInv, OnLeaf
  <1>4. d \in States /\ \A k \in Leaves : k # l => d[k] = leaf[k]
    BY DEF Only
  <1>5. /\ enable \in [ToSet(device.table) -> {"unset", "on", "off"}]
        /\ by_hand \in BOOLEAN
        /\ ~by_hand /\ Has(P) => enable[P] # "on"
    BY DEF LeafInv, TypeOK, NotPermitted
  <1>6. /\ Saved("lte") \in BOOLEAN
        /\ lte_off => ~Saved("lte") /\ \A k \in Leaves : k \in Pair("lte") => ~leaf[k].started
    <2>1. \A k \in Leaves : k \in Pair("lte") => Has(k)
      BY LeafType, Names DEF Pair
    <2> QED
      BY <2>1, SavedType DEF LeafInv, SettingsInv, LteOffStays, OffIsSaved, Switches
  <1>7. Saved("lte")' = Saved("lte")
    BY <1>1 DEF Saved
  <1>8. by_hand' \in BOOLEAN /\ (by_hand' <=> by_hand \/ l = P)
    BY <1>1, <1>5
  <1>9. ASSUME ~by_hand'
        PROVE  /\ ~by_hand
               /\ Has(P) => enable'[P] # "on"
               /\ Pair("lte") \subseteq Leaves => leaf'[P].modem \in {leaf[P].modem, Ip("lte")}
    <2>1. ~by_hand /\ l # P
      BY <1>8, <1>9
    <2>2. Pair("lte") \subseteq Leaves => leaf'[P] = leaf[P]
      BY <1>1, <1>4, <2>1 DEF Pair
    <2> QED
      BY <1>1, <1>5, <2>1, <2>2
  <1>10. ASSUME lte_off'
         PROVE  /\ Saved("lte")' = FALSE
                /\ \A k \in Leaves : k \in Pair("lte") => ~leaf'[k].started
    BY <1>1, <1>4, <1>6, <1>7, <1>10
  <1>11. leaf' \in States /\ Ready(leaf')
    BY <1>1, <1>4
  <1>12. enable' \in [ToSet(device.table) -> {"unset", "on", "off"}]
    BY <1>1, <1>5
  <1> HIDE DEF P
  <1> QED
    BY <1>1, <1>2, <1>3, <1>8, <1>9, <1>10, <1>11, <1>12, CommandKeeps DEF P

\* The commands of the user on one leaf.
LEMMA LeafCommands ==
  ASSUME LeafInv, SettingsInv, NEW l \in ToSet(device.table),
         LeafSetup(l) \/ LeafStart(l) \/ LeafStop(l) \/ LeafRestart(l)
  PROVE  LeafInv'
  <1>1. /\ device \in Devices /\ leaf \in States /\ Ready(leaf) /\ l \in Leaves /\ l # App
        /\ lte_off \in BOOLEAN
    BY LeafType DEF LeafInv, TypeOK, Has
  <1>2. CASE LeafSetup(l)
    <2> DEFINE d == SetUp(leaf, l)
    <2>1. OnLeaf(l, d) /\ lte_off' = lte_off
      BY <1>2 DEF LeafSetup
    <2>2. Only(leaf, d, l) /\ Ready(d) /\ d[l].started = leaf[l].started
      BY <1>1, SetUpIs, ReadyKept DEF Only
    <2> HIDE DEF d
    <2> QED
      BY <1>1, <2>1, <2>2, OnLeafKeeps
  <1>3. CASE LeafStart(l)
    <2> DEFINE up == IF leaf[l].setup THEN leaf ELSE SetUp(leaf, l)
               d == Start(up, l)
    <2>1. OnLeaf(l, d) /\ lte_off' = (lte_off /\ l \notin Pair("lte"))
      BY <1>3 DEF LeafStart
    <2>2. Only(leaf, up, l) /\ Ready(up)
      BY <1>1, SetUpIs, ReadyKept DEF Only
    <2>3. up \in States
      BY <2>2 DEF Only
    <2> HIDE DEF up
    <2>4. Only(up, d, l) /\ Ready(d)
      BY <1>1, <2>2, <2>3, StartIs, ReadyKept
    <2> HIDE DEF d
    <2>5. Only(leaf, d, l)
      BY <2>2, <2>4 DEF Only
    <2> QED
      BY <1>1, <2>1, <2>4, <2>5, OnLeafKeeps
  <1>4. CASE LeafStop(l)
    <2> DEFINE d == Stop(leaf, l)
    <2>1. OnLeaf(l, d) /\ lte_off' = lte_off
      BY <1>4 DEF LeafStop
    <2>2. Only(leaf, d, l) /\ Ready(d) /\ (d[l].started => leaf[l].started)
      BY <1>1, StopIs, ReadyKept
    <2> HIDE DEF d
    <2> QED
      BY <1>1, <2>1, <2>2, OnLeafKeeps
  <1>5. CASE LeafRestart(l)
    <2> DEFINE down == Stop(leaf, l)
               d == Start(down, l)
    <2>1. OnLeaf(l, d) /\ lte_off' = (lte_off /\ l \notin Pair("lte"))
      BY <1>5 DEF LeafRestart
    <2>2. Only(leaf, down, l) /\ Ready(down)
      BY <1>1, StopIs, ReadyKept
    <2>3. down \in States
      BY <2>2 DEF Only
    <2> HIDE DEF down
    <2>4. Only(down, d, l) /\ Ready(d)
      BY <1>1, <2>2, <2>3, StartIs, ReadyKept
    <2> HIDE DEF d
    <2>5. Only(leaf, d, l)
      BY <2>2, <2>4 DEF Only
    <2> QED
      BY <1>1, <2>1, <2>4, <2>5, OnLeafKeeps
  <1> QED
    BY <1>2, <1>3, <1>4, <1>5

\* RolesAsSaved of any state d of the leaves, table and switches s.
Fits(d, table, s) ==
  LET whole(t) == Pair(t) \subseteq ToSet(table)
      main == IF s["lte"] /\ whole("lte") THEN Pair("lte")
              ELSE IF s["wifi"] /\ whole("wifi") THEN Pair("wifi")
              ELSE IF whole("null") THEN Pair("null") ELSE {}
      service == IF main = Pair("lte") /\ s["wifi"] /\ whole("wifi")
                 THEN Pair("wifi") ELSE {}
      rest == DOMAIN d \ (main \cup service \cup {App})
  IN  /\ \A l \in main \cup service : d[l].run /\ d[l].setup /\ d[l].started
      /\ \A l \in rest : ~d[l].run /\ ~d[l].started
      /\ {l \in DOMAIN d : d[l].service} = service
      /\ Uses(d[App], main) /\ (\A l \in main : Uses(d[l], main))
      /\ \A l \in service : Uses(d[l], service)

\* They are the roles of above.
LEMMA RolesFit ==
  ASSUME device \in Devices, NEW d \in States, Roles(d)
  PROVE  Fits(d, device.table, Switched)
  <1>1. \A t \in Transports : Whole(t) <=> Pair(t) \subseteq ToSet(device.table)
    BY DEF Whole, Has, Pair
  <1>2. Switched["lte"] = Saved("lte") /\ Switched["wifi"] = Saved("wifi")
    BY DEF Switched, Switches
  <1>3. DOMAIN d = Leaves
    BY DEF States
  <1>4. Pair("lte") # Pair("wifi") /\ Pair("lte") # Pair("null") /\ Pair("lte") # {}
    BY Names DEF Pair
  <1>5. /\ "lte" \in Transports /\ "wifi" \in Transports /\ "null" \in Transports
    BY Names
  <1> DEFINE whole(t) == Pair(t) \subseteq ToSet(device.table)
             main == IF Switched["lte"] /\ whole("lte") THEN Pair("lte")
                     ELSE IF Switched["wifi"] /\ whole("wifi") THEN Pair("wifi")
                     ELSE IF whole("null") THEN Pair("null") ELSE {}
             service == IF main = Pair("lte") /\ Switched["wifi"] /\ whole("wifi")
                        THEN Pair("wifi") ELSE {}
  <1>6. main = Main
    BY <1>1, <1>2, <1>5 DEF Main
  <1>7. service = Service
    BY <1>1, <1>2, <1>4, <1>5, <1>6 DEF Service, Main
  <1> HIDE DEF main, service
  <1>8. Fits(d, device.table, Switched) <=>
          /\ \A l \in main \cup service : d[l].run /\ d[l].setup /\ d[l].started
          /\ \A l \in DOMAIN d \ (main \cup service \cup {App}) : ~d[l].run /\ ~d[l].started
          /\ {l \in DOMAIN d : d[l].service} = service
          /\ Uses(d[App], main) /\ (\A l \in main : Uses(d[l], main))
          /\ \A l \in service : Uses(d[l], service)
    BY Zenon DEF Fits, main, service
  <1> QED
    BY <1>3, <1>6, <1>7, <1>8 DEF Roles

\* When the choice is the app's, a boot casts the leaves as the settings say.
LEMMA BootFits ==
  ASSUME device \in Devices, SettingsOK,
         enable \in [ToSet(device.table) -> {"unset", "on", "off"}],
         device.declared = {}, \A l \in DOMAIN enable : enable[l] # "on"
  PROVE  Fits(Booted, device.table, Switched)
  <1>1. \A l \in Leaves \ {App} : ~Allowed(l)
    BY DEF Allowed, Leaves
  <1>2. Roles(Booted) /\ Booted \in States
    BY <1>1, RolesIs, BootIs
  <1> QED
    BY <1>2, RolesFit

\* Unless ltemqtt may run by itself, a boot leaves it the modem or nothing.
LEMMA BootModem ==
  ASSUME device \in Devices, SettingsOK,
         enable \in [ToSet(device.table) -> {"unset", "on", "off"}],
         Pair("lte") \subseteq ToSet(device.table), Pubsub("lte") \notin device.declared,
         enable[Pubsub("lte")] # "on"
  PROVE  Booted[Pubsub("lte")].modem \in {None, Ip("lte")}
  <1>1. Pair("lte") \subseteq Leaves /\ ~Allowed(Pubsub("lte"))
    BY DEF Allowed, Leaves
  <1> QED
    BY <1>1, BootIs

\* The device leaves the factory.
LEMMA LeavesAtFirst ==
  ASSUME Init
  PROVE  LeafInv
  <1>1. /\ device \in Devices /\ leaf = Booted /\ lte_off = FALSE /\ by_hand = FALSE
        /\ enable = [l \in ToSet(device.table) |-> "unset"]
        /\ fresh = TRUE /\ commands = Commands
    BY DEF Init
  <1>2. SettingsOK
    BY SettingsAtFirst DEF SettingsInv
  <1>3. Booted \in States /\ Ready(Booted)
    BY <1>1, <1>2, BootIs
  <1>4. enable \in [ToSet(device.table) -> {"unset", "on", "off"}]
    BY <1>1
  <1>5. TypeOK
    <2>1. commands \in 0..Commands
      BY <1>1, CommsAssumption
    <2>2. fresh \in BOOLEAN /\ by_hand \in BOOLEAN /\ lte_off \in BOOLEAN
      BY <1>1
    <2>3. leaf \in States
      BY <1>1, <1>3
    <2> QED
      BY <1>1, <1>2, <1>4, <2>1, <2>2, <2>3 DEF TypeOK, SettingsOK, States, Leaves
  <1>6. LteOffStays /\ OffIsSaved
    BY <1>1 DEF LteOffStays, OffIsSaved
  <1>7. NotPermitted
    BY <1>1 DEF NotPermitted, Has
  <1>8. ModemIsModem
    <2>1. Pubsub("lte") \in Pair("lte")
      BY DEF Pair
    <2> QED
      BY <1>1, <1>2, <1>4, <2>1, BootModem DEF ModemIsModem
  <1>9. RolesAsSaved
    <2>1. device.declared = {} => Fits(leaf, device.table, Switched)
      BY <1>1, <1>2, <1>4, BootFits
    <2>2. RolesAsSaved <=>
            (fresh /\ device.declared = {} /\ (\A l \in DOMAIN enable : enable[l] # "on")
               => Fits(leaf, device.table, Switched))
      BY DEF RolesAsSaved, Fits, Uses, Switched, Switches
    <2> QED
      BY <2>1, <2>2
  <1> QED
    BY <1>1, <1>3, <1>5, <1>6, <1>7, <1>8, <1>9 DEF LeafInv

\* A boot, from whatever state.
LEMMA RebootLeaves ==
  ASSUME LeafInv, SettingsInv, Reboot
  PROVE  LeafInv'
  <1> DEFINE P == Pubsub("lte")
  <1>1. /\ leaf' = Booted /\ Command /\ fresh' = TRUE
        /\ saved' = saved /\ enable' = enable /\ by_hand' = by_hand
    BY DEF Reboot
  <1>2. commands' \in 0..Commands /\ device' = device
    BY <1>1, CommandIs
  <1>3. SettingsOK' /\ SettingsOK
    BY RebootKeeps DEF SettingsInv
  <1>4. /\ device \in Devices /\ by_hand \in BOOLEAN /\ lte_off \in BOOLEAN
        /\ enable \in [ToSet(device.table) -> {"unset", "on", "off"}]
    BY DEF LeafInv, TypeOK
  <1>5. /\ lte_off' \in BOOLEAN
        /\ lte_off' => lte_off /\ \A l \in Pair("lte") : Has(l) => ~Allowed(l)
    BY <1>4 DEF Reboot
  <1>6. Booted \in States /\ Ready(Booted)
    BY <1>3, <1>4, BootIs
  <1>7. TypeOK'
    BY <1>1, <1>2, <1>3, <1>4, <1>5, <1>6 DEF TypeOK, SettingsOK, States, Leaves
  <1>8. Ready(leaf)'
    BY <1>1, <1>2, <1>6 DEF Ready, Leaves
  <1>9. \A t \in Switches : Saved(t)' = Saved(t)
    BY <1>1 DEF Saved
  <1>10. OffIsSaved'
    BY <1>5, <1>9 DEF OffIsSaved, LeafInv, Switches
  <1>11. LteOffStays'
    <2>1. ASSUME lte_off', NEW l \in Pair("lte"), Has(l) PROVE ~Booted[l].started
      <3>1. ~Saved("lte") /\ ~Allowed(l)
        BY <1>5, <2>1 DEF LeafInv, OffIsSaved
      <3>2. l \in Leaves
        BY <2>1 DEF Has, Leaves
      <3> QED
        BY <1>3, <1>4, <3>1, <3>2, BootIs
    <2> QED
      BY <1>1, <1>2, <2>1 DEF LteOffStays, Has
  <1>12. NotPermitted'
    BY <1>1, <1>2 DEF LeafInv, NotPermitted, Has
  <1>13. ModemIsModem'
    <2>1. P \in Pair("lte")
      BY DEF Pair
    <2>2. ~by_hand /\ Pair("lte") \subseteq ToSet(device.table) => enable[P] # "on"
      BY <2>1 DEF LeafInv, NotPermitted, Has
    <2> QED
      BY <1>1, <1>2, <1>3, <1>4, <2>2, BootModem DEF ModemIsModem
  <1>14. RolesAsSaved'
    <2>1. device.declared = {} /\ (\A l \in DOMAIN enable : enable[l] # "on")
            => Fits(Booted, device.table, Switched)
      BY <1>3, <1>4, BootFits
    <2>2. Fits(Booted, device.table, Switched) <=> Fits(leaf', device.table', Switched')
      <3>1. Switched' = Switched
        BY <1>9 DEF Switched
      <3> QED
        BY <1>1, <1>2, <3>1
    <2>3. RolesAsSaved' <=>
            (fresh' /\ device'.declared = {} /\ (\A l \in DOMAIN enable' : enable'[l] # "on")
               => Fits(leaf', device.table', Switched'))
      BY DEF RolesAsSaved, Fits, Uses, Switched, Switches
    <2> QED
      BY <1>1, <1>2, <2>1, <2>2, <2>3
  <1> QED
    BY <1>7, <1>8, <1>10, <1>11, <1>12, <1>13, <1>14 DEF LeafInv

\* Every step keeps it.
LEMMA LeavesHold == Spec => []LeafInv
  <1>1. Init => LeafInv
    BY LeavesAtFirst
  <1>2. SettingsInv /\ LeafInv /\ [Next]_vars => LeafInv'
    <2> SUFFICES ASSUME SettingsInv, LeafInv, [Next]_vars PROVE LeafInv'
      OBVIOUS
    <2>1. CASE UNCHANGED vars
      <3>1. UNCHANGED <<device, leaf, use, saved, enable, fresh, asked, temporary,
                        by_hand, lte_off, commands>>
        BY <2>1 DEF vars, history
      <3> QED
        BY <3>1 DEF LeafInv, TypeOK, Ready, Leaves, LteOffStays, OffIsSaved,
                    ModemIsModem, NotPermitted, RolesAsSaved, Has, Saved
    <2>2. CASE Reboot
      BY <2>2, RebootLeaves
    <2>3. CASE \E t \in Switches, v, direct \in BOOLEAN : SetUse(t, v, direct)
      BY <2>3, SetUseLeaves
    <2>4. CASE \E v \in BOOLEAN : SetTemporary(v)
      BY <2>4, QuietLeaves
    <2>5. CASE \E l \in ToSet(device.table) :
                 \/ \E v \in {"unset", "on", "off"} : SetEnable(l, v)
                 \/ LeafSetup(l) \/ LeafStart(l) \/ LeafStop(l) \/ LeafRestart(l)
      BY <2>5, QuietLeaves, LeafCommands
    <2> QED
      BY <2>1, <2>2, <2>3, <2>4, <2>5 DEF Next
  <1> QED
    BY <1>1, <1>2, SettingsHold, PTL DEF Spec

\* Every leaf keeps to its type: no pointer of a leaf ever names a leaf of
\* another kind than the one it is kept for.
THEOREM TypeCorrect == Spec => []TypeOK
  <1>1. LeafInv => TypeOK
    BY DEF LeafInv
  <1> QED
    BY <1>1, LeavesHold, PTL

\* No leaf is started, and so called by loop(), before it was set up, whatever
\* the table permits and the user commands.
THEOREM StartedWasSetUp == Spec => []StartedIsSetUp
  <1>1. LeafInv => StartedIsSetUp
    BY LeafType DEF LeafInv, StartedIsSetUp, Ready, States
  <1> QED
    BY <1>1, LeavesHold, PTL

\* What ltemqtt casts to a modem is the modem, whichever leaves the device has
\* and whatever is switched, unless ltemqtt is started by itself.
THEOREM ModemStaysModem == Spec => []ModemIsModem
  <1>1. LeafInv => ModemIsModem
    BY DEF LeafInv
  <1> QED
    BY <1>1, LeavesHold, PTL

\* LTE turned off stays off, over reboots and whatever else is switched.
THEOREM LteStaysOff == Spec => []LteOffStays
  <1>1. LeafInv => LteOffStays
    BY DEF LeafInv
  <1> QED
    BY <1>1, LeavesHold, PTL

\* A boot that leaves the choice to the app gives every leaf of every table the
\* role the settings have for it.
THEOREM RolesAreSaved == Spec => []RolesAsSaved
  <1>1. LeafInv => RolesAsSaved
    BY DEF LeafInv
  <1> QED
    BY <1>1, LeavesHold, PTL
=============================================================================
