-------------------------------- MODULE Comms --------------------------------
(***************************************************************************)
(* Which leaves carry a device's communications, and who starts them:      *)
(* setup() and stacxSetComms in src/stacx.h, the choice made by            *)
(* AbstractAppLeaf (src/abstract_app.h) at boot and when a setting is      *)
(* changed, Leaf::setup, start and stop (src/leaf.h), the leaf_* commands  *)
(* of src/abstract_pubsub.h and the NAME_leaf_enable preferences of        *)
(* src/leaf_fs_preferences.h.                                              *)
(*                                                                         *)
(* A transport is a pair of leaves, IP and pubsub; each leaf holds a       *)
(* pointer to the pair it uses, and ltemqtt a second one, cast to a modem. *)
(* All of it runs in the loop task, so a command, or a boot, is one step.  *)
(*                                                                         *)
(* Abstractions: a leaf is its kind and transport; "app" stands for every  *)
(* other leaf, and is last in the table.  No leaf has a thread of its own, *)
(* app_use_lte_gps is off, and the app's start() finds nothing to do.      *)
(* Left out are the fallback of ap_setup, which calls stacxSetComms, and   *)
(* the setup() that a pubsub leaf not yet set up makes when a message      *)
(* reaches it ("rescue mode", AbstractPubsubLeaf::mqtt_receive).           *)
(***************************************************************************)
EXTENDS Naturals, Sequences, SequencesExt

CONSTANTS
  Devices,          \* the devices considered: leaves[], and those of them
                    \* declared without inhibit()
  Default,          \* APP_USE_LTE and APP_USE_WIFI
  Commands          \* bound on commands and reboots

Transports == {"lte", "wifi", "null"}
Ip(t) == <<"ip", t>>
Pubsub(t) == <<"pubsub", t>>
Pair(t) == {Ip(t), Pubsub(t)}
CommsLeaves == UNION {Pair(t) : t \in Transports}
App == <<"app", "app">>
None == <<"none", "none">>
Switches == {"lte", "wifi"}

ASSUME CommsAssumption ==
  /\ \A d \in Devices : /\ d.table \in Seq(CommsLeaves) /\ IsInjective(d.table)
                        /\ d.declared \subseteq ToSet(d.table)
  /\ Default \in [Switches -> BOOLEAN]
  /\ Commands \in Nat

VARIABLES
  device,           \* the leaf table of this device
  leaf,             \* state of every leaf
  use,              \* app_use_lte and app_use_wifi
  saved,            \* their values on flash, or "unset"
  enable,           \* the preferences NAME_leaf_enable, or "unset"
  fresh,            \* history: no command since the device booted
  asked,            \* history: the last setting asked for
  temporary,        \* history: "set wifi" was used, and nothing saved since
  by_hand,          \* history: ltemqtt was set up or started by a command
  lte_off,          \* history: LTE was turned off and nothing revived it
  commands          \* commands left

history == <<fresh, asked, temporary, by_hand, lte_off>>
vars == <<device, leaf, use, saved, enable, history, commands>>

Has(l) == l \in ToSet(device.table)
Present(l) == IF Has(l) THEN l ELSE None
Saved(t) == IF saved[t] = "unset" THEN Default[t] ELSE saved[t] = "on"

LeafStates ==
  [run : BOOLEAN, setup : BOOLEAN, started : BOOLEAN, service : BOOLEAN,
   ip : {Ip(t) : t \in Transports} \cup {None},
   pubsub : {Pubsub(t) : t \in Transports} \cup {None},
   modem : {Ip(t) : t \in Transports} \cup {None}]

TypeOK ==
  /\ device \in Devices
  /\ leaf \in [ToSet(device.table) \cup {App} -> LeafStates]
  /\ use \in [Switches -> BOOLEAN] /\ asked \in [Switches -> BOOLEAN]
  /\ saved \in [Switches -> {"unset", "on", "off"}]
  /\ enable \in [ToSet(device.table) -> {"unset", "on", "off"}]
  /\ fresh \in BOOLEAN /\ temporary \in BOOLEAN /\ by_hand \in BOOLEAN
  /\ lte_off \in BOOLEAN /\ commands \in 0..Commands

-----------------------------------------------------------------------------
(* Leaf::setup, start and stop, on the state d of all leaves.              *)

\* Mutant: the kind of the leaf is not compared.
FindTypeAny(d, kind) ==
  LET found == {i \in DOMAIN device.table : d[device.table[i]].run}
  IN  IF found = {} THEN None ELSE device.table[Min(found)]

\* find_type: the first leaf of that kind that can run.
FindType(d, kind) ==
  LET May(l) == l[1] = kind /\ d[l].run
      found == {i \in DOMAIN device.table : May(device.table[i])}
  IN  IF found = {} THEN None ELSE device.table[Min(found)]

\* setup(): pointers not set yet are looked up; ltemqtt keeps one as its modem.
SetUp(d, l) ==
  LET ip == IF d[l].ip = None THEN FindType(d, "ip") ELSE d[l].ip
      pubsub == IF d[l].pubsub = None THEN FindType(d, "pubsub") ELSE d[l].pubsub
  IN  [d EXCEPT ![l].setup = TRUE, ![l].ip = ip, ![l].pubsub = pubsub,
                ![l].modem = IF l = Pubsub("lte") THEN ip ELSE @]

\* start(), with the AbstractPubsubSimcomLeaf's look at its modem.
Start(d, l) ==
  LET ready == IF d[l].run THEN d
               ELSE LET r == [d EXCEPT ![l].run = TRUE]
                    IN  IF d[l].setup THEN r ELSE SetUp(r, l)
      begun == [ready EXCEPT ![l].started = TRUE]
  IN  IF l # Pubsub("lte") THEN begun
      ELSE [begun EXCEPT ![l].modem = begun[l].ip, ![l].run = begun[l].ip # None]

\* stop(); IpEspLeaf's only turns the radio off.
Stop(d, l) ==
  IF l = Ip("wifi") THEN d ELSE [d EXCEPT ![l].run = FALSE, ![l].started = FALSE]

StopStarted(d, l) == IF Has(l) /\ d[l].started THEN Stop(d, l) ELSE d

-----------------------------------------------------------------------------
(* Choosing a transport.                                                   *)

\* Leaf::setComms.
OwnComms(d, l, ip, pubsub) ==
  [d EXCEPT ![l].ip = IF ip = None THEN @ ELSE ip,
            ![l].pubsub = IF pubsub = None THEN @ ELSE pubsub]

\* Mutant: a leaf is permitted to run and not set up.
PermitOnly(d, l) ==
  IF l = None THEN d ELSE [d EXCEPT ![l].run = TRUE]

\* A leaf that could not run is permitted to, and set up.
Permit(d, l) ==
  IF l = None THEN d
  ELSE IF d[l].run THEN d ELSE SetUp([d EXCEPT ![l].run = TRUE], l)

\* stacxSetComms.
SetComms(d, ip, pubsub) ==
  LET told == [l \in DOMAIN d |-> OwnComms(d, l, ip, pubsub)[l]]
  IN  Permit(Permit(told, ip), pubsub)

\* stacxSetServiceComms: the IP leaf is set up before it is told of the pair.
SetServiceComms(d, ip, pubsub) ==
  LET up == IF d[ip].run THEN d
            ELSE OwnComms(Permit([d EXCEPT ![ip].service = TRUE], ip), ip, ip, pubsub)
  IN  IF up[pubsub].run THEN up
      ELSE Permit(OwnComms([up EXCEPT ![pubsub].service = TRUE], pubsub, ip, pubsub), pubsub)

\* Mutant: with WiFi enabled LTE is never considered the primary one.
ChosenWifiFirst(d, u) ==
  IF u["wifi"] /\ Has(Ip("wifi")) /\ Has(Pubsub("wifi"))
  THEN SetComms(d, Ip("wifi"), Pubsub("wifi"))
  ELSE IF u["lte"] /\ Has(Ip("lte")) /\ Has(Pubsub("lte"))
       THEN SetComms(d, Ip("lte"), Pubsub("lte"))
       ELSE SetComms(d, Present(Ip("null")), Present(Pubsub("null")))

\* The app's setup(), when no IP leaf can run yet; u are the switches.
Chosen(d, u) ==
  LET whole(t) == Has(Ip(t)) /\ Has(Pubsub(t))
      lte == u["lte"] /\ whole("lte")
      d1 == IF lte THEN SetComms(d, Ip("lte"), Pubsub("lte")) ELSE d
      beside == u["wifi"] /\ Has(Ip("wifi")) /\ u["lte"] /\ Has(Ip("lte"))
                  /\ d1[Ip("lte")].run
      wifi == u["wifi"] /\ whole("wifi") /\ ~beside
      d2 == CASE beside /\ Has(Pubsub("wifi")) ->
                   SetServiceComms(d1, Ip("wifi"), Pubsub("wifi"))
              [] wifi -> SetComms(d1, Ip("wifi"), Pubsub("wifi"))
              [] OTHER -> d1
  IN  IF ~lte /\ ~wifi /\ whole("null") THEN SetComms(d2, Ip("null"), Pubsub("null"))
      ELSE d2

-----------------------------------------------------------------------------
(* Boot: setup() of stacx.h.                                               *)

\* What the table and the preferences NAME_leaf_enable allow to run.
Allowed(l) == IF enable[l] = "unset" THEN l \in device.declared ELSE enable[l] = "on"

\* One leaf of the table after the other.  A call changes its own leaf only, and
\* asks of the others only who may run, which setup() leaves as it is.
SetUpAll(d) == [l \in DOMAIN d |-> IF d[l].run THEN SetUp(d, l)[l] ELSE d[l]]
StartAll(d) == [l \in DOMAIN d |-> IF d[l].run THEN Start(d, l)[l] ELSE d[l]]

Booted ==
  LET blank == [run |-> FALSE, setup |-> FALSE, started |-> FALSE, service |-> FALSE,
                ip |-> None, pubsub |-> None, modem |-> None]
      d0 == [l \in ToSet(device.table) \cup {App} |->
               [blank EXCEPT !.run = (l = App) \/ Allowed(l)]]
      d1 == SetUpAll(d0)
      d2 == IF d1[App].ip # None THEN d1 ELSE Chosen(d1, [t \in Switches |-> Saved(t)])
  IN  StartAll(d2)

\* A device as it leaves the factory.
Init ==
  /\ device \in Devices
  /\ use = Default /\ asked = Default
  /\ saved = [t \in Switches |-> "unset"]
  /\ enable = [l \in ToSet(device.table) |-> "unset"]
  /\ leaf = Booted
  /\ fresh = TRUE /\ temporary = FALSE /\ by_hand = FALSE /\ lte_off = FALSE
  /\ commands = Commands

Command == commands > 0 /\ commands' = commands - 1 /\ UNCHANGED device

Reboot ==
  /\ Command
  /\ leaf' = Booted
  /\ use' = [t \in Switches |-> Saved(t)]
  /\ fresh' = TRUE
  /\ lte_off' = (lte_off /\ \A l \in Pair("lte") : Has(l) => ~Allowed(l))
  /\ UNCHANGED <<saved, enable, asked, temporary, by_hand>>

-----------------------------------------------------------------------------
(* Settings.                                                               *)

\* Mutant: ltemqtt is started before it is told what its modem is.
HandleLteEarly(d, v) ==
  IF ~v THEN StopStarted(StopStarted(d, Pubsub("lte")), Ip("lte"))
  ELSE LET up == IF Has(Ip("lte")) THEN Start(d, Ip("lte")) ELSE d
           on == IF Has(Pubsub("lte")) THEN Start(up, Pubsub("lte")) ELSE up
       IN  SetComms(on, Present(Ip("lte")), Present(Pubsub("lte")))

\* Mutant: turning LTE off stops its MQTT leaf only.
HandleLteHalf(d, v) ==
  IF ~v THEN StopStarted(d, Pubsub("lte"))
  ELSE SetComms(d, Present(Ip("lte")), Present(Pubsub("lte")))

\* valueChangeHandler of use_lte and of use_wifi, on the state d of the leaves.
HandleLte(d, v) ==
  IF ~v THEN StopStarted(StopStarted(d, Pubsub("lte")), Ip("lte"))
  ELSE LET ip == Present(Ip("lte"))
           pubsub == Present(Pubsub("lte"))
           up == IF ip = None THEN d ELSE Start(d, ip)
           on == IF pubsub = None THEN up
                 ELSE Start(OwnComms(up, pubsub, ip, pubsub), pubsub)
       IN  SetComms(on, ip, pubsub)

HandleWifi(d, v) ==
  IF ~v THEN StopStarted(StopStarted(d, Pubsub("wifi")), Ip("wifi"))
  ELSE LET ip == Present(Ip("wifi"))
           pubsub == Present(Pubsub("wifi"))
           up == IF ip = None \/ d[ip].started THEN d ELSE Start(d, ip)
       IN  IF pubsub = None THEN up
           ELSE IF up[pubsub].started
                THEN Start(OwnComms(up, pubsub, ip, pubsub), pubsub) ELSE up

\* Mutant: the value is not written to flash.
SaveUseForgets(t, v) == UNCHANGED <<saved, temporary>>

\* setBoolPref of a switch that changed.
SaveUse(t, v) ==
  /\ saved' = [saved EXCEPT ![t] = IF v THEN "on" ELSE "off"]
  /\ temporary' = (temporary /\ t # "wifi")

\* set app_use_lte or app_use_wifi, or direct: set/use_lte or set/use_wifi sent
\* to the app.  Only a change is saved, and only the short name is handled.
SetUse(t, v, direct) ==
  /\ Command
  /\ asked' = [asked EXCEPT ![t] = v]
  /\ use' = [use EXCEPT ![t] = v]
  /\ IF use[t] = v THEN UNCHANGED <<saved, temporary, leaf, lte_off>>
     ELSE /\ SaveUse(t, v)
          /\ leaf' = CASE ~direct -> leaf
                       [] direct /\ t = "lte" -> HandleLte(leaf, v)
                       [] OTHER -> HandleWifi(leaf, v)
          /\ lte_off' = IF t = "lte" THEN direct /\ ~v ELSE lte_off
  /\ fresh' = FALSE
  /\ UNCHANGED <<enable, by_hand>>

\* set wifi: the same variable, not saved, and no handler.
SetTemporary(v) ==
  /\ Command
  /\ use["wifi"] # v /\ use' = [use EXCEPT !["wifi"] = v]
  /\ temporary' = TRUE /\ fresh' = FALSE
  /\ UNCHANGED <<leaf, saved, enable, asked, by_hand, lte_off>>

\* set/pref NAME_leaf_enable; leaf_disable and leaf_inhibit write "off".
SetEnable(l, v) ==
  /\ Command
  /\ enable' = [enable EXCEPT ![l] = v]
  /\ by_hand' = (by_hand \/ (l = Pubsub("lte") /\ v = "on"))
  /\ fresh' = FALSE
  /\ UNCHANGED <<leaf, use, saved, asked, temporary, lte_off>>

-----------------------------------------------------------------------------
(* Commands on a leaf.                                                     *)

OnLeaf(l, d) ==
  /\ Command
  /\ leaf' = d
  /\ fresh' = FALSE
  /\ by_hand' = (by_hand \/ l = Pubsub("lte"))
  /\ UNCHANGED <<use, saved, enable, asked, temporary>>

LeafSetup(l) == OnLeaf(l, SetUp(leaf, l)) /\ UNCHANGED lte_off

LeafStart(l) ==
  /\ OnLeaf(l, Start(IF leaf[l].setup THEN leaf ELSE SetUp(leaf, l), l))
  /\ lte_off' = (lte_off /\ l \notin Pair("lte"))

LeafStop(l) == OnLeaf(l, Stop(leaf, l)) /\ UNCHANGED lte_off

LeafRestart(l) ==
  /\ OnLeaf(l, Start(Stop(leaf, l), l))
  /\ lte_off' = (lte_off /\ l \notin Pair("lte"))
-----------------------------------------------------------------------------
Next ==
  \/ Reboot
  \/ \E t \in Switches, v, direct \in BOOLEAN : SetUse(t, v, direct)
  \/ \E v \in BOOLEAN : SetTemporary(v)
  \/ \E l \in ToSet(device.table) :
       \/ \E v \in {"unset", "on", "off"} : SetEnable(l, v)
       \/ LeafSetup(l) \/ LeafStart(l) \/ LeafStop(l) \/ LeafRestart(l)

Spec == Init /\ [][Next]_vars
-----------------------------------------------------------------------------
(* Properties.                                                             *)

\* No leaf is started, and so called by loop(), before it was set up.
StartedIsSetUp == \A l \in DOMAIN leaf : leaf[l].started => leaf[l].setup

\* What ltemqtt takes for its modem is one: the pointer is cast from ipLeaf,
\* which is WiFi's on a device that uses WiFi; unless the table, a preference or
\* a command of the user has ltemqtt started by itself, or there is no other.
ModemIsModem ==
  ~by_hand /\ Pair("lte") \subseteq ToSet(device.table) /\ Pubsub("lte") \notin device.declared
    => leaf[Pubsub("lte")].modem \in {None, Ip("lte")}

\* LTE turned off stays off, over reboots and whatever else is switched, until
\* it is turned on, started by a command, or permitted at a boot by a preference.
LteOffStays == lte_off => \A l \in Pair("lte") : Has(l) => ~leaf[l].started

\* A setting asked for is what the next boot will find, unless "set wifi" had
\* already given the shared variable that value.
SettingKept ==
  \A t \in Switches : asked[t] = Saved(t) \/ (t = "wifi" /\ temporary)

\* After a boot of a device that leaves the choice to the app: LTE carries the
\* communications if it is enabled, with WiFi for service only; else WiFi; else
\* nothing but local messages.  Whoever takes part is set up, started, and uses
\* his own transport, the others do not run.
RolesAsSaved ==
  LET whole(t) == Pair(t) \subseteq ToSet(device.table)
      main == IF Saved("lte") /\ whole("lte") THEN Pair("lte")
              ELSE IF Saved("wifi") /\ whole("wifi") THEN Pair("wifi")
              ELSE IF whole("null") THEN Pair("null") ELSE {}
      service == IF main = Pair("lte") /\ Saved("wifi") /\ whole("wifi")
                 THEN Pair("wifi") ELSE {}
      rest == DOMAIN leaf \ (main \cup service \cup {App})
      Uses(l, pair) == pair # {} => {leaf[l].ip, leaf[l].pubsub} = pair
  IN  fresh /\ device.declared = {} /\ (\A l \in DOMAIN enable : enable[l] # "on") =>
        /\ \A l \in main \cup service : leaf[l].run /\ leaf[l].setup /\ leaf[l].started
        /\ \A l \in rest : ~leaf[l].run /\ ~leaf[l].started
        /\ {l \in DOMAIN leaf : leaf[l].service} = service
        /\ Uses(App, main) /\ (\A l \in main : Uses(l, main))
        /\ \A l \in service : Uses(l, service)
=============================================================================
