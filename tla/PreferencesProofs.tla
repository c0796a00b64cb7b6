--------------------------- MODULE PreferencesProofs ---------------------------
(***************************************************************************)
(* Why a saved preference file is never lost: the backup is older than the *)
(* file only while the file exists, and the file is missing only while the *)
(* backup stands in for it.                                                *)
(***************************************************************************)
EXTENDS Preferences, TLAPS

Saving == {"backup", "open", "write", "verify", "revert"}

\* A save is under way exactly when there are calls of save() to complete.
Counted == pc \in Saving => saves \in 1..2

\* As long as every save made its backup: the file is the one last saved or
\* is missing, and then the backup is the one last saved; the file is missing
\* once the backup is made; it is there between saves unless one was cut.
StandIn ==
  ~no_backup =>
    /\ main \in {Nothing, saved}
    /\ main = Nothing => bak = saved
    /\ pc \in {"open", "write", "verify", "revert"} => main = Nothing
    /\ pc \in {"idle", "boot", "backup"} /\ ~cut => main = saved

\* The temporary file is complete only if it holds what is in memory.
Written == pc = "verify" => tmp \in {memory, Torn}

IInv == TypeOK /\ Counted /\ StandIn /\ Written

-----------------------------------------------------------------------------
\* Loading a file into a memory of settings yields settings.
LEMMA LoadedType ==
  ASSUME NEW values \in Contents, NEW file
  PROVE  Loaded(values, file) \in Contents
  BY DEF Loaded, Contents

\* A finished save leaves counters and sections in range.
LEMMA ReturnType ==
  ASSUME saves \in 1..2, SaveReturns
  PROVE  /\ saves' \in 0..2
         /\ pc' \in {"idle", "backup"}
         /\ pc' = "backup" => saves' \in 1..2
  BY DEF SaveReturns

\* A command that asks for n saves starts the first.
LEMMA StartType ==
  ASSUME NEW n \in 0..2, StartSaves(n)
  PROVE  /\ saves' \in 0..2
         /\ pc' \in {"idle", "backup"}
         /\ pc' = "backup" => saves' \in 1..2
  BY DEF StartSaves

\* A fault less is still within its bound.
LEMMA FaultType ==
  ASSUME faults \in 0..Faults, Fault
  PROVE  faults' \in 0..Faults
  BY PreferencesAssumption DEF Fault

\* The same of the commands left.
LEMMA EditType ==
  ASSUME edits \in 0..Edits, Edit
  PROVE  edits' \in 0..Edits
  BY PreferencesAssumption DEF Edit

\* A device that has never saved anything satisfies the invariant.
LEMMA InitIInv == Init => IInv
<1> SUFFICES ASSUME Init PROVE IInv
  OBVIOUS
<1>1. TypeOK
  <2>1. ahead \in BOOLEAN /\ cut \in BOOLEAN /\ no_backup \in BOOLEAN
    BY DEF Init
  <2>2. saves \in 0..2 /\ faults \in 0..Faults /\ edits \in 0..Edits
    BY PreferencesAssumption DEF Init
  <2>3. /\ memory \in Contents
        /\ main = Nothing /\ bak = Nothing /\ tmp = Nothing /\ saved = Nothing
        /\ pc = "boot"
    BY PreferencesAssumption DEF Init
  <2> QED
    BY <2>1, <2>2, <2>3 DEF TypeOK
<1>2. Counted /\ StandIn /\ Written
  BY DEF Init, Counted, StandIn, Written, Saving
<1> QED
  BY <1>1, <1>2 DEF IInv

-----------------------------------------------------------------------------
\* The backup is made from the file last saved, so it can stand in for it.
LEMMA SaveBackupStep == IInv /\ SaveBackup => IInv'
<1> SUFFICES ASSUME IInv, SaveBackup PROVE IInv'
  OBVIOUS
<1>1. TypeOK'
  BY FaultType DEF IInv, TypeOK, SaveBackup
<1>2. Counted' /\ Written'
  BY DEF IInv, Counted, Written, Saving, SaveBackup
<1>3. StandIn'
  BY DEF IInv, StandIn, SaveBackup
<1> QED
  BY <1>1, <1>2, <1>3 DEF IInv

\* Opening .tmp, or giving up, touches neither file nor backup.
LEMMA SaveOpenStep == IInv /\ SaveOpen => IInv'
<1> SUFFICES ASSUME IInv, SaveOpen PROVE IInv'
  OBVIOUS
<1>1. saves \in 1..2
  BY DEF IInv, Counted, Saving, SaveOpen
<1>2. TypeOK'
  BY <1>1, FaultType, ReturnType DEF IInv, TypeOK, SaveOpen
<1>3. Counted' /\ Written'
  BY <1>1, ReturnType DEF IInv, Counted, Written, Saving, SaveOpen
<1>4. StandIn'
  BY <1>1, ReturnType DEF IInv, StandIn, SaveOpen
<1> QED
  BY <1>2, <1>3, <1>4 DEF IInv

\* Writing .tmp touches neither file nor backup.
LEMMA SaveWriteStep == IInv /\ SaveWrite => IInv'
<1> SUFFICES ASSUME IInv, SaveWrite PROVE IInv'
  OBVIOUS
<1>1. TypeOK'
  BY FaultType DEF IInv, TypeOK, SaveWrite, ghosts
<1>2. Counted' /\ StandIn' /\ Written'
  BY DEF IInv, Counted, StandIn, Written, Saving, SaveWrite, ghosts
<1> QED
  BY <1>1, <1>2 DEF IInv

\* Only a complete .tmp, holding what is in memory, becomes the file.
LEMMA SaveVerifyStep == IInv /\ SaveVerify => IInv'
<1> SUFFICES ASSUME IInv, SaveVerify PROVE IInv'
  OBVIOUS
<1>1. pc = "verify" /\ saves \in 1..2 /\ UNCHANGED <<memory, bak, edits>>
  BY DEF IInv, Counted, Saving, SaveVerify
<1>2. CASE tmp # Torn /\ SaveSucceeds /\ UNCHANGED faults
  <2>1. TypeOK'
    BY <1>1, <1>2, ReturnType DEF IInv, TypeOK, SaveSucceeds
  <2>2. Counted' /\ Written'
    BY <1>1, <1>2, ReturnType DEF Counted, Written, Saving, SaveSucceeds
  <2>3. main' = saved' /\ pc' \in {"idle", "backup"} /\ (main' = Nothing => FALSE)
    BY <1>1, <1>2, ReturnType, PreferencesAssumption
    DEF IInv, TypeOK, Written, SaveSucceeds
  <2>4. StandIn'
    BY <2>3 DEF StandIn
  <2> QED
    BY <2>1, <2>2, <2>4 DEF IInv
<1>3. CASE pc' = "revert" /\ UNCHANGED <<main, tmp, saves, ghosts>> /\ faults' \in 0..Faults
  <2>1. TypeOK'
    BY <1>1, <1>3 DEF IInv, TypeOK, ghosts
  <2>2. Counted' /\ StandIn' /\ Written'
    BY <1>1, <1>3 DEF IInv, Counted, StandIn, Written, Saving, ghosts
  <2> QED
    BY <2>1, <2>2 DEF IInv
<1> QED
  BY <1>2, <1>3, FaultType DEF SaveVerify, IInv, TypeOK

\* Putting the backup back restores the file last saved.
LEMMA SaveRevertStep == IInv /\ SaveRevert => IInv'
<1> SUFFICES ASSUME IInv, SaveRevert PROVE IInv'
  OBVIOUS
<1>1. saves \in 1..2
  BY DEF IInv, Counted, Saving, SaveRevert
<1>2. TypeOK'
  BY <1>1, FaultType, ReturnType DEF IInv, TypeOK, SaveRevert
<1>3. Counted' /\ Written'
  BY <1>1, ReturnType DEF IInv, Counted, Written, Saving, SaveRevert
<1>4. StandIn'
  BY <1>1, ReturnType DEF IInv, StandIn, SaveRevert
<1> QED
  BY <1>2, <1>3, <1>4 DEF IInv

\* Booting reads the file; a reset changes no file.
LEMMA BootStep == IInv /\ (Boot \/ BootFormats \/ Reset) => IInv'
<1> SUFFICES ASSUME IInv, Boot \/ BootFormats \/ Reset PROVE IInv'
  OBVIOUS
<1>1. CASE Boot
  <2>1. TypeOK'
    BY <1>1, LoadedType, PreferencesAssumption DEF IInv, TypeOK, Boot, files
  <2>2. Counted' /\ StandIn' /\ Written'
    BY <1>1 DEF IInv, Counted, StandIn, Written, Saving, Boot, files
  <2> QED
    BY <2>1, <2>2 DEF IInv
<1>2. CASE BootFormats
  <2>1. TypeOK'
    BY <1>2, FaultType DEF IInv, TypeOK, BootFormats
  <2>2. Counted' /\ StandIn' /\ Written'
    BY <1>2 DEF IInv, Counted, StandIn, Written, Saving, BootFormats
  <2> QED
    BY <2>1, <2>2 DEF IInv
<1>3. CASE Reset
  <2>1. TypeOK'
    BY <1>3, FaultType, PreferencesAssumption DEF IInv, TypeOK, Reset, files
  <2>2. Counted' /\ StandIn' /\ Written'
    BY <1>3 DEF IInv, Counted, StandIn, Written, Saving, Reset, files
  <2> QED
    BY <2>1, <2>2 DEF IInv
<1> QED
  BY <1>1, <1>2, <1>3

\* What every command does: from idle, it changes memory and may start a save.
LEMMA CommandStep == IInv /\ Commands => IInv'
<1> SUFFICES ASSUME IInv, Commands PROVE IInv'
  OBVIOUS
<1>1. pc = "idle" /\ UNCHANGED <<files, saved, cut, no_backup, faults>>
  BY DEF Commands, Remove, CmdClear, Put, CmdSave, CmdLoad, ghosts
<1>2. memory' \in Contents
  <2>1. ASSUME NEW k \in Keys, NEW v \in Values \cup {Unset}
        PROVE  [memory EXCEPT ![k] = v] \in Contents
    BY DEF IInv, TypeOK, Contents
  <2>2. CASE \E k \in Keys : Remove(k) \/ CmdClear(k) \/ \E v \in Values : Put(k, v)
    BY <2>1, <2>2 DEF Remove, CmdClear, Put
  <2>3. CASE CmdSave \/ CmdLoad
    BY <2>3, LoadedType DEF CmdSave, CmdLoad, IInv, TypeOK
  <2> QED
    BY <2>2, <2>3 DEF Commands
<1>3. ahead' \in BOOLEAN /\ edits' \in 0..Edits
  BY EditType DEF IInv, TypeOK, Commands, Remove, CmdClear, Put, CmdSave, CmdLoad, ghosts
<1>4. \/ \E n \in 0..2 : StartSaves(n)
      \/ UNCHANGED <<pc, saves>>
  BY DEF Commands, Remove, CmdClear, Put, CmdSave, CmdLoad
<1>5. saves' \in 0..2 /\ pc' \in {"idle", "backup"} /\ (pc' = "backup" => saves' \in 1..2)
  BY <1>1, <1>4, StartType DEF IInv, TypeOK
<1>6. TypeOK'
  BY <1>1, <1>2, <1>3, <1>5 DEF IInv, TypeOK, files
<1>7. Counted' /\ Written'
  BY <1>5 DEF Counted, Written, Saving
<1>8. StandIn'
  BY <1>1, <1>5 DEF IInv, StandIn, files
<1> QED
  BY <1>6, <1>7, <1>8 DEF IInv

\* Every step keeps the invariant.
LEMMA NextIInv == IInv /\ [Next]_vars => IInv'
<1> SUFFICES ASSUME IInv, [Next]_vars PROVE IInv'
  OBVIOUS
<1>1. CASE Save
  BY <1>1, SaveBackupStep, SaveOpenStep, SaveWriteStep, SaveVerifyStep, SaveRevertStep
  DEF Save
<1>2. CASE Boot \/ BootFormats \/ Reset
  BY <1>2, BootStep
<1>3. CASE Commands
  BY <1>3, CommandStep
<1>4. CASE UNCHANGED vars
  BY <1>4 DEF IInv, TypeOK, Counted, StandIn, Written, vars, files, ghosts
<1> QED
  BY <1>1, <1>2, <1>3, <1>4 DEF Next

\* The invariant holds in every behaviour.
LEMMA AlwaysIInv == Spec => []IInv
  BY InitIInv, NextIInv, PTL DEF Spec

-----------------------------------------------------------------------------
\* No reset or failing call leaves an incomplete preference file or backup:
\* only the temporary file is ever torn.
THEOREM NeverTorn == Spec => []TypeOK
<1>1. IInv => TypeOK
  BY DEF IInv
<1> QED
  BY <1>1, AlwaysIInv, PTL

\* Whatever fails, and however often, the last settings saved are on flash
\* as long as every save could make its backup.
THEOREM LastSaveStays == Spec => []LastSaveKept
<1>1. IInv => LastSaveKept
  BY DEF IInv, StandIn, LastSaveKept
<1> QED
  BY <1>1, AlwaysIInv, PTL

\* A save that fails leaves the file that was there, unless cut short.
THEOREM FailureReverts == Spec => []FailedSaveReverts
<1>1. IInv => FailedSaveReverts
  BY DEF IInv, StandIn, FailedSaveReverts
<1> QED
  BY <1>1, AlwaysIInv, PTL

-----------------------------------------------------------------------------
\* What a boot would make of settings just written: a setting that is absent
\* comes back as the default, if it has one.
LEMMA LoadedBack ==
  ASSUME NEW written \in Contents, NEW k \in Keys
  PROVE  \/ Loaded(Defaults, written)[k] = written[k]
         \/ written[k] = Unset /\ Defaults[k] # Unset
<1>1. CASE written[k] # Unset
  BY <1>1 DEF Loaded
<1>2. CASE written[k] = Unset
  <2>1. Loaded(Defaults, written)[k] = Defaults[k]
    BY <1>2 DEF Loaded
  <2> QED
    BY <1>2, <2>1
<1> QED
  BY <1>1, <1>2

\* The device comes to rest by a boot, by a save that succeeded, by one that
\* failed, or by loading the file, which changes nothing if all was saved: every
\* other command that changes memory goes on to save it.
LEMMA HarmlessStep == IInv /\ ResetIsHarmless /\ [Next]_vars => ResetIsHarmless'
<1> SUFFICES ASSUME IInv, ResetIsHarmless, [Next]_vars, pc' = "idle", AutoSave, ~ahead'
             PROVE  \A k \in Keys :
                      \/ Loaded(Defaults, main')[k] = memory'[k]
                      \/ memory'[k] = Unset /\ Defaults[k] # Unset
  BY DEF ResetIsHarmless, Loaded
<1>1. CASE Boot
  BY <1>1 DEF Boot, files
<1>2. CASE SaveVerify
  <2>1. SaveSucceeds /\ tmp # Torn /\ UNCHANGED memory /\ pc = "verify"
    BY <1>2 DEF SaveVerify
  <2>2. main' = memory' /\ memory' \in Contents
    BY <2>1 DEF SaveSucceeds, IInv, Written, TypeOK
  <2> QED
    BY <2>2, LoadedBack
<1>3. CASE UNCHANGED vars
  BY <1>3 DEF ResetIsHarmless, vars, files, ghosts
<1>4. CASE SaveBackup \/ SaveOpen \/ SaveWrite \/ SaveRevert \/ BootFormats \/ Reset
  BY <1>4 DEF SaveBackup, SaveOpen, SaveWrite, SaveRevert, BootFormats, Reset
<1>5. CASE Commands
  <2>1. CASE CmdSave
    BY <2>1 DEF CmdSave, StartSaves
  <2>2. CASE CmdLoad
    <3>1. pc = "idle" /\ main' = main /\ ~ahead /\ memory' = Loaded(memory, main)
      BY <2>2 DEF CmdLoad, files
    <3>2. ASSUME NEW k \in Keys
          PROVE  \/ Loaded(Defaults, main)[k] = memory'[k]
                 \/ memory'[k] = Unset /\ Defaults[k] # Unset
      <4>1. CASE main \in Contents /\ main[k] # Unset
        <5>1. memory'[k] = main[k] /\ Loaded(Defaults, main)[k] = main[k]
          BY <3>1, <4>1 DEF Loaded
        <5> QED
          BY <5>1
      <4>2. CASE ~(main \in Contents /\ main[k] # Unset)
        <5>1. memory'[k] = memory[k]
          BY <3>1, <4>2 DEF Loaded
        <5> QED
          BY <3>1, <5>1 DEF ResetIsHarmless
      <4> QED
        BY <4>1, <4>2
    <3> QED
      BY <3>1, <3>2
  <2>3. CASE \E k \in Keys : Remove(k) \/ CmdClear(k) \/ \E v \in Values : Put(k, v)
    <3>1. \E n \in {1, 2} : StartSaves(n)
      BY <2>3 DEF Remove, CmdClear, Put
    <3> QED
      BY <3>1 DEF StartSaves
  <2> QED
    BY <1>5, <2>1, <2>2, <2>3 DEF Commands
<1> QED
  BY <1>1, <1>2, <1>3, <1>4, <1>5 DEF Next, Save

\* A reset between commands changes no setting, unless the last save failed, the
\* backup was loaded, or a setting was cleared that has a default.
THEOREM ResetKeepsSettings == Spec => []ResetIsHarmless
<1>1. Init => ResetIsHarmless
  BY DEF Init, ResetIsHarmless
<1> QED
  BY <1>1, HarmlessStep, AlwaysIInv, PTL DEF Spec
=============================================================================
