----------------------------- MODULE Preferences -----------------------------
(***************************************************************************)
(* Saved preferences: StorageLeaf (src/abstract_storage.h) as specialised  *)
(* by FSPreferencesLeaf (src/leaf_fs_preferences.h).                       *)
(*                                                                         *)
(* All settings are kept in memory and written to flash together, as one   *)
(* JSON file.  A save renames the file to .bak, writes .tmp, checks its    *)
(* size and renames it into place; every call of the file system may fail, *)
(* and the device may be reset between any two of them.                    *)
(*                                                                         *)
(* Abstractions: the content of a file is the function from keys to values *)
(* it was written from, or Torn when it is not all there.  The file system *)
(* (LittleFS, external) replaces the target of a rename and survives a     *)
(* reset; one task saves at a time.  Faults bounds resets and failing      *)
(* calls, Edits the commands that change something, in one behaviour.      *)
(***************************************************************************)
EXTENDS Naturals

CONSTANTS
  Keys,             \* names of preferences
  Values,           \* their values
  Unset,            \* stands for the value of a preference not stored
  Defaults,         \* settings given to the constructor
  AutoSave,         \* auto_save
  Nothing, Torn,    \* what a file that is missing, or incomplete, contains
  Faults, Edits     \* bounds

Contents == [Keys -> Values \cup {Unset}]

ASSUME PreferencesAssumption ==
  /\ Unset \notin Values
  /\ Defaults \in Contents
  /\ Nothing \notin Contents /\ Torn \notin Contents /\ Nothing # Torn
  /\ AutoSave \in BOOLEAN
  /\ Faults \in Nat /\ Edits \in Nat

VARIABLES
  memory,           \* values
  main, bak, tmp,   \* prefs_file, with .bak and with .tmp appended
  pc,               \* how far save() has come
  saves,            \* calls of save() not yet completed
  saved,            \* history: what the last successful save wrote
  ahead,            \* history: since the last boot and the last successful save
                    \* a save failed, or the backup was loaded into memory
  cut,              \* history: a save since then left the file missing
  no_backup,        \* history: a save since then could not make its backup
  faults, edits     \* faults and edits left

files  == <<main, bak, tmp>>
ghosts == <<saved, ahead, cut, no_backup>>
vars == <<memory, files, pc, saves, ghosts, faults, edits>>

\* Only the temporary file is ever incomplete.
TypeOK ==
  /\ memory \in Contents
  /\ main \in Contents \cup {Nothing} /\ bak \in Contents \cup {Nothing}
  /\ tmp \in Contents \cup {Nothing, Torn}
  /\ pc \in {"idle", "backup", "open", "write", "verify", "revert", "boot"}
  /\ saves \in 0..2
  /\ saved \in Contents \cup {Nothing}
  /\ ahead \in BOOLEAN /\ cut \in BOOLEAN /\ no_backup \in BOOLEAN
  /\ faults \in 0..Faults /\ edits \in 0..Edits

\* A device that has never saved anything boots.
Init ==
  /\ memory = Defaults
  /\ main = Nothing /\ bak = Nothing /\ tmp = Nothing
  /\ pc = "boot" /\ saves = 0
  /\ saved = Nothing /\ ahead = FALSE /\ cut = FALSE /\ no_backup = FALSE
  /\ faults = Faults /\ edits = Edits

Fault == faults > 0 /\ faults' = faults - 1
Edit  == edits > 0 /\ edits' = edits - 1

-----------------------------------------------------------------------------
(* save().                                                                 *)

StartSaves(n) == saves' = n /\ pc' = IF n = 0 THEN "idle" ELSE "backup"
SaveReturns == saves' = saves - 1 /\ pc' = IF saves = 1 THEN "idle" ELSE "backup"

\* Mutant: the old file is removed instead of renamed.
SaveBackupRemoves ==
  /\ pc = "backup" /\ pc' = "open"
  /\ main' = Nothing /\ UNCHANGED <<bak, no_backup, faults>>
  /\ UNCHANGED <<memory, tmp, saves, saved, ahead, cut, edits>>

\* rename(name, bak); if that fails the save goes on without a backup.
SaveBackup ==
  /\ pc = "backup" /\ pc' = "open"
  /\ \/ main = Nothing /\ UNCHANGED <<main, bak, no_backup, faults>>
     \/ /\ main # Nothing
        /\ bak' = main /\ main' = Nothing /\ UNCHANGED <<no_backup, faults>>
     \/ main # Nothing /\ Fault /\ no_backup' = TRUE /\ UNCHANGED <<main, bak>>
  /\ UNCHANGED <<memory, tmp, saves, saved, ahead, cut, edits>>

\* open(temp, "w"); on failure save() returns at once.
SaveOpen ==
  /\ pc = "open"
  /\ \/ /\ tmp' \in {tmp, Torn} /\ pc' = "write"
        /\ UNCHANGED <<saves, ahead, cut, faults>>
     \/ /\ Fault /\ SaveReturns /\ ahead' = TRUE /\ cut' = TRUE
        /\ UNCHANGED tmp
  /\ UNCHANGED <<memory, main, bak, saved, no_backup, edits>>

\* serializeJsonPretty and close.
SaveWrite ==
  /\ pc = "write" /\ pc' = "verify"
  /\ \/ tmp' = memory /\ UNCHANGED faults
     \/ tmp' = Torn /\ Fault
  /\ UNCHANGED <<memory, main, bak, saves, ghosts, edits>>

SaveSucceeds ==
  /\ main' = tmp /\ tmp' = Nothing
  /\ saved' = memory /\ ahead' = FALSE /\ cut' = FALSE /\ no_backup' = FALSE
  /\ SaveReturns

\* Mutant: the size of the file is not looked at.
SaveVerifyBlind ==
  /\ pc = "verify"
  /\ \/ tmp # Nothing /\ SaveSucceeds /\ UNCHANGED faults
     \/ /\ tmp = Torn /\ pc' = "revert"
        /\ UNCHANGED <<main, tmp, saves, ghosts, faults>>
     \/ /\ tmp # Torn /\ Fault /\ pc' = "revert"
        /\ UNCHANGED <<main, tmp, saves, ghosts>>
  /\ UNCHANGED <<memory, bak, edits>>

\* Reopen, compare the size with the one expected, rename into place; any of
\* them may fail.
SaveVerify ==
  /\ pc = "verify"
  /\ \/ tmp # Torn /\ SaveSucceeds /\ UNCHANGED faults
     \/ /\ tmp = Torn /\ pc' = "revert"
        /\ UNCHANGED <<main, tmp, saves, ghosts, faults>>
     \/ /\ tmp # Torn /\ Fault /\ pc' = "revert"
        /\ UNCHANGED <<main, tmp, saves, ghosts>>
  /\ UNCHANGED <<memory, bak, edits>>

\* Mutant: a save that failed leaves the backup where it is.
SaveRevertForgets ==
  /\ pc = "revert"
  /\ SaveReturns /\ ahead' = TRUE
  /\ UNCHANGED <<memory, files, saved, cut, no_backup, faults, edits>>

\* PREFERENCE SAVE FAILED, REVERTING TO BACKUP: rename(bak, name).
SaveRevert ==
  /\ pc = "revert"
  /\ SaveReturns /\ ahead' = TRUE
  /\ \/ /\ bak # Nothing
        /\ main' = bak /\ bak' = Nothing /\ UNCHANGED <<cut, faults>>
     \/ bak = Nothing /\ UNCHANGED <<main, bak, cut, faults>>
     \/ bak # Nothing /\ Fault /\ cut' = TRUE /\ UNCHANGED <<main, bak>>
  /\ UNCHANGED <<memory, tmp, saved, no_backup, edits>>

-----------------------------------------------------------------------------
(* load(), and the boot that calls it.                                     *)

\* Every value in the file is put into memory, the others stay.
Loaded(values, file) ==
  IF file \in Contents
  THEN [k \in Keys |-> IF file[k] # Unset THEN file[k] ELSE values[k]]
  ELSE values

\* setup(): the constructor's defaults, then load().
Boot ==
  /\ pc = "boot" /\ pc' = "idle"
  /\ memory' = Loaded(Defaults, main) /\ ahead' = FALSE
  /\ UNCHANGED <<files, saves, saved, cut, no_backup, faults, edits>>

\* LittleFS.begin() fails: format, and boot again.
BootFormats ==
  /\ pc = "boot" /\ Fault
  /\ main' = Nothing /\ bak' = Nothing /\ tmp' = Nothing
  /\ saved' = Nothing /\ ahead' = FALSE /\ cut' = FALSE /\ no_backup' = FALSE
  /\ UNCHANGED <<memory, pc, saves, edits>>

\* A reset, at any moment.
Reset ==
  /\ pc # "boot" /\ Fault
  /\ pc' = "boot" /\ saves' = 0 /\ memory' = Defaults
  /\ cut' = (cut \/ (main = Nothing /\ saved # Nothing))
  /\ UNCHANGED <<files, saved, ahead, no_backup, edits>>

-----------------------------------------------------------------------------
(* Commands.                                                               *)

\* put: set/pref, and setValue of any leaf.
Put(k, v) ==
  /\ pc = "idle" /\ Edit
  /\ memory[k] # v
  /\ memory' = [memory EXCEPT ![k] = v]
  /\ StartSaves(IF AutoSave THEN 1 ELSE 0)
  /\ UNCHANGED <<files, ghosts, faults>>

\* Mutant: a removal is not saved.
RemoveNotSaved(k) ==
  /\ pc = "idle" /\ Edit
  /\ memory' = [memory EXCEPT ![k] = Unset]
  /\ UNCHANGED <<files, pc, saves, ghosts, faults>>

\* remove: set/pref with an empty payload.
Remove(k) ==
  /\ pc = "idle" /\ Edit
  /\ memory' = [memory EXCEPT ![k] = Unset]
  /\ StartSaves(IF AutoSave THEN 1 ELSE 0)
  /\ UNCHANGED <<files, ghosts, faults>>

\* clear: remove, then save once more.
CmdClear(k) ==
  /\ pc = "idle" /\ Edit
  /\ memory' = [memory EXCEPT ![k] = Unset]
  /\ StartSaves(IF AutoSave THEN 2 ELSE 1)
  /\ UNCHANGED <<files, ghosts, faults>>

CmdSave ==
  /\ pc = "idle"
  /\ StartSaves(1)
  /\ UNCHANGED <<memory, files, ghosts, faults, edits>>

\* load, of the file or of its backup.
CmdLoad ==
  /\ pc = "idle" /\ Edit
  /\ \/ memory' = Loaded(memory, main) /\ UNCHANGED ahead
     \/ memory' = Loaded(memory, bak) /\ ahead' = TRUE
  /\ UNCHANGED <<files, pc, saves, saved, cut, no_backup, faults>>
-----------------------------------------------------------------------------
Save == SaveBackup \/ SaveOpen \/ SaveWrite \/ SaveVerify \/ SaveRevert

Commands ==
  \/ \E k \in Keys : Remove(k) \/ CmdClear(k) \/ \E v \in Values : Put(k, v)
  \/ CmdSave \/ CmdLoad

Next == Save \/ Boot \/ BootFormats \/ Reset \/ Commands

Spec == Init /\ [][Next]_vars
-----------------------------------------------------------------------------
(* Properties.                                                             *)

\* What the last successful save wrote is on flash, in the file or in its
\* backup, whatever has failed and however often the device was reset since;
\* unless a save went on without its backup.
LastSaveKept ==
  saved # Nothing /\ ~no_backup => saved \in {main, bak}

\* Between saves the file is the one last saved: a save that fails leaves
\* what was there, unless it could not open .tmp, or a reset or a second
\* failure kept it from putting the backup back.
FailedSaveReverts ==
  pc \in {"idle", "boot"} /\ ~cut /\ ~no_backup => main = saved

\* With auto_save a reset between commands changes no setting: every command
\* that changes memory has brought the change to flash before it returns.  There
\* are three exceptions: the last save failed; the backup was loaded, which is
\* not saved; a setting that was cleared comes back if the constructor has a
\* default for it.
ResetIsHarmless ==
  pc = "idle" /\ AutoSave /\ ~ahead =>
    \A k \in Keys :
      \/ Loaded(Defaults, main)[k] = memory[k]
      \/ memory[k] = Unset /\ Defaults[k] # Unset
=============================================================================
