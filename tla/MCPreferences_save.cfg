SPECIFICATION Spec
CONSTANTS
  Keys <- MCKeys
  Values = {1, 2}
  Unset = Unset
  Defaults <- MCDefaults
  AutoSave = TRUE
  Nothing = Nothing
  Torn = Torn
  Faults = 3
  Edits = 3
INVARIANTS TypeOK LastSaveKept FailedSaveReverts ResetIsHarmless
