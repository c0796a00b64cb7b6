\* Two leaves, three slots; with both leaves stopped nothing more happens.
SPECIFICATION FairSpec
CONSTANTS
  Leaves = {a, b}
  NoLeaf = NoLeaf
  Slots = 3
  Reconnect = TRUE
  Kinds = {"wifi", "modem"}
  Faults = 1
  Commands = 2
INVARIANTS TypeOK SessionIsClient NoSlotLost
PROPERTY OnlineInTheEnd
CHECK_DEADLOCK FALSE
