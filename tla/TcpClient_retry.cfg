\* Two leaves over WiFi, one fault.
SPECIFICATION FairSpec
CONSTANTS
  Leaves = {a, b}
  NoLeaf = NoLeaf
  Slots = 3
  Reconnect = TRUE
  Kinds = {"wifi"}
  Faults = 1
  Commands = 0
PROPERTY RetriesUntilConnected
