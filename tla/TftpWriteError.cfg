SPECIFICATION Spec
CONSTANTS
  Transfers = 1
  Kinds = {"put"}
  FileBlocks = 2
  BlockMod = 3
  MaxInFlight = 2
  Reordering = FALSE
  MaxFailures = 1
  GivesUp = FALSE
PROPERTY
  PutIsStored
CHECK_DEADLOCK FALSE
