SPECIFICATION Spec
CONSTANTS
  Transfers = 2
  Kinds = {"put", "bad"}
  FileBlocks = 3
  BlockMod = 8
  MaxInFlight = 2
  Reordering = TRUE
  MaxFailures = 1
  GivesUp = TRUE
INVARIANTS StoredOnce
CHECK_DEADLOCK FALSE
