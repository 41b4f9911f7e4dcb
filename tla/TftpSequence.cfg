SPECIFICATION FairSpec
CONSTANTS
  Transfers = 2
  Kinds = {"get", "put", "bad"}
  FileBlocks = 4
  BlockMod = 3
  MaxInFlight = 3
  Reordering = FALSE
  MaxFailures = 0
  GivesUp = TRUE
PROPERTIES PutsAreKept GetCompletes
CHECK_DEADLOCK FALSE
