SPECIFICATION FairSpec
CONSTANTS
  Sizes = {2, 5}
  PassCounts = {0, 2}
  MinSize = 2
  DefaultSize = 4
  DefaultPasses = 2
  SamplesPerWord = 2
  Chunk = 2
  Tags = 2
INVARIANTS ReadoutIsSound
PROPERTIES AcquisitionCompletes RecorderIsRearmed
CHECK_DEADLOCK FALSE
