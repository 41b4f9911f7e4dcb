SPECIFICATION FairSpec
CONSTANTS
  Cap = 16
  Segment <- SegmentOf16
  EARLY_SEGMENTS_COUNT = 2
  SamplesPerClock = 8
  Discard = 14
  EarlyBits = 3
  LaterBits = 3
  Intervals <- IntervalsSet
  ClientModes = {"short"}
  PretriggerCounts = {}
  MaxPretrigger <- ShortOnly16
  Locations = {}
  ConfigWhileActive = FALSE
  DisarmWhileActive = TRUE
  MaxArms = 2
INVARIANTS
  WholeWaveform
PROPERTY
  AcquisitionCompletes
CHECK_DEADLOCK FALSE
