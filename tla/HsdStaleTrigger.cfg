SPECIFICATION Spec
CONSTANTS
  Cap = 16
  Segment <- SegmentOf16
  EARLY_SEGMENTS_COUNT = 2
  SamplesPerClock = 8
  Discard = 14
  EarlyBits = 3
  LaterBits = 3
  Intervals <- IntervalsSet
  ClientModes = {}
  PretriggerCounts = {}
  MaxPretrigger <- ContiguousOnly16
  Locations = {}
  ConfigWhileActive = FALSE
  DisarmWhileActive = TRUE
  MaxArms = 2
INVARIANT
  TriggerInPlace
CHECK_DEADLOCK FALSE
