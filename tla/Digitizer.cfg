SPECIFICATION MCSpec
CONSTANTS
  Cap = 32
  Segment <- SegmentOf32
  EARLY_SEGMENTS_COUNT = 3
  SamplesPerClock = 8
  Discard = 14
  EarlyBits = 3
  LaterBits = 3
  Intervals <- IntervalsSet
  ClientModes = {"contiguous", "long", "short"}
  PretriggerCounts = {8, 9, 80, 208}
  MaxPretrigger <- Documented32
  Locations = {0, 7}
  ConfigWhileActive = FALSE
  DisarmWhileActive = FALSE
  MaxArms = 1
  Recorders = {0, 1}
  GroupSize = 2
  PacketWords = 7
  SamplesPerWord = 2
  WholeSamples = 5
  SegmentSamples = 2
  SegmentCount = 2
  MaxAcquisitions = 2
  FirstItem <- MCFirstItem
  Lines <- MCLines
  Messages <- MCMessages
  WarningRows = 3
  cbufSize = 5
  MaxMessages = 3
  Garbage <- MCGarbage
  MaxTime = 3
INVARIANTS DigitizerTypeOK WholeWaveform TriggerInPlace PacketsAreSound ScreenIsTrue
PROPERTIES RecoveryHolds
CHECK_DEADLOCK FALSE
