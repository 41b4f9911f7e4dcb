CONSTANTS
  Targets = {"zcu111", "zcu208"}
  Device <- MCDevice
  Pages = {0, 1}
  lmx2594MuxSel <- MCMuxSel
  Tables = {"A", "B"}
  Lacking = {"B"}
  RegistersRead = 2
  Supplies <- MCSupplies
  Controllers <- MCControllers
  Offsets <- MCOffsets
  MaxFaults = 1
  ChannelCount = 2
  Gains = {0}
  DacValues = {70000}
  Levels = {1}
  FileChunks = {2, 16, 17}
  FeMaxFaults = 1
  Oldest = 2
  Events = {10, 122, 125}
  MaxSeconds = 3
  Fractions = 3
  MaxLosses = 1
  MaxSyncFaults = 2
  MaxCycles = 4
  Torn = Torn
  Width = 4
  StartSeconds = {10}
  MaxDisturbances = 2
SPECIFICATION MCSpec
INVARIANTS AccessesReach StatusPinShowsLock AdjustedFromFactory CalibrationIsCurrent ChunksInPlace AlignedInStep TimeWasReal EventActionsStand SecondsAreTrue
PROPERTIES GainKeepsTheRest TimeGoesForward MCProgress
