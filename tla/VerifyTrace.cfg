CONSTANTS
  Traces <- Recorded
  Options <- CommandLines
  ChunkSize = 2
  SlotLen = 12
  Prefix = 1
  Postfix = 1
  DownOffset = 2
  UpOffset = 1
SPECIFICATION Spec
INVARIANTS
  EveryFrameEstimated
  ComparedWithSent
  OneFrameShown
  StopsOnlyFor
CHECK_DEADLOCK FALSE
