CONSTANTS
  Radios = {1, 2, 3, 4}
  Labs <- SomeLabs
  MaxTry = 2
  Frames = 2
  MaxCalls = 2
  Gains <- TwoGains
  PilotRounds = 3
  CalTx = 5
  MaxDelay = 2
  MaxRetries = 1
  BufferSamps = 3
  CalRounds = 6
  FreeRounds = 3
  Buffer = 8192
  Payload = 1600
  Peaks <- SomePeaks
  AvgLen = 2
SPECIFICATION Spec
INVARIANTS
  GoodFramesHeard
  KeptInPlace
  Calibrated
  QuietWhenOver
  InStep
  DecodedWhole
CHECK_DEADLOCK FALSE
