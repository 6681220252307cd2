CONSTANTS
  MaxGain = 64
  Table <- CodeTable
  Knee = 61
  Unit = 4
  Samples = 20
  SampThresh = 16
  NumAbove = 3
  MaxSat = 3
  MaxFine = 3
  Drops <- SatDrops
  Target <- Target15
  SatThresh <- SatThresh6
  Floor <- Floor99
  Ceiling = 37
  Frames = 3
  Levels <- WeakToLoud
  Noise <- NoiseLevel
  StartGains <- FirstGains
SPECIFICATION Spec
INVARIANTS
  GainTableFits
  LeftOverExplained
  Settles
CHECK_DEADLOCK FALSE
