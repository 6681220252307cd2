CONSTANTS
  Network <- ThreeIrises
  Frontend <- TwoBoards
  Lowest <- LowestGain
  Highest <- HighestGain
  Step = 2
  Commands <- CommandLines
SPECIFICATION HealthSpec
INVARIANTS
  OneVerdictEach
  PlotsOwnRows
CHECK_DEADLOCK FALSE
