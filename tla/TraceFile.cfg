CONSTANTS
  Datasets = {pilot, ul}
  Inc = 4
  Step = 2
  Limits = {0, 2, 7}
  MaxGap = 2
  LastFrame = 9
SPECIFICATION FileSpec
INVARIANTS FaultsExplained
PROPERTIES FileIsTheRun
