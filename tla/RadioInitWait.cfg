CONSTANTS
  NumCells = 1
  Configured <- ThreeRadios
  MaxTry = 2
SPECIFICATION FairSpec
PROPERTIES
  WaitEnds
