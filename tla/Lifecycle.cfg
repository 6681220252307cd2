CONSTANTS
  NumCells = 2
  Configured <- ThreeAndOne
  MaxTry = 2
  Receivers = {rx1, rx2}
  Clients = {client}
  HwFramer = FALSE
  Readers = {reader}
SPECIFICATION LifeFairSpec
INVARIANTS
  StartsCovered
  StripExact
  MissingRadios
  OnlyUnjoinedHurt
PROPERTIES
  EndsUnlessLate
