CONSTANTS
  Slot = 4
  Slots = 4
  Prefix = 2
  Beacon = 1
  Window = 9
  Continuous = TRUE
  Period = 3
  RetryMax = 1
  MaxSlip = 3
SPECIFICATION FairSpec
INVARIANTS ReadsAligned NoUnexpectedAlignment TxAlignedButCarried
PROPERTIES SearchesEnd
CHECK_DEADLOCK FALSE
