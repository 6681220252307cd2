CONSTANTS
  NumCells = 1
  Agg <- OneCell
  NumThreads = 2
  NumCh = 1
  Chunk = 2
  NumRecorders = 2
  Bulk = 2
  SlotPerFrame = 2
  RxSlots <- SwSlots
  TxSlot <- SwTx
  HwFramer = FALSE
  DlPresent = FALSE
  TxFrameDelta = 1
  MaxFrame = 2
SPECIFICATION FairSpec
INVARIANTS Ownership DiesOfBacklog ShutdownDrains
PROPERTIES NoOverwrite Terminates
