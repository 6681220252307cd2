CONSTANTS
  NumCells = 2
  Agg <- TwoCells
  NumThreads = 1
  NumCh = 2
  Chunk = 4
  NumRecorders = 1
  Bulk = 2
  SlotPerFrame = 3
  RxSlots <- HwSlots
  TxSlot <- HwTx
  HwFramer = TRUE
  DlPresent = TRUE
  TxFrameDelta = 1
  MaxFrame = 1
SPECIFICATION Spec
INVARIANTS EventMatchesBuffer
PROPERTIES TakenOnce
