\* A ring of four through which five bytes go, a transmit ring of four that is
\* offered more than it takes, two bytes put, a client that polls or takes
\* interrupts.  The system stops when it is closed.
SPECIFICATION Spec
CONSTANTS
  RxSize = 4
  TxSize = 4
  ReadSizes = {2}
  WriteSizes = {0, 2}
  LevelMod = 8
  Mix = FALSE
  MaxRx = 5
  MaxTx = 5
  MaxPut = 2
INVARIANTS
  LevelIsSafe
  NobodyIsStuck
PROPERTIES
  RxIsFifo
  RxDropsOnlyWhenFull
  PutIsFifo
  HandlerReturns
CHECK_DEADLOCK FALSE
