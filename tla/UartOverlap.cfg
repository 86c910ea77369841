\* The client writes while a transmission is going on, as main.c does.
SPECIFICATION Spec
CONSTANTS
  Channel = 2
  RxSize = 2
  TxSize = 4
  LevelMod = 8
  ReadSizes = {1}
  WriteSizes = {1, 3}
  Overlap = TRUE
  MaxRx = 0
  MaxTx = 4
INVARIANTS
  TxInOrder
CHECK_DEADLOCK FALSE
