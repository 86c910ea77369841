\* The receive side alone: the indices go once and a half round the ring while
\* the client reads two at a time at any moment.
SPECIFICATION FairSpec
CONSTANTS
  Channel = 2
  RxSize = 4
  TxSize = 2
  LevelMod = 8
  ReadSizes = {2}
  WriteSizes = {0}
  Overlap = FALSE
  MaxRx = 6
  MaxTx = 0
INVARIANTS
  TypeOK
  RxRingHoldsTheRest
  LevelMissesNothing
PROPERTIES
  RxIsFifo
  RxDropsOnlyWhenFull
  ReceiverIsServed
CHECK_DEADLOCK FALSE
