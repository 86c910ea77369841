\* Both sides, the client starting a transmission only when the last one is
\* over: it offers more than the ring takes, and the indices wrap.
SPECIFICATION FairSpec
CONSTANTS
  Channel = 2
  RxSize = 2
  TxSize = 4
  LevelMod = 8
  ReadSizes = {1}
  WriteSizes = {1, 5}
  Overlap = FALSE
  MaxRx = 1
  MaxTx = 6
INVARIANTS
  RestMeansDone
PROPERTIES
  TxIsFifo
  AcceptedIsSent
  TransmitterRests
  MainReturns
  EveryStepCounts
CHECK_DEADLOCK FALSE
