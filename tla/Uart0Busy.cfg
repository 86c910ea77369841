\* One message on a channel served by UART0_IRQHandler.
SPECIFICATION FairSpec
CONSTANTS
  Channel = 0
  RxSize = 2
  TxSize = 4
  LevelMod = 8
  ReadSizes = {1}
  WriteSizes = {2}
  Overlap = FALSE
  MaxRx = 0
  MaxTx = 2
PROPERTIES
  TransmitterRests
CHECK_DEADLOCK FALSE
