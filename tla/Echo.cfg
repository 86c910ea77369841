\* The echo loop of main.c; Chunk does not divide RxSize, as 10 does not divide 128.
SPECIFICATION EchoSpec
CONSTANTS
  Channel = 2
  RxSize = 4
  TxSize = 8
  LevelMod = 8
  ReadSizes = {}
  WriteSizes = {}
  Overlap = TRUE
  MaxRx = 4
  MaxTx = 0
  Chunk = 3
  EndOfLine <- Eol
INVARIANTS
  EchoesWhatItReads
CHECK_DEADLOCK FALSE
