\* main.c with two resets at any moments over every first content; it stops in
\* one of its two loops.
SPECIFICATION DemoSpec
CONSTANTS
  Sectors = 2
  SectorSize = 4
  Protections <- MCProtections
  Contents <- MCContents
  Addresses = {16}
  Payloads <- MCPayloads
  Counts = {}
  Clocks = {16000000}
  Indexes = {}
  Levels = {}
  MaxCalls = 9
  MaxResets = 2
  StartWriteAddress = 16
  Payload <- MCPayload
INVARIANTS
  TextIsStored
  StuckMeansRefused
PROPERTIES
  MainSettles
CHECK_DEADLOCK FALSE
