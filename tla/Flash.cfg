\* Two sectors of two longwords, three calls of anything and one reset, with the
\* upper sector protected or not.  The system stops when the calls are used up.
SPECIFICATION Spec
CONSTANTS
  Sectors = 2
  SectorSize = 2
  Protections <- MCProtections
  Contents <- MCContents
  Addresses = {0, 2, 4, 8, 12}
  Payloads <- MCPayloads
  Counts = {0, 1, 3}
  Clocks = {16000000, 500000}
  Indexes = {0, 8}
  Levels = {2, 3}
  MaxCalls = 3
  MaxResets = 1
INVARIANTS
  TypeOK
  SuccessIsDone
  FailuresEndTheCall
  NoLaunchIsLost
  ProgramsInOrder
PROPERTIES
  DriverIsStore
  CallsReturn
CHECK_DEADLOCK FALSE
