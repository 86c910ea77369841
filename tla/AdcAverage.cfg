\* The average of a full buffer against the interrupt.
SPECIFICATION Spec
CONSTANTS
  MaxLen = 3
  Channels = 2
  Gaps = {1}
  MaxSamples = 20
INVARIANTS
  AverageHasElements
CHECK_DEADLOCK FALSE
