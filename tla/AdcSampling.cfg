\* Three channels, buffers of three: each buffer fills and wraps twice; the arrays
\* touch or do not.
SPECIFICATION Spec
CONSTANTS
  MaxLen = 3
  Channels = 3
  Gaps = {0, 1}
  MaxSamples = 27
INVARIANTS
  TypeOK
  HoldsTheLatest
  AverageIsRecent
  StoredUnderItsChannel
  EntriesTakeTurns
CHECK_DEADLOCK FALSE
