\* Two channels, a weight of three, inputs that are further apart than the weight
\* or not and change three times.
SPECIFICATION Spec
CONSTANTS
  Weight = 3
  Channels = 2
  MaxValue = 13
  Levels = {0, 2, 5, 13}
  MaxChanges = 3
PROPERTIES
  MovesTowards
  ReadingsSettle
