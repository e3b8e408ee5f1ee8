SPECIFICATION SigningSpec
CONSTANTS
  MaxSignings = 2
  MaxTroubles = 0
PROPERTIES
  RetiresItsOwn
CHECK_DEADLOCK FALSE
