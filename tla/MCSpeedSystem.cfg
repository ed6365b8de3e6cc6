SPECIFICATION Spec
CONSTANTS
  timeStoreLength = 2
  LCDQLength = 2
  HORIZONTAL_SIZE = 3
  MaxRotations = 4
INVARIANTS
  TypeOK
  LCDQHoldsOne
  LinesTogether
PROPERTY WritesEveryRotation
