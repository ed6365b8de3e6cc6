SPECIFICATION Spec
CONSTANTS
  TicksPerMinute = 6
  Word = 9
  Delays <- MCDelays
  MaxLag = 2
  TooSmallTickDiff = 1
  timeStoreLength = 2
  MaxMinutes = 2
INVARIANTS
  TypeOK
  MinuteCountNeverAhead
  StampNeverLate
  StoredInOrderAndSpaced
PROPERTY HandsOverInOrder
