SPECIFICATION Spec
CONSTANTS
  tick_Hz = 1
  Word = 73
  StartWord = 8
  TooSmallTickDiff = 1
  Captures <- MCCaptures
  MaxMinutes = 4
INVARIANTS
  TypeOK
  SumErrorExact
  DividesByZeroOnlyIfLost
PROPERTY KeepsLastRotations
