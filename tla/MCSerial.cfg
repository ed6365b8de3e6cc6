SPECIFICATION Spec
CONSTANTS
  Chars = {a, b}
  NoChar = none
  Writers = {w1, w2, w3}
  uxQueueLength = 2
INVARIANTS
  TypeOK
  BusyIsTrue
  IdleIsTrue
  NoWriterForgotten
PROPERTIES
  ImplementsChannel
  WriterReturns
