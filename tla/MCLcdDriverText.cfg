SPECIFICATION Spec
CONSTANTS
  A = A
  B = B
  Chars = {A, B}
  Blank = blank
  MAX_LINE1_ADD = 2
  MIN_LINE2_ADD = 4
  HORIZONTAL_SIZE = 2
  Glyphs = 1
  Rows = 1
  Strings <- MCText
  Patterns <- None
  Shifts <- NoShifts
INVARIANT ShownAsAsked
PROPERTIES
  ImplementsScreen
  CallReturns
