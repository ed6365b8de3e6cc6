SPECIFICATION Spec
CONSTANTS
  A = A
  B = B
  Chars = {A, B}
  Blank = blank
  MAX_LINE1_ADD = 2
  MIN_LINE2_ADD = 4
  HORIZONTAL_SIZE = 2
  Glyphs = 2
  Rows = 2
  Strings <- None
  Patterns <- MCPatterns
  Shifts <- MCShifts
INVARIANTS
  TypeOK
  PositionTracked
  VisualOffByOne
PROPERTY ImplementsScreen
