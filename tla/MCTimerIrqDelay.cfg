SPECIFICATION IrqSpec
CONSTANTS
  TicksPerMinute = 8
  Delays <- MCDelays
  MaxLag = 2
PROPERTY DelayAlwaysReturns
