SPECIFICATION DelaysSpec
CONSTANTS
  TicksPerMinute = 8
  Delays <- MCDelays
  MaxLag = 2
INVARIANTS
  DelaysTypeOK
  DelayShortOnlyIfStale
PROPERTIES
  DelayReturnsOnceWheelStops
  CutOnlyByOldMatch
  MatchLostOnlyToCapture
