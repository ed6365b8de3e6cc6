SPECIFICATION PinsSpec
CONSTANTS
  Commands = {1, 2, 8, 24, 128}
  Data = {65}
  SlowTime = 29
INVARIANTS
  PinsTypeOK
  InStep
  NoContention
PROPERTIES
  CommandsArrive
  SetUpComplete
  NotWrittenWhileBusy
  FailsOnlyIfCut
  AddressSettled
  ImplementsBus
