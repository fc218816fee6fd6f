SPECIFICATION LibrarySpec
CONSTANTS
  FRACTION = 8
  MaxDiv = 7
  OVERSAMPLE = 2
  BrgSize = 4
  IntMax = 127
  MainClocks = {1, 2, 5, 12, 24, 30, 47}
  Rates = {1, 3, 4, 5, 7, 11, 12, 16}
  Bauds = {1, 2, 3, 5}
  Ms = {0, 2, 32}
  Ps = {2, 3, 4}
  Divs <- SomeDivs
  Pin = {1, 2, 4}
  Movable = {"TXD", "RXD"}
  Iocon = {"pull", "float"}
  ResetIocon = "pull"
  NoPin = 255
  W = 64
  MaxCalls = 3
INVARIANTS
  ClockIsClose
  NeverSlow
  HasClock
  NoConflict
  AsConfigured
  CallsTakeEffect
PROPERTY HalvesApart
CHECK_DEADLOCK FALSE
