SPECIFICATION Spec
CONSTANTS
  Half = 5
  Stalls = 3
  Ms = 2
  Rates = {715, 1000, 1400, 1666}
  Clocks = {985, 1000, 1015}
  Garbage = {0, 3, 4, 255}
  ButtonTests = {0, 1, 2, 3, 4, 5}
  Pins = {0, 1}
  QUEUESIZE = 3
  MaxChars = 8
  NoChar = NoChar
INVARIANTS
  TestsPass
  WakesAsPromised
  LedAsPromised
  ModesAsTold
  Conserved
  Armed
PROPERTIES
  PhasesComplete
  EchoesInOrder
  Drains
  GoesOn
CHECK_DEADLOCK FALSE
