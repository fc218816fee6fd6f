SPECIFICATION Spec
CONSTANTS
  Rates = {600}
  Clocks = {1000}
  Garbage = {0}
  ButtonTests = {}
INVARIANTS
  TestsPass
CHECK_DEADLOCK FALSE
