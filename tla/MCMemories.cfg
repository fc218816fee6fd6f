SPECIFICATION Spec
CONSTANTS
  ROM_SIZE = 8
  PAGE_SIZE = 2
  BufSize = 7
  Bytes = 5
  None = None
  High = 4
  Refusals = 1
  Losses = 1
  Blocks = 4
  MaxResets = 2
  MaxWear = 1
INVARIANTS
  Stored
  Passes
PROPERTY GoesOn
CHECK_DEADLOCK FALSE
