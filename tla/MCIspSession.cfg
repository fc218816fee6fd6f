SPECIFICATION FairSpec
CONSTANTS
  Retry = 4
  LineLimit = 4
  MaxFaults = 4
  Starts <- AnyStart
INVARIANTS
  TypeOK
  Lockstep
PROPERTIES
  SessionEnds
  RetryHelps
CHECK_DEADLOCK FALSE
