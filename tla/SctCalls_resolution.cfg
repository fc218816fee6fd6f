SPECIFICATION Spec
CONSTANTS
  W = 64
  MaxCalls = 3
INVARIANT ResolutionIsSet
CHECK_DEADLOCK FALSE
