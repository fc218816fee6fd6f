SPECIFICATION Spec
CONSTANTS
  W = 4
  Period = 6
  Steps = 3
  Shorter = 2
  ServoPeriod = 9
  Width0 = 2
  Width1 = 4
  LadderSteps = 3
  Voltages = {0, 2, 3}
  PCLK = 24
  freq <- Tones
  Last <- Limits
  Pre <- Scales
INVARIANT OutputsAsPromised
PROPERTIES
  Durations
  GoesOn
CHECK_DEADLOCK FALSE
