SPECIFICATION SensorSpec
CONSTANTS
  None = None
  Words = {3, 300}
  Coefficients <- SmallCoefficients
  Conversions <- SmallConversions
INVARIANTS
  TransfersAreTrue
  RepliesInPlace
  Accurate
PROPERTY KeepsMeasuring
CHECK_DEADLOCK FALSE
