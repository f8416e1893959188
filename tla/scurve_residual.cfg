SPECIFICATION Spec
CONSTANTS
  Motions <- OneDegree
  StopLimits <- None
  StopThresh = 4
  MaxSpeed <- SlowMax
PROPERTIES ResidualAligned
