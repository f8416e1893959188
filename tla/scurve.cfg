SPECIFICATION Spec
CONSTANTS
  Motions <- LinearMotions
  StopLimits <- StopSettings
  StopThresh = 4
  MaxSpeed <- SlowMax
INVARIANT StopLands
PROPERTIES StepIncrement DecelOnly Residual Finishes
