SPECIFICATION Spec
CONSTANTS
  Axes = {x, y}
  Faults = {}
  MaxFaults = 2
  MaxWrites = 6
  TcTimeout = 2
  Eager = FALSE
  Releases = FALSE
  Careful = TRUE
INVARIANT StepPerPress
CHECK_DEADLOCK FALSE
