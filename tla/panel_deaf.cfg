SPECIFICATION Spec
CONSTANTS
  Axes = {x, y}
  Faults = {"dmaerror"}
  MaxFaults = 2
  MaxWrites = 6
  TcTimeout = 2
  Eager = FALSE
  Releases = TRUE
  Careful = TRUE
PROPERTY AlwaysAnswered
CHECK_DEADLOCK FALSE
