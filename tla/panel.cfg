SPECIFICATION Spec
CONSTANTS
  Axes = {x, y}
  Faults = {"lost", "damaged", "tclost", "dmaerror"}
  MaxFaults = 2
  MaxWrites = 6
  TcTimeout = 2
  Eager = FALSE
  Releases = TRUE
  Careful = TRUE
INVARIANTS TypeOK JogFollowsButton StepPerPress
PROPERTY WritesObeyed
CHECK_DEADLOCK FALSE
