SPECIFICATION Spec
CONSTANTS
  Axes = {x, y}
  Unreliable = {y}
  MaxResets = 2
INVARIANTS ResetRemembered
PROPERTIES EnabledInPlace ResetCompletes
