SPECIFICATION Spec
CONSTANTS
  Axes = {x, y}
  Unreliable = {y}
  MaxResets = 2
PROPERTIES StartedInPlace
