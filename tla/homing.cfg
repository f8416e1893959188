SPECIFICATION Spec
CONSTANTS
  x = x
  y = y
  Axes <- TwoAxes
  Accepts <- TwoAccept
  Faulty <- OneAxis
  Smooth = {TRUE}
INVARIANTS HomingKnown
PROPERTIES HomesTogether
