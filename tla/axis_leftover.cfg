SPECIFICATION Spec
CONSTANTS
  x = x
  y = y
  Axes <- OneAxis
  Accepts <- OneAccepts
  Faulty <- OneAxis
  Smooth = {TRUE, FALSE}
INVARIANTS JogsOnlyWhenAsked
