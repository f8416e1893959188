SPECIFICATION Spec
\* The low 16 bits of the limit 70000 are 4464.
CONSTANTS
  Coupled = {x, y}
  First = x
  Aux = {u}
  NoAxis = none
  Rpms = {100, 5000}
  Limits = {30000, 70000}
PROPERTIES OnlyWhatIsWritten MirrorTaken
