SPECIFICATION Spec
CONSTANTS
  Project = {p1}
  Code = {c1}
  Site = {s1}
  Request = {r1, r2}
  None = None
SYMMETRY Symmetry
PROPERTIES
  ClosedIsTerminal
CHECK_DEADLOCK FALSE
