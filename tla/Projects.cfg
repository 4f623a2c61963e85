SPECIFICATION Spec
CONSTANTS
  Project = {p1, p2}
  Code = {c1, c2}
  Site = {s1, s2}
  Request = {r1, r2}
  None = None
SYMMETRY Symmetry
INVARIANTS
  TypeOK
  CodesUnique
  ClosedHasEndDate
PROPERTIES
  DraftOnlyActivates
  GuardHoldsAtCommit
  ImplementsLedger
CHECK_DEADLOCK FALSE
