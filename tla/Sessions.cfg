SPECIFICATION Spec
CONSTANTS
  User = {u1}
  Token = {t1, t2, t3}
  Request = {r1, r2}
  Worker = {w1}
  None = None
SYMMETRY Symmetry
INVARIANTS
  TypeOK
  RotationExclusive
  NoSessionWhenInactive
PROPERTIES
  BulkDeleteComplete
  ImplementsStore
