SPECIFICATION Spec
CONSTANTS
  Worker = {w1, w2}
  Code = {c1, c2}
  Doc = {d1}
  Content = {x1, x2}
  User = {u1, u2}
  Request = {r1, r2, r3}
  None = None
SYMMETRY Symmetry
INVARIANTS
  TypeOK
  EmployeeCodesUnique
PROPERTIES
  VerifiedOnce
  SeenHoldsAtCommit
  AddedToLiveWorker
  ImplementsLedger
CHECK_DEADLOCK FALSE
