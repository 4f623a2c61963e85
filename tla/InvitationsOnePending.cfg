SPECIFICATION Spec
CONSTANTS
  Org = {o1}
  Email = {e1}
  Invite = {i1, i2}
  Request = {r1, r2}
  None = None
SYMMETRY Symmetry
INVARIANTS
  OnePendingInvitation
