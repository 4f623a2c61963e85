SPECIFICATION Spec
CONSTANTS
  Org = {o1, o2}
  Email = {e1}
  Invite = {i1, i2, i3}
  Request = {r1, r2, r3}
  None = None
SYMMETRY Symmetry
INVARIANTS
  TypeOK
  AcceptedHasMember
  MemberWasInvited
  AcceptedOncePerEmail
  OnePendingUnlessCrossed
