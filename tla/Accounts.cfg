SPECIFICATION Spec
CONSTANTS
  Org = {o1, o2}
  Slug = {a, b}
  Gstin = {g1, g2}
  Email = {e1, e2}
  Caller = {c1, c2}
  Invite = {i1}
  Request = {r1}
  None = None
SYMMETRY Symmetry
INVARIANTS
  TypeOK
  OrganizationsDistinct
  OrganizationHasFounder
  MembersAccountedFor
  OnlyGstinSwapsDeadlock
PROPERTIES
  AccountStays
  ImplementsLedger
CHECK_DEADLOCK FALSE
