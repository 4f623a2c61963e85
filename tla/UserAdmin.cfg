SPECIFICATION Spec
CONSTANTS
  a1 = a1
  a2 = a2
  a3 = a3
  o1 = o1
  User <- MCUser
  Org <- MCOrg
  OrgOf <- MCOrgOf
  Founder <- MCFounder
  OtherRole = {w1, w2}
  Request = {r1, r2}
  None = None
SYMMETRY Symmetry
INVARIANTS
  TypeOK
  LastAdminKept
PROPERTIES
  RoleChangesAsAsked
  ImplementsRoster
CHECK_DEADLOCK FALSE
