SPECIFICATION Spec
CONSTANTS
  User = {u1}
  Token = {t1, t2}
  Request = {r1, r2}
  Worker = {}
  None = None
PROPERTIES
  RefreshNeedsLiveToken
