SPECIFICATION Spec
CONSTANTS
  Helper = {h1, h2}
  Request = {r1, r2}
  Shutdowns = {r2}
  Permits = 1
  None = None
INVARIANT LockedWhileWorking
CHECK_DEADLOCK FALSE
