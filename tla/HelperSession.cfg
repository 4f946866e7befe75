SPECIFICATION FairSpec
CONSTANTS
  Helper = {h1, h2}
  Request = {r1, r2}
  Shutdowns = {r2}
  Permits = 1
  None = None
INVARIANTS TypeOK OneAtWork IdleCutsNothing
PROPERTIES HelperEnds AnsweredOrEnded
CHECK_DEADLOCK FALSE
