SPECIFICATION Spec
CONSTANTS
  Version <- TwoVersions
  FirstVersion = 1
  Task = {t1}
  Instance = {i1}
  Browsing = TRUE
  None = None
INVARIANT CandidateHandedOver
CHECK_DEADLOCK FALSE
