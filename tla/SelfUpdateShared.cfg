SPECIFICATION Spec
CONSTANTS
  Version <- TwoVersions
  FirstVersion = 1
  Task = {t1}
  Instance = {i1, i2}
  Browsing = FALSE
  None = None
PROPERTY ReplacementJournaled
CHECK_DEADLOCK FALSE
