SPECIFICATION Spec
CONSTANTS
  Version <- MCVersion
  FirstVersion = 1
  Task = {t1, t2}
  Instance = {i1}
  Browsing = FALSE
  None = None
PROPERTY PublishedAsRehashed
CHECK_DEADLOCK FALSE
