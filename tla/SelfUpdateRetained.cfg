SPECIFICATION Spec
CONSTANTS
  Version <- TwoVersions
  FirstVersion = 1
  Task = {t1}
  Instance = {i1}
  Browsing = FALSE
  None = None
INVARIANT RecordedArtifactsCached
CHECK_DEADLOCK FALSE
