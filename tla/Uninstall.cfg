SPECIFICATION FairSpec
CONSTANTS
  Path = {p1, p2}
  Version <- MCVersion
  Id = {f1, f2}
  Slot = {q1, q2}
  MaxStamp = 2
  Overlap = FALSE
  None = None
INVARIANTS TypeOK NothingLost
PROPERTIES RemovedReceiptArchived RemovalIsFinal CleanupSettles
