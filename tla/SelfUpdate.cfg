SPECIFICATION FairSpec
CONSTANTS
  Version <- MCVersion
  FirstVersion = 1
  Task = {t1}
  Instance = {i1}
  Browsing = FALSE
  None = None
INVARIANTS TypeOK InstallerGuarded
PROPERTIES ImplementsTransaction RecoveryKept ReceiptMatchesCache JournalSettles JournalClears
CHECK_DEADLOCK FALSE
