SPECIFICATION FairSpec
CONSTANTS
  Free = Free
  None = None
  Revision <- TwoRevisions
  Section <- AllSections
  Target <- TargetOf2
  Binds = {1}
  MayFail = {"copy", "persist", "write", "reload", "restore", "reloadBack"}
  CanDisable = TRUE
  ReusesRevisions = FALSE
  MaxWindows = 2
  MaxCrashes = 1
  MaxFailures = 2
  MaxWrites = 1
INVARIANT TypeOK
INVARIANT LockNotLeaked
PROPERTY PendingEnds
