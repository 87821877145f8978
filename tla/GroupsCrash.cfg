SPECIFICATION FairSpec
CONSTANTS
  Free = Free
  None = None
  Revision <- TwoRevisions
  Section <- AllSections
  Target <- TargetOf2
  Binds = {1}
  MayFail = {"copy", "write", "reload", "reloadBack"}
  CanDisable = FALSE
  ReusesRevisions = FALSE
  MaxWindows = 2
  MaxCrashes = 2
  MaxFailures = 1
  MaxWrites = 1
INVARIANT LockHeldWhilePending
INVARIANT WindowsNeverOverlap
INVARIANT SnapshotCoversWindow
INVARIANT RollbackRestores
INVARIANT NoEarlyRollback
PROPERTY OthersWritesSurvive
PROPERTY ImplementsWindow
PROPERTY WindowCloses
