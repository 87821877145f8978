SPECIFICATION Spec
CONSTANTS
  Free = Free
  None = None
  Revision <- ThreeRevisions
  Section <- AllSections
  Target <- TargetOf3
  Binds = {1}
  MayFail = {"copy", "write", "reload"}
  CanDisable = FALSE
  ReusesRevisions = TRUE
  MaxWindows = 4
  MaxCrashes = 0
  MaxFailures = 2
  MaxWrites = 1
INVARIANT LedgerCoversFiles
INVARIANT AppliedIsThere
