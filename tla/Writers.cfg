SPECIFICATION FairSpec
CONSTANTS
  Free = Free
  g1 = g1
  p1 = p1
  GroupsName <- OneGroupsName
  FreeName <- OneFreeName
  MaxUpdates = 2
  MaxCrashes = 2
INVARIANT HoldHasOwner
INVARIANT LockCoversWindows
INVARIANT KeepsOffGroups
PROPERTY RebootUndoes
PROPERTY NobodyWaitsForever
