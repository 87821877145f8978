SPECIFICATION Spec
CHECK_DEADLOCK FALSE
CONSTANTS
  MaxSessions = 2
  MaxReconnects = 1
INVARIANT RefNamesItsSession
