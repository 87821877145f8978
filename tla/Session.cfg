SPECIFICATION FairSpec
\* The daemon may stop.
CHECK_DEADLOCK FALSE
CONSTANTS
  MaxSessions = 3
  MaxReconnects = 2
INVARIANT SessTracksSession
INVARIANT NoSpin
PROPERTY ReconnectAtOnce
PROPERTY DialsAgain
