SPECIFICATION FairSpec
CONSTANTS
  Empty = Empty
  Broken = Broken
  Missing = Missing
  a = a
  b = b
  a1 = a1
  b1 = b1
  Name <- Names
  Ctl <- TwoCtl
  Token <- TwoTokens
  Issuer <- IssuerOf2
  Initial <- InitialFiles
  MaxCalls = 2
  MaxCrashes = 1
CHECK_DEADLOCK FALSE
INVARIANT SecretStaysHome
INVARIANT ComesBack
PROPERTY KeepsConnecting
