SPECIFICATION FairSpec
CONSTANTS
  None = None
  k1 = k1
  k2 = k2
  w1 = w1
  w2 = w2
  Caller <- TwoCallers
  Ifname <- TwoInterfaces
  TTL = 1
  Asks <- ClientsAndLook
  MaxChanges = 2
INVARIANT FindsWhoStays
PROPERTY NamesComeBack
