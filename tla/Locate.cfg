SPECIFICATION FairSpec
CONSTANTS
  Led = {power, lan}
  OwnSetting <- NetdevOrTimer
  MaxStarts = 3
  MaxCrashes = 2
  None = None
  Torn = Torn
INVARIANT AsItWas
INVARIANT NoEarlyEnd
PROPERTY BlinkEnds
