SPECIFICATION FairSpec
CONSTANTS
  Problem = {down, cac}
  Passing = {cac}
  Debounce = 1
  MaxSessions = 2
PROPERTY SteadyIsTold
PROPERTY TellsNews
