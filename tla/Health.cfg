SPECIFICATION Spec
CONSTANTS
  r1 = r1
  r2 = r2
  b1 = b1
  b2 = b2
  Radio = {r1, r2}
  Bss = {b1, b2}
  RadioOf <- MCRadioOf
  Configs <- MCConfigs
  Expects <- MCExpects
  MaxChanges = 3
PROPERTIES KeptIsHealthy NeverForOld RadarIsWaitedFor
