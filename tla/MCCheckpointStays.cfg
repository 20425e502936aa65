SPECIFICATION Spec
CONSTANTS
  c1 = c1
  c2 = c2
  NoConfig = none
  N = 3
  Workers = 2
  Configs = {c1, c2}
  Bad <- MCBad
  MaxRuns = 2
  MaxKills = 1
  MaxFaults = 0
INVARIANTS StaysForTheNextResume
CHECK_DEADLOCK FALSE
