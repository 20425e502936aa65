SPECIFICATION FairSpec
CONSTANTS
  c1 = c1
  c2 = c2
  NoConfig = none
  N = 4
  Workers = 3
  Configs = {c1, c2}
  Bad <- MCBad
  MaxRuns = 5
  MaxKills = 3
  MaxFaults = 2
INVARIANTS OneLineOfEach
PROPERTIES ImplementsContract RunEnds
CHECK_DEADLOCK FALSE
