SPECIFICATION Spec
CONSTANTS
  r1 = r1
  r2 = r2
  r3 = r3
  r4 = r4
  e0 = e0
  e1 = e1
  e2 = e2
  e4 = e4
  Runs = {r1, r2}
  Entry <- MCEntry
  Refused = {}
  Earlier <- MCEarlier
  Broken = Broken
  MaxKills = 0
  MaxFaults = 0
INVARIANTS EveryRunIsRecorded
CHECK_DEADLOCK FALSE
