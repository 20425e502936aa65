SPECIFICATION Spec
CONSTANTS
  r1 = r1
  r2 = r2
  r3 = r3
  r4 = r4
  e0 = e0
  e1 = e1
  e2 = e2
  e4 = e4
  Runs = {r1, r2, r3, r4}
  Entry <- MCEntry
  Refused = {r4}
  Earlier <- MCEarlier
  Broken = Broken
  MaxKills = 1
  MaxFaults = 1
INVARIANTS AloneIsRecorded NoEntryTwice
CHECK_DEADLOCK FALSE
