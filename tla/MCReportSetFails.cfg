SPECIFICATION Spec
CONSTANTS
  w1 = w1
  w2 = w2
  Writers = {w1}
  Names <- MCNames
  Plan <- MCPlan
  Replays <- MCReplays
  Copies <- MCCopies
  Earlier <- MCEarlier
  NoDir = NoDir
  MaxKills = 0
  MaxFaults = 1
INVARIANTS FailureKeepsTheOldSet
CHECK_DEADLOCK FALSE
