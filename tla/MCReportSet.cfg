SPECIFICATION Spec
CONSTANTS
  w1 = w1
  w2 = w2
  Writers = {w1, w2}
  Names <- MCNames
  Plan <- MCPlan
  Replays <- MCReplays
  Copies <- MCCopies
  Earlier <- MCEarlier
  NoDir = NoDir
  MaxKills = 1
  MaxFaults = 2
INVARIANTS ResultsComeLast EndsClean NeverAMix SomeSetSurvives SavedFileStays
CHECK_DEADLOCK FALSE
