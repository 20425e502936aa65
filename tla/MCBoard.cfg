SPECIFICATION Spec
CONSTANTS
  Tables <- MCTables
  HandSize = 1
  ShieldCount = 1
  BattleLimit = 1

INVARIANTS CardsAreWhereListed ViewIsFresh KnowledgeFollowsSight PoolsAreExact TruthDoesNotShow KeptWorldsAreWorlds
CHECK_DEADLOCK FALSE
