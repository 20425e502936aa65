SPECIFICATION Spec
CONSTANTS
  u1 = u1
  v1 = v1
  v2 = v2
  base1 = base1
  Units = {u1, v1, v2}
  Bases = {base1}
  Owner <- MCOwner
  Blockers = {v2}
  FirstStrikers = {u1}
  Redirects <- Guarded
  Indestructible = {v1}
  HP = 2
  DeckSize = 4
  StartHand = 1
  ShieldCount = 1
  TurnLimit = 2
  MaxActions = 10
  MaxEffects = 3
INVARIANTS TypeOK GameOverIsFinal BrokenBattleGoesNoFurther BattleEffectsDieWithTheBattle DecisionsSeeASettledBoard EveryEndHasItsCause
PROPERTY BothPlayersPassed
CHECK_DEADLOCK FALSE
