------------------------------- MODULE MCPlay -------------------------------
(* A small instance of Play for TLC: the searcher's main decision, a choice *)
(* of effect targets, and the opponent's action step.                      *)
EXTENDS Play

Config(trans, set, keys, reuse, leaf, n) ==
  [transpositions |-> trans, visited_set_backup |-> set, observation_keys |-> keys,
   subtree_reuse |-> reuse, engine_error_leaf |-> leaf, root_trees |-> n]

\* After an attack the opponent may have an action step in the battle, then one
\* in the end phase: one kind of decision at two positions.
MCPositions == {"main", "pick", "battle", "endstep"}
MCOwn       == {"main", "pick"}
MCTargets   == {"pick"}
MCKind      == [main |-> "main", pick |-> "select", battle |-> "action_step", endstep |-> "action_step"]
MCOptions   == [main |-> {"attack", "deploy"}, pick |-> {"left", "right"},
                battle |-> {"pass", "act"}, endstep |-> {"pass", "act"}]
MCAfter     == [main    |-> [attack |-> {"battle"}, deploy |-> {"pick"}],
                pick    |-> [left |-> {"main"}, right |-> {"end"}],
                battle  |-> [pass |-> {"endstep"}, act |-> {"end"}],
                endstep |-> [pass |-> {"end"}, act |-> {"end"}]]
MCConfigs   == {Config(FALSE, FALSE, TRUE, FALSE, TRUE, 1), Config(FALSE, TRUE, TRUE, TRUE, FALSE, 1),
                Config(TRUE, FALSE, TRUE, TRUE, FALSE, 1), Config(TRUE, TRUE, FALSE, TRUE, FALSE, 2)}
MCBudgets   == <<6, 1>>
MCSearched  == {<<0, "bo3">>}
=============================================================================
