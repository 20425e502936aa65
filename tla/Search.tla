------------------------------- MODULE Search -------------------------------
(***************************************************************************)
(* A decision of the strengthened search (gcg-search: mcts.rs, tree.rs)    *)
(* and what a search agent carries from one decision to the next           *)
(* (agent.rs, mech/p6d/reuse.rs), with the mechanisms that change the tree *)
(* itself: root_trees, transpositions, visited_set_backup, subtree_reuse.  *)
(*                                                                         *)
(* A tree is built on worlds drawn from what the searcher knows.  An       *)
(* iteration picks a root move, plays it in the world of that move's       *)
(* visit, walks the tree until it adds a child, rolls out and backs up.    *)
(* Values and priors are left out: any unvisited move may have the best    *)
(* prior and any visited one the best UCB.  A game is what may come after  *)
(* what: forced moves and hidden cards are in the choice of After.         *)
(***************************************************************************)
EXTENDS Integers, FiniteSets, TLC, SequencesExt

CONSTANTS
  Positions,    \* what the searcher can observe of a state with a decision
  Kind,         \* Kind[p]: the decision's kind
  Own,          \* the positions in which the searcher decides
  Targets,      \* those of them with an effect-target decision
  Options,      \* Options[p]: the moves
  After,        \* After[p][m]: the next decisions, or the end of the line
  Configs,      \* mechanism flags
  Budgets,      \* bound: the searches of a match, and the budget of each
  Extension,    \* iterations an effect-target decision may add
  MaxActions    \* bound: the actions of a game

Lines == {"end", "error"}   \* how a line ends without another decision

ASSUME SearchAssumption ==
  /\ Own \subseteq Positions /\ Targets \subseteq Own
  /\ \A p \in Positions : IsFiniteSet(Options[p]) /\ Cardinality(Options[p]) >= 2
  /\ \A p \in Positions : \A m \in Options[p] : After[p][m] \subseteq Positions \cup {"end"}
  /\ Budgets \in Seq(Nat \ {0}) /\ {Extension, MaxActions} \subseteq Nat
  /\ Configs \subseteq [transpositions : BOOLEAN, visited_set_backup : BOOLEAN,
                        observation_keys : BOOLEAN, subtree_reuse : BOOLEAN,
                        engine_error_leaf : BOOLEAN, root_trees : Nat \ {0}]

VARIABLES
  cfg,
  here,        \* the searcher's pending decision
  turn, action_count,
  carry,       \* Carry.last: {} or one record
  move,        \* the move it played here
  came,        \* how the game came from the last searched decision to here
  searches,    \* how many searches began
  pc,          \* where the search is
  trees,       \* TreeData of every root tree
  limit,       \* the iterations of every tree until the next close-call check
  t,           \* the tree that is advanced
  at,          \* the decision the running line is at, or how it ended
  node,        \* the node of the walk
  path,        \* the children of the running iteration: <<node, key>>
  walked,      \* the nodes its walk entered
  counted,     \* the children whose avail it raised
  k            \* its world

game     == <<here, turn, action_count>>
line     == <<at, node, path, walked, counted, k>>
svars    == <<cfg, game, move, came, carry, searches, pc, trees, limit, t, line>>

child_key(p, m) ==
  <<p \in Own, IF cfg.observation_keys THEN Kind[p] ELSE "", m>>
Keys(p) == {child_key(p, m) : m \in Options[p]}

NewChild == [visits |-> 0, avail |-> 0, node |-> 0]
NewTree  == [nodes |-> << <<>> >>, table |-> <<>>]
new_node(tree) == [tree EXCEPT !.nodes = Append(@, <<>>)]

\* The priors add a child for every move that has none.
priors(tree, n, keys) ==
  [tree EXCEPT !.nodes[n] = [c \in DOMAIN tree.nodes[n] \cup keys |->
     IF c \in DOMAIN tree.nodes[n] THEN tree.nodes[n][c] ELSE NewChild]]

\* The node of a child, and the node of an observation key: made on first use.
node_of(tree, n, c) ==
  IF tree.nodes[n][c].node # 0 THEN tree
  ELSE [new_node(tree) EXCEPT !.nodes[n][c].node = Len(tree.nodes) + 1]
transposed(tree, p) ==
  IF p \in DOMAIN tree.table THEN tree
  ELSE [new_node(tree) EXCEPT !.table = [q \in DOMAIN tree.table \cup {p} |->
          IF q = p THEN Len(tree.nodes) + 1 ELSE tree.table[q]]]

\* Mutant: the counted moves are those of every iteration.
NothingCleared ==
  at' = "end" /\ node' = 0 /\ path' = <<>> /\ walked' = {} /\ k' = 0 /\ UNCHANGED counted
LineOver ==
  at' = "end" /\ node' = 0 /\ path' = <<>> /\ walked' = {} /\ counted' = {} /\ k' = 0

SearchInit ==
  /\ cfg \in Configs
  /\ here \in Own /\ turn = 1 /\ action_count = 0
  /\ move = "none" /\ came = "new game"
  /\ carry = {} /\ searches \in {0, Len(Budgets)}
  /\ pc = "choose" /\ trees = <<>> /\ limit = 0 /\ t = 1
  /\ at = "end" /\ node = 0 /\ path = <<>> /\ walked = {} /\ counted = {} /\ k = 0

----------------------------------------------------------------------------
(* choose, and the start of a search.                                      *)

per_tree(n) == (n + cfg.root_trees - 1) \div cfg.root_trees
Budget(n) == per_tree(Budgets[n])
Cap == per_tree(Budgets[searches] + IF here \in Targets THEN Extension ELSE 0)

\* Mutant: the action counter is not looked at.
PredictedKeyOnly(last) == last.turn = turn /\ last.expected = here
\* Carry::take_for.
take_for(last) ==
  /\ last.turn = turn
  /\ action_count = last.action_count + 1
  /\ last.expected = here

root_of(kept) ==
  IF cfg.transpositions
  THEN IF here \in DOMAIN kept.tree.table THEN kept.tree.table[here] ELSE 0
  ELSE LET c == kept.child IN kept.tree.nodes[c[1]][c[2]].node

\* Mutant: the visits a kept root child has are not set apart.
NoBase(visits) == 0
base(visits)   == visits

TreeData(tree, root) ==
  LET full == priors(tree, root, Keys(here)) IN
  [nodes |-> full.nodes, table |-> full.table, root |-> root,
   base |-> [c \in Keys(here) |-> base(full.nodes[root][c].visits)],
   picks |-> [c \in Keys(here) |-> 0], worlds |-> 1, done |-> 0]

\* new_tree of every root tree: the kept tree with its new root, or a fresh one.
new_trees(last) ==
  [i \in 1 .. cfg.root_trees |->
     LET root == IF last = {} THEN 0 ELSE root_of((CHOOSE l \in last : TRUE).trees[i])
     IN  IF root # 0
         THEN TreeData((CHOOSE l \in last : TRUE).trees[i].tree, root)
         ELSE TreeData(NewTree, 1)]

\* More than one move: a search.  The carry is empty afterwards.
Search ==
  /\ pc = "choose" /\ searches < Len(Budgets)
  /\ searches' = searches + 1
  /\ trees' = new_trees({last \in carry : take_for(last)})
  /\ carry' = {}
  /\ limit' = Budget(searches + 1)
  /\ t' = 1 /\ pc' = "iterations"
  /\ UNCHANGED <<cfg, game, move, came, line>>

\* One option, REDRAW or CHOOSE_FIRST, or filters that leave one move.
ChooseWithoutSearch ==
  /\ pc = "choose" /\ action_count < MaxActions
  /\ move' \in Options[here] /\ came' = "not searched"
  /\ carry' = {}
  /\ pc' = "chosen"
  /\ UNCHANGED <<cfg, game, searches, trees, limit, t, line>>

----------------------------------------------------------------------------
(* One iteration: iterations, line, descend, iterate.                      *)

Tree == trees[t]
ChildOf(tree, n, c) == tree.nodes[n][c]

\* The avail count of every move; with visited_set_backup once an iteration.
Uncounted(n, keys) ==
  IF cfg.visited_set_backup THEN {c \in keys : <<n, c>> \notin counted} ELSE keys
Count(tree, n, keys) ==
  [tree EXCEPT !.nodes[n] = [c \in DOMAIN tree.nodes[n] |->
     IF c \in Uncounted(n, keys)
     THEN [tree.nodes[n][c] EXCEPT !.avail = @ + 1] ELSE tree.nodes[n][c]]]

\* An unvisited move comes before any visited one.
MaySelect(tree, n, keys) ==
  LET fresh == {c \in keys : ChildOf(tree, n, c).visits = 0}
  IN  IF fresh = {} THEN keys ELSE fresh

\* The head of the loop: the root move, its world, and the move played in it.
Iterate ==
  /\ pc = "iterations"
  /\ LET n    == Tree.root
         tree == Count(Tree, n, Keys(here)) IN
     \E m \in Options[here] :
       LET c     == child_key(here, m)
           fresh == ChildOf(tree, n, c).visits = 0
           world == ChildOf(tree, n, c).visits - tree.base[c] IN
       /\ c \in MaySelect(tree, n, Keys(here))
       /\ at' \in After[here][m] \cup {"error"}
       /\ k' = world
       /\ path' = << <<n, c>> >>
       /\ pc' = IF fresh \/ at' \in Lines THEN "rollout" ELSE "walk"
       /\ LET grown == IF fresh \/ at' = "error" \/ cfg.transpositions THEN tree
                       ELSE node_of(tree, n, c) IN
          /\ trees' = [trees EXCEPT ![t] =
               [grown EXCEPT !.picks[c] = @ + 1,
                             !.worlds = IF world = @ THEN @ + 1 ELSE @]]
          /\ node' = IF pc' = "walk" THEN ChildOf(grown, n, c).node ELSE 0
       /\ counted' = IF cfg.visited_set_backup THEN {<<n, x>> : x \in Keys(here)} ELSE {}
  /\ walked' = {}
  /\ UNCHANGED <<cfg, game, move, came, carry, searches, limit, t>>

\* Mutant: only a node of this walk ends it.
EndsAtWalked(n) == n \in walked
\* A walk ends at a node it entered before, and at the root.
Ends(n) == n = Tree.root \/ n \in walked

unobserved_pass(p, m) == p \notin Own /\ Kind[p] = "action_step" /\ m = "pass"

\* One decision of the walk.
Step(tree, n) ==
  \E m \in Options[at] :
    LET keys  == Keys(at)
        full  == Count(priors(tree, n, keys), n, keys)
        c     == child_key(at, m)
        fresh == ChildOf(full, n, c).visits = 0
        stays == cfg.transpositions \/ (cfg.observation_keys /\ unobserved_pass(at, m)) IN
    /\ c \in MaySelect(full, n, keys)
    /\ at' \in After[at][m] \cup {"error"}
    /\ path' = Append(path, <<n, c>>)
    /\ counted' = IF cfg.visited_set_backup THEN counted \cup {<<n, x>> : x \in keys} ELSE {}
    /\ pc' = IF fresh \/ at' \in Lines THEN "rollout" ELSE "walk"
    /\ LET grown == IF fresh \/ stays \/ at' = "error" THEN full ELSE node_of(full, n, c) IN
       /\ trees' = [trees EXCEPT ![t] = grown]
       /\ node' = IF pc' # "walk" \/ cfg.transpositions THEN 0
                  ELSE IF stays THEN n ELSE ChildOf(grown, n, c).node

Walk ==
  /\ pc = "walk"
  /\ IF cfg.transpositions
     THEN LET tree == transposed(Tree, at)
              n    == tree.table[at] IN
          IF Ends(n)
          THEN /\ trees' = [trees EXCEPT ![t] = tree]
               /\ pc' = "rollout"
               /\ UNCHANGED <<at, node, path, walked, counted>>
          ELSE Step(tree, n) /\ walked' = walked \cup {n}
     ELSE Step(Tree, node) /\ UNCHANGED walked
  /\ UNCHANGED <<cfg, game, move, came, carry, searches, limit, t, k>>

\* The visits a child of the path gains.
Gains(ch) ==
  IF cfg.visited_set_backup THEN 1 ELSE Cardinality({j \in DOMAIN path : path[j] = ch})

backup(tree) ==
  [tree EXCEPT !.nodes = [n \in DOMAIN tree.nodes |-> [c \in DOMAIN tree.nodes[n] |->
     IF Contains(path, <<n, c>>)
     THEN [tree.nodes[n][c] EXCEPT !.visits = @ + Gains(<<n, c>>)] ELSE tree.nodes[n][c]]]]

RootVisits(tree) == [c \in Keys(here) |-> ChildOf(tree, tree.root, c).visits]

\* The leader can no longer be overtaken in the iterations left.
settled(visits, remaining) ==
  \E c \in DOMAIN visits : \A d \in DOMAIN visits \ {c} : visits[c] - visits[d] > remaining

\* The rollout and the backup.  A line that failed has the error leaf's value.
Rollout ==
  /\ pc = "rollout" /\ (at = "error" => cfg.engine_error_leaf)
  /\ LET tree == [backup(Tree) EXCEPT !.done = @ + 1] IN
     /\ trees' = [trees EXCEPT ![t] = tree]
     /\ pc' = IF tree.done = limit \/ settled(RootVisits(tree), limit - tree.done)
              THEN "advanced" ELSE "iterations"
  /\ LineOver
  /\ UNCHANGED <<cfg, game, move, came, carry, searches, limit, t>>

----------------------------------------------------------------------------
(* Between two phases, and the end of a search.                            *)

Total(f) == MapThenSumSet(LAMBDA x : f[x], DOMAIN f)
merged == [c \in Keys(here) |-> Total([i \in DOMAIN trees |-> RootVisits(trees[i])[c]])]
Leaders == {c \in Keys(here) : \A d \in Keys(here) : merged[d] <= merged[c]}

\* The visits of both moves that pair: the k-th of one and of the other.
Pairs(c, d) ==
  Total([i \in DOMAIN trees |-> LET p == trees[i].picks IN IF p[c] <= p[d] THEN p[c] ELSE p[d]])
Visited(lead) == {c \in Keys(here) \ {lead} : \E i \in DOMAIN trees : trees[i].picks[c] > 0}

\* Too few pairs are a close call; otherwise the values decide.
close_call(lead) ==
  IF \E c \in Visited(lead) : Pairs(lead, c) < 2 THEN {TRUE}
  ELSE IF Visited(lead) = {} THEN {FALSE} ELSE BOOLEAN

\* The next tree of the phase (every tree is a job of its own).
NextTree ==
  /\ pc = "advanced" /\ t < cfg.root_trees
  /\ t' = t + 1 /\ pc' = "iterations"
  /\ UNCHANGED <<cfg, game, move, came, carry, searches, trees, limit, line>>

PhaseEnds == pc = "advanced" /\ t = cfg.root_trees

Extend ==
  /\ PhaseEnds /\ limit # Cap
  /\ \E lead \in Leaders : TRUE \in close_call(lead)
  /\ limit' = IF limit + Budget(searches) < Cap THEN limit + Budget(searches) ELSE Cap
  /\ t' = 1 /\ pc' = "iterations"
  /\ UNCHANGED <<cfg, game, move, came, carry, searches, trees, line>>

\* Carry::keep: the move may lead straight to a decision of the searcher in
\* the state it knows; subsets of a multi-card choice are not kept.
Kept(c) ==
  {[turn |-> turn, action_count |-> action_count, expected |-> p,
    trees |-> [i \in DOMAIN trees |->
      [tree |-> [nodes |-> trees[i].nodes, table |-> trees[i].table],
       child |-> <<trees[i].root, c>>]]] : p \in After[here][move'] \cap Own}

Finish ==
  /\ PhaseEnds
  /\ \E m \in Options[here], lead \in Leaders :
       /\ child_key(here, m) \in Leaders
       /\ limit = Cap \/ FALSE \in close_call(lead)
       /\ move' = m
       /\ carry' \in {{}} \cup IF cfg.subtree_reuse THEN {{x} : x \in Kept(child_key(here, m))} ELSE {}
  /\ came' = "searched" /\ pc' = "chosen"
  /\ trees' = <<>> /\ limit' = 0 /\ t' = 1
  /\ UNCHANGED <<cfg, game, searches, line>>

\* The search returns an error: a SIGINT seen before an iteration, or a line that
\* failed without engine_error_leaf.  Nobody asks the agent again.
Fails ==
  pc = "iterations" \/ (pc = "rollout" /\ ~cfg.engine_error_leaf)
Discard ==
  /\ carry' = {} /\ move' = "none" /\ trees' = <<>> /\ limit' = 0 /\ t' = 1 /\ LineOver
  /\ pc' = "over"

----------------------------------------------------------------------------
(* The game between two decisions of the searcher.                         *)

\* The move led straight to the next one (it may be in the next turn).
Straight ==
  /\ pc = "chosen"
  /\ here' \in After[here][move] \cap Own /\ turn' \in {turn, turn + 1}
  /\ action_count' = action_count + 1
  /\ came' = IF came = "searched" /\ turn' = turn THEN "straight" ELSE "later"
  /\ pc' = "choose" /\ move' = "none"
  /\ UNCHANGED <<cfg, carry, searches, trees, limit, t, line>>

\* The opponent decided in between, or a move was forced.
Later ==
  /\ pc = "chosen"
  /\ here' \in Own /\ turn' \in {turn, turn + 1}
  /\ action_count' = action_count + 2
  /\ came' = "later"
  /\ pc' = "choose" /\ move' = "none"
  /\ UNCHANGED <<cfg, carry, searches, trees, limit, t, line>>

\* make_agents: every game has agents of its own.
NewAgent == carry' = {}

NewGame ==
  /\ NewAgent
  /\ here' \in Own /\ turn' = 1 /\ action_count' = 0
  /\ move' = "none" /\ came' = "new game" /\ pc' = "choose"

SearchStep ==
  \/ Search \/ ChooseWithoutSearch \/ Iterate \/ Walk \/ Rollout
  \/ NextTree \/ Extend \/ Finish \/ Straight \/ Later

----------------------------------------------------------------------------
Searching == pc \in {"iterations", "walk", "rollout", "advanced"}
InLine    == pc \in {"walk", "rollout"}
Roots     == Keys(here)
New(i, c) == RootVisits(trees[i])[c] - trees[i].base[c]

\* Common random numbers: the n-th time this search plays a root move, it plays
\* it in world n (and with rollout seed n), which is drawn by then, whatever a
\* kept tree counted before and whatever the walks went through (mcts.rs:12-13,
\* reuse.rs:14-16).
CommonRandomNumbers ==
  /\ InLine => k + 1 = Tree.picks[path[1][2]] /\ k < Tree.worlds
  /\ Searching => \A i \in DOMAIN trees : trees[i].worlds <= Cap

\* The iterations of a tree are the visits its root moves gained: none is lost
\* or counted twice, so that settled, the close-call test and the move played
\* rest on what was played; and they never pass the cap (mcts.rs:543-560).
IterationsAreRootVisits ==
  Searching => \A i \in DOMAIN trees :
    /\ Total([c \in Roots |-> New(i, c)]) = trees[i].done
    /\ trees[i].done <= limit /\ limit <= Cap

\* A child has no more visits than it was available: UCB1 takes the logarithm of
\* avail, which both may raise more than once in one iteration (mcts.rs:312-320).
AvailCoversVisits ==
  Searching => \A i \in DOMAIN trees : \A n \in DOMAIN trees[i].nodes :
    \A c \in DOMAIN trees[i].nodes[n] : trees[i].nodes[n][c].visits <= trees[i].nodes[n][c].avail

\* A search counts visits of an earlier one only when nothing but the move that
\* one chose happened since, in the same game: no decision of the opponent, no
\* forced one, no new turn (reuse.rs:5-13).
OnlyThePredictedTree ==
  Searching /\ (\E i \in DOMAIN trees : \E c \in Roots : trees[i].base[c] > 0) =>
    came = "straight"
=============================================================================
