-------------------------------- MODULE Game --------------------------------
(***************************************************************************)
(* The rules engine's main loop (gcg-engine: game.rs, battle.rs, core.rs): *)
(* advance runs effects, rules management and one row of the turn          *)
(* procedure per iteration until a player must decide or the game is over; *)
(* apply gives it the player's answer.  One step of this module is one     *)
(* iteration of advance, or one instruction of an effect, or one answer.   *)
(*                                                                         *)
(* "st" is GameState.  Operators on states are named after the functions   *)
(* that mutate it; where the code's result depends on card texts, an       *)
(* operator returns the set of states they may produce.  Effects (frames,  *)
(* pending triggers and batches) are one Boolean here; their order is not  *)
(* modelled.  HP is one constant: the scan of damage against printed HP.   *)
(***************************************************************************)
EXTENDS Integers, Sequences, SequencesExt, FiniteSets

CONSTANTS
  Units, Bases,    \* the cards that can be in play
  Owner,           \* Owner[c]: the player whose card it is
  Blockers,        \* Units with <Blocker>
  FirstStrikers,   \* Units with <First Strike>
  Redirects,       \* pairs <<u, v>>: battle damage to u lands on v
  Indestructible,  \* cards under a "can't be destroyed" rule
  HP,              \* damage a card in play cannot survive
  DeckSize, StartHand, ShieldCount,
  TurnLimit, MaxActions,  \* NewGameOptions: turn_limit, max_actions
  MaxEffects       \* bound: instructions effects execute in one game

Players == {0, 1}
Cards   == Units \cup Bases
Player  == "player"               \* PLAYER_TARGET

ASSUME GameAssumption ==
  /\ Units \cap Bases = {} /\ Player \notin Cards
  /\ Owner \in [Cards -> Players]
  /\ Blockers \subseteq Units /\ FirstStrikers \subseteq Units
  /\ Redirects \subseteq Units \X Units /\ Indestructible \subseteq Cards
  /\ HP \in Nat \ {0}
  /\ {DeckSize, StartHand, ShieldCount, TurnLimit, MaxActions, MaxEffects} \subseteq Nat
  /\ DeckSize > StartHand + ShieldCount
  /\ TurnLimit > 0

NoWinner == 2
Draw     == -1
None     == <<>>                  \* no decision is pending

SetupSteps  == {"SetupChooseFirst", "SetupDraw", "SetupRedrawP1", "SetupRedrawP2",
                "SetupShields"}
ActionSteps == {"BattleAction", "EndAction"}
BattleSteps == {"AttackEndCheck", "Block", "BlockEndCheck", "BattleAction",
                "BattleActionEndCheck", "Damage", "DamageDone", "BattleEnd",
                "BattleEndDone"}
TurnSteps   == {"ActiveStep", "StartStep", "StartStepDone", "DrawStep", "DrawStepDone",
                "ResourceStep", "ResourceStepDone", "Main", "EndAction", "EndStep",
                "EndStepDone", "HandStep", "HandStepDone", "CleanupStep",
                "CleanupStepDone", "TurnEnd"}
Kinds == {"choose_first", "redraw", "main", "block", "action_step", "effect"}

VARIABLE st

CardState  == [zone : {"away", "battle", "base"}, zone_seq : Nat, rested : BOOLEAN,
               damage : 0 .. HP]
BattleRec  == [attacker : Units, attacker_seq : Nat, target : Cards \cup {Player},
               target_seq : Nat, battle_id : Nat, ended : BOOLEAN]
DecisionRec == [player : Players, kind : Kinds]

GameState ==
  [ step : SetupSteps \cup BattleSteps \cup TurnSteps \cup {"GameOver"},
    turn : 0 .. TurnLimit, active : Players, priority : Players, passes : 0 .. 2,
    pending : DecisionRec \cup {None}, action_count : 0 .. MaxActions + 1,
    winner : Players \cup {Draw, NoWinner},
    end_reason : {"none", "turn_limit", "deck_out", "both_defeated", "battle_damage",
                  "concede"},
    deck : [Players -> 0 .. DeckSize], shields : [Players -> 0 .. ShieldCount],
    card : [Cards -> CardState],
    battles : Seq(BattleRec), next_battle_id : Nat,
    lasting : SUBSET Nat,     \* battle_id of the live ThisBattle effects
    effects : BOOLEAN,        \* frames, pending triggers or batches are left
    checked : BOOLEAN,        \* rules_checked = version
    declined : SUBSET Players,\* history: who passed since the last action
    budget : 0 .. MaxEffects  \* bound: instructions left
  ]

\* new_game, up to its advance.
Init ==
  st = [step |-> "SetupChooseFirst", turn |-> 0, active |-> 0, priority |-> 0,
        passes |-> 0, pending |-> None, action_count |-> 0, winner |-> NoWinner,
        end_reason |-> "none", deck |-> [p \in Players |-> DeckSize],
        shields |-> [p \in Players |-> 0],
        card |-> [c \in Cards |-> [zone |-> "away", zone_seq |-> 0, rested |-> FALSE,
                                   damage |-> 0]],
        battles |-> <<>>, next_battle_id |-> 1, lasting |-> {}, effects |-> FALSE,
        checked |-> FALSE, declined |-> {}, budget |-> MaxEffects]
-----------------------------------------------------------------------------
(* core.rs: cards, damage, destruction, rules management                   *)

Touch(s)     == [s EXCEPT !.checked = FALSE]
InPlay(s, c) == s.card[c].zone \in {"battle", "base"}
OwnInPlay(s, p) == {c \in Cards : Owner[c] = p /\ InPlay(s, c)}
Lethal(s, c) == InPlay(s, c) /\ s.card[c].damage >= HP
HomeZone(c)  == IF c \in Bases THEN "base" ELSE "battle"

\* emit: any number of triggers is queued, none once the game is over.
Emit(S) == S \cup {[s EXCEPT !.effects = TRUE] : s \in {x \in S : x.winner = NoWinner}}

\* A card becomes a new object in its new zone.
Moved(c, zone) == [zone |-> zone, zone_seq |-> c.zone_seq + 1, rested |-> FALSE,
                   damage |-> 0]
MoveCards(s, C, zone) ==
  Touch([s EXCEPT !.card = [c \in Cards |-> IF c \in C THEN Moved(@[c], zone) ELSE @[c]]])

Destroy(s, C) ==
  LET targets == {c \in C : InPlay(s, c)} \ Indestructible
  IN  IF targets = {} THEN s ELSE MoveCards(s, targets, "away")

\* Mutant: the damage leaves the rules cache valid.
ApplyDamageUntouched(s, c, amount) ==
  IF amount = 0 \/ ~InPlay(s, c) THEN s
  ELSE [s EXCEPT !.card[c].damage = IF @ + amount > HP THEN HP ELSE @ + amount]
ApplyDamage(s, c, amount) ==
  IF amount = 0 \/ ~InPlay(s, c) THEN s
  ELSE Touch([s EXCEPT !.card[c].damage = IF @ + amount > HP THEN HP ELSE @ + amount])

\* resolve_damage: where battle damage lands and how much of it, after
\* redirection, increase, prevention and reduction.
ResolveDamage(s, c) ==
  IF ~InPlay(s, c) THEN {<<c, 0>>}
  ELSE ({c} \cup {v \in Units : <<c, v>> \in Redirects /\ InPlay(s, v)}) \X (0 .. HP)

SetWinner(s, losers, reason) ==
  IF s.winner # NoWinner THEN s
  ELSE [s EXCEPT !.winner = IF losers = Players THEN Draw ELSE CHOOSE p \in Players \ losers : TRUE,
                 !.end_reason = IF losers = Players THEN "both_defeated" ELSE reason,
                 !.step = "GameOver", !.pending = None]

\* Mutant: one loser at a time.
FirstLoser(s) == {p \in Players : s.deck[p] = 0 /\ \A q \in 0 .. p - 1 : s.deck[q] > 0}
Losers(s)     == {p \in Players : s.deck[p] = 0}

\* The loop of rules_management: a second pass finds only cards that cannot
\* be destroyed, and destroying changes no deck.
RulesManagement(s) ==
  LET doomed == {c \in Cards : Lethal(s, c)} IN
  IF s.winner # NoWinner \/ s.step \in SetupSteps \/ s.checked THEN {s}
  ELSE IF Losers(s) # {} THEN {SetWinner(s, Losers(s), "deck_out")}
  ELSE IF doomed = {} THEN {[s EXCEPT !.checked = TRUE]}
  ELSE IF doomed \subseteq Indestructible THEN {s}
  ELSE Emit({[Destroy(s, doomed) EXCEPT !.checked = doomed \cap Indestructible = {}]})
-----------------------------------------------------------------------------
(* battle.rs                                                               *)

NewBattle(s, a, t, done) ==
  [attacker |-> a, attacker_seq |-> s.card[a].zone_seq, target |-> t,
   target_seq |-> IF t = Player THEN 0 ELSE s.card[t].zone_seq,
   battle_id |-> s.next_battle_id, ended |-> done]

\* Mutant: a card that left and came back is taken for the same card.
BrokenByZone(s, b) ==
  \/ s.card[b.attacker].zone # "battle"
  \/ b.target # Player /\ ~InPlay(s, b.target)
BattleBroken(s, b) ==
  \/ s.card[b.attacker].zone # "battle" \/ s.card[b.attacker].zone_seq # b.attacker_seq
  \/ /\ b.target # Player
     /\ ~InPlay(s, b.target) \/ s.card[b.target].zone_seq # b.target_seq

DestroyBattle(s, victims) == Destroy(s, {c \in victims : Lethal(s, c)})

AttackBase(s, base) ==
  {DestroyBattle(ApplyDamage(s, base, n), {base}) : n \in 0 .. HP}

\* exchange: with First Strike the attacker's hit lands and destroys first;
\* otherwise both hits are resolved before either is applied.
Exchange(s, a, t) ==
  IF a \in FirstStrikers
  THEN UNION
    {LET s1 == DestroyBattle(ApplyDamage(s, hit[1], hit[2]), {hit[1]})
     IN  IF InPlay(s1, t) /\ s1.card[a].zone = "battle"
         THEN {DestroyBattle(ApplyDamage(s1, back[1], back[2]), {back[1]})
                 : back \in ResolveDamage(s1, a)}
         ELSE {s1}
     : hit \in ResolveDamage(s, t)}
  ELSE {DestroyBattle(ApplyDamage(ApplyDamage(s, hit[1], hit[2]), back[1], back[2]),
                      {hit[1], back[1]})
          : hit \in ResolveDamage(s, t), back \in ResolveDamage(s, a)}

DestroyShields(s, p, n) ==
  IF n = 0 THEN s ELSE Touch([s EXCEPT !.shields[p] = @ - n])

\* An attack on the player: the Base, else the top Shields, else the defeat;
\* a protection or an AP of 0 changes nothing.
AttackPlayer(s, p) ==
  LET bases == {c \in Bases : Owner[c] = p /\ InPlay(s, c)}
      top   == IF s.shields[p] > 2 THEN 2 ELSE s.shields[p]
  IN  {s} \cup (IF bases # {} THEN UNION {AttackBase(s, c) : c \in bases}
                ELSE IF top > 0 THEN {DestroyShields(s, p, n) : n \in 1 .. top}
                ELSE {SetWinner(s, {p}, "battle_damage")})

DamageStep(s, b) ==
  Emit(IF b.target = Player THEN AttackPlayer(s, 1 - Owner[b.attacker])
       ELSE IF s.card[b.target].zone = "base" THEN AttackBase(s, b.target)
       ELSE Exchange(s, b.attacker, b.target))

EndBattle(s) ==
  LET n == Len(s.battles) IN
  Emit({Touch([s EXCEPT !.battles[n].ended = TRUE, !.lasting = @ \ {s.battles[n].battle_id}])})

\* A StartBattle instruction: the damage step alone.  Its battle is pushed and
\* popped inside; nothing can be applied to it, so it is not put on the stack.
DamageOnlyBattle(s, a, t) ==
  {Touch(x) : x \in DamageStep(Touch([s EXCEPT !.next_battle_id = @ + 1]),
                               NewBattle(s, a, t, FALSE))}
-----------------------------------------------------------------------------
(* game.rs: the rows of the turn procedure, each the set of its outcomes   *)

Goto(s, step)      == [s EXCEPT !.step = step]
Decide(s, p, kind) == [s EXCEPT !.pending = [player |-> p, kind |-> kind]]
Standby(s)         == 1 - s.active
CurrentBattle(s)   == Last(s.battles)

SetupChooseFirst(s) == {Decide(s, p, "choose_first") : p \in Players}
SetupDraw(s)        == {Touch([Goto(s, "SetupRedrawP1") EXCEPT
                                 !.deck = [p \in Players |-> @[p] - StartHand]])}
SetupRedrawP1(s)    == {Decide(s, s.active, "redraw")}
SetupRedrawP2(s)    == {Decide(s, Standby(s), "redraw")}
SetupShields(s)     ==
  {Touch([Goto(s, "ActiveStep") EXCEPT
            !.deck    = [p \in Players |-> @[p] - ShieldCount],
            !.shields = [p \in Players |-> ShieldCount],
            !.card    = [c \in Cards |-> IF c \in Bases THEN [@[c] EXCEPT !.zone = "base"]
                                         ELSE @[c]],
            !.turn    = 1])}

\* The active player's cards become active, but for those a rule keeps rested.
ActiveStep(s) ==
  {Touch([Goto(s, "StartStep") EXCEPT
            !.card = [c \in Cards |-> [s.card[c] EXCEPT !.rested = @ /\ c \notin freed]]])
     : freed \in SUBSET OwnInPlay(s, s.active)}

\* Rows that only name the next step.
Follow == [StartStepDone |-> "DrawStep", DrawStepDone |-> "ResourceStep",
           ResourceStepDone |-> "Main", DamageDone |-> "BattleEnd",
           EndStepDone |-> "HandStep", HandStepDone |-> "CleanupStep",
           CleanupStepDone |-> "TurnEnd"]
\* Rows that announce an event; HandStep pushes a frame when the hand is over
\* its limit.
Announce == [StartStep |-> "StartStepDone", ResourceStep |-> "ResourceStepDone",
             EndStep |-> "EndStepDone", HandStep |-> "HandStepDone"]

Drawn(s, p)  == IF s.deck[p] = 0 THEN s ELSE Touch([s EXCEPT !.deck[p] = @ - 1])
DrawStep(s)  == Emit({Drawn(Goto(s, "DrawStepDone"), s.active)})
Main(s)      == {Decide(s, s.active, "main")}

CheckBattle(s, next) ==
  {Goto(s, IF BattleBroken(s, CurrentBattle(s)) THEN "BattleEnd" ELSE next)}

EligibleBlockers(s, b) ==
  {u \in Blockers : /\ Owner[u] # Owner[b.attacker] /\ u # b.target
                    /\ s.card[u].zone = "battle" /\ ~s.card[u].rested}
\* The attacker may be one that cannot be blocked.
Block(s) ==
  {Goto(s, "BlockEndCheck")} \cup
  (IF EligibleBlockers(s, CurrentBattle(s)) = {} THEN {}
   ELSE {Decide(s, 1 - Owner[CurrentBattle(s).attacker], "block")})

OpenActionStep(s, step) ==
  [Goto(s, step) EXCEPT !.priority = Standby(s), !.passes = 0, !.declined = {}]
BlockEndCheck(s) ==
  {IF BattleBroken(s, CurrentBattle(s)) THEN Goto(s, "BattleEnd")
   ELSE OpenActionStep(s, "BattleAction")}

\* Mutant: the priority stays where it is.
PassKeepingPriority(s, p) ==
  [s EXCEPT !.passes = @ + 1, !.declined = @ \cup {p}]
PassPriority(s, p) ==
  [s EXCEPT !.passes = @ + 1, !.priority = 1 - p, !.declined = @ \cup {p}]
\* A player without options passes silently.
ActionStep(s) ==
  IF s.passes >= 2
  THEN {Goto(s, IF s.step = "BattleAction" THEN "BattleActionEndCheck" ELSE "EndStep")}
  ELSE {PassPriority(s, s.priority), Decide(s, s.priority, "action_step")}

\* Mutant: the step is set after the damage.
DamageThenStep(s) == {Goto(x, "DamageDone") : x \in DamageStep(s, CurrentBattle(s))}
Damage(s)        == DamageStep(Goto(s, "DamageDone"), CurrentBattle(s))
BattleEnd(s)     == EndBattle(Goto(s, "BattleEndDone"))
\* Mutant: the battle stays on the stack.
BattleEndDoneUnpopped(s) == {Touch(Goto(s, "Main"))}
BattleEndDone(s) == {Touch([Goto(s, "Main") EXCEPT !.battles = Front(@)])}
CleanupStep(s)   == {Touch([Goto(s, "CleanupStepDone") EXCEPT !.lasting = {}])}

Timeout(s) == [s EXCEPT !.winner = Draw, !.end_reason = "turn_limit", !.step = "GameOver"]
NextTurn(s) ==
  {IF s.turn >= TurnLimit THEN Timeout(s)
   ELSE Touch([Goto(s, "ActiveStep") EXCEPT !.turn = @ + 1, !.active = 1 - @])}
-----------------------------------------------------------------------------
(* advance                                                                 *)

Running == st.pending = None /\ st.winner = NoWinner
Looping == Running /\ st.action_count <= MaxActions

DecisionCap == Running /\ st.action_count > MaxActions /\ st' = Timeout(st)

\* One row, after rules management; a rule that ends the game or queues an
\* effect comes first and the row is not run.
Row(step, Do(_)) ==
  /\ Looping /\ ~st.effects /\ st.step = step
  /\ \E s \in RulesManagement(st) :
       st' \in IF s.winner # NoWinner \/ s.effects THEN {s} ELSE Do(s)

\* What one instruction of a card's effect may do.
\* Mutant: an effect can be tied to a battle that has ended.
ApplyThisBattleAnytime(s) ==
  IF s.battles = <<>> THEN {}
  ELSE {Touch([s EXCEPT !.lasting = @ \cup {CurrentBattle(s).battle_id}])}
ApplyThisBattle(s) ==
  IF s.battles = <<>> \/ CurrentBattle(s).ended THEN {}
  ELSE {Touch([s EXCEPT !.lasting = @ \cup {CurrentBattle(s).battle_id}])}
ChangeTarget(s) ==
  IF s.battles = <<>> \/ CurrentBattle(s).ended THEN {}
  ELSE {Touch([s EXCEPT !.battles[Len(s.battles)].target = c,
                        !.battles[Len(s.battles)].target_seq = s.card[c].zone_seq])
          : c \in {x \in Cards : InPlay(s, x)}}
StartBattle(s) ==
  UNION {DamageOnlyBattle(s, x[1], x[2])
           : x \in {y \in Units \X Cards : /\ InPlay(s, y[1]) /\ InPlay(s, y[2])
                                          /\ Owner[y[1]] # Owner[y[2]]}}
BoardInstructions(s) ==
  {Destroy(s, {c}) : c \in Cards} \cup
  {ApplyDamage(s, hit[1], hit[2]) : hit \in Cards \X (1 .. HP)} \cup
  {MoveCards(s, {c}, "away") : c \in {x \in Cards : InPlay(s, x)}} \cup
  {MoveCards(s, {c}, HomeZone(c)) : c \in {x \in Cards : ~InPlay(s, x)}} \cup
  {Drawn(s, p) : p \in Players} \cup
  {DestroyShields(s, p, 1) : p \in {x \in Players : s.shields[x] > 0}}
Instruction(s) ==
  {[x EXCEPT !.budget = @ - 1] :
     x \in IF s.budget = 0 \/ s.step \in SetupSteps THEN {}
           ELSE BoardInstructions(s) \cup ApplyThisBattle(s) \cup ChangeTarget(s)
                \cup StartBattle(s)}

\* Rules management follows every instruction, unless the frame holds it.
AfterInstruction(S) == S \cup UNION {RulesManagement(x) : x \in S}

RunEffect  == Looping /\ st.effects /\ st' \in AfterInstruction(Instruction(st))
AskPlayer  ==
  /\ Looping /\ st.effects /\ st.budget > 0
  /\ st' \in AfterInstruction({Decide([st EXCEPT !.budget = @ - 1], p, "effect") : p \in Players})
\* The last frame has finished and no trigger or batch is left.
EffectsEnd == Looping /\ st.effects /\ st' = [st EXCEPT !.effects = FALSE]
-----------------------------------------------------------------------------
(* apply: the player answers                                               *)

Asked(kind) == st.pending # None /\ st.pending.kind = kind
Answered(s) == [s EXCEPT !.pending = None, !.action_count = @ + 1]

ChooseFirst(p) ==
  Asked("choose_first") /\ st' = [Goto(Answered(st), "SetupDraw") EXCEPT !.active = p]

\* A redrawn hand goes back to the deck before five new cards are drawn.
Redraw ==
  /\ Asked("redraw")
  /\ st' = Goto(Answered(st), IF st.step = "SetupRedrawP1" THEN "SetupRedrawP2"
                              ELSE "SetupShields")

EndMain == Asked("main") /\ st' = OpenActionStep(Answered(st), "EndAction")

\* play_or_activate: the costs are paid and a frame is pushed.
PlayOrActivate(s) == Touch([s EXCEPT !.effects = TRUE])
Play == Asked("main") /\ st' = PlayOrActivate(Answered(st))

\* declare_attack; which Units may attack which is for the card texts.
Attack(a, target) ==
  /\ Asked("main") /\ Owner[a] = st.active
  /\ st.card[a].zone = "battle" /\ ~st.card[a].rested
  /\ target # Player => Owner[target] # st.active /\ st.card[target].zone = "battle"
  /\ LET s == [Answered(st) EXCEPT !.card[a].rested = TRUE,
                                   !.battles = Append(@, NewBattle(st, a, target, FALSE)),
                                   !.next_battle_id = @ + 1]
     IN  st' \in {Goto(x, "AttackEndCheck") : x \in Emit({Touch(s)})}

NoBlock == Asked("block") /\ st' = Goto(Answered(st), "BlockEndCheck")

DeclareBlock(u) ==
  /\ Asked("block") /\ u \in EligibleBlockers(st, CurrentBattle(st))
  /\ LET n == Len(st.battles)
         s == [Answered(st) EXCEPT !.card[u].rested = TRUE, !.battles[n].target = u,
                                   !.battles[n].target_seq = st.card[u].zone_seq]
     IN  st' \in {Goto(x, "BlockEndCheck") : x \in Emit({Touch(s)})}

Pass == Asked("action_step") /\ st' = PassPriority(Answered(st), st.pending.player)
Act  ==
  /\ Asked("action_step")
  /\ st' = [PlayOrActivate(Answered(st)) EXCEPT
              !.passes = 0, !.priority = 1 - st.pending.player, !.declined = {}]

\* resume, or the order of the next trigger.
Resume ==
  /\ Asked("effect")
  /\ st' \in AfterInstruction({Answered(st)} \cup Instruction(Answered(st)))

\* concede: a caller may end the game between two calls of apply.
Concede(p) ==
  /\ st.pending # None /\ st.winner = NoWinner
  /\ st' = SetWinner([st EXCEPT !.effects = FALSE], {p}, "concede")
-----------------------------------------------------------------------------
Answer ==
  \/ \E p \in Players : ChooseFirst(p)
  \/ Redraw \/ EndMain \/ Play \/ NoBlock \/ Pass \/ Act \/ Resume
  \/ \E a \in Units, t \in Units \cup {Player} : Attack(a, t)
  \/ \E u \in Units : DeclareBlock(u)

Advance ==
  \/ DecisionCap \/ RunEffect \/ AskPlayer \/ EffectsEnd
  \/ Row("SetupChooseFirst", SetupChooseFirst) \/ Row("SetupDraw", SetupDraw)
  \/ Row("SetupRedrawP1", SetupRedrawP1) \/ Row("SetupRedrawP2", SetupRedrawP2)
  \/ Row("SetupShields", SetupShields)
  \/ Row("ActiveStep", ActiveStep) \/ Row("DrawStep", DrawStep) \/ Row("Main", Main)
  \/ \E step \in DOMAIN Follow :
       LET Do(s) == {Goto(s, Follow[step])} IN Row(step, Do)
  \/ \E step \in DOMAIN Announce :
       LET Do(s) == Emit({Goto(s, Announce[step])}) IN Row(step, Do)
  \/ LET Do(s) == CheckBattle(s, "Block") IN Row("AttackEndCheck", Do)
  \/ Row("Block", Block) \/ Row("BlockEndCheck", BlockEndCheck)
  \/ \E step \in ActionSteps : Row(step, ActionStep)
  \/ LET Do(s) == CheckBattle(s, "Damage") IN Row("BattleActionEndCheck", Do)
  \/ Row("Damage", Damage) \/ Row("BattleEnd", BattleEnd)
  \/ Row("BattleEndDone", BattleEndDone)
  \/ Row("CleanupStep", CleanupStep) \/ Row("TurnEnd", NextTurn)

Next == Answer \/ Advance \/ \E p \in Players : Concede(p)

Spec == Init /\ [][Next]_st
-----------------------------------------------------------------------------
(* Properties                                                              *)

\* Also: current_battle never fails, for a battle is in progress exactly in its
\* steps, until the game ends.
TypeOK ==
  /\ st \in GameState
  /\ st.winner = NoWinner =>
       Len(st.battles) = IF st.step \in BattleSteps THEN 1 ELSE 0

\* A finished game stays in its last step and asks nothing: set_winner may be
\* called inside a row, an instruction or a decision that goes on afterwards.
GameOverIsFinal ==
  st.winner # NoWinner <=> st.step = "GameOver" /\ st.pending = None /\ st.end_reason # "none"

\* No block is asked for and no battle damage dealt unless the attacker and its
\* target never left the board since they were declared, whatever effects ran in
\* between (rules 8-2-4 to 8-4-2): a card that came back is another card.
BrokenBattleGoesNoFurther ==
  st.winner = NoWinner /\ ~st.effects /\ st.step \in {"Block", "Damage"} =>
    LET b == CurrentBattle(st) IN
      /\ st.card[b.attacker].zone_seq = b.attacker_seq
      /\ b.target = Player \/ st.card[b.target].zone_seq = b.target_seq

\* A "during this battle" effect lasts only while its own battle goes on.
BattleEffectsDieWithTheBattle ==
  st.lasting \subseteq {st.battles[i].battle_id :
                          i \in {j \in DOMAIN st.battles : ~st.battles[j].ended}}

\* Whenever the turn procedure asks a player, rules management has nothing to
\* do: the cached check (rules_checked) never hides a defeat or a dead card.
DecisionsSeeASettledBoard ==
  st.pending # None /\ st.pending.kind \in {"main", "block", "action_step"} =>
    /\ ~st.effects /\ \A p \in Players : st.deck[p] > 0
    /\ \A c \in Cards \ Indestructible : ~Lethal(st, c)

\* An action step closes only when both players passed since the last action.
BothPlayersPassed ==
  [][ st.step \in ActionSteps /\ st'.step \notin ActionSteps \cup {"GameOver"}
        => st.declined = Players ]_st

\* Every result has its cause on the board.
EveryEndHasItsCause ==
  CASE st.end_reason = "deck_out"      -> st.deck[1 - st.winner] = 0 /\ st.deck[st.winner] > 0
    [] st.end_reason = "both_defeated" -> st.deck[0] + st.deck[1] = 0 /\ st.winner = Draw
    [] st.end_reason = "battle_damage" ->
         /\ st.shields[1 - st.winner] = 0
         /\ OwnInPlay(st, 1 - st.winner) \cap Bases = {}
         /\ \A p \in Players : st.deck[p] > 0
    [] st.end_reason = "turn_limit"    ->
         /\ st.winner = Draw
         /\ st.turn = TurnLimit \/ st.action_count > MaxActions
    [] st.end_reason = "concede"       -> st.winner \in Players
    [] OTHER                           -> st.winner = NoWinner
=============================================================================
