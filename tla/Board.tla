-------------------------------- MODULE Board --------------------------------
(***************************************************************************)
(* The cards of one player (gcg-engine: state.rs, core.rs, observe.rs,     *)
(* view/derived.rs, and the instructions of interp/ that move, turn or     *)
(* show cards): where each card is, what each of the two players knows of  *)
(* it, the derived view that is kept between changes, and the worlds the   *)
(* AI players sample for an observer (determinize).                        *)
(*                                                                         *)
(* An effect is data: any instruction may follow any other, so every       *)
(* operation is enabled whenever its cards are there.  The operations are  *)
(* functions of a state, because handlers call them one after the other.   *)
(*                                                                         *)
(* The other player's cards are the same model with the players swapped.   *)
(* Its events are left out of the history, and so are zone_seq,            *)
(* entered_turn, and Bases and the removal area, which behave as the       *)
(* battle area and the trash do.                                           *)
(***************************************************************************)
EXTENDS Integers, Sequences, SequencesExt, FiniteSets

CONSTANTS
  Tables,      \* the games looked at: [main: the main deck, resources and tokens:
               \*   how many resource cards and new cards, events: bound, nothing that
               \*   records happens once a turn has this many, turns: the turn limit,
               \*   battles: bound, whether there are battles and lasting effects]
  HandSize,    \* START_HAND
  ShieldCount, \* SHIELD_COUNT
  BattleLimit  \* BATTLE_LIMIT

Owner    == 0
Opponent == 1
Players  == {Owner, Opponent}

\* DefIds.  A Pilot is also a Command with a Burst, and has a Unit variant.
Unit       == 1
Pilot      == 2
Variant    == 3
Resource   == 4
UnitToken  == 5
ExResource == 6
Defs    == 1 .. 6
Tokens  == {UnitToken, ExResource}
IsUnit(d)       == d \in {Unit, Variant, UnitToken}
base_def_id(d)  == IF d = Variant THEN Pilot ELSE d

HiddenZones == {"Deck", "ResourceDeck", "Shield", "Hand"}
PublicZones == {"ResourceArea", "Battle", "Paired", "Trash", "Resolving"}
ListedZones == HiddenZones \cup PublicZones
TokenZones  == {"ResourceArea", "Battle", "Shield"}

Size(t) == Len(t.main) + t.resources + t.tokens
Uids    == 1 .. CHOOSE n \in {Size(t) : t \in Tables} : \A t \in Tables : Size(t) <= n
NoUid   == 0
NoTask  == [op |-> "none"]
NoBattle == [live |-> FALSE, by |-> Owner, target |-> NoUid, ended |-> FALSE]

ASSUME BoardAssumption ==
  /\ \A t \in Tables : /\ t.main \in Seq({Unit, Pilot})
                       /\ {t.resources, t.tokens, t.events, t.turns} \subseteq Nat
                       /\ HandSize + ShieldCount <= Len(t.main)
  /\ {HandSize, ShieldCount, BattleLimit} \subseteq Nat
  /\ IsFiniteSet(Tables)

VARIABLES
  table,  \* the game
  st      \* the GameState

vars == <<table, st>>

(* The fields of st: def, zone, rested, damage, pair and known are the     *)
(* CardInstance's, by uid (zone "none": no such card yet); list is         *)
(* zones[owner]; history; battle, the top one; lasting, the effects that   *)
(* last, by how long; turn; phase; cache, the kept derived view, if any;   *)
(* task, the decision a handler waits for.                                 *)

Main(t)      == 1 .. Len(t.main)
Resources(t) == Len(t.main) + 1 .. Len(t.main) + t.resources
NewCards(t)  == Len(t.main) + t.resources + 1 .. Size(t)

\* new_game: uids follow the shuffled deck.
NewGame(t) ==
  [def     |-> [u \in Uids |-> IF u \in Main(t) THEN t.main[u] ELSE Resource],
   zone    |-> [u \in Uids |-> CASE u \in Main(t) -> "Deck"
                                 [] u \in Resources(t) -> "ResourceDeck"
                                 [] OTHER -> "none"],
   rested  |-> [u \in Uids |-> FALSE],
   damage  |-> [u \in Uids |-> 0],
   pair    |-> [u \in Uids |-> NoUid],
   known   |-> [u \in Uids |-> IF u \in Resources(t) THEN {Owner} ELSE {}],
   list    |-> [z \in ListedZones |->
                  CASE z = "Deck" -> [i \in Main(t) |-> i]
                    [] z = "ResourceDeck" -> [i \in 1 .. t.resources |-> Len(t.main) + i]
                    [] OTHER -> <<>>],
   history |-> <<>>,
   battle  |-> NoBattle,
   lasting |-> {},
   turn    |-> 0,
   phase   |-> "draw",
   cache   |-> {},
   task    |-> NoTask]

Init == table \in Tables /\ st = NewGame(table)

-----------------------------------------------------------------------------
(* The derived view.                                                       *)

touch(s) == [s EXCEPT !.cache = {}]

\* active is turn's parity and the battle's number only makes keys finer.
view_key(s) == [turn |-> s.turn, battle |-> s.battle, n_history |-> Len(s.history)]

\* Everything a view may read: never knowledge, never the identity or the
\* order of a card in a deck or among the shields.
Readable == PublicZones \cup {"Hand"}
View(s) ==
  [cards   |-> [u \in {v \in Uids : s.zone[v] \in Readable} |->
                  <<s.zone[u], s.def[u], s.rested[u], s.damage[u], s.pair[u]>>],
   lists   |-> [z \in Readable |-> s.list[z]],
   counts  |-> [z \in ListedZones \ Readable |-> Len(s.list[z])],
   history |-> s.history,
   battle  |-> s.battle,
   lasting |-> s.lasting,
   key     |-> view_key(s)]

\* derived: a kept view is used again while its key is the state's.
derived(s) ==
  IF \E v \in s.cache : v.key = view_key(s) THEN s ELSE [s EXCEPT !.cache = {View(s)}]

-----------------------------------------------------------------------------
(* Moving cards (core.rs).                                                 *)

remove_from_zone(s, u) ==
  IF s.zone[u] = "Outside" THEN s
  ELSE [s EXCEPT !.list[s.zone[u]] = RemoveFirst(@, u)]

\* Mutant: a public zone shows nothing by itself.
OnlyReveals(known, src, dst, reveal) ==
  CASE reveal -> Players
    [] dst = "Hand" /\ ~reveal -> known \cup {Owner}
    [] OTHER -> known
knowledge_on_enter(known, src, dst, reveal) ==
  CASE dst \in PublicZones \/ reveal -> Players
    [] dst = "Hand" /\ ~reveal -> IF src \in PublicZones THEN Players ELSE known \cup {Owner}
    [] OTHER -> known

Plain == [bottom |-> FALSE, reveal |-> FALSE, rested |-> FALSE]

Placed(list, u, dst, bottom) ==
  [list EXCEPT ![dst] =
     IF dst \in {"Deck", "Shield", "ResourceDeck"} /\ ~bottom THEN <<u>> \o @ ELSE Append(@, u)]

\* A Unit variant is the printed card again outside the battle area; a token
\* that would come to a zone without tokens leaves the game.
move_single(s, u, dst, o) ==
  LET r == remove_from_zone(s, u)
      d == IF dst = "Battle" THEN s.def[u] ELSE base_def_id(s.def[u])
      gone == d \in Tokens /\ dst \notin TokenZones
  IN [r EXCEPT !.def[u] = d, !.damage[u] = 0, !.rested[u] = o.rested,
               !.known[u] = IF gone THEN Players
                            ELSE knowledge_on_enter(@, s.zone[u], dst, o.reveal),
               !.zone[u] = IF gone THEN "Outside" ELSE dst,
               !.list = IF gone THEN @ ELSE Placed(@, u, dst, o.bottom)]

Unpaired(s, u) == [s EXCEPT !.pair[s.pair[u]] = NoUid, !.pair[u] = NoUid]

\* Mutant: a Unit moves without its Pilot.
MovesAlone(s, u, dst, o) == touch(move_single(s, u, dst, o))
\* A paired Pilot moves first, to the same zone, and always active.
move_card(s, u, dst, o) ==
  LET pilot == s.pair[u]
      s1 == IF pilot # NoUid /\ s.zone[u] \in {"Battle", "Paired"} THEN Unpaired(s, u) ELSE s
      s2 == IF pilot # NoUid /\ s.zone[u] = "Battle"
              THEN move_single(s1, pilot, dst, [o EXCEPT !.rested = FALSE]) ELSE s1
  IN touch(move_single(s2, u, dst, o))

move_all(s, us, dst, o) == FoldLeft(LAMBDA acc, u : move_card(acc, u, dst, o), s, us)

remove_from_game(s, u) ==
  touch([remove_from_zone(s, u) EXCEPT !.zone[u] = "Outside", !.known[u] = Players])

\* The next uid gets a card nobody has seen before, and everybody sees.
new_card(s, u, d, dst, rested) ==
  touch([s EXCEPT !.def[u] = d, !.zone[u] = dst, !.rested[u] = rested, !.known[u] = Players,
                  !.list[dst] = Append(@, u)])

shuffle_deck(s, order) ==
  touch([s EXCEPT !.list["Deck"] = order,
                  !.known = [u \in Uids |-> IF s.zone[u] = "Deck" THEN {} ELSE @[u]]])

\* record does not touch: the length of the history is in the key.
record(s, u) == [s EXCEPT !.history = Append(@, [uid |-> u, def |-> s.def[u]])]
InZone(s, z) == ToSet(s.list[z])
Top(s, z, n) == SubSeq(s.list[z], 1, IF n < Len(s.list[z]) THEN n ELSE Len(s.list[z]))
NewUid(s)    == CHOOSE u \in NewCards(table) : s.zone[u] = "none"
HasNewUid    == \E u \in NewCards(table) : st.zone[u] = "none"
WithRest(s, u, r) == touch([s EXCEPT !.rested[u] = r])

\* Each of the cards moves and is recorded before the next one moves.
move_recorded(s, us, dst, o) ==
  FoldLeft(LAMBDA acc, u : record(move_card(acc, u, dst, o), u), s, us)

-----------------------------------------------------------------------------
(* The handlers.                                                           *)

Free  == st.phase = "play" /\ st.task = NoTask
Do(s) == st' = s /\ UNCHANGED table
CanRecord == Len(st.history) < table.events

\* Setup: a hand, perhaps another one, the Shields, and an EX Resource for
\* the second player.
SetupDraw ==
  /\ st.phase = "draw"
  /\ Do([move_all(st, Top(st, "Deck", HandSize), "Hand", Plain) EXCEPT !.phase = "redraw"])

Redraw ==
  LET back  == move_all(st, st.list["Hand"], "Deck", [Plain EXCEPT !.bottom = TRUE])
      again == move_all(back, Top(back, "Deck", HandSize), "Hand", Plain)
  IN /\ st.phase = "redraw"
     /\ \E order \in SetToSeqs(InZone(again, "Deck")) :
          Do([shuffle_deck(again, order) EXCEPT !.phase = "shields"])

Keep == st.phase = "redraw" /\ Do([st EXCEPT !.phase = "shields"])

SetupShields ==
  /\ st.phase = "shields"
  /\ \E second \in {FALSE, HasNewUid} :
       LET s == move_all(st, Top(st, "Deck", ShieldCount), "Shield", Plain)
           t == IF second THEN new_card(s, NewUid(s), ExResource, "ResourceArea", FALSE) ELSE s
       IN Do(touch([t EXCEPT !.turn = 1, !.phase = "play", !.history = <<>>]))

\* emit, a condition, an option list: anything may read the view.
Look == st.phase = "play" /\ Do(derived(st))

draw ==
  \E by_effect \in BOOLEAN :
    /\ Free /\ st.list["Deck"] # <<>> /\ CanRecord
    /\ LET u == Head(st.list["Deck"])
           s == record(move_card(st, u, "Hand", Plain), u)
       IN Do(IF by_effect THEN record(s, u) ELSE s)

discard ==
  \E u \in InZone(st, "Hand") :
    Free /\ CanRecord /\ Do(move_recorded(st, <<u>>, "Trash", Plain))

\* pay_generic: normal Resources are rested, EX Resources leave the game.
Payable(s, d) ==
  FoldLeft(LAMBDA us, u : IF s.def[u] = d /\ ~s.rested[u] THEN Append(us, u) ELSE us,
           <<>>, s.list["ResourceArea"])
pay_generic(s, normal, ex) ==
  LET first == ToSet(SubSeq(Payable(s, Resource), 1, normal))
      rest  == [s EXCEPT !.rested = [u \in Uids |-> u \in first \/ @[u]]]
      out   == FoldLeft(LAMBDA acc, u : record(remove_from_game([acc EXCEPT !.rested[u] = TRUE], u), u),
                        rest, SubSeq(Payable(s, ExResource), 1, ex))
  IN IF normal + ex = 0 THEN s ELSE touch(out)

\* enter_rested: a rule of the card may rest it as it enters.
enter_rested(s, u, rule) ==
  IF rule /\ ~s.rested[u] THEN WithRest(derived(s), u, TRUE) ELSE derived(s)

\* h_deploy_card, first and again after each card given up: the variant, the
\* battle area's limit, the card.
h_deploy_card(s, u, as_unit, rested, rule) ==
  LET v == IF as_unit /\ s.def[u] = Pilot THEN touch([s EXCEPT !.def[u] = Variant]) ELSE s
      d == record(move_card(v, u, "Battle", [Plain EXCEPT !.rested = rested]), u)
  IN IF Len(v.list["Battle"]) + 1 > BattleLimit
       THEN [v EXCEPT !.task = [op |-> "deploy", card |-> u, as_unit |-> as_unit, rested |-> rested]]
       ELSE enter_rested([d EXCEPT !.task = NoTask], u, rule)

Deployable(d, as_unit) == IsUnit(d) \/ (as_unit /\ d = Pilot)

deploy ==
  \E z \in {"Hand", "Trash", "Deck", "Shield", "Resolving"}, as_unit, rested, rule \in BOOLEAN :
    \E u \in InZone(st, z) :
      /\ Free /\ CanRecord /\ Deployable(st.def[u], as_unit)
      /\ Do(h_deploy_card(st, u, as_unit, rested, rule))

h_deploy_token(s, rested, rule) ==
  LET u == NewUid(s)
      d == record(new_card(s, u, UnitToken, "Battle", rested), u)
  IN IF Len(s.list["Battle"]) + 1 > BattleLimit /\ s.list["Battle"] # <<>>
       THEN [s EXCEPT !.task = [op |-> "token", rested |-> rested]]
       ELSE enter_rested([d EXCEPT !.task = NoTask], u, rule)

deploy_token ==
  \E rested, rule \in BOOLEAN :
    Free /\ CanRecord /\ HasNewUid /\ Do(h_deploy_token(st, rested, rule))

\* The player gives up a card, and the whole handler runs again.
r_excess ==
  \E u \in InZone(st, "Battle"), rule \in BOOLEAN :
    /\ st.task.op \in {"deploy", "token"}
    /\ LET s == record(move_card(st, u, "Trash", Plain), u)
           k == st.task
       IN Do(IF k.op = "token" THEN h_deploy_token(s, k.rested, rule)
                               ELSE h_deploy_card(s, k.card, k.as_unit, k.rested, rule))

can_pair(s, unit) == s.zone[unit] = "Battle" /\ s.pair[unit] = NoUid

pair(s, pilot, unit) ==
  LET m == move_card(s, pilot, "Paired", Plain)
  IN derived(record(touch([m EXCEPT !.pair[pilot] = unit, !.pair[unit] = pilot]), pilot))

h_pair ==
  \E pilot, unit \in Uids :
    /\ Free /\ CanRecord
    /\ st.zone[pilot] \notin {"none", "Outside"} /\ st.def[pilot] = Pilot
    /\ can_pair(st, unit)
    /\ Do(pair(derived(st), pilot, unit))

\* A card is played from the hand: everybody sees it, it is paid for and
\* recorded, and then deployed, paired, or resolved as a Command.
play(s, u, normal, ex) ==
  LET p == record(pay_generic([s EXCEPT !.known[u] = Players], normal, ex), u)
  IN IF ex > 0 THEN record(p, u) ELSE p

PlayCard ==
  \E u \in InZone(st, "Hand"), normal, ex \in 0 .. 1 :
    /\ Free /\ CanRecord
    /\ normal <= Len(Payable(st, Resource)) /\ ex <= Len(Payable(st, ExResource))
    /\ LET s == play(derived(st), u, normal, ex)
       IN \/ /\ IsUnit(st.def[u])
             /\ \E rule \in BOOLEAN : Do(h_deploy_card(s, u, FALSE, FALSE, rule))
          \/ /\ st.def[u] = Pilot
             /\ \E unit \in Uids : can_pair(st, unit) /\ Do(pair(derived(s), u, unit))
          \/ /\ st.def[u] = Pilot
             /\ Do(record(move_card(s, u, "Resolving", [Plain EXCEPT !.reveal = TRUE]), u))

\* finish_frame: a Command or a Burst still being resolved goes to the trash.
FinishResolving ==
  \E u \in InZone(st, "Resolving") : Free /\ Do(move_card(st, u, "Trash", Plain))

place_ex_resource ==
  \E rested \in BOOLEAN :
    /\ Free /\ HasNewUid /\ CanRecord
    /\ LET u == NewUid(st) IN Do(record(new_card(st, u, ExResource, "ResourceArea", rested), u))

place_resource ==
  \E rested \in BOOLEAN :
    /\ Free /\ st.list["ResourceDeck"] # <<>>
    /\ Do(move_card(st, Head(st.list["ResourceDeck"]), "ResourceArea", [Plain EXCEPT !.rested = rested]))

\* One touch at the end, however many cards were turned.
\* Mutant: the kept view stays.
TurnUntouched(s, us, r) ==
  [s EXCEPT !.rested = [u \in Uids |-> IF u \in us THEN r ELSE @[u]]]
turn_resources(s, us, r) == touch([s EXCEPT !.rested = [u \in Uids |-> IF u \in us THEN r ELSE @[u]]])
Turned(s, r) == {u \in InZone(s, "ResourceArea") : s.rested[u] = r}

set_resources_active ==
  \E us \in SUBSET Turned(st, TRUE) \ {{}} :
    Free /\ CanRecord
    /\ Do(turn_resources(FoldSet(LAMBDA u, acc : record(acc, u), st, us), us, FALSE))

rest_resources ==
  \E us \in SUBSET Turned(st, FALSE) \ {{}} : Free /\ Do(turn_resources(st, us, TRUE))

rest ==
  \E u \in InZone(st, "Battle") \cup InZone(st, "ResourceArea") :
    Free /\ ~st.rested[u] /\ Do(WithRest(st, u, TRUE))

set_active ==
  \E u \in InZone(st, "Battle") \cup InZone(st, "ResourceArea") :
    /\ Free /\ st.rested[u] /\ (st.zone[u] = "Battle" \/ CanRecord)
    /\ LET s == WithRest(derived(st), u, FALSE)
       IN Do(IF st.zone[u] = "Battle" THEN s ELSE record(s, u))

return_to_hand ==
  \E z \in {"Battle", "Paired", "Trash", "Resolving"} : \E u \in InZone(st, z) :
    Free /\ Do(move_card(derived(st), u, "Hand", Plain))

\* The cards that share a deck are ordered by its owner alone.
h_to_deck(s, us, bottom) ==
  LET pilots   == {s.pair[u] : u \in {v \in us : s.zone[v] = "Battle"}} \ {NoUid}
      moved    == move_all(s, SetToSeq(us), "Deck", [Plain EXCEPT !.bottom = bottom])
      together == {u \in us \cup pilots : moved.zone[u] = "Deck"}
  IN IF Cardinality(together) <= 1 THEN moved
     ELSE [moved EXCEPT !.known = [u \in Uids |-> IF u \in together THEN @[u] \cap {Owner} ELSE @[u]],
                        !.task = [op |-> "order", left |-> together, picked |-> <<>>, bottom |-> bottom]]

\* The cards an effect puts into the deck: never resources, nor a Pilot
\* together with its Unit.
Targets == {u \in Uids : st.zone[u] \in {"Battle", "Trash", "Hand", "Resolving"}}

to_deck ==
  \E us \in {x \in SUBSET Targets : Cardinality(x) \in 1 .. 2}, bottom \in BOOLEAN :
    Free /\ Do(h_to_deck(st, us, bottom))

to_deck_shuffled ==
  \E u \in Targets :
    LET s == move_card(st, u, "Deck", Plain)
    IN Free /\ \E order \in SetToSeqs(InZone(s, "Deck")) : Do(shuffle_deck(s, order))

place_ordered(s, order, bottom) ==
  LET others == FoldLeft(RemoveFirst, s.list["Deck"], order)
  IN touch([s EXCEPT !.list["Deck"] = IF bottom THEN others \o order ELSE order \o others])

\* todeck_next: the owner picks card by card; the last one is not asked for.
r_to_deck ==
  \E u \in Uids :
    /\ st.task.op = "order" /\ u \in st.task.left
    /\ LET left   == st.task.left \ {u}
           picked == Append(st.task.picked, u)
       IN Do(IF Cardinality(left) > 1
               THEN [st EXCEPT !.task.left = left, !.task.picked = picked]
               ELSE [place_ordered(st, picked \o SetToSeq(left), st.task.bottom)
                       EXCEPT !.task = NoTask])

to_trash ==
  \E u \in {v \in Uids : st.zone[v] \in {"Hand", "Deck", "Shield", "Paired", "Resolving"}} :
    Free /\ Do(move_card(st, u, "Trash", Plain))

destroy ==
  \E u \in {v \in Uids : st.zone[v] \in {"Battle", "Paired"}} :
    Free /\ CanRecord /\ Do(move_recorded(derived(st), <<u>>, "Trash", Plain))

add_to_hand ==
  \E z \in {"Deck", "Shield", "Trash"}, reveal \in BOOLEAN : \E u \in InZone(st, z) :
    Free /\ Do(move_card(st, u, "Hand", [Plain EXCEPT !.reveal = reveal]))

shield_to_hand ==
  /\ Free /\ st.list["Shield"] # <<>> /\ CanRecord
  /\ Do(move_recorded(st, Top(st, "Shield", 1), "Hand", Plain))

add_to_shields ==
  \E u \in InZone(st, "Hand") \cup InZone(st, "Trash") \cup ToSet(Top(st, "Deck", 1)), top \in BOOLEAN :
    Free /\ Do(move_card(st, u, "Shield", [Plain EXCEPT !.bottom = ~top]))

mill ==
  \E n \in 1 .. Len(st.list["Deck"]) : Free /\ Do(move_all(st, Top(st, "Deck", n), "Trash", Plain))

\* Looking and revealing change what is known, which no view reads: no touch.
learn(s, us, who) == [s EXCEPT !.known = [u \in Uids |-> IF u \in us THEN @[u] \cup who ELSE @[u]]]

look_top ==
  \E n \in 1 .. Len(st.list["Deck"]), who \in {{Owner}, {Opponent}, Players} :
    Free /\ Do(learn(st, ToSet(Top(st, "Deck", n)), who))

reveal == \E u \in InZone(st, "Hand") : Free /\ Do(learn(st, {u}, Players))

\* A player arranges cards it has looked at; no knowledge bit changes.
arrange ==
  \E who \in Players, bottom \in BOOLEAN :
    \E us \in SUBSET {u \in InZone(st, "Deck") : who \in st.known[u]} \ {{}} :
      \E order \in SetToSeqs(us) : Free /\ Do(place_ordered(st, order, bottom))

\* The looked cards return to the bottom in a random order.
return_looked_bottom ==
  \E us \in SUBSET {u \in InZone(st, "Deck") : Owner \in st.known[u]} \ {{}} :
    \E order \in SetToSeqs(us) :
      LET s == place_ordered(st, order, TRUE)
      IN Free /\ Do(IF Len(order) = 1 THEN s
                    ELSE [s EXCEPT !.known = [u \in Uids |-> IF u \in us THEN {} ELSE @[u]]])

shuffle == \E order \in SetToSeqs(InZone(st, "Deck")) : Free /\ Do(shuffle_deck(st, order))

\* Damage is bounded by one point: what it is does not matter here.
apply_damage ==
  \E u \in InZone(st, "Battle") :
    Free /\ st.damage[u] = 0 /\ Do(touch([st EXCEPT !.damage[u] = 1]))

recover ==
  \E u \in InZone(st, "Battle") :
    Free /\ st.damage[u] > 0 /\ Do(touch([st EXCEPT !.damage[u] = 0]))

destroy_shields ==
  /\ Free /\ st.list["Shield"] # <<>> /\ CanRecord
  /\ LET u == Head(st.list["Shield"])
         shown == [st EXCEPT !.known[u] = Players]
         dst == IF st.def[u] = Pilot THEN "Resolving" ELSE "Trash"
     IN Do(move_recorded(shown, <<u>>, dst, [Plain EXCEPT !.reveal = TRUE]))

-----------------------------------------------------------------------------
(* Battles, lasting effects and turns.                                     *)

BattleBy(p) == [NoBattle EXCEPT !.live = TRUE, !.by = p]

declare_attack ==
  /\ Free /\ table.battles /\ ~st.battle.live
  /\ \/ \E u \in InZone(st, "Battle") :
          /\ ~st.rested[u] /\ CanRecord
          /\ Do(record(touch([WithRest(st, u, TRUE) EXCEPT !.battle = BattleBy(Owner)]), u))
     \/ Do(touch([st EXCEPT !.battle = BattleBy(Opponent)]))

\* One of these cards blocks the opponent's attack.
block ==
  \E u \in InZone(st, "Battle") :
    /\ Free /\ st.battle.live /\ ~st.battle.ended /\ st.battle.by = Opponent
    /\ ~st.rested[u] /\ CanRecord
    /\ Do(record(WithRest([st EXCEPT !.battle.target = u], u, TRUE), u))

change_target ==
  \E u \in InZone(st, "Battle") :
    /\ Free /\ st.battle.live /\ ~st.battle.ended
    /\ Do(touch([st EXCEPT !.battle.target = u]))

end_battle ==
  /\ Free /\ st.battle.live /\ ~st.battle.ended
  /\ Do(touch([st EXCEPT !.battle.ended = TRUE, !.lasting = @ \ {"battle"}]))

pop_battle ==
  /\ Free /\ st.battle.ended
  /\ Do(touch([st EXCEPT !.battle = NoBattle]))

\* Bounded: one effect lasts at a time.
add_lasting ==
  \E d \in {"battle", "turn"} :
    /\ Free /\ table.battles /\ st.lasting = {}
    /\ Do(IF d = "battle" /\ (~st.battle.live \/ st.battle.ended) THEN st
          ELSE touch([st EXCEPT !.lasting = @ \cup {d}]))

\* The end of a turn: expire, then next_turn; at the turn limit the game is
\* over and nothing is touched after expire.
next_turn ==
  /\ Free /\ ~st.battle.live
  /\ LET s == touch([st EXCEPT !.lasting = {}])
     IN Do(IF st.turn >= table.turns THEN [s EXCEPT !.phase = "over"]
           ELSE touch([s EXCEPT !.turn = @ + 1, !.history = <<>>, !.phase = "start"]))

active_step ==
  LET us == InZone(st, "Battle") \cup InZone(st, "ResourceArea")
  IN \E mine \in BOOLEAN :
       /\ st.phase = "start"
       /\ Do([turn_resources(derived(st), IF mine THEN us ELSE {}, FALSE) EXCEPT !.phase = "play"])

Setup     == SetupDraw \/ Redraw \/ Keep \/ SetupShields
Play      == draw \/ discard \/ deploy \/ deploy_token \/ r_excess \/ h_pair \/ PlayCard \/ FinishResolving
Turning   == place_ex_resource \/ place_resource \/ set_resources_active \/ rest_resources \/ rest \/ set_active
Moves     == return_to_hand \/ to_deck \/ to_deck_shuffled \/ r_to_deck \/ to_trash \/ destroy \/ add_to_hand
               \/ shield_to_hand \/ add_to_shields \/ mill \/ destroy_shields
Knowing   == Look \/ look_top \/ reveal \/ arrange \/ return_looked_bottom \/ shuffle
Fighting  == apply_damage \/ recover \/ declare_attack \/ block \/ change_target \/ end_battle
               \/ pop_battle \/ add_lasting \/ next_turn \/ active_step

Next == Setup \/ Play \/ Turning \/ Moves \/ Knowing \/ Fighting

Spec == Init /\ [][Next]_vars

-----------------------------------------------------------------------------
(* Properties.                                                             *)

\* Every card is listed once, in its own zone, and nowhere else; only tokens
\* leave the game and they stay in the zones for tokens; a Pilot and its Unit
\* name each other; damage is on the field.  (invariants.rs, which the engine
\* itself only checks between decisions.)
CardsAreWhereListed ==
  \A u \in Uids :
    LET z == st.zone[u]
        p == st.pair[u]
    IN /\ \A y \in ListedZones :
            Cardinality({i \in DOMAIN st.list[y] : st.list[y][i] = u}) = IF y = z THEN 1 ELSE 0
       /\ z = "Outside" => st.def[u] \in Tokens
       /\ st.def[u] \in Tokens => z \in TokenZones \cup {"Outside", "none"}
       /\ st.damage[u] # 0 => z \in {"Battle", "Outside"}
       /\ z = "Paired" => p # NoUid
       /\ p # NoUid => st.pair[p] = u /\ {z, st.zone[p]} = {"Battle", "Paired"}
       /\ z = "Battle" => IsUnit(st.def[u])
       /\ z \in {"ResourceArea", "ResourceDeck"} => st.def[u] \in {Resource, ExResource}

\* A kept view that derived would use again is the view of the present state,
\* whatever handlers changed since it was computed: touch and the key are
\* together enough.  (derived.rs, and every touch in core.rs and interp/.)
ViewIsFresh ==
  \A v \in st.cache : v.key = view_key(st) => v = View(st)

\* What is in sight is known, public cards to both players and hands to their
\* owner, in any composition of moves, reveals, shuffles and ordered returns.
\* (knowledge_on_enter, new_card, shuffle_deck, h_to_deck.)
KnowledgeFollowsSight ==
  \A u \in Uids :
    /\ st.zone[u] \in PublicZones \cup {"Outside"} => st.known[u] = Players
    /\ st.zone[u] = "Hand" => Owner \in st.known[u]
=============================================================================
