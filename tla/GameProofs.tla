----------------------------- MODULE GameProofs -----------------------------
(***************************************************************************)
(* Theorems about the turn procedure of Game.                              *)
(***************************************************************************)
EXTENDS Game, SequenceTheorems, TLAPS

\* SameControl: x differs from s only in the board (cards, decks, Shields), in
\* queued effects, in the rules cache, in the next battle's id and in the budget.
SameControl(s, x) ==
  /\ x.step = s.step /\ x.turn = s.turn /\ x.active = s.active
  /\ x.priority = s.priority /\ x.passes = s.passes /\ x.declined = s.declined
  /\ x.pending = s.pending /\ x.action_count = s.action_count
  /\ x.winner = s.winner /\ x.end_reason = s.end_reason
  /\ x.battles = s.battles /\ x.lasting = s.lasting

\* Board: what core.rs may do to the board: whoever touches a card or a deck
\* makes the rules cache invalid, and no queued effect goes away.
Board(s, x) ==
  /\ x \in GameState /\ SameControl(s, x) /\ x.budget = s.budget
  /\ s.effects => x.effects
  /\ x.checked => s.checked /\ x.card = s.card /\ x.deck = s.deck

\* Board is reflexive.
LEMMA BoardSelf == ASSUME NEW s \in GameState PROVE Board(s, s)
  BY DEF Board, SameControl

\* Board is transitive.
LEMMA BoardTrans ==
  ASSUME NEW s, NEW x, NEW y, Board(s, x), Board(x, y) PROVE Board(s, y)
  BY DEF Board, SameControl

\* The parameters have their types.
LEMMA Parameters ==
  /\ HP \in Nat /\ HP > 0
  /\ DeckSize \in Nat /\ StartHand \in Nat /\ ShieldCount \in Nat
  /\ DeckSize > StartHand + ShieldCount
  /\ TurnLimit \in Nat /\ TurnLimit > 0 /\ MaxActions \in Nat /\ MaxEffects \in Nat
  BY GameAssumption

\* A board with other cards and an invalid rules cache is a changed board.
LEMMA CardsBoard ==
  ASSUME NEW s \in GameState, NEW f \in [Cards -> CardState]
  PROVE  Board(s, [s EXCEPT !.card = f, !.checked = FALSE])
  BY DEF Board, SameControl, GameState

\* Cards that move become new objects, and the rules cache is invalid.
LEMMA MoveBoard ==
  ASSUME NEW s \in GameState, NEW C, NEW zone \in {"away", "battle", "base"}
  PROVE  Board(s, MoveCards(s, C, zone))
<1> DEFINE f == [c \in Cards |-> IF c \in C THEN Moved(s.card[c], zone) ELSE s.card[c]]
<1>1. MoveCards(s, C, zone) = [s EXCEPT !.card = f, !.checked = FALSE]
  BY DEF MoveCards, Touch
<1>2. s.card \in [Cards -> CardState]
  BY DEF GameState
<1>3. f \in [Cards -> CardState]
  BY <1>2, Parameters DEF Moved, CardState
<1> HIDE DEF f
<1>4. QED
  BY <1>1, <1>3, CardsBoard

\* Destroying changes the board alone.
LEMMA DestroyBoard ==
  ASSUME NEW s \in GameState, NEW C PROVE Board(s, Destroy(s, C))
  BY MoveBoard, BoardSelf DEF Destroy

\* So does damage.
LEMMA DamageBoard ==
  ASSUME NEW s \in GameState, NEW c \in Cards, NEW n \in Nat
  PROVE  Board(s, ApplyDamage(s, c, n))
<1>1. CASE n = 0 \/ ~InPlay(s, c)
  BY <1>1, BoardSelf DEF ApplyDamage
<1>2. CASE ~(n = 0 \/ ~InPlay(s, c))
  <2> DEFINE d == IF s.card[c].damage + n > HP THEN HP ELSE s.card[c].damage + n
             f == [s.card EXCEPT ![c].damage = d]
  <2>1. ApplyDamage(s, c, n) = [s EXCEPT !.card = f, !.checked = FALSE]
    BY <1>2 DEF ApplyDamage, Touch
  <2>2. s.card \in [Cards -> CardState]
    BY DEF GameState
  <2>3. d \in 0 .. HP
    BY <2>2, Parameters DEF CardState
  <2> HIDE DEF d
  <2>4. f \in [Cards -> CardState]
    BY <2>2, <2>3 DEF CardState
  <2> HIDE DEF f
  <2>5. QED
    BY <2>1, <2>4, CardsBoard
<1>3. QED
  BY <1>1, <1>2

\* A card drawn leaves the deck.
LEMMA DrawnBoard ==
  ASSUME NEW s \in GameState, NEW p \in Players PROVE Board(s, Drawn(s, p))
<1>1. s.deck \in [Players -> 0 .. DeckSize]
  BY DEF GameState
<1>2. [s.deck EXCEPT ![p] = @ - 1] \in [Players -> 0 .. DeckSize] \/ s.deck[p] = 0
  BY <1>1, Parameters DEF Players
<1>3. CASE s.deck[p] = 0
  BY <1>3, BoardSelf DEF Drawn
<1>4. CASE s.deck[p] # 0
  <2>1. Drawn(s, p) = [s EXCEPT !.deck = [s.deck EXCEPT ![p] = @ - 1], !.checked = FALSE]
    BY <1>4 DEF Drawn, Touch
  <2>2. QED
    BY <1>2, <1>4, <2>1 DEF Board, SameControl, GameState
<1>5. QED
  BY <1>3, <1>4

\* Shields go only while there are any.
LEMMA ShieldsBoard ==
  ASSUME NEW s \in GameState, NEW p \in Players, NEW n \in 0 .. s.shields[p]
  PROVE  Board(s, DestroyShields(s, p, n))
<1>1. s.shields \in [Players -> 0 .. ShieldCount]
  BY DEF GameState
<1>2. [s.shields EXCEPT ![p] = @ - n] \in [Players -> 0 .. ShieldCount]
  BY <1>1, Parameters DEF Players
<1>3. QED
  BY <1>2, BoardSelf DEF DestroyShields, Touch, Board, SameControl, GameState

\* Triggers queued at the end of an operation change nothing else.
LEMMA EmitBoard ==
  ASSUME NEW s, NEW S, \A x \in S : Board(s, x)
  PROVE  \A x \in Emit(S) : Board(s, x)
<1> SUFFICES ASSUME NEW x \in Emit(S) PROVE Board(s, x)
  OBVIOUS
<1>1. x \in S \/ \E y \in S : x = [y EXCEPT !.effects = TRUE]
  BY DEF Emit
<1>2. CASE x \in S
  BY <1>2
<1>3. ASSUME NEW y \in S, x = [y EXCEPT !.effects = TRUE] PROVE Board(s, x)
  <2>1. Board(s, y)
    OBVIOUS
  <2>2. QED
    BY <1>3, <2>1 DEF Board, SameControl, GameState
<1>4. QED
  BY <1>1, <1>2, <1>3

\* Where battle damage lands is a card in play.
LEMMA ResolvedHits ==
  ASSUME NEW s \in GameState, NEW c \in Cards
  PROVE  ResolveDamage(s, c) \subseteq Cards \X (0 .. HP)
  BY GameAssumption DEF ResolveDamage, Cards

\* An attack on a Base changes the board alone.
LEMMA BaseBoard ==
  ASSUME NEW s \in GameState, NEW base \in Cards
  PROVE  \A x \in AttackBase(s, base) : Board(s, x)
<1> SUFFICES ASSUME NEW n \in 0 .. HP
             PROVE  Board(s, DestroyBattle(ApplyDamage(s, base, n), {base}))
  BY DEF AttackBase
<1>1. Board(s, ApplyDamage(s, base, n))
  BY DamageBoard
<1>2. ApplyDamage(s, base, n) \in GameState
  BY <1>1 DEF Board
<1>3. QED
  BY <1>1, <1>2, DestroyBoard, BoardTrans DEF DestroyBattle

\* A hit: damage, then the destruction of what it killed.
LEMMA HitBoard ==
  ASSUME NEW s, NEW x, Board(s, x), NEW hit \in Cards \X (0 .. HP), NEW C
  PROVE  /\ Board(s, ApplyDamage(x, hit[1], hit[2]))
         /\ Board(s, DestroyBattle(ApplyDamage(x, hit[1], hit[2]), C))
<1>1. x \in GameState /\ hit[1] \in Cards /\ hit[2] \in Nat
  BY DEF Board
<1>2. Board(x, ApplyDamage(x, hit[1], hit[2]))
  BY <1>1, DamageBoard
<1>3. ApplyDamage(x, hit[1], hit[2]) \in GameState
  BY <1>2 DEF Board
<1>4. Board(ApplyDamage(x, hit[1], hit[2]), DestroyBattle(ApplyDamage(x, hit[1], hit[2]), C))
  BY <1>3, DestroyBoard DEF DestroyBattle
<1>5. QED
  BY <1>2, <1>4, BoardTrans

\* An exchange of hits between two Units changes the board alone.
LEMMA ExchangeBoard ==
  ASSUME NEW s \in GameState, NEW a \in Cards, NEW t \in Cards
  PROVE  \A x \in Exchange(s, a, t) : Board(s, x)
<1> SUFFICES ASSUME NEW x \in Exchange(s, a, t) PROVE Board(s, x)
  OBVIOUS
<1>1. Board(s, s)
  BY BoardSelf
<1>2. CASE a \in FirstStrikers
  <2> DEFINE After(hit) == DestroyBattle(ApplyDamage(s, hit[1], hit[2]), {hit[1]})
             Back(s1) == {DestroyBattle(ApplyDamage(s1, back[1], back[2]), {back[1]})
                            : back \in ResolveDamage(s1, a)}
  <2>1. Exchange(s, a, t) =
          UNION {IF InPlay(After(hit), t) /\ After(hit).card[a].zone = "battle"
                 THEN Back(After(hit)) ELSE {After(hit)} : hit \in ResolveDamage(s, t)}
    BY <1>2 DEF Exchange
  <2>2. PICK hit \in ResolveDamage(s, t) : x \in Back(After(hit)) \/ x = After(hit)
    <3> HIDE DEF After, Back
    <3>1. QED
      BY <2>1
  <2> DEFINE s1 == After(hit)
  <2>3. hit \in Cards \X (0 .. HP)
    BY ResolvedHits
  <2>4. Board(s, s1)
    BY <1>1, <2>3, HitBoard
  <2> HIDE DEF s1
  <2>5. s1 \in GameState
    BY <2>4 DEF Board
  <2>6. ResolveDamage(s1, a) \subseteq Cards \X (0 .. HP)
    BY <2>5, ResolvedHits
  <2>7. CASE x = s1
    BY <2>4, <2>7
  <2>8. CASE x \in Back(s1)
    <3>1. PICK back \in ResolveDamage(s1, a) :
            x = DestroyBattle(ApplyDamage(s1, back[1], back[2]), {back[1]})
      BY <2>8
    <3>2. QED
      BY <2>4, <2>6, <3>1, HitBoard
  <2>9. QED
    BY <2>2, <2>7, <2>8 DEF s1
<1>3. CASE a \notin FirstStrikers
  <2> DEFINE Both(hit, back) ==
               DestroyBattle(ApplyDamage(ApplyDamage(s, hit[1], hit[2]), back[1], back[2]),
                             {hit[1], back[1]})
  <2>1. Exchange(s, a, t) =
          {Both(hit, back) : hit \in ResolveDamage(s, t), back \in ResolveDamage(s, a)}
    BY <1>3 DEF Exchange
  <2>2. PICK hit \in ResolveDamage(s, t), back \in ResolveDamage(s, a) : x = Both(hit, back)
    <3> HIDE DEF Both
    <3>1. QED
      BY <2>1
  <2>3. hit \in Cards \X (0 .. HP) /\ back \in Cards \X (0 .. HP)
    BY ResolvedHits
  <2>4. Board(s, ApplyDamage(s, hit[1], hit[2]))
    BY <1>1, <2>3, HitBoard
  <2>5. QED
    BY <2>2, <2>3, <2>4, HitBoard
<1>4. QED
  BY <1>2, <1>3

-----------------------------------------------------------------------------
(* The inductive invariant, of a state s.                                  *)

\* Rules management has nothing to do.
Settled(s) ==
  /\ \A p \in Players : s.deck[p] > 0
  /\ \A c \in Cards \ Indestructible : ~Lethal(s, c)

\* A game that is over is in its last step, has a reason and asks nothing.
OverInv(s) ==
  IF s.winner = NoWinner THEN s.step # "GameOver" /\ s.end_reason = "none"
  ELSE s.step = "GameOver" /\ s.pending = None /\ s.end_reason # "none"

\* A battle is on the stack exactly in the steps of a battle.
StackInv(s) ==
  /\ Len(s.battles) <= 1
  /\ s.winner = NoWinner => (Len(s.battles) = 1 <=> s.step \in BattleSteps)

\* ThisBattle effects belong to the one battle, which goes on.
LastingInv(s) ==
  /\ s.lasting # {} => /\ Len(s.battles) = 1 /\ ~s.battles[1].ended
                       /\ s.lasting \subseteq {s.battles[1].battle_id}
  /\ s.winner = NoWinner /\ s.step = "BattleEndDone" => s.battles[1].ended

\* Until the Shields are placed the decks have the size the rules say.
SetupInv(s) ==
  s.step \in SetupSteps =>
    \A p \in Players : s.deck[p] = IF s.step \in {"SetupChooseFirst", "SetupDraw"} THEN DeckSize
                                   ELSE DeckSize - StartHand

\* No effect waits where the next row asks for a block or deals the damage.
EffectsInv(s) ==
  s.winner = NoWinner /\ s.effects => s.step \notin SetupSteps \cup {"Block", "Damage"}

\* rules_checked is never stale.
CheckedInv(s) ==
  s.checked /\ s.winner = NoWinner /\ s.step \notin SetupSteps =>
    Settled(s) /\ \A c \in Cards : ~Lethal(s, c)

\* A question belongs to its step.
AskedInv(s) ==
  s.pending # None =>
    /\ s.action_count <= MaxActions
    /\ s.pending.kind = "choose_first" => s.step = "SetupChooseFirst"
    /\ s.pending.kind = "redraw" => s.step \in {"SetupRedrawP1", "SetupRedrawP2"}
    /\ s.pending.kind = "main" => s.step = "Main"
    /\ s.pending.kind = "block" => s.step = "Block"
    /\ s.pending.kind = "action_step" =>
         s.step \in ActionSteps /\ s.passes < 2 /\ s.pending.player = s.priority
    /\ s.pending.kind = "effect" => s.effects
    /\ s.pending.kind \in {"main", "block", "action_step"} => ~s.effects /\ Settled(s)

\* Where a block is asked for or damage is dealt, the battle is whole.
WholeInv(s) ==
  s.winner = NoWinner /\ s.step \in {"Block", "Damage"} =>
    Settled(s) /\ ~BattleBroken(s, CurrentBattle(s))

\* Passes, priority and history agree on who has passed.
PassInv(s) ==
  s.step \in ActionSteps =>
    \/ s.passes = 0 /\ s.declined = {}
    \/ s.passes = 1 /\ s.declined = {1 - s.priority}
    \/ s.passes = 2 /\ s.declined = Players

\* A result with its cause.
Cause(s) ==
  /\ s.end_reason = "deck_out" =>
       s.winner \in Players /\ s.deck[1 - s.winner] = 0 /\ s.deck[s.winner] > 0
  /\ s.end_reason = "both_defeated" => s.deck[0] = 0 /\ s.deck[1] = 0 /\ s.winner = Draw
  /\ s.end_reason = "battle_damage" =>
       /\ s.winner \in Players /\ s.shields[1 - s.winner] = 0
       /\ OwnInPlay(s, 1 - s.winner) \cap Bases = {}
       /\ \A p \in Players : s.deck[p] > 0
  /\ s.end_reason = "turn_limit" =>
       s.winner = Draw /\ (s.turn = TurnLimit \/ s.action_count > MaxActions)
  /\ s.end_reason = "concede" => s.winner \in Players

IInv(s) ==
  /\ s \in GameState /\ OverInv(s) /\ StackInv(s) /\ LastingInv(s) /\ SetupInv(s)
  /\ EffectsInv(s) /\ CheckedInv(s) /\ AskedInv(s) /\ WholeInv(s) /\ PassInv(s) /\ Cause(s)
-----------------------------------------------------------------------------
(* What keeps the invariant.                                               *)

\* The board decides whether rules management has anything to do.
LEMMA SameBoard ==
  ASSUME NEW s, NEW x, x.card = s.card
  PROVE  /\ \A c \in Cards : Lethal(x, c) <=> Lethal(s, c)
         /\ x.deck = s.deck => (Settled(x) <=> Settled(s))
         /\ \A b : BattleBroken(x, b) <=> BattleBroken(s, b)
  BY DEF Lethal, InPlay, Settled, BattleBroken

\* Ended: the game of s is over in x, with a cause.
Ended(s, x) ==
  /\ x \in GameState /\ x.winner # NoWinner /\ x.step = "GameOver"
  /\ x.pending = None /\ x.end_reason # "none" /\ Cause(x)
  /\ x.battles = s.battles /\ x.lasting = s.lasting

\* The end of a game keeps the invariant.
LEMMA EndedIsGood ==
  ASSUME NEW s, NEW x, IInv(s), Ended(s, x) PROVE IInv(x)
<1>1. x.step \notin SetupSteps \cup BattleSteps \cup ActionSteps
  BY DEF Ended, SetupSteps, BattleSteps, ActionSteps
<1>2. OverInv(x) /\ StackInv(x) /\ LastingInv(x)
  BY DEF Ended, IInv, OverInv, StackInv, LastingInv
<1>3. SetupInv(x) /\ EffectsInv(x) /\ CheckedInv(x) /\ AskedInv(x) /\ WholeInv(x) /\ PassInv(x)
  BY <1>1 DEF Ended, SetupInv, EffectsInv, CheckedInv, AskedInv, WholeInv, PassInv
<1>4. QED
  BY <1>2, <1>3 DEF IInv, Ended

\* Idle: no question of the turn procedure is open, and an effect may run here.
Idle(s) ==
  /\ s.winner = NoWinner /\ s.step \notin SetupSteps \cup {"Block", "Damage"}
  /\ s.pending = None \/ s.pending.kind = "effect"

\* A change of the board keeps it while effects may run.
LEMMA BoardIsGood ==
  ASSUME NEW s, NEW x, IInv(s), Idle(s), Board(s, x) PROVE IInv(x) /\ Idle(x)
<1> USE DEF Board, SameControl, Idle
<1>1. x \in GameState /\ Idle(x)
  OBVIOUS
<1>2. OverInv(x) /\ StackInv(x)
  BY DEF IInv, OverInv, StackInv
<1>3. LastingInv(x) /\ SetupInv(x) /\ EffectsInv(x) /\ WholeInv(x) /\ PassInv(x)
  BY DEF IInv, LastingInv, SetupInv, EffectsInv, WholeInv, PassInv
<1>4. CheckedInv(x)
  <2>1. SUFFICES ASSUME x.checked PROVE Settled(x) /\ \A c \in Cards : ~Lethal(x, c)
    BY DEF CheckedInv
  <2>2. s.checked /\ x.card = s.card /\ x.deck = s.deck
    BY <2>1
  <2>3. Settled(s) /\ \A c \in Cards : ~Lethal(s, c)
    BY <2>2 DEF IInv, CheckedInv
  <2>4. QED
    BY <2>2, <2>3, SameBoard
<1>5. AskedInv(x)
  BY DEF IInv, AskedInv
<1>6. Cause(x)
  BY DEF IInv, OverInv, Cause
<1>7. QED
  BY <1>1, <1>2, <1>3, <1>4, <1>5, <1>6 DEF IInv

\* Who wins.
LEMMA WinnerIs ==
  ASSUME NEW losers, losers \subseteq Players, losers # {}, losers # Players
  PROVE  LET w == CHOOSE p \in Players \ losers : TRUE
         IN  w \in Players /\ w \notin losers /\ 1 - w \in losers
<1>1. \E p : p \in Players \ losers
  OBVIOUS
<1>2. (CHOOSE p \in Players \ losers : TRUE) \in Players \ losers
  BY <1>1
<1>3. PICK q \in losers : TRUE
  OBVIOUS
<1>4. \A w \in Players \ losers : q = 1 - w
  BY DEF Players
<1>5. QED
  BY <1>2, <1>3, <1>4

\* Running out of cards ends the game with its cause.
LEMMA DeckOutEnds ==
  ASSUME NEW s \in GameState, s.winner = NoWinner, Losers(s) # {}
  PROVE  Ended(s, SetWinner(s, Losers(s), "deck_out"))
<1> DEFINE x == SetWinner(s, Losers(s), "deck_out")
           w == CHOOSE p \in Players \ Losers(s) : TRUE
<1>1. Losers(s) \subseteq Players /\ \A p \in Players : p \in Losers(s) <=> s.deck[p] = 0
  BY DEF Losers
<1>2. s.deck \in [Players -> 0 .. DeckSize] /\ DeckSize \in Nat
  BY Parameters DEF GameState
<1>3. CASE Losers(s) = Players
  <2>1. x = [s EXCEPT !.winner = Draw, !.end_reason = "both_defeated",
                      !.step = "GameOver", !.pending = None]
    BY <1>3, Zenon DEF SetWinner
  <2>2. s.deck[0] = 0 /\ s.deck[1] = 0
    BY <1>1, <1>3 DEF Players
  <2> HIDE DEF x
  <2>3. x \in GameState /\ x.winner # NoWinner /\ x.step = "GameOver" /\ x.pending = None
    <3>1. Draw # NoWinner
      BY DEF Draw, NoWinner
    <3>2. x.winner = Draw /\ x.step = "GameOver" /\ x.pending = None
      BY <2>1
    <3>3. x \in GameState
      BY <2>1 DEF GameState
    <3>4. QED
      BY <3>1, <3>2, <3>3
  <2>4. x.end_reason = "both_defeated" /\ x.winner = Draw /\ x.deck = s.deck
        /\ x.battles = s.battles /\ x.lasting = s.lasting
    BY <2>1
  <2>5. Cause(x)
    BY <2>2, <2>4 DEF Cause
  <2>6. QED
    BY <2>3, <2>4, <2>5 DEF Ended, x
<1>4. CASE Losers(s) # Players
  <2>1. x = [s EXCEPT !.winner = w, !.end_reason = "deck_out",
                      !.step = "GameOver", !.pending = None]
    BY <1>4 DEF SetWinner
  <2>2. w \in Players /\ w \notin Losers(s) /\ 1 - w \in Losers(s)
    BY <1>1, <1>4, WinnerIs
  <2> HIDE DEF w
  <2>3. s.deck[1 - w] = 0 /\ s.deck[w] > 0
    BY <1>1, <1>2, <2>2 DEF Players
  <2>4. QED
    BY <2>1, <2>2, <2>3 DEF Ended, Cause, GameState, NoWinner, Players
<1>5. QED
  BY <1>3, <1>4

\* So do a defeat and a concession.
LEMMA DefeatEnds ==
  ASSUME NEW s \in GameState, s.winner = NoWinner, NEW p \in Players,
         NEW reason \in {"battle_damage", "concede"},
         reason = "battle_damage" =>
           /\ s.shields[p] = 0 /\ OwnInPlay(s, p) \cap Bases = {}
           /\ \A q \in Players : s.deck[q] > 0
  PROVE  Ended(s, SetWinner(s, {p}, reason))
<1> DEFINE x == SetWinner(s, {p}, reason)
           w == CHOOSE q \in Players \ {p} : TRUE
<1>1. {p} \subseteq Players /\ {p} # {} /\ {p} # Players
  BY DEF Players
<1>2. w \in Players /\ 1 - w = p
  BY <1>1, WinnerIs
<1>3. x = [s EXCEPT !.winner = w, !.end_reason = reason, !.step = "GameOver", !.pending = None]
  BY <1>1 DEF SetWinner
<1> HIDE DEF w, x
<1>4. x \in GameState /\ x.winner = w /\ x.winner # NoWinner /\ x.end_reason = reason
  BY <1>2, <1>3 DEF GameState, NoWinner, Players
<1>5. OwnInPlay(x, p) = OwnInPlay(s, p) /\ x.shields = s.shields /\ x.deck = s.deck
  <2>1. x.card = s.card /\ x.shields = s.shields /\ x.deck = s.deck
    BY <1>3
  <2>2. QED
    BY <2>1, Zenon DEF OwnInPlay, InPlay
<1>6. Cause(x)
  BY <1>2, <1>4, <1>5 DEF Cause
<1>7. QED
  <2>1. x.step = "GameOver" /\ x.pending = None /\ x.battles = s.battles /\ x.lasting = s.lasting
    BY <1>3
  <2>2. Ended(s, x)
    BY <1>4, <1>6, <2>1 DEF Ended
  <2>3. QED
    BY <2>2 DEF x

\* Queueing triggers and setting the rules cache after a check keep the invariant.
LEMMA CheckIsGood ==
  ASSUME NEW s, NEW x, IInv(s), Idle(s), SameControl(s, x), x \in GameState,
         x.card = s.card, x.deck = s.deck, x.shields = s.shields,
         s.effects => x.effects,
         x.checked => Settled(s) /\ \A c \in Cards : ~Lethal(s, c)
  PROVE  IInv(x)
<1> USE DEF SameControl, Idle
<1>1. OverInv(x) /\ StackInv(x)
  BY DEF IInv, OverInv, StackInv
<1>2. LastingInv(x) /\ SetupInv(x) /\ EffectsInv(x) /\ WholeInv(x) /\ PassInv(x)
  BY DEF IInv, LastingInv, SetupInv, EffectsInv, WholeInv, PassInv
<1>3. CheckedInv(x)
  BY SameBoard DEF CheckedInv
<1>4. AskedInv(x)
  BY DEF IInv, AskedInv
<1>5. Cause(x)
  BY DEF IInv, OverInv, Cause
<1>6. QED
  BY <1>1, <1>2, <1>3, <1>4, <1>5 DEF IInv

\* On a settled board rules management changes the cache at most.
LEMMA SettledRules ==
  ASSUME NEW s, s.winner = NoWinner, s.step \notin SetupSteps, Settled(s),
         NEW x \in RulesManagement(s)
  PROVE  x = s \/ (x = [s EXCEPT !.checked = TRUE] /\ \A c \in Cards : ~Lethal(s, c))
<1>1. Losers(s) = {}
  BY DEF Losers, Settled
<1>2. {c \in Cards : Lethal(s, c)} \subseteq Indestructible
  BY DEF Settled
<1>3. QED
  BY <1>1, <1>2 DEF RulesManagement

\* What destroying all dead cards leaves.
LEMMA DeadCardsGo ==
  ASSUME NEW s \in GameState
  PROVE  LET doomed == {c \in Cards : Lethal(s, c)}
             y      == Destroy(s, doomed)
         IN  /\ y.deck = s.deck
             /\ \A c \in Cards : Lethal(y, c) => c \in doomed \cap Indestructible
<1> DEFINE doomed  == {c \in Cards : Lethal(s, c)}
           targets == {c \in doomed : InPlay(s, c)} \ Indestructible
           y       == Destroy(s, doomed)
           f       == [c \in Cards |-> IF c \in targets THEN Moved(s.card[c], "away")
                                       ELSE s.card[c]]
<1>1. CASE targets = {}
  <2>1. y = s
    BY <1>1 DEF Destroy
  <2>2. \A c \in Cards : Lethal(s, c) => c \in doomed \cap Indestructible
    BY <1>1 DEF Lethal
  <2> HIDE DEF y
  <2>3. QED
    BY <2>1, <2>2 DEF y
<1>2. CASE targets # {}
  <2>1. y = [s EXCEPT !.card = f, !.checked = FALSE]
    BY <1>2 DEF Destroy, MoveCards, Touch
  <2>2. y.card = f /\ y.deck = s.deck
    <3> HIDE DEF f, y
    <3>1. QED
      BY <2>1 DEF GameState
  <2>3. ASSUME NEW c \in Cards, Lethal(y, c) PROVE c \in doomed \cap Indestructible
    <3>1. CASE c \in targets
      <4>1. f[c].zone = "away"
        BY <3>1 DEF Moved
      <4> HIDE DEF f, y
      <4>2. QED
        BY <2>2, <2>3, <4>1 DEF Lethal, InPlay
    <3>2. CASE c \notin targets
      <4>1. f[c] = s.card[c]
        BY <3>2
      <4>2. Lethal(s, c)
        <5> HIDE DEF f, y
        <5>1. QED
          BY <2>2, <2>3, <4>1 DEF Lethal, InPlay
      <4>3. QED
        BY <3>2, <4>2 DEF Lethal
    <3>3. QED
      BY <3>1, <3>2
  <2>4. QED
    BY <2>2, <2>3
<1>3. QED
  BY <1>1, <1>2

\* Rules management ends the game with its cause, or leaves a settled board.
LEMMA RulesAreGood ==
  ASSUME NEW s, IInv(s), s.winner = NoWinner, s.pending = None \/ s.pending.kind = "effect",
         NEW x \in RulesManagement(s)
  PROVE  /\ IInv(x)
         /\ Ended(s, x) \/ SameControl(s, x)
         /\ Ended(s, x) \/ s.step \in SetupSteps \/ Settled(x)
         /\ s.step \in SetupSteps => x = s
         /\ s.effects => Ended(s, x) \/ x.effects
<1>1. s \in GameState
  BY DEF IInv
<1>2. CASE s.step \in SetupSteps
  BY <1>2 DEF RulesManagement, SameControl
<1>3. CASE s.step \notin SetupSteps /\ Settled(s)
  <2>1. CASE x = s
    BY <1>3, <2>1 DEF SameControl
  <2>2. CASE x # s
    <3>1. x = [s EXCEPT !.checked = TRUE] /\ \A c \in Cards : ~Lethal(s, c)
      BY <1>3, <2>2, SettledRules
    <3>2. SameControl(s, x) /\ x \in GameState /\ x.card = s.card /\ x.deck = s.deck
          /\ x.shields = s.shields /\ x.effects = s.effects
      BY <1>1, <3>1 DEF SameControl, GameState
    <3>3. Settled(x)
      BY <1>3, <3>2, SameBoard
    <3>4. OverInv(x) /\ StackInv(x) /\ LastingInv(x) /\ SetupInv(x)
      BY <3>2 DEF SameControl, IInv, OverInv, StackInv, LastingInv, SetupInv
    <3>5. EffectsInv(x) /\ PassInv(x)
      BY <3>2 DEF SameControl, IInv, EffectsInv, PassInv
    <3>6. CheckedInv(x)
      BY <3>1, <3>2, <3>3, SameBoard DEF CheckedInv
    <3>7. AskedInv(x)
      BY <3>2, <3>3 DEF SameControl, IInv, AskedInv
    <3>8. WholeInv(x)
      BY <3>2, <3>3, SameBoard DEF SameControl, IInv, WholeInv, CurrentBattle
    <3>9. Cause(x)
      BY <3>2 DEF SameControl, IInv, OverInv, Cause
    <3>10. QED
      BY <1>3, <3>2, <3>3, <3>4, <3>5, <3>6, <3>7, <3>8, <3>9 DEF IInv
  <2>3. QED
    BY <2>1, <2>2
<1>4. CASE s.step \notin SetupSteps /\ ~Settled(s)
  <2>1. ~s.checked /\ Idle(s)
    BY <1>4 DEF IInv, CheckedInv, WholeInv, Idle
  <2>2. CASE Losers(s) # {}
    <3>1. x = SetWinner(s, Losers(s), "deck_out")
      BY <1>4, <2>1, <2>2 DEF RulesManagement
    <3>2. Ended(s, x)
      BY <1>1, <2>2, <3>1, DeckOutEnds
    <3>3. QED
      BY <1>4, <3>2, EndedIsGood
  <2>3. CASE Losers(s) = {}
    <3> DEFINE doomed == {c \in Cards : Lethal(s, c)}
               y == Destroy(s, doomed)
               z == [y EXCEPT !.checked = doomed \cap Indestructible = {}]
    <3>1. \A p \in Players : s.deck[p] > 0
      BY <1>1, <2>3, Parameters DEF Losers, GameState
    <3>2. doomed # {} /\ ~(doomed \subseteq Indestructible)
      BY <1>4, <3>1 DEF Settled
    <3>3. x \in Emit({z})
      BY <1>4, <2>1, <2>3, <3>2, Zenon DEF RulesManagement
    <3>4. Board(s, y)
      BY <1>1, DestroyBoard
    <3>5. y.deck = s.deck /\ \A c \in Cards : Lethal(y, c) => c \in doomed \cap Indestructible
      BY <1>1, DeadCardsGo
    <3>6. IInv(y) /\ Idle(y) /\ y \in GameState
      BY <2>1, <3>4, BoardIsGood DEF Board
    <3> HIDE DEF y
    <3>7. Settled(y)
      BY <3>1, <3>5 DEF Settled
    <3>8. doomed \cap Indestructible = {} => \A c \in Cards : ~Lethal(y, c)
      BY <3>5
    <3> HIDE DEF doomed
    <3>9. x = z \/ x = [z EXCEPT !.effects = TRUE]
      BY <3>3 DEF Emit
    <3>10. /\ x \in GameState /\ SameControl(y, x) /\ x.card = y.card /\ x.deck = y.deck
           /\ x.shields = y.shields /\ (y.effects => x.effects)
           /\ x.checked => doomed \cap Indestructible = {}
      <4> DEFINE b == doomed \cap Indestructible = {}
      <4>1. z = [y EXCEPT !.checked = b] /\ b \in BOOLEAN
        OBVIOUS
      <4> HIDE DEF b, z
      <4>2. x \in GameState
        <5>1. z \in GameState
          BY <3>6, <4>1 DEF GameState
        <5>2. [z EXCEPT !.effects = TRUE] \in GameState
          BY <5>1 DEF GameState
        <5>3. QED
          BY <3>9, <5>1, <5>2
      <4>3. SameControl(y, x) /\ x.card = y.card /\ x.deck = y.deck /\ x.shields = y.shields
        BY <3>6, <3>9, <4>1 DEF GameState, SameControl
      <4>4. x.checked => b
        BY <3>6, <3>9, <4>1 DEF GameState
      <4>5. y.effects => x.effects
        BY <3>6, <3>9, <4>1 DEF GameState
      <4>6. QED
        BY <4>2, <4>3, <4>4, <4>5 DEF b
    <3>11. IInv(x)
      BY <3>6, <3>7, <3>8, <3>10, CheckIsGood
    <3>12. Settled(x)
      BY <3>7, <3>10, SameBoard
    <3>13. SameControl(s, x) /\ (s.effects => x.effects)
      BY <3>4, <3>10 DEF Board, SameControl
    <3>14. QED
      BY <1>4, <3>11, <3>12, <3>13
  <2>4. QED
    BY <2>2, <2>3
<1>5. QED
  BY <1>2, <1>3, <1>4

-----------------------------------------------------------------------------
(* Battle damage and the instructions of effects.                          *)

\* Battle damage changes the board alone, or ends the game with its cause.
LEMMA DamageStepBoard ==
  ASSUME NEW s \in GameState, s.winner = NoWinner, NEW b,
         b.attacker \in Units, b.target \in Cards \cup {Player},
         b.target = Player => Settled(s), NEW x \in DamageStep(s, b)
  PROVE  Board(s, x) \/ (b.target = Player /\ Ended(s, x))
<1> DEFINE p == 1 - Owner[b.attacker]
           hits == IF b.target = Player THEN AttackPlayer(s, p)
                   ELSE IF s.card[b.target].zone = "base" THEN AttackBase(s, b.target)
                   ELSE Exchange(s, b.attacker, b.target)
<1>1. p \in Players /\ b.attacker \in Cards
  BY GameAssumption DEF Players, Cards
<1>2. CASE b.target # Player
  <2>1. b.target \in Cards
    BY <1>2
  <2>2. \A y \in hits : Board(s, y)
    BY <1>1, <1>2, <2>1, BaseBoard, ExchangeBoard
  <2>3. x \in Emit(hits)
    BY DEF DamageStep
  <2> HIDE DEF hits
  <2>4. QED
    BY <2>2, <2>3, EmitBoard
<1>3. CASE b.target = Player
  <2> DEFINE bases == {c \in Bases : Owner[c] = p /\ InPlay(s, c)}
             top   == IF s.shields[p] > 2 THEN 2 ELSE s.shields[p]
  <2>1. x \in Emit(AttackPlayer(s, p))
    BY <1>3 DEF DamageStep
  <2>2. s.shields[p] \in Nat
    BY <1>1, Parameters DEF GameState
  <2>3. ASSUME NEW y \in AttackPlayer(s, p) PROVE Board(s, y) \/ Ended(s, y)
    <3>1. CASE y = s
      BY <3>1, BoardSelf
    <3>2. CASE bases # {} /\ \E c \in bases : y \in AttackBase(s, c)
      BY <3>2, BaseBoard DEF Cards
    <3>3. CASE top > 0 /\ \E n \in 1 .. top : y = DestroyShields(s, p, n)
      <4>1. PICK n \in 1 .. top : y = DestroyShields(s, p, n)
        BY <3>3
      <4>2. n \in 0 .. s.shields[p]
        BY <2>2, <4>1
      <4>3. QED
        BY <1>1, <4>1, <4>2, ShieldsBoard
    <3>4. CASE bases = {} /\ ~(top > 0) /\ y = SetWinner(s, {p}, "battle_damage")
      <4>1. s.shields[p] = 0
        BY <2>2, <3>4
      <4>2. OwnInPlay(s, p) \cap Bases = {}
        BY <3>4 DEF OwnInPlay
      <4>3. \A q \in Players : s.deck[q] > 0
        BY <1>3 DEF Settled
      <4>4. Ended(s, SetWinner(s, {p}, "battle_damage"))
        BY <1>1, <4>1, <4>2, <4>3, DefeatEnds
      <4>5. QED
        BY <3>4, <4>4
    <3>5. y \in {s} \cup (IF bases # {} THEN UNION {AttackBase(s, c) : c \in bases}
                          ELSE IF top > 0 THEN {DestroyShields(s, p, n) : n \in 1 .. top}
                          ELSE {SetWinner(s, {p}, "battle_damage")})
      BY Zenon DEF AttackPlayer
    <3> HIDE DEF bases, top
    <3>6. QED
      BY <3>1, <3>2, <3>3, <3>4, <3>5
  <2>4. x \in AttackPlayer(s, p)
          \/ \E y \in AttackPlayer(s, p) : y.winner = NoWinner /\ x = [y EXCEPT !.effects = TRUE]
    BY <2>1 DEF Emit
  <2>5. CASE x \in AttackPlayer(s, p)
    BY <1>3, <2>3, <2>5
  <2>6. ASSUME NEW y \in AttackPlayer(s, p), y.winner = NoWinner, x = [y EXCEPT !.effects = TRUE]
        PROVE  Board(s, x)
    <3>1. Board(s, y)
      BY <2>3, <2>6 DEF Ended
    <3>2. QED
      BY <2>6, <3>1 DEF Board, SameControl, GameState
  <2>7. QED
    BY <2>4, <2>5, <2>6
<1>4. QED
  BY <1>2, <1>3

\* A StartBattle instruction deals damage between cards: the board alone changes.
LEMMA StartBattleBoard ==
  ASSUME NEW s \in GameState, s.winner = NoWinner, NEW y \in StartBattle(s)
  PROVE  Board(s, y)
<1> DEFINE s1 == Touch([s EXCEPT !.next_battle_id = @ + 1])
<1>1. PICK z \in Units \X Cards : y \in DamageOnlyBattle(s, z[1], z[2])
  BY DEF StartBattle
<1> DEFINE b == NewBattle(s, z[1], z[2], FALSE)
<1>2. PICK x \in DamageStep(s1, b) : y = Touch(x)
  BY <1>1 DEF DamageOnlyBattle
<1>3. b.attacker \in Units /\ b.target \in Cards /\ b.target # Player
  BY GameAssumption DEF NewBattle
<1>4. s1 \in GameState /\ s1.winner = NoWinner /\ Board(s, s1)
  <2>1. s1 = [s EXCEPT !.next_battle_id = s.next_battle_id + 1, !.checked = FALSE]
    BY DEF Touch
  <2>2. s.next_battle_id + 1 \in Nat
    BY DEF GameState
  <2>3. s1 \in GameState
    BY <2>1, <2>2 DEF GameState
  <2> HIDE DEF s1
  <2>4. SameControl(s, s1) /\ ~s1.checked /\ s1.effects = s.effects /\ s1.budget = s.budget
    BY <2>1 DEF SameControl, GameState
  <2>5. QED
    BY <2>3, <2>4 DEF Board, SameControl
<1> HIDE DEF b, s1
<1>5. Board(s1, x)
  BY <1>2, <1>3, <1>4, DamageStepBoard
<1>6. Board(s, x)
  BY <1>4, <1>5, BoardTrans
<1>7. QED
  BY <1>2, <1>6 DEF Touch, Board, SameControl, GameState

\* So do the other instructions on cards.
LEMMA BoardInstructionsBoard ==
  ASSUME NEW s \in GameState, NEW y \in BoardInstructions(s)
  PROVE  Board(s, y)
<1> DEFINE A == {Destroy(s, {c}) : c \in Cards}
           B == {ApplyDamage(s, hit[1], hit[2]) : hit \in Cards \X (1 .. HP)}
           C == {MoveCards(s, {c}, "away") : c \in {x \in Cards : InPlay(s, x)}}
           D == {MoveCards(s, {c}, HomeZone(c)) : c \in {x \in Cards : ~InPlay(s, x)}}
           E == {Drawn(s, p) : p \in Players}
           F == {DestroyShields(s, p, 1) : p \in {x \in Players : s.shields[x] > 0}}
<1>1. y \in A \/ y \in B \/ y \in C \/ y \in D \/ y \in E \/ y \in F
  BY Zenon DEF BoardInstructions
<1>2. CASE y \in A
  BY <1>2, DestroyBoard
<1>3. CASE y \in B
  <2>1. PICK hit \in Cards \X (1 .. HP) : y = ApplyDamage(s, hit[1], hit[2])
    BY <1>3
  <2>2. hit[1] \in Cards /\ hit[2] \in Nat
    BY <2>1, Parameters
  <2>3. QED
    BY <2>1, <2>2, DamageBoard
<1>4. CASE y \in C
  BY <1>4, MoveBoard
<1>5. CASE y \in D
  <2>1. PICK c \in Cards : y = MoveCards(s, {c}, HomeZone(c))
    BY <1>5
  <2>2. HomeZone(c) \in {"away", "battle", "base"}
    BY DEF HomeZone
  <2> HIDE DEF D
  <2>3. QED
    BY <2>1, <2>2, MoveBoard
<1>6. CASE y \in E
  BY <1>6, DrawnBoard
<1>7. CASE y \in F
  <2>1. PICK p \in Players : s.shields[p] > 0 /\ y = DestroyShields(s, p, 1)
    BY <1>7
  <2>2. s.shields[p] \in 0 .. ShieldCount
    BY DEF GameState
  <2>3. 1 \in 0 .. s.shields[p]
    BY <2>1, <2>2, Parameters
  <2>4. QED
    BY <2>1, <2>3, ShieldsBoard
<1> HIDE DEF A, B, C, D, E, F
<1>8. QED
  BY <1>1, <1>2, <1>3, <1>4, <1>5, <1>6, <1>7

\* A stack that is not empty and holds at most one battle holds one.
LEMMA OneBattle ==
  ASSUME NEW s, IInv(s), s.battles # <<>>
  PROVE  s.battles \in Seq(BattleRec) /\ Len(s.battles) = 1
<1>1. s.battles \in Seq(BattleRec) /\ Len(s.battles) <= 1
  BY DEF GameState, IInv, StackInv
<1>2. Len(s.battles) \in Nat \ {0}
  BY <1>1, EmptySeq
<1>3. \A n \in Nat \ {0} : n <= 1 => n = 1
  OBVIOUS
<1>4. QED
  BY <1>1, <1>2, <1>3, Zenon

\* Follows: what an instruction or rules management may do to the game besides.
Follows(s, x) ==
  \/ x.step = "GameOver"
  \/ x.step = s.step /\ x.declined = s.declined

\* An effect "during this battle" starts only while the battle goes on.
LEMMA ThisBattleIsGood ==
  ASSUME NEW s, IInv(s), Idle(s), NEW y \in ApplyThisBattle(s)
  PROVE  IInv(y) /\ Idle(y) /\ Follows(s, y) /\ y.budget = s.budget /\ y.effects = s.effects
<1> DEFINE id == CurrentBattle(s).battle_id
<1>1. s \in GameState /\ s.battles # <<>> /\ ~CurrentBattle(s).ended
  BY DEF ApplyThisBattle, IInv
<1>2. s.battles \in Seq(BattleRec) /\ Len(s.battles) = 1
  BY <1>1, OneBattle
<1>3. CurrentBattle(s) = s.battles[1] /\ s.battles[1] \in BattleRec
  BY <1>2, ElementOfSeq DEF CurrentBattle, Last
<1>4. y = [s EXCEPT !.lasting = s.lasting \cup {id}, !.checked = FALSE]
  BY <1>1 DEF ApplyThisBattle, Touch
<1>5. id \in Nat
  BY <1>3 DEF BattleRec
<1>6. y \in GameState
  BY <1>1, <1>4, <1>5 DEF GameState
<1>7. /\ y.lasting = s.lasting \cup {s.battles[1].battle_id} /\ ~y.checked
      /\ y.step = s.step /\ y.declined = s.declined /\ y.winner = s.winner
      /\ y.end_reason = s.end_reason /\ y.pending = s.pending /\ y.battles = s.battles
      /\ y.effects = s.effects /\ y.passes = s.passes /\ y.priority = s.priority
      /\ y.action_count = s.action_count /\ y.deck = s.deck /\ y.budget = s.budget
  BY <1>1, <1>3, <1>4 DEF GameState
<1>8. LastingInv(y)
  BY <1>1, <1>2, <1>3, <1>7 DEF IInv, LastingInv
<1>9. OverInv(y) /\ StackInv(y) /\ SetupInv(y) /\ EffectsInv(y) /\ CheckedInv(y) /\ PassInv(y)
  BY <1>7 DEF IInv, OverInv, StackInv, SetupInv, EffectsInv, CheckedInv, PassInv
<1>10. AskedInv(y) /\ WholeInv(y) /\ Cause(y) /\ Idle(y)
  BY <1>7 DEF Idle, IInv, AskedInv, WholeInv, OverInv, Cause
<1>11. QED
  BY <1>6, <1>7, <1>8, <1>9, <1>10 DEF IInv, Follows

\* A battle whose target changes keeps its id and goes on.
LEMMA Retarget ==
  ASSUME NEW s \in GameState, Len(s.battles) = 1, NEW c \in Cards
  PROVE  LET bs == [[s.battles EXCEPT ![Len(s.battles)].target = c] EXCEPT
                      ![Len(s.battles)].target_seq = s.card[c].zone_seq]
         IN  /\ bs \in Seq(BattleRec) /\ Len(bs) = 1
             /\ bs[1].battle_id = s.battles[1].battle_id
             /\ bs[1].ended = s.battles[1].ended
             /\ bs[1].attacker = s.battles[1].attacker
             /\ bs[1].attacker_seq = s.battles[1].attacker_seq
             /\ bs[1].target = c /\ bs[1].target_seq = s.card[c].zone_seq
<1> DEFINE q == s.card[c].zone_seq
           r == s.battles[1]
           r1 == [r EXCEPT !.target = c]
           r2 == [r1 EXCEPT !.target_seq = q]
           b1 == [s.battles EXCEPT ![1] = r1]
           bs == [[s.battles EXCEPT ![Len(s.battles)].target = c] EXCEPT
                    ![Len(s.battles)].target_seq = q]
<1>1. s.battles \in Seq(BattleRec) /\ 1 \in 1 .. Len(s.battles) /\ q \in Nat
  BY DEF GameState, CardState
<1>2. r \in BattleRec
  BY <1>1, ElementOfSeq
<1>3. r1 \in BattleRec /\ r2 \in BattleRec
  <2> HIDE DEF q, r
  <2>1. QED
    BY <1>1, <1>2 DEF BattleRec
<1>4. r2.battle_id = r.battle_id /\ r2.ended = r.ended /\ r2.attacker = r.attacker
      /\ r2.attacker_seq = r.attacker_seq /\ r2.target = c /\ r2.target_seq = q
  <2> HIDE DEF q, r
  <2>1. QED
    BY <1>2 DEF BattleRec
<1>5. b1 \in Seq(BattleRec) /\ Len(b1) = 1 /\ b1[1] = r1
  <2> HIDE DEF r1
  <2>1. QED
    BY <1>1, <1>3, ExceptSeq
<1>6. bs = [b1 EXCEPT ![1] = [b1[1] EXCEPT !.target_seq = q]]
  BY Zenon
<1>7. bs = [b1 EXCEPT ![1] = r2]
  BY <1>5, <1>6, Zenon
<1> HIDE DEF b1, r2, bs
<1>8. bs \in Seq(BattleRec) /\ Len(bs) = 1 /\ bs[1] = r2
  BY <1>3, <1>5, <1>7, ExceptSeq
<1>9. QED
  BY <1>4, <1>8 DEF bs

\* So does an instruction that gives the battle another target.
LEMMA ChangeTargetIsGood ==
  ASSUME NEW s, IInv(s), Idle(s), NEW y \in ChangeTarget(s)
  PROVE  IInv(y) /\ Idle(y) /\ Follows(s, y) /\ y.budget = s.budget /\ y.effects = s.effects
<1>1. s \in GameState /\ s.battles # <<>> /\ ~CurrentBattle(s).ended
  BY DEF ChangeTarget, IInv
<1>2. s.battles \in Seq(BattleRec) /\ Len(s.battles) = 1
  BY <1>1, OneBattle
<1>3. PICK c \in Cards :
        y = Touch([s EXCEPT !.battles[Len(s.battles)].target = c,
                            !.battles[Len(s.battles)].target_seq = s.card[c].zone_seq])
  BY <1>1 DEF ChangeTarget
<1> DEFINE bs == [[s.battles EXCEPT ![Len(s.battles)].target = c] EXCEPT
                    ![Len(s.battles)].target_seq = s.card[c].zone_seq]
<1>4. y = [s EXCEPT !.battles = bs, !.checked = FALSE]
  BY <1>1, <1>3 DEF Touch, GameState
<1>5. /\ bs \in Seq(BattleRec) /\ Len(bs) = 1
      /\ bs[1].battle_id = s.battles[1].battle_id /\ bs[1].ended = s.battles[1].ended
  BY <1>1, <1>2, Retarget
<1> HIDE DEF bs
<1>6. y \in GameState
  BY <1>1, <1>4, <1>5 DEF GameState
<1>7. /\ y.battles = bs /\ ~y.checked /\ y.lasting = s.lasting
      /\ y.step = s.step /\ y.declined = s.declined /\ y.winner = s.winner
      /\ y.end_reason = s.end_reason /\ y.pending = s.pending
      /\ y.effects = s.effects /\ y.passes = s.passes /\ y.priority = s.priority
      /\ y.action_count = s.action_count /\ y.deck = s.deck /\ y.budget = s.budget
  BY <1>1, <1>4 DEF GameState
<1>8. LastingInv(y)
  BY <1>2, <1>5, <1>7 DEF IInv, LastingInv
<1>9. OverInv(y) /\ StackInv(y) /\ SetupInv(y) /\ EffectsInv(y) /\ CheckedInv(y) /\ PassInv(y)
  BY <1>2, <1>5, <1>7 DEF IInv, OverInv, StackInv, SetupInv, EffectsInv, CheckedInv, PassInv
<1>10. AskedInv(y) /\ WholeInv(y) /\ Cause(y) /\ Idle(y)
  BY <1>7 DEF Idle, IInv, AskedInv, WholeInv, OverInv, Cause
<1>11. QED
  BY <1>6, <1>7, <1>8, <1>9, <1>10 DEF IInv, Follows

\* Every instruction of an effect keeps the invariant.
LEMMA InstructionIsGood ==
  ASSUME NEW s, IInv(s), Idle(s), NEW x \in Instruction(s)
  PROVE  IInv(x) /\ Idle(x) /\ Follows(s, x) /\ (s.effects => x.effects)
<1>1. s \in GameState /\ s.budget # 0
  BY DEF IInv, Instruction
<1>2. PICK y \in BoardInstructions(s) \cup ApplyThisBattle(s) \cup ChangeTarget(s)
                 \cup StartBattle(s) : x = [y EXCEPT !.budget = y.budget - 1]
  BY Zenon DEF Instruction
<1>3. IInv(y) /\ Idle(y) /\ Follows(s, y) /\ y.budget = s.budget /\ (s.effects => y.effects)
  <2>1. CASE y \in BoardInstructions(s) \cup StartBattle(s)
    <3>1. Board(s, y)
      BY <1>1, <2>1, BoardInstructionsBoard, StartBattleBoard DEF Idle
    <3>2. IInv(y) /\ Idle(y)
      BY <3>1, BoardIsGood
    <3>3. QED
      BY <3>1, <3>2 DEF Board, SameControl, Follows
  <2>2. CASE y \in ApplyThisBattle(s)
    BY <2>2, ThisBattleIsGood
  <2>3. CASE y \in ChangeTarget(s)
    BY <2>3, ChangeTargetIsGood
  <2>4. QED
    BY <1>2, <2>1, <2>2, <2>3
<1>4. y \in GameState /\ y.budget - 1 \in 0 .. MaxEffects
  <2>1. s.budget \in 0 .. MaxEffects
    BY <1>1 DEF GameState
  <2>2. s.budget - 1 \in 0 .. MaxEffects
    BY <1>1, <2>1, Parameters
  <2>3. QED
    BY <1>3, <2>2 DEF IInv
<1>5. /\ x \in GameState /\ SameControl(y, x) /\ x.card = y.card /\ x.deck = y.deck
      /\ x.shields = y.shields /\ x.effects = y.effects /\ x.checked = y.checked
  BY <1>2, <1>4 DEF SameControl, GameState
<1>6. x.checked => Settled(y) /\ \A c \in Cards : ~Lethal(y, c)
  BY <1>3, <1>5 DEF IInv, CheckedInv, Idle
<1>7. IInv(x)
  BY <1>3, <1>5, <1>6, CheckIsGood
<1>8. QED
  BY <1>3, <1>5, <1>7 DEF Idle, SameControl, Follows

\* So does rules management after it.
LEMMA AfterInstructionIsGood ==
  ASSUME NEW s, NEW S, NEW x \in AfterInstruction(S),
         \A y \in S : /\ IInv(y) /\ Follows(s, y) /\ y.winner = NoWinner
                      /\ y.pending = None \/ y.pending.kind = "effect"
  PROVE  IInv(x) /\ Follows(s, x)
<1>1. CASE x \in S
  BY <1>1
<1>2. ASSUME NEW y \in S, x \in RulesManagement(y) PROVE IInv(x) /\ Follows(s, x)
  <2>1. IInv(y) /\ Follows(s, y) /\ y.winner = NoWinner
        /\ (y.pending = None \/ y.pending.kind = "effect")
    OBVIOUS
  <2>2. IInv(x) /\ (Ended(y, x) \/ SameControl(y, x))
    BY <1>2, <2>1, RulesAreGood
  <2>3. QED
    BY <2>1, <2>2 DEF Ended, SameControl, Follows
<1>3. QED
  BY <1>1, <1>2 DEF AfterInstruction

-----------------------------------------------------------------------------
(* The rows of the turn procedure.                                         *)

\* Ready: rules management is done and the row of s.step may run.
Ready(s) ==
  /\ IInv(s) /\ s.winner = NoWinner /\ ~s.effects /\ s.pending = None
  /\ s.step \notin SetupSteps => Settled(s)

\* A row that goes on to a step without a condition of its own.
LEMMA MoveOn ==
  ASSUME NEW s, Ready(s), NEW x \in GameState,
         x.winner = NoWinner, x.end_reason = s.end_reason, x.pending = None,
         x.step \notin SetupSteps \cup ActionSteps \cup
                       {"Block", "Damage", "BattleEndDone", "GameOver"},
         x.step \in BattleSteps <=> s.step \in BattleSteps,
         x.battles = s.battles, x.lasting \subseteq s.lasting,
         x.checked => s.step \notin SetupSteps /\ s.checked /\ x.card = s.card /\ x.deck = s.deck
  PROVE  IInv(x) /\ Idle(x)
<1> USE DEF Ready
<1>1. OverInv(x) /\ StackInv(x) /\ LastingInv(x) /\ SetupInv(x)
  BY DEF IInv, OverInv, StackInv, LastingInv, SetupInv
<1>2. EffectsInv(x) /\ AskedInv(x) /\ WholeInv(x) /\ PassInv(x)
  BY DEF EffectsInv, AskedInv, WholeInv, PassInv
<1>3. CheckedInv(x)
  BY SameBoard DEF IInv, CheckedInv
<1>4. Cause(x)
  BY DEF IInv, OverInv, Cause
<1>5. QED
  BY <1>1, <1>2, <1>3, <1>4 DEF IInv, Idle

\* The fields of a state that goes to another step.
LEMMA GotoFields ==
  ASSUME NEW s \in GameState, NEW step \in SetupSteps \cup BattleSteps \cup TurnSteps
  PROVE  LET x == Goto(s, step) IN
         /\ x \in GameState /\ x.step = step /\ x.winner = s.winner
         /\ x.end_reason = s.end_reason /\ x.pending = s.pending /\ x.effects = s.effects
         /\ x.battles = s.battles /\ x.lasting = s.lasting /\ x.checked = s.checked
         /\ x.card = s.card /\ x.deck = s.deck /\ x.shields = s.shields
         /\ x.passes = s.passes /\ x.priority = s.priority /\ x.declined = s.declined
         /\ x.action_count = s.action_count /\ x.active = s.active /\ x.turn = s.turn
  BY DEF Goto, GameState

\* Going on to such a step changes nothing else.
LEMMA GotoIsGood ==
  ASSUME NEW s, Ready(s), s.step \notin SetupSteps,
         NEW step \in (BattleSteps \cup TurnSteps) \
                        (ActionSteps \cup {"Block", "Damage", "BattleEndDone"}),
         step \in BattleSteps <=> s.step \in BattleSteps
  PROVE  /\ IInv(Goto(s, step)) /\ Idle(Goto(s, step)) /\ Goto(s, step) \in GameState
         /\ Settled(Goto(s, step)) /\ ~Goto(s, step).effects
<1> DEFINE x == Goto(s, step)
<1>1. s \in GameState
  BY DEF Ready, IInv
<1>2. /\ x \in GameState /\ x.step = step /\ x.winner = s.winner
      /\ x.end_reason = s.end_reason /\ x.pending = s.pending /\ x.effects = s.effects
      /\ x.battles = s.battles /\ x.lasting = s.lasting /\ x.checked = s.checked
      /\ x.card = s.card /\ x.deck = s.deck
  BY <1>1, GotoFields
<1> HIDE DEF x
<1>3. step \notin SetupSteps \cup ActionSteps \cup {"Block", "Damage", "BattleEndDone", "GameOver"}
  BY DEF SetupSteps, BattleSteps, TurnSteps
<1>4. IInv(x) /\ Idle(x)
  BY <1>2, <1>3, MoveOn DEF Ready
<1>5. Settled(x)
  BY <1>2, SameBoard DEF Ready
<1>6. QED
  BY <1>2, <1>4, <1>5 DEF x, Ready

\* What queues triggers after going on.
LEMMA GotoEmit ==
  ASSUME NEW s, Ready(s), s.step \notin SetupSteps,
         NEW step \in (BattleSteps \cup TurnSteps) \
                        (ActionSteps \cup {"Block", "Damage", "BattleEndDone"}),
         step \in BattleSteps <=> s.step \in BattleSteps,
         NEW y, Board(Goto(s, step), y), NEW x \in Emit({y})
  PROVE  IInv(x)
<1>1. IInv(Goto(s, step)) /\ Idle(Goto(s, step))
  BY GotoIsGood
<1>2. Board(Goto(s, step), x)
  BY EmitBoard
<1>3. QED
  BY <1>1, <1>2, BoardIsGood

\* A question of the turn procedure, asked at its step.
LEMMA DecideIsGood ==
  ASSUME NEW s, Ready(s), s.action_count <= MaxActions, NEW p \in Players,
         NEW kind \in {"choose_first", "redraw", "main", "block", "action_step"},
         kind = "choose_first" => s.step = "SetupChooseFirst",
         kind = "redraw" => s.step \in {"SetupRedrawP1", "SetupRedrawP2"},
         kind = "main" => s.step = "Main",
         kind = "block" => s.step = "Block",
         kind = "action_step" => s.step \in ActionSteps /\ s.passes < 2 /\ p = s.priority
  PROVE  IInv(Decide(s, p, kind))
<1> DEFINE x == Decide(s, p, kind)
<1> USE DEF Ready
<1>1. s \in GameState
  BY DEF IInv
<1>2. x = [s EXCEPT !.pending = [player |-> p, kind |-> kind]]
  BY DEF Decide
<1> HIDE DEF x
<1>3. x \in GameState
  BY <1>1, <1>2 DEF GameState, DecisionRec, Kinds
<1>4. /\ x.pending.player = p /\ x.pending.kind = kind
      /\ x.step = s.step /\ x.winner = s.winner /\ x.end_reason = s.end_reason
      /\ x.effects = s.effects /\ x.battles = s.battles /\ x.lasting = s.lasting
      /\ x.checked = s.checked /\ x.card = s.card /\ x.deck = s.deck /\ x.passes = s.passes
      /\ x.priority = s.priority /\ x.declined = s.declined /\ x.action_count = s.action_count
  BY <1>1, <1>2 DEF GameState
<1>5. OverInv(x) /\ StackInv(x) /\ LastingInv(x) /\ SetupInv(x)
  BY <1>4 DEF IInv, OverInv, StackInv, LastingInv, SetupInv
<1>6. EffectsInv(x) /\ PassInv(x)
  BY <1>4 DEF IInv, EffectsInv, PassInv
<1>7. CheckedInv(x)
  BY <1>4, SameBoard DEF IInv, CheckedInv
<1>8. WholeInv(x)
  BY <1>4, SameBoard DEF IInv, WholeInv, CurrentBattle
<1>9. AskedInv(x)
  BY <1>4, SameBoard DEF AskedInv, SetupSteps, ActionSteps
<1>10. Cause(x)
  BY <1>4 DEF IInv, OverInv, Cause
<1>11. QED
  BY <1>3, <1>5, <1>6, <1>7, <1>8, <1>9, <1>10 DEF IInv, x

\* The setup goes on.
LEMMA SetupOn ==
  ASSUME NEW s, Ready(s), s.step \in SetupSteps, NEW x \in GameState,
         x.step \in SetupSteps, SetupInv(x), x.winner = NoWinner,
         x.end_reason = s.end_reason, x.pending = None, ~x.effects,
         x.battles = s.battles, x.lasting = s.lasting
  PROVE  IInv(x)
<1> USE DEF Ready
<1>0. x.step \notin BattleSteps \cup ActionSteps \cup {"GameOver"} /\ s.step \notin BattleSteps
  BY DEF SetupSteps, BattleSteps, ActionSteps
<1>1. OverInv(x) /\ StackInv(x) /\ LastingInv(x)
  BY <1>0 DEF IInv, OverInv, StackInv, LastingInv, BattleSteps
<1>2. EffectsInv(x) /\ AskedInv(x) /\ WholeInv(x) /\ PassInv(x) /\ CheckedInv(x)
  BY <1>0 DEF EffectsInv, AskedInv, WholeInv, PassInv, CheckedInv, BattleSteps
<1>3. Cause(x)
  BY DEF IInv, OverInv, Cause
<1>4. QED
  BY <1>1, <1>2, <1>3 DEF IInv

\* The opening hands are drawn.
LEMMA SetupDrawIsGood ==
  ASSUME NEW s, Ready(s), s.step = "SetupDraw", NEW x \in SetupDraw(s) PROVE IInv(x)
<1> DEFINE d == [p \in Players |-> s.deck[p] - StartHand]
<1>1. s \in GameState
  BY DEF Ready, IInv
<1>2. x = [s EXCEPT !.step = "SetupRedrawP1", !.deck = d, !.checked = FALSE]
  BY DEF SetupDraw, Goto, Touch
<1>3. \A p \in Players : s.deck[p] = DeckSize
  BY DEF Ready, IInv, SetupInv, SetupSteps
<1>4. d \in [Players -> 0 .. DeckSize] /\ \A p \in Players : d[p] = DeckSize - StartHand
  BY <1>3, Parameters
<1> HIDE DEF d
<1>5. x \in GameState
  BY <1>1, <1>2, <1>4 DEF GameState, SetupSteps
<1>6. /\ x.step = "SetupRedrawP1" /\ x.deck = d /\ x.winner = s.winner /\ x.pending = s.pending
      /\ x.end_reason = s.end_reason /\ x.effects = s.effects /\ x.battles = s.battles
      /\ x.lasting = s.lasting
  BY <1>1, <1>2 DEF GameState
<1>7. SetupInv(x)
  BY <1>4, <1>6 DEF SetupInv
<1>8. QED
  BY <1>5, <1>6, <1>7, SetupOn DEF Ready, SetupSteps

\* The Shields are placed and the first turn begins.
LEMMA SetupShieldsIsGood ==
  ASSUME NEW s, Ready(s), s.step = "SetupShields", NEW x \in SetupShields(s) PROVE IInv(x)
<1> DEFINE d == [p \in Players |-> s.deck[p] - ShieldCount]
           h == [p \in Players |-> ShieldCount]
           f == [c \in Cards |-> IF c \in Bases THEN [s.card[c] EXCEPT !.zone = "base"]
                                 ELSE s.card[c]]
<1>1. s \in GameState /\ s.card \in [Cards -> CardState]
  BY DEF Ready, IInv, GameState
<1>2. x = [s EXCEPT !.step = "ActiveStep", !.deck = d, !.shields = h, !.card = f,
                    !.turn = 1, !.checked = FALSE]
  BY DEF SetupShields, Goto, Touch
<1>3. \A p \in Players : s.deck[p] = DeckSize - StartHand
  BY DEF Ready, IInv, SetupInv, SetupSteps
<1>4. d \in [Players -> 0 .. DeckSize] /\ h \in [Players -> 0 .. ShieldCount] /\ 1 \in 0 .. TurnLimit
  BY <1>3, Parameters
<1>5. f \in [Cards -> CardState]
  BY <1>1 DEF CardState
<1> HIDE DEF d, f, h
<1>6. x \in GameState
  BY <1>1, <1>2, <1>4, <1>5 DEF GameState, TurnSteps
<1>7. /\ x.step = "ActiveStep" /\ x.winner = s.winner /\ x.pending = s.pending
      /\ x.end_reason = s.end_reason /\ x.battles = s.battles
      /\ x.lasting = s.lasting /\ ~x.checked
  BY <1>1, <1>2 DEF GameState
<1>8. x.step \notin SetupSteps \cup ActionSteps \cup
                    {"Block", "Damage", "BattleEndDone", "GameOver"}
      /\ x.step \notin BattleSteps /\ s.step \notin BattleSteps
  BY <1>7 DEF SetupSteps, ActionSteps, BattleSteps
<1>9. QED
  BY <1>6, <1>7, <1>8, MoveOn DEF Ready

\* The active player's cards become active.
LEMMA ActiveStepIsGood ==
  ASSUME NEW s, Ready(s), s.step = "ActiveStep", NEW x \in ActiveStep(s) PROVE IInv(x)
<1>1. s \in GameState /\ s.card \in [Cards -> CardState]
  BY DEF Ready, IInv, GameState
<1>2. PICK freed : x = Touch([Goto(s, "StartStep") EXCEPT
               !.card = [c \in Cards |-> [s.card[c] EXCEPT !.rested = @ /\ c \notin freed]]])
  BY DEF ActiveStep
<1> DEFINE f == [c \in Cards |-> [s.card[c] EXCEPT !.rested = @ /\ c \notin freed]]
<1>3. x = [s EXCEPT !.step = "StartStep", !.card = f, !.checked = FALSE]
  BY <1>2 DEF Goto, Touch
<1>4. f \in [Cards -> CardState]
  <2> SUFFICES ASSUME NEW c \in Cards
               PROVE  [s.card[c] EXCEPT !.rested = @ /\ c \notin freed] \in CardState
    OBVIOUS
  <2>1. s.card[c] \in CardState
    BY <1>1
  <2>2. QED
    BY <2>1 DEF CardState
<1> HIDE DEF f
<1>5. x \in GameState
  BY <1>1, <1>3, <1>4 DEF GameState, TurnSteps
<1>6. /\ x.step = "StartStep" /\ x.winner = s.winner /\ x.pending = s.pending
      /\ x.end_reason = s.end_reason /\ x.battles = s.battles
      /\ x.lasting = s.lasting /\ ~x.checked
  BY <1>1, <1>3 DEF GameState
<1>7. x.step \notin SetupSteps \cup ActionSteps \cup
                    {"Block", "Damage", "BattleEndDone", "GameOver"}
      /\ x.step \notin BattleSteps /\ s.step \notin BattleSteps
  BY <1>6 DEF SetupSteps, ActionSteps, BattleSteps
<1>8. QED
  BY <1>5, <1>6, <1>7, MoveOn DEF Ready

\* A battle that is whole goes on, a broken one goes to its end.
LEMMA CheckBattleIsGood ==
  ASSUME NEW s, Ready(s), s.step \in BattleSteps, NEW next \in {"Block", "Damage"},
         NEW x \in CheckBattle(s, next)
  PROVE  IInv(x)
<1>1. s.step \notin SetupSteps
  BY DEF BattleSteps, SetupSteps
<1>2. CASE BattleBroken(s, CurrentBattle(s))
  <2>1. x = Goto(s, "BattleEnd")
    BY <1>2 DEF CheckBattle
  <2>2. QED
    BY <1>1, <2>1, GotoIsGood DEF BattleSteps, ActionSteps
<1>3. CASE ~BattleBroken(s, CurrentBattle(s))
  <2>1. x = Goto(s, next)
    BY <1>3 DEF CheckBattle
  <2>2. s \in GameState /\ next \in BattleSteps /\ next \notin SetupSteps \cup ActionSteps
        /\ next # "BattleEndDone" /\ next # "GameOver"
    BY DEF Ready, IInv, BattleSteps, SetupSteps, ActionSteps
  <2>3. /\ x \in GameState /\ x.step = next /\ x.winner = s.winner
        /\ x.end_reason = s.end_reason /\ x.pending = s.pending /\ x.effects = s.effects
        /\ x.battles = s.battles /\ x.lasting = s.lasting /\ x.checked = s.checked
        /\ x.card = s.card /\ x.deck = s.deck
    BY <2>1, <2>2, GotoFields
  <2>4. OverInv(x) /\ StackInv(x) /\ LastingInv(x) /\ SetupInv(x)
    BY <2>2, <2>3 DEF Ready, IInv, OverInv, StackInv, LastingInv, SetupInv
  <2>5. EffectsInv(x) /\ AskedInv(x) /\ PassInv(x)
    BY <2>2, <2>3 DEF Ready, EffectsInv, AskedInv, PassInv
  <2>6. CheckedInv(x) /\ WholeInv(x)
    BY <1>1, <1>3, <2>3, SameBoard DEF Ready, IInv, CheckedInv, WholeInv, CurrentBattle
  <2>7. Cause(x)
    BY <2>3 DEF Ready, IInv, OverInv, Cause
  <2>8. QED
    BY <2>3, <2>4, <2>5, <2>6, <2>7 DEF IInv
<1>4. QED
  BY <1>2, <1>3

\* An action step opens with nobody having passed.
LEMMA OpenIsGood ==
  ASSUME NEW s, Ready(s), s.step \notin SetupSteps, NEW step \in ActionSteps,
         step \in BattleSteps <=> s.step \in BattleSteps
  PROVE  IInv(OpenActionStep(s, step))
<1> DEFINE x == OpenActionStep(s, step)
<1>1. s \in GameState
  BY DEF Ready, IInv
<1>2. x = [s EXCEPT !.step = step, !.priority = 1 - s.active, !.passes = 0, !.declined = {}]
  BY DEF OpenActionStep, Goto, Standby
<1> HIDE DEF x
<1>3. s.active \in Players /\ 1 - s.active \in Players
  BY <1>1 DEF GameState, Players
<1>4. step \in BattleSteps \cup TurnSteps /\ step \notin SetupSteps \cup {"Block", "Damage",
        "BattleEndDone", "GameOver"}
  BY DEF ActionSteps, BattleSteps, TurnSteps, SetupSteps
<1>5. x \in GameState
  <2>1. 0 \in 0 .. 2 /\ {} \in SUBSET Players
    OBVIOUS
  <2>2. QED
    BY <1>1, <1>2, <1>3, <1>4, <2>1 DEF GameState
<1>6. /\ x.step = step /\ x.passes = 0 /\ x.declined = {} /\ x.winner = s.winner
      /\ x.end_reason = s.end_reason /\ x.pending = s.pending /\ x.effects = s.effects
      /\ x.battles = s.battles /\ x.lasting = s.lasting /\ x.checked = s.checked
      /\ x.card = s.card /\ x.deck = s.deck
  BY <1>1, <1>2 DEF GameState
<1>7. OverInv(x) /\ StackInv(x) /\ LastingInv(x) /\ SetupInv(x)
  BY <1>4, <1>6 DEF Ready, IInv, OverInv, StackInv, LastingInv, SetupInv
<1>8. EffectsInv(x) /\ AskedInv(x) /\ WholeInv(x) /\ PassInv(x)
  BY <1>4, <1>6 DEF Ready, EffectsInv, AskedInv, WholeInv, PassInv
<1>9. CheckedInv(x)
  BY <1>6, SameBoard DEF Ready, IInv, CheckedInv
<1>10. Cause(x)
  BY <1>6 DEF Ready, IInv, OverInv, Cause
<1>11. QED
  BY <1>5, <1>7, <1>8, <1>9, <1>10 DEF IInv, x

\* A pass of the player with priority.
LEMMA PassIsGood ==
  ASSUME NEW s, Ready(s), s.step \in ActionSteps, s.passes < 2
  PROVE  LET x == PassPriority(s, s.priority) IN IInv(x) /\ x.step = s.step
<1> DEFINE p == s.priority
           x == PassPriority(s, p)
<1>1. s \in GameState /\ p \in Players /\ 1 - p \in Players
  BY DEF Ready, IInv, GameState, Players
<1>2. x = [s EXCEPT !.passes = s.passes + 1, !.priority = 1 - p,
                    !.declined = s.declined \cup {p}]
  BY Zenon DEF PassPriority
<1>3. (s.passes = 0 /\ s.declined = {}) \/ (s.passes = 1 /\ s.declined = {1 - p})
  BY DEF Ready, IInv, PassInv
<1>4. s.step \notin SetupSteps \cup {"Block", "Damage", "BattleEndDone", "GameOver"}
  BY DEF ActionSteps, SetupSteps
<1> HIDE DEF p, x
<1>5. s.passes + 1 \in 0 .. 2 /\ s.declined \cup {p} \in SUBSET Players
  BY <1>1, <1>3
<1>6. x \in GameState
  BY <1>1, <1>2, <1>5 DEF GameState
<1>7. /\ x.step = s.step /\ x.passes = s.passes + 1 /\ x.declined = s.declined \cup {p}
      /\ x.priority = 1 - p /\ x.winner = s.winner
      /\ x.end_reason = s.end_reason /\ x.pending = s.pending /\ x.effects = s.effects
      /\ x.battles = s.battles /\ x.lasting = s.lasting /\ x.checked = s.checked
      /\ x.card = s.card /\ x.deck = s.deck
  BY <1>1, <1>2 DEF GameState
<1>8. PassInv(x)
  BY <1>1, <1>3, <1>7 DEF PassInv, Players
<1>9. OverInv(x) /\ StackInv(x) /\ LastingInv(x) /\ SetupInv(x)
  BY <1>4, <1>7 DEF Ready, IInv, OverInv, StackInv, LastingInv, SetupInv
<1>10. EffectsInv(x) /\ AskedInv(x) /\ WholeInv(x)
  BY <1>4, <1>7 DEF Ready, EffectsInv, AskedInv, WholeInv
<1>11. CheckedInv(x)
  BY <1>7, SameBoard DEF Ready, IInv, CheckedInv
<1>12. Cause(x)
  BY <1>7 DEF Ready, IInv, OverInv, Cause
<1>13. QED
  BY <1>6, <1>7, <1>8, <1>9, <1>10, <1>11, <1>12 DEF IInv, x, p

\* In the steps of a battle there is one.
LEMMA InBattle ==
  ASSUME NEW s, IInv(s), s.winner = NoWinner, s.step \in BattleSteps
  PROVE  /\ s.battles \in Seq(BattleRec) /\ Len(s.battles) = 1
         /\ CurrentBattle(s) = s.battles[1] /\ CurrentBattle(s) \in BattleRec
<1>1. s.battles \in Seq(BattleRec) /\ Len(s.battles) = 1
  BY DEF IInv, StackInv, GameState
<1>2. 1 \in 1 .. 1
  OBVIOUS
<1>3. 1 \in 1 .. Len(s.battles)
  BY <1>1, <1>2, Zenon
<1>4. s.battles[1] \in BattleRec
  BY <1>1, <1>3, ElementOfSeq, Zenon
<1>5. CurrentBattle(s) = s.battles[1]
  BY <1>1, Zenon DEF CurrentBattle, Last
<1>6. QED
  BY <1>1, <1>4, <1>5, Zenon

\* An action step: a silent pass, a question, or the end after two passes.
LEMMA ActionStepIsGood ==
  ASSUME NEW s, Ready(s), s.step \in ActionSteps, s.action_count <= MaxActions,
         NEW x \in ActionStep(s)
  PROVE  IInv(x) /\ (x.step \in ActionSteps \/ s.declined = Players)
<1>1. s \in GameState /\ s.passes \in 0 .. 2 /\ s.priority \in Players
  BY DEF Ready, IInv, GameState
<1>2. s.step \notin SetupSteps
  BY DEF ActionSteps, SetupSteps
<1>3. CASE s.passes >= 2
  <2>1. s.declined = Players
    BY <1>1, <1>3 DEF Ready, IInv, PassInv
  <2>2. x = Goto(s, IF s.step = "BattleAction" THEN "BattleActionEndCheck" ELSE "EndStep")
    BY <1>3 DEF ActionStep
  <2>3. CASE s.step = "BattleAction"
    <3>1. x = Goto(s, "BattleActionEndCheck")
      BY <2>2, <2>3
    <3>2. QED
      BY <1>2, <2>1, <2>3, <3>1, GotoIsGood DEF BattleSteps, ActionSteps
  <2>4. CASE s.step = "EndAction"
    <3>1. x = Goto(s, "EndStep")
      BY <2>2, <2>4
    <3>2. QED
      BY <1>2, <2>1, <2>4, <3>1, GotoIsGood DEF BattleSteps, ActionSteps, TurnSteps
  <2>5. QED
    BY <2>3, <2>4 DEF ActionSteps
<1>4. CASE s.passes < 2
  <2>1. x \in {PassPriority(s, s.priority), Decide(s, s.priority, "action_step")}
    BY <1>1, <1>4 DEF ActionStep
  <2>2. CASE x = PassPriority(s, s.priority)
    BY <1>4, <2>2, PassIsGood
  <2>3. CASE x = Decide(s, s.priority, "action_step")
    <3>1. IInv(x)
      BY <1>1, <1>4, <2>3, DecideIsGood
    <3>2. x.step = s.step
      BY <1>1, <2>3 DEF Decide, GameState
    <3>3. QED
      BY <3>1, <3>2
  <2>4. QED
    BY <2>1, <2>2, <2>3
<1>5. QED
  BY <1>1, <1>3, <1>4

\* A block is asked for, or nobody may block.
LEMMA BlockIsGood ==
  ASSUME NEW s, Ready(s), s.step = "Block", s.action_count <= MaxActions, NEW x \in Block(s)
  PROVE  IInv(x)
<1>1. s \in GameState /\ s.step \notin SetupSteps /\ s.step \in BattleSteps
  BY DEF Ready, IInv, BattleSteps, SetupSteps
<1>3. CurrentBattle(s) \in BattleRec
  BY <1>1, InBattle DEF Ready
<1>4. 1 - Owner[CurrentBattle(s).attacker] \in Players
  BY <1>3, GameAssumption DEF BattleRec, Players, Cards
<1>5. x = Goto(s, "BlockEndCheck") \/ x = Decide(s, 1 - Owner[CurrentBattle(s).attacker], "block")
  BY DEF Block
<1>6. CASE x = Goto(s, "BlockEndCheck")
  BY <1>1, <1>6, GotoIsGood DEF BattleSteps, ActionSteps
<1>7. CASE x = Decide(s, 1 - Owner[CurrentBattle(s).attacker], "block")
  BY <1>4, <1>7, DecideIsGood
<1>8. QED
  BY <1>5, <1>6, <1>7

\* The damage of a battle, after which its step is over, whoever it defeats.
LEMMA DamageIsGood ==
  ASSUME NEW s, Ready(s), s.step = "Damage", NEW x \in Damage(s) PROVE IInv(x)
<1> DEFINE y == Goto(s, "DamageDone")
           b == CurrentBattle(s)
<1>1. s \in GameState /\ s.step \notin SetupSteps /\ s.step \in BattleSteps
  BY DEF Ready, IInv, BattleSteps, SetupSteps
<1>3. b \in BattleRec
  BY <1>1, InBattle DEF Ready
<1>4. b.attacker \in Units /\ b.target \in Cards \cup {Player}
  BY <1>3 DEF BattleRec
<1>5. IInv(y) /\ Idle(y) /\ y \in GameState /\ Settled(y)
  BY <1>1, GotoIsGood DEF BattleSteps, ActionSteps
<1>6. x \in DamageStep(y, b)
  BY DEF Damage
<1> HIDE DEF y, b
<1>7. Board(y, x) \/ Ended(y, x)
  BY <1>4, <1>5, <1>6, DamageStepBoard DEF Idle
<1>8. QED
  BY <1>5, <1>7, BoardIsGood, EndedIsGood

\* A battle that ends keeps its id.
LEMMA EndOfBattle ==
  ASSUME NEW bs \in Seq(BattleRec), Len(bs) = 1
  PROVE  LET e == [bs EXCEPT ![1].ended = TRUE]
         IN  /\ e \in Seq(BattleRec) /\ Len(e) = 1 /\ e[1].ended
<1> DEFINE r == [bs[1] EXCEPT !.ended = TRUE]
<1>0. 1 \in 1 .. 1
  OBVIOUS
<1>1. bs[1] \in BattleRec /\ 1 \in 1 .. Len(bs)
  BY <1>0, ElementOfSeq, Zenon
<1>2. r \in BattleRec /\ r.ended
  BY <1>1 DEF BattleRec
<1> HIDE DEF r
<1>3. [bs EXCEPT ![1] = r] \in Seq(BattleRec) /\ Len([bs EXCEPT ![1] = r]) = 1
      /\ [bs EXCEPT ![1] = r][1] = r
  <2>1. [bs EXCEPT ![1] = r] \in Seq(BattleRec) /\ Len([bs EXCEPT ![1] = r]) = Len(bs)
    BY <1>1, <1>2, ExceptSeq, Zenon
  <2>2. 1 \in DOMAIN bs
    BY <1>1, LenProperties, Zenon
  <2>3. [bs EXCEPT ![1] = r][1] = r
    BY <2>2, Zenon
  <2>4. QED
    BY <2>1, <2>3, Zenon
<1>4. QED
  BY <1>2, <1>3 DEF r

\* The battle ends and takes its effects along.
LEMMA BattleEndIsGood ==
  ASSUME NEW s, Ready(s), s.step = "BattleEnd", NEW x \in BattleEnd(s) PROVE IInv(x)
<1> DEFINE y == Goto(s, "BattleEndDone")
           e == [s.battles EXCEPT ![1].ended = TRUE]
           l == s.lasting \ {s.battles[1].battle_id}
           z == [s EXCEPT !.step = "BattleEndDone", !.battles = e, !.lasting = l,
                          !.checked = FALSE]
<1>1. s \in GameState /\ s.step \notin SetupSteps /\ s.step \in BattleSteps
  BY DEF Ready, IInv, BattleSteps, SetupSteps
<1>2. s.battles \in Seq(BattleRec) /\ Len(s.battles) = 1
  BY <1>1 DEF Ready, IInv, StackInv, GameState
<1>3. x \in Emit({z})
  <2>1. y.battles = s.battles /\ y.lasting = s.lasting
        /\ y = [s EXCEPT !.step = "BattleEndDone"]
    BY <1>1 DEF Goto, GameState
  <2>2. x \in Emit({Touch([y EXCEPT !.battles[Len(y.battles)].ended = TRUE,
                       !.lasting = @ \ {y.battles[Len(y.battles)].battle_id}])})
    BY Zenon DEF BattleEnd, EndBattle
  <2> HIDE DEF y
  <2>3. x \in Emit({Touch([y EXCEPT !.battles[1].ended = TRUE,
                       !.lasting = @ \ {y.battles[1].battle_id}])})
    BY <1>2, <2>1, <2>2
  <2>4. Touch([y EXCEPT !.battles[1].ended = TRUE,
                        !.lasting = @ \ {y.battles[1].battle_id}]) = z
    BY <1>1, <2>1 DEF Touch, GameState
  <2>5. QED
    BY <2>3, <2>4
<1>4. e \in Seq(BattleRec) /\ Len(e) = 1 /\ e[1].ended
  BY <1>2, EndOfBattle
<1>5. l = {}
  BY DEF Ready, IInv, LastingInv
<1> HIDE DEF e, l
<1>6. z \in GameState
  BY <1>1, <1>4, <1>5 DEF GameState, BattleSteps
<1>7. /\ z.battles = e /\ z.lasting = {} /\ z.step = "BattleEndDone" /\ z.winner = NoWinner
      /\ z.end_reason = s.end_reason /\ z.pending = None /\ ~z.checked
  BY <1>1, <1>5 DEF Ready, GameState
<1> HIDE DEF z
<1>8. x = z \/ x = [z EXCEPT !.effects = TRUE]
  BY <1>3 DEF Emit
<1>9. /\ x \in GameState /\ x.battles = e /\ x.lasting = {} /\ x.step = "BattleEndDone"
      /\ x.winner = NoWinner /\ x.end_reason = s.end_reason /\ x.pending = None /\ ~x.checked
  BY <1>6, <1>7, <1>8 DEF GameState
<1>10. x.step \in BattleSteps /\ x.step \notin SetupSteps \cup ActionSteps
  BY <1>9 DEF BattleSteps, SetupSteps, ActionSteps
<1>11. OverInv(x) /\ StackInv(x) /\ LastingInv(x) /\ SetupInv(x)
  <2>1. 1 <= 1
    OBVIOUS
  <2>2. StackInv(x)
    BY <1>4, <1>9, <1>10, <2>1, Zenon DEF StackInv
  <2>3. LastingInv(x)
    BY <1>4, <1>9, Zenon DEF LastingInv
  <2>4. OverInv(x) /\ SetupInv(x)
    BY <1>9, <1>10 DEF Ready, IInv, OverInv, SetupInv
  <2>5. QED
    BY <2>2, <2>3, <2>4
<1>12. EffectsInv(x) /\ AskedInv(x) /\ WholeInv(x) /\ PassInv(x) /\ CheckedInv(x)
  BY <1>9, <1>10 DEF EffectsInv, AskedInv, WholeInv, PassInv, CheckedInv
<1>13. Cause(x)
  BY <1>9 DEF Ready, IInv, OverInv, Cause
<1>14. QED
  BY <1>9, <1>11, <1>12, <1>13 DEF IInv

\* The ended battle leaves the stack.
LEMMA BattleEndDoneIsGood ==
  ASSUME NEW s, Ready(s), s.step = "BattleEndDone", NEW x \in BattleEndDone(s) PROVE IInv(x)
<1> DEFINE e == Front(s.battles)
<1>1. s \in GameState /\ s.step \in BattleSteps
  BY DEF Ready, IInv, BattleSteps
<1>2. s.battles \in Seq(BattleRec) /\ Len(s.battles) = 1
  BY <1>1 DEF Ready, IInv, StackInv, GameState
<1>3. x = [s EXCEPT !.step = "Main", !.battles = e, !.checked = FALSE]
  BY <1>1 DEF BattleEndDone, Goto, Touch, GameState
<1>4. /\ e \in Seq(BattleRec)
      /\ Len(e) = 0
  <2>1. e = SubSeq(s.battles, 1, 0)
    <3>1. 1 - 1 = 0
      OBVIOUS
    <3>2. QED
      BY <1>2, <3>1, Zenon DEF Front
  <2>2. \A i \in 1 .. 0 : s.battles[i] \in BattleRec
    OBVIOUS
  <2>3. SubSeq(s.battles, 1, 0) \in Seq(BattleRec)
        /\ Len(SubSeq(s.battles, 1, 0)) = IF 1 <= 0 THEN 0 - 1 + 1 ELSE 0
    BY <2>2, SubSeqProperties
  <2>4. ~(1 <= 0)
    OBVIOUS
  <2> HIDE DEF e
  <2>5. QED
    BY <2>1, <2>3, <2>4, Zenon
<1> HIDE DEF e
<1>5. x \in GameState
  <2>1. e \in Seq(BattleRec)
    BY <1>4
  <2>2. QED
    BY <1>1, <1>3, <2>1 DEF GameState, TurnSteps
<1>6. /\ x.battles = e /\ x.lasting = s.lasting /\ x.step = "Main" /\ x.winner = NoWinner
      /\ x.end_reason = s.end_reason /\ x.pending = None /\ ~x.checked /\ ~x.effects
  BY <1>1, <1>3 DEF Ready, GameState
<1>7. s.lasting = {}
  BY DEF Ready, IInv, LastingInv
<1>8. x.step \notin SetupSteps \cup ActionSteps \cup BattleSteps
  BY <1>6 DEF BattleSteps, SetupSteps, ActionSteps
<1>9. OverInv(x) /\ StackInv(x) /\ LastingInv(x) /\ SetupInv(x)
  <2>1. 0 <= 1 /\ 0 # 1
    OBVIOUS
  <2>2. StackInv(x)
    BY <1>4, <1>6, <1>8, <2>1, Zenon DEF StackInv
  <2>3. OverInv(x) /\ LastingInv(x) /\ SetupInv(x)
    BY <1>6, <1>7, <1>8 DEF Ready, IInv, OverInv, LastingInv, SetupInv
  <2>4. QED
    BY <2>2, <2>3
<1>10. EffectsInv(x) /\ AskedInv(x) /\ WholeInv(x) /\ PassInv(x) /\ CheckedInv(x)
  BY <1>6, <1>8 DEF EffectsInv, AskedInv, WholeInv, PassInv, CheckedInv
<1>11. Cause(x)
  BY <1>6 DEF Ready, IInv, OverInv, Cause
<1>12. QED
  BY <1>5, <1>9, <1>10, <1>11 DEF IInv

\* Effects that last this turn end.
LEMMA CleanupIsGood ==
  ASSUME NEW s, Ready(s), s.step = "CleanupStep", NEW x \in CleanupStep(s) PROVE IInv(x)
<1>1. s \in GameState
  BY DEF Ready, IInv
<1>2. x = [s EXCEPT !.step = "CleanupStepDone", !.lasting = {}, !.checked = FALSE]
  BY DEF CleanupStep, Goto, Touch
<1>3. x \in GameState
  BY <1>1, <1>2 DEF GameState, TurnSteps
<1>4. /\ x.step = "CleanupStepDone" /\ x.winner = s.winner /\ x.pending = s.pending
      /\ x.end_reason = s.end_reason /\ x.battles = s.battles
      /\ x.lasting = {} /\ ~x.checked
  BY <1>1, <1>2 DEF GameState
<1>5. x.step \notin SetupSteps \cup ActionSteps \cup
                    {"Block", "Damage", "BattleEndDone", "GameOver"}
      /\ x.step \notin BattleSteps /\ s.step \notin BattleSteps
  BY <1>4 DEF SetupSteps, ActionSteps, BattleSteps
<1>6. QED
  BY <1>3, <1>4, <1>5, MoveOn DEF Ready

\* A cap ends the game in a draw.
LEMMA TimeoutEnds ==
  ASSUME NEW s, IInv(s), s.pending = None, s.turn >= TurnLimit \/ s.action_count > MaxActions
  PROVE  Ended(s, Timeout(s))
<1> DEFINE x == Timeout(s)
<1>1. s \in GameState
  BY DEF IInv
<1>2. x = [s EXCEPT !.winner = Draw, !.end_reason = "turn_limit", !.step = "GameOver"]
  BY DEF Timeout
<1> HIDE DEF x
<1>3. x \in GameState
  BY <1>1, <1>2 DEF GameState
<1>4. /\ x.winner = Draw /\ x.end_reason = "turn_limit" /\ x.step = "GameOver"
      /\ x.pending = None /\ x.battles = s.battles /\ x.lasting = s.lasting
      /\ x.turn = s.turn /\ x.action_count = s.action_count
  BY <1>1, <1>2 DEF GameState
<1>5. s.turn \in 0 .. TurnLimit
  BY <1>1 DEF GameState
<1>6. s.turn = TurnLimit \/ s.action_count > MaxActions
  BY <1>5, Parameters
<1>7. Cause(x)
  BY <1>4, <1>6 DEF Cause
<1>8. Draw # NoWinner
  BY DEF Draw, NoWinner
<1>9. QED
  BY <1>3, <1>4, <1>7, <1>8 DEF Ended, x

\* The next turn, or the end at the turn limit.
LEMMA NextTurnIsGood ==
  ASSUME NEW s, Ready(s), s.step = "TurnEnd", NEW x \in NextTurn(s) PROVE IInv(x)
<1>1. s \in GameState /\ s.turn \in 0 .. TurnLimit /\ s.active \in Players
  BY DEF Ready, IInv, GameState
<1>2. CASE s.turn >= TurnLimit
  <2>1. x = Timeout(s)
    BY <1>2 DEF NextTurn
  <2>2. QED
    BY <1>2, <2>1, TimeoutEnds, EndedIsGood DEF Ready
<1>3. CASE ~(s.turn >= TurnLimit)
  <2>1. x = [s EXCEPT !.step = "ActiveStep", !.turn = s.turn + 1, !.active = 1 - s.active,
                      !.checked = FALSE]
    BY <1>1, <1>3 DEF NextTurn, Goto, Touch, GameState
  <2>2. s.turn + 1 \in 0 .. TurnLimit /\ 1 - s.active \in Players
    BY <1>1, <1>3, Parameters DEF Players
  <2>3. x \in GameState
    BY <1>1, <2>1, <2>2 DEF GameState, TurnSteps
  <2>4. /\ x.step = "ActiveStep" /\ x.winner = s.winner /\ x.pending = s.pending
        /\ x.end_reason = s.end_reason /\ x.battles = s.battles
        /\ x.lasting = s.lasting /\ ~x.checked
    BY <1>1, <2>1 DEF GameState
  <2>5. x.step \notin SetupSteps \cup ActionSteps \cup
                      {"Block", "Damage", "BattleEndDone", "GameOver"}
        /\ x.step \notin BattleSteps /\ s.step \notin BattleSteps
    BY <2>4 DEF SetupSteps, ActionSteps, BattleSteps
  <2>6. QED
    BY <2>3, <2>4, <2>5, MoveOn DEF Ready
<1>4. QED
  BY <1>2, <1>3

-----------------------------------------------------------------------------
(* The answers.                                                            *)

\* An answer takes the question away and is counted.
LEMMA AnsweredIsGood ==
  ASSUME NEW s, IInv(s), s.pending # None
  PROVE  LET y == Answered(s) IN
         /\ IInv(y) /\ y.winner = NoWinner /\ y.pending = None
         /\ y.step = s.step /\ y.effects = s.effects /\ y.card = s.card /\ y.deck = s.deck
         /\ y.passes = s.passes /\ y.priority = s.priority /\ y.declined = s.declined
         /\ y.battles = s.battles /\ y.active = s.active
<1> DEFINE y == Answered(s)
<1>1. s \in GameState /\ s.winner = NoWinner /\ s.action_count <= MaxActions
  BY DEF IInv, OverInv, AskedInv
<1>2. y = [s EXCEPT !.pending = None, !.action_count = s.action_count + 1]
  BY DEF Answered
<1>3. s.action_count + 1 \in 0 .. MaxActions + 1
  BY <1>1, Parameters DEF GameState
<1> HIDE DEF y
<1>4. y \in GameState
  BY <1>1, <1>2, <1>3 DEF GameState
<1>5. /\ y.pending = None /\ y.step = s.step /\ y.winner = s.winner
      /\ y.end_reason = s.end_reason /\ y.effects = s.effects /\ y.battles = s.battles
      /\ y.lasting = s.lasting /\ y.checked = s.checked /\ y.card = s.card
      /\ y.deck = s.deck /\ y.passes = s.passes /\ y.priority = s.priority
      /\ y.declined = s.declined /\ y.active = s.active
  BY <1>1, <1>2 DEF GameState
<1>6. OverInv(y) /\ StackInv(y) /\ LastingInv(y) /\ SetupInv(y)
  BY <1>5 DEF IInv, OverInv, StackInv, LastingInv, SetupInv
<1>7. EffectsInv(y) /\ AskedInv(y) /\ PassInv(y)
  BY <1>5 DEF IInv, EffectsInv, AskedInv, PassInv
<1>8. CheckedInv(y)
  BY <1>5, SameBoard DEF IInv, CheckedInv
<1>9. WholeInv(y)
  BY <1>5, SameBoard DEF IInv, WholeInv, CurrentBattle
<1>10. Cause(y)
  BY <1>1, <1>5 DEF IInv, OverInv, Cause
<1>11. QED
  BY <1>1, <1>4, <1>5, <1>6, <1>7, <1>8, <1>9, <1>10 DEF IInv, y

\* After an answer to the turn procedure the next row may run.
LEMMA AnsweredIsReady ==
  ASSUME NEW s, IInv(s), s.pending # None,
         s.pending.kind \in {"choose_first", "redraw", "main", "block", "action_step"}
  PROVE  Ready(Answered(s))
<1> DEFINE y == Answered(s)
<1>1. /\ IInv(y) /\ y.winner = NoWinner /\ y.pending = None
      /\ y.step = s.step /\ y.effects = s.effects /\ y.card = s.card /\ y.deck = s.deck
  BY AnsweredIsGood
<1> HIDE DEF y
<1>2. CASE s.pending.kind \in {"main", "block", "action_step"}
  <2>1. ~s.effects /\ Settled(s)
    BY <1>2 DEF IInv, AskedInv
  <2>2. Settled(y)
    BY <1>1, <2>1, SameBoard
  <2>3. QED
    BY <1>1, <2>1, <2>2 DEF Ready, y
<1>3. CASE s.pending.kind \in {"choose_first", "redraw"}
  <2>1. s.step \in SetupSteps
    BY <1>3 DEF IInv, AskedInv, SetupSteps
  <2>2. ~y.effects
    BY <1>1, <2>1 DEF IInv, EffectsInv
  <2>3. QED
    BY <1>1, <2>1, <2>2 DEF Ready, y
<1>4. QED
  BY <1>2, <1>3

\* The loser of the die roll, or the chooser, is told who goes first.
LEMMA ChooseFirstIsGood ==
  ASSUME NEW s, Ready(s), s.step = "SetupChooseFirst", NEW p \in Players
  PROVE  IInv([Goto(s, "SetupDraw") EXCEPT !.active = p])
<1> DEFINE x == [Goto(s, "SetupDraw") EXCEPT !.active = p]
<1>1. s \in GameState /\ s.step \in SetupSteps
  BY DEF Ready, IInv, SetupSteps
<1>2. x = [s EXCEPT !.step = "SetupDraw", !.active = p]
  BY DEF Goto
<1> HIDE DEF x
<1>3. x \in GameState
  BY <1>1, <1>2 DEF GameState, SetupSteps
<1>4. /\ x.step = "SetupDraw" /\ x.deck = s.deck /\ x.winner = s.winner
      /\ x.pending = s.pending /\ x.end_reason = s.end_reason /\ x.effects = s.effects
      /\ x.battles = s.battles /\ x.lasting = s.lasting
  BY <1>1, <1>2 DEF GameState
<1>5. SetupInv(x) /\ x.step \in SetupSteps
  BY <1>1, <1>4 DEF Ready, IInv, SetupInv, SetupSteps
<1>6. QED
  BY <1>1, <1>3, <1>4, <1>5, SetupOn DEF Ready, x

\* A hand is kept or redrawn.
LEMMA RedrawIsGood ==
  ASSUME NEW s, Ready(s), s.step \in {"SetupRedrawP1", "SetupRedrawP2"},
         NEW step \in {"SetupRedrawP2", "SetupShields"}
  PROVE  IInv(Goto(s, step))
<1> DEFINE x == Goto(s, step)
<1>1. s \in GameState /\ s.step \in SetupSteps /\ step \in SetupSteps
  BY DEF Ready, IInv, SetupSteps
<1>2. /\ x \in GameState /\ x.step = step /\ x.winner = s.winner
      /\ x.end_reason = s.end_reason /\ x.pending = s.pending /\ x.effects = s.effects
      /\ x.battles = s.battles /\ x.lasting = s.lasting /\ x.deck = s.deck
  BY <1>1, GotoFields
<1> HIDE DEF x
<1>3. SetupInv(x)
  BY <1>1, <1>2 DEF Ready, IInv, SetupInv
<1>4. QED
  BY <1>1, <1>2, <1>3, SetupOn DEF Ready, x

\* Playing a card or activating an effect.
LEMMA PlayIsGood ==
  ASSUME NEW s, Ready(s), s.step \in {"Main", "BattleAction", "EndAction"}
  PROVE  LET x == PlayOrActivate(s) IN IInv(x) /\ Idle(x) /\ x.step = s.step
<1> DEFINE x == PlayOrActivate(s)
<1>1. s \in GameState /\ Idle(s)
  BY DEF Ready, IInv, Idle, SetupSteps
<1>2. x = [s EXCEPT !.effects = TRUE, !.checked = FALSE]
  BY DEF PlayOrActivate, Touch
<1> HIDE DEF x
<1>3. x \in GameState
  BY <1>1, <1>2 DEF GameState
<1>4. Board(s, x) /\ x.step = s.step
  BY <1>1, <1>2, <1>3 DEF Board, SameControl, GameState
<1>5. QED
  BY <1>1, <1>4, BoardIsGood DEF Ready, x

\* An action gives the other player the priority and forgets the passes.
LEMMA ActIsGood ==
  ASSUME NEW s, Ready(s), s.step \in ActionSteps, NEW p \in Players
  PROVE  LET x == [PlayOrActivate(s) EXCEPT !.passes = 0, !.priority = 1 - p, !.declined = {}]
         IN  IInv(x) /\ x.step = s.step
<1> DEFINE y == PlayOrActivate(s)
           x == [y EXCEPT !.passes = 0, !.priority = 1 - p, !.declined = {}]
<1>1. IInv(y) /\ Idle(y) /\ y.step = s.step /\ y \in GameState
  BY PlayIsGood DEF ActionSteps, IInv
<1>2. x = [y EXCEPT !.passes = 0, !.priority = 1 - p, !.declined = {}] /\ 1 - p \in Players
      /\ 0 \in 0 .. 2 /\ {} \in SUBSET Players
  BY DEF Players
<1> HIDE DEF x, y
<1>3. x \in GameState
  BY <1>1, <1>2 DEF GameState
<1>4. /\ x.passes = 0 /\ x.declined = {} /\ x.pending = y.pending /\ x.step = y.step
      /\ x.winner = y.winner
      /\ x.end_reason = y.end_reason /\ x.effects = y.effects /\ x.battles = y.battles
      /\ x.lasting = y.lasting /\ x.checked = y.checked /\ x.card = y.card
      /\ x.deck = y.deck /\ x.action_count = y.action_count
  BY <1>1, <1>2 DEF GameState
<1>5. OverInv(x) /\ StackInv(x) /\ LastingInv(x) /\ SetupInv(x)
  BY <1>1, <1>4 DEF IInv, OverInv, StackInv, LastingInv, SetupInv
<1>6. EffectsInv(x) /\ AskedInv(x) /\ PassInv(x) /\ WholeInv(x)
  BY <1>1, <1>4 DEF IInv, Idle, EffectsInv, AskedInv, PassInv, WholeInv
<1>7. CheckedInv(x)
  BY <1>1, <1>4, SameBoard DEF IInv, CheckedInv
<1>8. Cause(x)
  BY <1>1, <1>4 DEF IInv, Idle, OverInv, Cause
<1>9. QED
  BY <1>1, <1>3, <1>4, <1>5, <1>6, <1>7, <1>8 DEF IInv, x, y

\* A battle that begins or gets its blocker.
LEMMA BattleIsGood ==
  ASSUME NEW x \in GameState, x.step \in {"AttackEndCheck", "BlockEndCheck"},
         x.winner = NoWinner, x.end_reason = "none", x.pending = None, ~x.checked,
         Len(x.battles) = 1, x.lasting # {} => ~x.battles[1].ended,
         x.lasting \subseteq {x.battles[1].battle_id}
  PROVE  IInv(x)
<1>1. x.step \notin SetupSteps \cup ActionSteps /\ x.step \in BattleSteps
      /\ x.step \notin {"Block", "Damage", "BattleEndDone", "GameOver"}
  BY DEF SetupSteps, ActionSteps, BattleSteps
<1>2. 1 <= 1
  OBVIOUS
<1>3. StackInv(x) /\ LastingInv(x)
  BY <1>1, <1>2, Zenon DEF StackInv, LastingInv
<1>4. OverInv(x) /\ SetupInv(x) /\ EffectsInv(x) /\ CheckedInv(x) /\ AskedInv(x)
  BY <1>1 DEF OverInv, SetupInv, EffectsInv, CheckedInv, AskedInv
<1>5. WholeInv(x) /\ PassInv(x) /\ Cause(x)
  BY <1>1 DEF WholeInv, PassInv, Cause
<1>6. QED
  BY <1>3, <1>4, <1>5 DEF IInv

\* A declared attack puts its battle on the empty stack.
LEMMA AttackIsGood ==
  ASSUME NEW s, IInv(s), NEW y, Ready(y), y.step = "Main",
         NEW a \in Units, NEW t \in Units \cup {Player},
         NEW z \in Emit({Touch([y EXCEPT !.card[a].rested = TRUE,
                                         !.battles = Append(@, NewBattle(s, a, t, FALSE)),
                                         !.next_battle_id = @ + 1])})
  PROVE  IInv(Goto(z, "AttackEndCheck"))
<1> DEFINE b == NewBattle(s, a, t, FALSE)
           e == Append(y.battles, b)
           f == [y.card EXCEPT ![a].rested = TRUE]
           n == y.next_battle_id + 1
           w == [y EXCEPT !.card = f, !.battles = e, !.next_battle_id = n, !.checked = FALSE]
           x == Goto(z, "AttackEndCheck")
<1>1. y \in GameState /\ s \in GameState /\ y.step \notin BattleSteps
  BY DEF Ready, IInv, BattleSteps
<1>2. b \in BattleRec
  <2>1. /\ \A c \in Cards : s.card[c].zone_seq \in Nat
        /\ s.next_battle_id \in Nat
    BY <1>1 DEF GameState, CardState
  <2>2. a \in Cards /\ (t # Player => t \in Cards)
    BY DEF Cards
  <2>3. QED
    BY <2>1, <2>2 DEF NewBattle, BattleRec
<1>3. y.battles \in Seq(BattleRec) /\ Len(y.battles) \in Nat /\ Len(y.battles) # 1
  <2>1. y.battles \in Seq(BattleRec) /\ Len(y.battles) # 1
    BY <1>1 DEF Ready, IInv, StackInv, GameState
  <2>2. QED
    BY <2>1, LenProperties
<1>4. Len(y.battles) = 0
  <2>1. Len(y.battles) <= 1
    BY DEF Ready, IInv, StackInv
  <2>2. \A k \in Nat : k <= 1 /\ k # 1 => k = 0
    OBVIOUS
  <2>3. QED
    BY <1>3, <2>1, <2>2, Zenon
<1>5. e \in Seq(BattleRec) /\ Len(e) = 1
  <2> HIDE DEF b
  <2>1. e \in Seq(BattleRec) /\ Len(e) = Len(y.battles) + 1
    BY <1>2, <1>3, AppendProperties
  <2>2. 0 + 1 = 1
    OBVIOUS
  <2>3. QED
    BY <1>4, <2>1, <2>2, Zenon
<1>6. y.lasting = {}
  BY <1>3 DEF Ready, IInv, LastingInv
<1>7. f \in [Cards -> CardState] /\ n \in Nat
  <2>1. y.card \in [Cards -> CardState] /\ y.next_battle_id \in Nat /\ a \in Cards
    BY <1>1 DEF GameState, Cards
  <2>2. [y.card[a] EXCEPT !.rested = TRUE] \in CardState
    BY <2>1 DEF CardState
  <2>3. QED
    BY <2>1, <2>2
<1>8. z \in Emit({w})
  BY Zenon DEF Touch
<1> HIDE DEF b, e, f, n
<1>9. w \in GameState
  <2>1. e \in Seq(BattleRec)
    BY <1>5
  <2>2. QED
    BY <1>1, <1>7, <2>1 DEF GameState
<1>10. /\ w.battles = e /\ w.lasting = {} /\ w.winner = NoWinner
       /\ w.end_reason = "none" /\ w.pending = None /\ ~w.checked
  BY <1>1, <1>6 DEF Ready, IInv, OverInv, GameState
<1> HIDE DEF w
<1>11. z = w \/ z = [w EXCEPT !.effects = TRUE]
  BY <1>8 DEF Emit
<1>12. /\ z \in GameState /\ z.battles = e /\ z.lasting = {} /\ z.winner = NoWinner
       /\ z.end_reason = "none" /\ z.pending = None /\ ~z.checked
  BY <1>9, <1>10, <1>11 DEF GameState
<1>13. /\ x \in GameState /\ x.battles = e /\ x.lasting = {} /\ x.winner = NoWinner
       /\ x.end_reason = "none" /\ x.pending = None /\ ~x.checked /\ x.step = "AttackEndCheck"
  <2>1. "AttackEndCheck" \in SetupSteps \cup BattleSteps \cup TurnSteps
    BY DEF BattleSteps
  <2>2. QED
    BY <1>12, <2>1, GotoFields
<1> HIDE DEF x
<1>14. Len(x.battles) = 1
  BY <1>5, <1>13, Zenon
<1>15. IInv(x)
  BY <1>13, <1>14, BattleIsGood
<1>16. QED
  BY <1>15 DEF x

\* A blocker becomes the target of the battle.
LEMMA DeclareBlockIsGood ==
  ASSUME NEW s, IInv(s), NEW y, Ready(y), y.step = "Block", y.battles = s.battles,
         y.card = s.card, NEW u \in Units,
         NEW z \in Emit({Touch([y EXCEPT !.card[u].rested = TRUE,
                                         !.battles[Len(s.battles)].target = u,
                                         !.battles[Len(s.battles)].target_seq = s.card[u].zone_seq])})
  PROVE  IInv(Goto(z, "BlockEndCheck"))
<1> DEFINE e == [[y.battles EXCEPT ![Len(y.battles)].target = u] EXCEPT
                   ![Len(y.battles)].target_seq = y.card[u].zone_seq]
           f == [y.card EXCEPT ![u].rested = TRUE]
           w == [y EXCEPT !.card = f, !.battles = e, !.checked = FALSE]
           x == Goto(z, "BlockEndCheck")
<1>1. y \in GameState /\ y.step \in BattleSteps /\ u \in Cards
  BY DEF Ready, IInv, BattleSteps, Cards
<1>2. y.battles \in Seq(BattleRec) /\ Len(y.battles) = 1
  BY <1>1, InBattle DEF Ready
<1>3. /\ e \in Seq(BattleRec) /\ Len(e) = 1
      /\ e[1].battle_id = y.battles[1].battle_id /\ e[1].ended = y.battles[1].ended
  BY <1>1, <1>2, Retarget
<1>4. f \in [Cards -> CardState]
  <2>1. y.card \in [Cards -> CardState]
    BY <1>1 DEF GameState
  <2>2. [y.card[u] EXCEPT !.rested = TRUE] \in CardState
    BY <1>1, <2>1 DEF CardState
  <2>3. QED
    BY <1>1, <2>1, <2>2
<1>5. z \in Emit({w})
  <2>1. z \in Emit({Touch([y EXCEPT !.card[u].rested = TRUE,
                                    !.battles[Len(y.battles)].target = u,
                                    !.battles[Len(y.battles)].target_seq = y.card[u].zone_seq])})
    BY Zenon
  <2>2. Touch([y EXCEPT !.card[u].rested = TRUE,
                        !.battles[Len(y.battles)].target = u,
                        !.battles[Len(y.battles)].target_seq = y.card[u].zone_seq]) = w
    <3> DEFINE v == [y EXCEPT !.card[u].rested = TRUE]
               n == Len(y.battles)
               q == y.card[u].zone_seq
    <3>1. v.battles = y.battles /\ v \in GameState /\ v = [y EXCEPT !.card = f]
      BY <1>1, <1>4 DEF GameState
    <3> HIDE DEF v, f
    <3>2. Touch([v EXCEPT !.battles[n].target = u, !.battles[n].target_seq = q])
            = [v EXCEPT !.battles = [[v.battles EXCEPT ![n].target = u] EXCEPT ![n].target_seq = q],
                        !.checked = FALSE]
      <4> DEFINE v1 == [v EXCEPT !.battles[n].target = u]
                 d == [v.battles EXCEPT ![n].target = u]
      <4> HIDE DEF n, q
      <4>1. v1.battles = d /\ v1 = [v EXCEPT !.battles = d]
        BY <3>1 DEF GameState
      <4>2. [v1 EXCEPT !.battles[n].target_seq = q]
              = [v1 EXCEPT !.battles = [v1.battles EXCEPT ![n].target_seq = q]]
        BY Zenon
      <4>3. [v EXCEPT !.battles[n].target = u, !.battles[n].target_seq = q]
              = [v1 EXCEPT !.battles[n].target_seq = q]
        BY Zenon
      <4> HIDE DEF v1, d
      <4>4. [v EXCEPT !.battles[n].target = u, !.battles[n].target_seq = q]
              = [[v EXCEPT !.battles = d] EXCEPT !.battles = [d EXCEPT ![n].target_seq = q]]
        BY <4>1, <4>2, <4>3, Zenon
      <4> DEFINE d2 == [d EXCEPT ![n].target_seq = q]
      <4> HIDE DEF d2
      <4>5. [[v EXCEPT !.battles = d] EXCEPT !.battles = d2] = [v EXCEPT !.battles = d2]
        BY <3>1 DEF GameState
      <4>6. [v EXCEPT !.battles[n].target = u, !.battles[n].target_seq = q]
              = [v EXCEPT !.battles = d2]
        BY <4>4, <4>5, Zenon DEF d2
      <4>7. Touch([v EXCEPT !.battles[n].target = u, !.battles[n].target_seq = q])
              = [v EXCEPT !.battles = d2, !.checked = FALSE]
        BY <4>6, Zenon DEF Touch
      <4>8. QED
        BY <4>7, Zenon DEF d2, d
    <3>3. [[v.battles EXCEPT ![n].target = u] EXCEPT ![n].target_seq = q] = e
      BY <3>1, Zenon
    <3> HIDE DEF e, n, q
    <3>4. Touch([v EXCEPT !.battles[n].target = u, !.battles[n].target_seq = q])
            = [[y EXCEPT !.card = f] EXCEPT !.battles = e, !.checked = FALSE]
      BY <3>1, <3>2, <3>3, Zenon
    <3>5. QED
      BY <3>4, Zenon DEF n, q, v
  <2>3. QED
    BY <2>1, <2>2, Zenon
<1> HIDE DEF e, f
<1>6. w \in GameState
  BY <1>1, <1>3, <1>4 DEF GameState
<1>7. /\ w.battles = e /\ w.lasting = y.lasting /\ w.winner = NoWinner
      /\ w.end_reason = "none" /\ w.pending = None /\ ~w.checked
  BY <1>1 DEF Ready, IInv, OverInv, GameState
<1> HIDE DEF w
<1>8. z = w \/ z = [w EXCEPT !.effects = TRUE]
  BY <1>5 DEF Emit
<1>9. /\ z \in GameState /\ z.battles = e /\ z.lasting = y.lasting /\ z.winner = NoWinner
      /\ z.end_reason = "none" /\ z.pending = None /\ ~z.checked
  BY <1>6, <1>7, <1>8 DEF GameState
<1>10. /\ x \in GameState /\ x.battles = e /\ x.lasting = y.lasting /\ x.winner = NoWinner
       /\ x.end_reason = "none" /\ x.pending = None /\ ~x.checked /\ x.step = "BlockEndCheck"
  <2>1. "BlockEndCheck" \in SetupSteps \cup BattleSteps \cup TurnSteps
    BY DEF BattleSteps
  <2>2. QED
    BY <1>9, <2>1, GotoFields
<1> HIDE DEF x
<1>11. Len(x.battles) = 1
  BY <1>3, <1>10, Zenon
<1>12. x.lasting # {} => ~x.battles[1].ended /\ x.lasting \subseteq {x.battles[1].battle_id}
  BY <1>3, <1>10 DEF Ready, IInv, LastingInv
<1>13. IInv(x)
  BY <1>10, <1>11, <1>12, BattleIsGood
<1>14. QED
  BY <1>13 DEF x

-----------------------------------------------------------------------------
(* The theorems.                                                           *)

\* Passed: an action step is left after both passes, or with the game.
Passed ==
  st.step \in ActionSteps /\ st'.step \notin ActionSteps \cup {"GameOver"} => st.declined = Players

\* A step that follows st leaves no action step.
LEMMA FollowsPassed == Follows(st, st') => Passed
  BY DEF Follows, Passed

\* The rows that only name the next step, and those that announce an event,
\* stay in their part of the turn.
LEMMA FollowSteps ==
  /\ \A step \in DOMAIN Follow :
       /\ Follow[step] \in (BattleSteps \cup TurnSteps) \
                             (ActionSteps \cup {"Block", "Damage", "BattleEndDone"})
       /\ Follow[step] \in BattleSteps <=> step \in BattleSteps
       /\ step \notin SetupSteps \cup ActionSteps
  /\ \A step \in DOMAIN Announce :
       /\ Announce[step] \in (BattleSteps \cup TurnSteps) \
                             (ActionSteps \cup {"Block", "Damage", "BattleEndDone"})
       /\ Announce[step] \in BattleSteps <=> step \in BattleSteps
       /\ step \notin SetupSteps \cup ActionSteps
  BY DEF Follow, Announce, BattleSteps, TurnSteps, SetupSteps, ActionSteps

\* One iteration of advance: rules management first, then the row, whose
\* outcomes D keep the invariant when the row may run.
LEMMA RowIsGood ==
  ASSUME IInv(st), Looping, ~st.effects, NEW s \in RulesManagement(st), NEW D,
         st' \in IF s.winner # NoWinner \/ s.effects THEN {s} ELSE D,
         Ready(s) /\ s.step = st.step /\ s.declined = st.declined /\ s.action_count <= MaxActions =>
           \A x \in D : /\ IInv(x)
                        /\ st.step \in ActionSteps =>
                             x.step \in ActionSteps \cup {"GameOver"} \/ s.declined = Players
  PROVE  IInv(st') /\ Passed
<1>1. st.winner = NoWinner /\ st.pending = None /\ st.action_count <= MaxActions
  BY DEF Looping, Running
<1>2. /\ IInv(s)
      /\ Ended(st, s) \/ SameControl(st, s)
      /\ Ended(st, s) \/ st.step \in SetupSteps \/ Settled(s)
      /\ st.step \in SetupSteps => s = st
  BY <1>1, RulesAreGood
<1>3. Follows(st, s)
  BY <1>2 DEF Ended, SameControl, Follows
<1>4. CASE s.winner # NoWinner \/ s.effects
  BY <1>2, <1>3, <1>4, FollowsPassed
<1>5. CASE s.winner = NoWinner /\ ~s.effects
  <2>1. st' \in D
    BY <1>5
  <2>2. SameControl(st, s)
    BY <1>2, <1>5 DEF Ended
  <2>3. Ready(s) /\ s.step = st.step /\ s.declined = st.declined /\ s.action_count <= MaxActions
    BY <1>1, <1>2, <1>5, <2>2 DEF Ready, SameControl, Ended
  <2>4. QED
    BY <2>1, <2>3 DEF Passed
<1>6. QED
  BY <1>4, <1>5

\* A concession ends the game.
LEMMA ConcedeIsGood ==
  ASSUME IInv(st), NEW p \in Players, Concede(p) PROVE IInv(st') /\ Passed
<1> DEFINE s == [st EXCEPT !.effects = FALSE]
<1>1. st \in GameState /\ st.winner = NoWinner
  BY DEF IInv, Concede
<1>2. s \in GameState /\ s.winner = NoWinner /\ s.battles = st.battles /\ s.lasting = st.lasting
  BY <1>1 DEF GameState
<1>3. st' = SetWinner(s, {p}, "concede")
  BY DEF Concede
<1> HIDE DEF s
<1>4. Ended(s, st')
  BY <1>2, <1>3, DefeatEnds
<1>5. Ended(st, st')
  BY <1>2, <1>4 DEF Ended
<1>6. IInv(st')
  BY <1>5, EndedIsGood
<1>7. QED
  BY <1>5, <1>6 DEF Ended, Passed

\* Every answer keeps the invariant.
LEMMA AnswerIsGood == ASSUME IInv(st), Answer PROVE IInv(st') /\ Passed
<1> DEFINE y == Answered(st)
<1>1. st.pending # None
  BY DEF Answer, ChooseFirst, Redraw, EndMain, Play, NoBlock, Pass, Act, Resume, Attack,
         DeclareBlock, Asked
<1>2. /\ IInv(y) /\ y.winner = NoWinner /\ y.pending = None
      /\ y.step = st.step /\ y.effects = st.effects /\ y.card = st.card /\ y.deck = st.deck
      /\ y.passes = st.passes /\ y.priority = st.priority /\ y.declined = st.declined
      /\ y.battles = st.battles /\ y.active = st.active
  BY <1>1, AnsweredIsGood
<1>3. AskedInv(st) /\ y \in GameState
  BY <1>2 DEF IInv
<1>4. st.pending.kind \in {"choose_first", "redraw", "main", "block", "action_step"} => Ready(y)
  BY <1>1, AnsweredIsReady
<1> HIDE DEF y
<1>5. ASSUME NEW p \in Players, ChooseFirst(p) PROVE IInv(st') /\ Passed
  <2>1. st' = [Goto(y, "SetupDraw") EXCEPT !.active = p] /\ st.pending.kind = "choose_first"
    BY <1>5 DEF ChooseFirst, Asked, y
  <2>2. y.step = "SetupChooseFirst"
    BY <1>1, <1>2, <1>3, <2>1 DEF AskedInv
  <2>3. QED
    BY <1>2, <1>4, <2>1, <2>2, ChooseFirstIsGood DEF Passed, ActionSteps
<1>6. CASE Redraw
  <2>1. st' = Goto(y, IF st.step = "SetupRedrawP1" THEN "SetupRedrawP2" ELSE "SetupShields")
        /\ st.pending.kind = "redraw"
    BY <1>6 DEF Redraw, Asked, y
  <2>2. y.step \in {"SetupRedrawP1", "SetupRedrawP2"}
    BY <1>1, <1>2, <1>3, <2>1 DEF AskedInv
  <2>3. QED
    BY <1>2, <1>4, <2>1, <2>2, RedrawIsGood DEF Passed, ActionSteps
<1>7. CASE EndMain
  <2>1. st' = OpenActionStep(y, "EndAction") /\ st.pending.kind = "main"
    BY <1>7 DEF EndMain, Asked, y
  <2>2. y.step = "Main"
    BY <1>1, <1>2, <1>3, <2>1 DEF AskedInv
  <2>3. QED
    BY <1>2, <1>4, <2>1, <2>2, OpenIsGood DEF Passed, ActionSteps, SetupSteps, BattleSteps
<1>8. CASE Play
  <2>1. st' = PlayOrActivate(y) /\ st.pending.kind = "main"
    BY <1>8 DEF Play, Asked, y
  <2>2. y.step = "Main"
    BY <1>1, <1>2, <1>3, <2>1 DEF AskedInv
  <2>3. QED
    BY <1>2, <1>4, <2>1, <2>2, PlayIsGood DEF Passed, ActionSteps
<1>9. CASE NoBlock
  <2>1. st' = Goto(y, "BlockEndCheck") /\ st.pending.kind = "block"
    BY <1>9 DEF NoBlock, Asked, y
  <2>2. y.step = "Block"
    BY <1>1, <1>2, <1>3, <2>1 DEF AskedInv
  <2>3. QED
    BY <1>2, <1>4, <2>1, <2>2, GotoIsGood DEF Passed, ActionSteps, SetupSteps, BattleSteps
<1>10. CASE Pass
  <2>1. st' = PassPriority(y, st.pending.player) /\ st.pending.kind = "action_step"
    BY <1>10 DEF Pass, Asked, y
  <2>2. y.step \in ActionSteps /\ y.passes < 2 /\ st.pending.player = y.priority
    BY <1>1, <1>2, <1>3, <2>1 DEF AskedInv
  <2>3. QED
    BY <1>4, <2>1, <2>2, PassIsGood DEF Passed
<1>11. CASE Act
  <2>1. st.pending.kind = "action_step"
        /\ st' = [PlayOrActivate(y) EXCEPT !.passes = 0, !.priority = 1 - st.pending.player,
                                           !.declined = {}]
    BY <1>11 DEF Act, Asked, y
  <2>2. y.step \in ActionSteps /\ st.pending.player \in Players
    BY <1>1, <1>2, <1>3, <2>1 DEF AskedInv, IInv, GameState
  <2>3. QED
    BY <1>4, <2>1, <2>2, ActIsGood DEF Passed
<1>12. CASE Resume
  <2>1. st' \in AfterInstruction({y} \cup Instruction(y)) /\ st.pending.kind = "effect"
    BY <1>12 DEF Resume, Asked, y
  <2>2. Idle(y)
    BY <1>1, <1>2, <1>3, <2>1 DEF AskedInv, IInv, EffectsInv, Idle
  <2>3. \A x \in {y} \cup Instruction(y) :
          /\ IInv(x) /\ Follows(st, x) /\ x.winner = NoWinner
          /\ x.pending = None \/ x.pending.kind = "effect"
    <3>1. ASSUME NEW x \in Instruction(y) PROVE IInv(x) /\ Idle(x) /\ Follows(y, x)
      BY <1>2, <2>2, InstructionIsGood
    <3>2. QED
      BY <1>2, <2>2, <3>1 DEF Follows, Idle
  <2>4. IInv(st') /\ Follows(st, st')
    BY <2>1, <2>3, AfterInstructionIsGood
  <2>5. QED
    BY <2>4, FollowsPassed
<1>13. ASSUME NEW a \in Units, NEW t \in Units \cup {Player}, Attack(a, t)
       PROVE  IInv(st') /\ Passed
  <2>1. PICK z \in Emit({Touch([y EXCEPT !.card[a].rested = TRUE,
                                    !.battles = Append(@, NewBattle(st, a, t, FALSE)),
                                    !.next_battle_id = @ + 1])}) :
          st' = Goto(z, "AttackEndCheck")
    BY <1>13, Zenon DEF Attack, y
  <2>2. st.pending.kind = "main"
    BY <1>13 DEF Attack, Asked
  <2>3. y.step = "Main"
    BY <1>1, <1>2, <1>3, <2>2 DEF AskedInv
  <2>4. IInv(st')
    BY <1>4, <2>1, <2>2, <2>3, AttackIsGood
  <2>5. QED
    BY <1>2, <2>3, <2>4 DEF Passed, ActionSteps
<1>14. ASSUME NEW u \in Units, DeclareBlock(u) PROVE IInv(st') /\ Passed
  <2>1. PICK z \in Emit({Touch([y EXCEPT !.card[u].rested = TRUE,
                                    !.battles[Len(st.battles)].target = u,
                                    !.battles[Len(st.battles)].target_seq = st.card[u].zone_seq])}) :
          st' = Goto(z, "BlockEndCheck")
    BY <1>14, Zenon DEF DeclareBlock, y
  <2>2. st.pending.kind = "block"
    BY <1>14 DEF DeclareBlock, Asked
  <2>3. y.step = "Block"
    BY <1>1, <1>2, <1>3, <2>2 DEF AskedInv
  <2>4. IInv(st')
    BY <1>2, <1>4, <2>1, <2>2, <2>3, DeclareBlockIsGood
  <2>5. QED
    BY <1>2, <2>3, <2>4 DEF Passed, ActionSteps
<1>15. QED
  BY <1>5, <1>6, <1>7, <1>8, <1>9, <1>10, <1>11, <1>12, <1>13, <1>14 DEF Answer

\* The question of an effect is put while effects are left.
LEMMA AskIsGood ==
  ASSUME IInv(st), AskPlayer PROVE IInv(st') /\ Passed
<1>1. /\ st.pending = None /\ st.winner = NoWinner /\ st.action_count <= MaxActions
      /\ st.effects /\ st.budget > 0
  BY DEF AskPlayer, Looping, Running
<1> DEFINE Ask(p) == Decide([st EXCEPT !.budget = @ - 1], p, "effect")
<1>2. st' \in AfterInstruction({Ask(p) : p \in Players})
  BY DEF AskPlayer
<1>3. ASSUME NEW p \in Players
      PROVE  /\ IInv(Ask(p)) /\ Follows(st, Ask(p)) /\ Ask(p).winner = NoWinner
             /\ Ask(p).pending.kind = "effect"
  <2> DEFINE x == Ask(p)
  <2>1. st \in GameState
    BY DEF IInv
  <2>2. st.budget - 1 \in 0 .. MaxEffects
    <3>1. st.budget \in 0 .. MaxEffects
      BY <2>1 DEF GameState
    <3>2. QED
      BY <1>1, <3>1, Parameters
  <2>3. x = [st EXCEPT !.budget = st.budget - 1, !.pending = [player |-> p, kind |-> "effect"]]
    BY DEF Decide
  <2> HIDE DEF x, Ask
  <2>4. x \in GameState
    BY <2>1, <2>2, <2>3 DEF GameState, DecisionRec, Kinds
  <2>5. /\ x.pending.kind = "effect" /\ x.winner = NoWinner /\ x.effects = st.effects
        /\ x.step = st.step /\ x.end_reason = st.end_reason /\ x.battles = st.battles
        /\ x.lasting = st.lasting /\ x.checked = st.checked /\ x.card = st.card
        /\ x.deck = st.deck /\ x.passes = st.passes /\ x.priority = st.priority
        /\ x.declined = st.declined /\ x.action_count = st.action_count
    BY <1>1, <2>1, <2>3 DEF GameState
  <2>6. OverInv(x) /\ StackInv(x) /\ LastingInv(x) /\ SetupInv(x)
    BY <1>1, <2>5 DEF IInv, OverInv, StackInv, LastingInv, SetupInv
  <2>7. EffectsInv(x) /\ PassInv(x)
    BY <1>1, <2>5 DEF IInv, EffectsInv, PassInv
  <2>8. CheckedInv(x)
    BY <1>1, <2>5, SameBoard DEF IInv, CheckedInv
  <2>9. WholeInv(x)
    BY <1>1, <2>5 DEF IInv, EffectsInv, WholeInv
  <2>10. AskedInv(x)
    BY <1>1, <2>5 DEF AskedInv
  <2>11. Cause(x)
    BY <1>1, <2>5 DEF IInv, OverInv, Cause
  <2>12. Follows(st, x)
    BY <2>5 DEF Follows
  <2>13. QED
    BY <2>4, <2>5, <2>6, <2>7, <2>8, <2>9, <2>10, <2>11, <2>12 DEF IInv, x
<1> HIDE DEF Ask
<1>4. \A y \in {Ask(p) : p \in Players} :
        /\ IInv(y) /\ Follows(st, y) /\ y.winner = NoWinner
        /\ y.pending = None \/ y.pending.kind = "effect"
  BY <1>3
<1>5. IInv(st') /\ Follows(st, st')
  BY <1>2, <1>4, AfterInstructionIsGood
<1>6. QED
  BY <1>5, FollowsPassed

\* The last effect is over: a row may run on.
LEMMA EffectsEndIsGood ==
  ASSUME IInv(st), EffectsEnd PROVE IInv(st') /\ Passed
<1> DEFINE x == st'
<1>1. st.pending = None /\ st.winner = NoWinner /\ st.effects /\ x = [st EXCEPT !.effects = FALSE]
  BY DEF EffectsEnd, Looping, Running
<1>2. st \in GameState
  BY DEF IInv
<1> HIDE DEF x
<1>3. x \in GameState
  BY <1>1, <1>2 DEF GameState
<1>4. /\ x.pending = None /\ x.winner = NoWinner /\ ~x.effects
      /\ x.step = st.step /\ x.end_reason = st.end_reason /\ x.battles = st.battles
      /\ x.lasting = st.lasting /\ x.checked = st.checked /\ x.card = st.card
      /\ x.deck = st.deck /\ x.passes = st.passes /\ x.priority = st.priority
      /\ x.declined = st.declined /\ x.action_count = st.action_count
  BY <1>1, <1>2 DEF GameState
<1>5. OverInv(x) /\ StackInv(x) /\ LastingInv(x) /\ SetupInv(x)
  BY <1>1, <1>4 DEF IInv, OverInv, StackInv, LastingInv, SetupInv
<1>6. EffectsInv(x) /\ AskedInv(x) /\ PassInv(x)
  BY <1>4 DEF IInv, EffectsInv, AskedInv, PassInv
<1>7. CheckedInv(x)
  BY <1>1, <1>4, SameBoard DEF IInv, CheckedInv
<1>8. WholeInv(x)
  BY <1>1, <1>4 DEF IInv, EffectsInv, WholeInv
<1>9. Cause(x)
  BY <1>1, <1>4 DEF IInv, OverInv, Cause
<1>10. Follows(st, x)
  BY <1>4 DEF Follows
<1>11. IInv(x)
  BY <1>3, <1>5, <1>6, <1>7, <1>8, <1>9 DEF IInv
<1>12. QED
  BY <1>10, <1>11, FollowsPassed DEF x

\* The rows of the setup keep the invariant.
LEMMA SetupRowsAreGood ==
  ASSUME NEW s, Ready(s), s.action_count <= MaxActions PROVE
    /\ s.step = "SetupChooseFirst" => \A x \in SetupChooseFirst(s) : IInv(x)
    /\ s.step = "SetupDraw" => \A x \in SetupDraw(s) : IInv(x)
    /\ s.step = "SetupRedrawP1" => \A x \in SetupRedrawP1(s) : IInv(x)
    /\ s.step = "SetupRedrawP2" => \A x \in SetupRedrawP2(s) : IInv(x)
    /\ s.step = "SetupShields" => \A x \in SetupShields(s) : IInv(x)
<1>1. s.active \in Players /\ Standby(s) \in Players
  BY DEF Ready, IInv, GameState, Standby, Players
<1>2. ASSUME s.step = "SetupChooseFirst", NEW p \in Players
      PROVE  IInv(Decide(s, p, "choose_first"))
  BY <1>2, DecideIsGood
<1>3. ASSUME s.step \in {"SetupRedrawP1", "SetupRedrawP2"}, NEW p \in Players
      PROVE  IInv(Decide(s, p, "redraw"))
  BY <1>3, DecideIsGood
<1>4. QED
  BY <1>1, <1>2, <1>3, SetupDrawIsGood, SetupShieldsIsGood
     DEF SetupChooseFirst, SetupRedrawP1, SetupRedrawP2

\* So do those of the turn that name the next step, announce an event or draw.
LEMMA TurnRowsAreGood ==
  ASSUME NEW s, Ready(s) PROVE
    /\ \A step \in DOMAIN Follow : s.step = step => IInv(Goto(s, Follow[step]))
    /\ \A step \in DOMAIN Announce :
         s.step = step => \A x \in Emit({Goto(s, Announce[step])}) : IInv(x)
    /\ s.step = "DrawStep" => \A x \in DrawStep(s) : IInv(x)
<1>1. ASSUME NEW step \in DOMAIN Follow, s.step = step PROVE IInv(Goto(s, Follow[step]))
  BY <1>1, FollowSteps, GotoIsGood
<1>2. ASSUME NEW step \in DOMAIN Announce, s.step = step,
             NEW x \in Emit({Goto(s, Announce[step])})
      PROVE  IInv(x)
  <2>1. /\ Announce[step] \in (BattleSteps \cup TurnSteps) \
                                (ActionSteps \cup {"Block", "Damage", "BattleEndDone"})
        /\ Announce[step] \in BattleSteps <=> s.step \in BattleSteps
        /\ s.step \notin SetupSteps
    BY <1>2, FollowSteps
  <2>2. Goto(s, Announce[step]) \in GameState
    BY <2>1, GotoIsGood
  <2>3. Board(Goto(s, Announce[step]), Goto(s, Announce[step]))
    BY <2>2, BoardSelf
  <2>4. QED
    BY <1>2, <2>1, <2>3, GotoEmit
<1>3. ASSUME s.step = "DrawStep", NEW x \in DrawStep(s) PROVE IInv(x)
  <2>1. /\ "DrawStepDone" \in (BattleSteps \cup TurnSteps) \
                                (ActionSteps \cup {"Block", "Damage", "BattleEndDone"})
        /\ "DrawStepDone" \in BattleSteps <=> s.step \in BattleSteps
        /\ s.step \notin SetupSteps
    BY <1>3 DEF BattleSteps, TurnSteps, SetupSteps, ActionSteps
  <2>2. Goto(s, "DrawStepDone") \in GameState /\ s.active \in Players
    BY <2>1, GotoIsGood DEF Ready, IInv, GameState
  <2>3. Board(Goto(s, "DrawStepDone"), Drawn(Goto(s, "DrawStepDone"), s.active))
    BY <2>2, DrawnBoard
  <2>4. QED
    BY <1>3, <2>1, <2>3, GotoEmit DEF DrawStep
<1>4. QED
  BY <1>1, <1>2, <1>3

\* So do those that ask, check or open an action step.
LEMMA AskingRowsAreGood ==
  ASSUME NEW s, Ready(s), s.action_count <= MaxActions PROVE
    /\ s.step = "Main" => \A x \in Main(s) : IInv(x)
    /\ s.step = "BlockEndCheck" => \A x \in BlockEndCheck(s) : IInv(x)
    /\ s.step = "AttackEndCheck" => \A x \in CheckBattle(s, "Block") : IInv(x)
    /\ s.step = "BattleActionEndCheck" => \A x \in CheckBattle(s, "Damage") : IInv(x)
<1>1. ASSUME s.step = "Main" PROVE IInv(Decide(s, s.active, "main"))
  <2>1. s.active \in Players
    BY DEF Ready, IInv, GameState
  <2>2. QED
    BY <1>1, <2>1, DecideIsGood
<1>2. ASSUME s.step = "BlockEndCheck"
      PROVE  IInv(Goto(s, "BattleEnd")) /\ IInv(OpenActionStep(s, "BattleAction"))
  <2>1. /\ s.step \in BattleSteps /\ s.step \notin SetupSteps
        /\ "BattleAction" \in ActionSteps /\ "BattleAction" \in BattleSteps
        /\ "BattleEnd" \in BattleSteps
        /\ "BattleEnd" \notin ActionSteps \cup {"Block", "Damage", "BattleEndDone"}
    BY <1>2 DEF BattleSteps, SetupSteps, ActionSteps
  <2>2. QED
    BY <2>1, GotoIsGood, OpenIsGood
<1>3. ASSUME s.step \in {"AttackEndCheck", "BattleActionEndCheck"},
             NEW next \in {"Block", "Damage"}, NEW x \in CheckBattle(s, next)
      PROVE  IInv(x)
  BY <1>3, CheckBattleIsGood DEF BattleSteps
<1>4. QED
  BY <1>1, <1>2, <1>3 DEF Main, BlockEndCheck

\* Every iteration of advance keeps the invariant.
LEMMA AdvanceIsGood == ASSUME IInv(st), Advance PROVE IInv(st') /\ Passed
<1>1. CASE DecisionCap
  <2>1. st.pending = None /\ st.action_count > MaxActions /\ st' = Timeout(st)
    BY <1>1 DEF DecisionCap, Running
  <2>2. Ended(st, st')
    BY <2>1, TimeoutEnds
  <2>3. QED
    BY <2>2, EndedIsGood DEF Ended, Passed
<1>2. CASE RunEffect
  <2>1. st.pending = None /\ st.winner = NoWinner /\ st.effects
        /\ st' \in AfterInstruction(Instruction(st))
    BY <1>2 DEF RunEffect, Looping, Running
  <2>2. Idle(st)
    BY <2>1 DEF IInv, EffectsInv, Idle
  <2>3. \A y \in Instruction(st) :
          /\ IInv(y) /\ Follows(st, y) /\ y.winner = NoWinner
          /\ y.pending = None \/ y.pending.kind = "effect"
    BY <2>2, InstructionIsGood DEF Idle
  <2>4. QED
    BY <2>1, <2>3, AfterInstructionIsGood, FollowsPassed
<1>3. CASE AskPlayer
  BY <1>3, AskIsGood
<1>4. CASE EffectsEnd
  BY <1>4, EffectsEndIsGood
<1>5. CASE Row("SetupChooseFirst", SetupChooseFirst)
  <2>1. Looping /\ ~st.effects /\ st.step = "SetupChooseFirst"
    BY <1>5 DEF Row
  <2>2. PICK s \in RulesManagement(st) :
          st' \in IF s.winner # NoWinner \/ s.effects THEN {s} ELSE SetupChooseFirst(s)
    BY <1>5 DEF Row
  <2>3. Ready(s) /\ s.step = st.step /\ s.action_count <= MaxActions => \A x \in SetupChooseFirst(s) : IInv(x)
    BY <2>1, SetupRowsAreGood
  <2>4. QED
    BY <2>1, <2>2, <2>3, RowIsGood DEF ActionSteps
<1>6. CASE Row("SetupDraw", SetupDraw)
  <2>1. Looping /\ ~st.effects /\ st.step = "SetupDraw"
    BY <1>6 DEF Row
  <2>2. PICK s \in RulesManagement(st) :
          st' \in IF s.winner # NoWinner \/ s.effects THEN {s} ELSE SetupDraw(s)
    BY <1>6 DEF Row
  <2>3. Ready(s) /\ s.step = st.step /\ s.action_count <= MaxActions => \A x \in SetupDraw(s) : IInv(x)
    BY <2>1, SetupRowsAreGood
  <2>4. QED
    BY <2>1, <2>2, <2>3, RowIsGood DEF ActionSteps
<1>7. CASE Row("SetupRedrawP1", SetupRedrawP1)
  <2>1. Looping /\ ~st.effects /\ st.step = "SetupRedrawP1"
    BY <1>7 DEF Row
  <2>2. PICK s \in RulesManagement(st) :
          st' \in IF s.winner # NoWinner \/ s.effects THEN {s} ELSE SetupRedrawP1(s)
    BY <1>7 DEF Row
  <2>3. Ready(s) /\ s.step = st.step /\ s.action_count <= MaxActions => \A x \in SetupRedrawP1(s) : IInv(x)
    BY <2>1, SetupRowsAreGood
  <2>4. QED
    BY <2>1, <2>2, <2>3, RowIsGood DEF ActionSteps
<1>8. CASE Row("SetupRedrawP2", SetupRedrawP2)
  <2>1. Looping /\ ~st.effects /\ st.step = "SetupRedrawP2"
    BY <1>8 DEF Row
  <2>2. PICK s \in RulesManagement(st) :
          st' \in IF s.winner # NoWinner \/ s.effects THEN {s} ELSE SetupRedrawP2(s)
    BY <1>8 DEF Row
  <2>3. Ready(s) /\ s.step = st.step /\ s.action_count <= MaxActions => \A x \in SetupRedrawP2(s) : IInv(x)
    BY <2>1, SetupRowsAreGood
  <2>4. QED
    BY <2>1, <2>2, <2>3, RowIsGood DEF ActionSteps
<1>9. CASE Row("SetupShields", SetupShields)
  <2>1. Looping /\ ~st.effects /\ st.step = "SetupShields"
    BY <1>9 DEF Row
  <2>2. PICK s \in RulesManagement(st) :
          st' \in IF s.winner # NoWinner \/ s.effects THEN {s} ELSE SetupShields(s)
    BY <1>9 DEF Row
  <2>3. Ready(s) /\ s.step = st.step /\ s.action_count <= MaxActions => \A x \in SetupShields(s) : IInv(x)
    BY <2>1, SetupRowsAreGood
  <2>4. QED
    BY <2>1, <2>2, <2>3, RowIsGood DEF ActionSteps
<1>10. CASE Row("ActiveStep", ActiveStep)
  <2>1. Looping /\ ~st.effects /\ st.step = "ActiveStep"
    BY <1>10 DEF Row
  <2>2. PICK s \in RulesManagement(st) :
          st' \in IF s.winner # NoWinner \/ s.effects THEN {s} ELSE ActiveStep(s)
    BY <1>10 DEF Row
  <2>3. Ready(s) /\ s.step = st.step /\ s.action_count <= MaxActions => \A x \in ActiveStep(s) : IInv(x)
    BY <2>1, ActiveStepIsGood
  <2>4. QED
    BY <2>1, <2>2, <2>3, RowIsGood DEF ActionSteps
<1>11. CASE Row("DrawStep", DrawStep)
  <2>1. Looping /\ ~st.effects /\ st.step = "DrawStep"
    BY <1>11 DEF Row
  <2>2. PICK s \in RulesManagement(st) :
          st' \in IF s.winner # NoWinner \/ s.effects THEN {s} ELSE DrawStep(s)
    BY <1>11 DEF Row
  <2>3. Ready(s) /\ s.step = st.step /\ s.action_count <= MaxActions => \A x \in DrawStep(s) : IInv(x)
    BY <2>1, TurnRowsAreGood
  <2>4. QED
    BY <2>1, <2>2, <2>3, RowIsGood DEF ActionSteps
<1>12. CASE Row("Main", Main)
  <2>1. Looping /\ ~st.effects /\ st.step = "Main"
    BY <1>12 DEF Row
  <2>2. PICK s \in RulesManagement(st) :
          st' \in IF s.winner # NoWinner \/ s.effects THEN {s} ELSE Main(s)
    BY <1>12 DEF Row
  <2>3. Ready(s) /\ s.step = st.step /\ s.action_count <= MaxActions => \A x \in Main(s) : IInv(x)
    BY <2>1, AskingRowsAreGood
  <2>4. QED
    BY <2>1, <2>2, <2>3, RowIsGood DEF ActionSteps
<1>13. ASSUME NEW step \in DOMAIN Follow, LET Do(s) == {Goto(s, Follow[step])} IN Row(step, Do)
      PROVE  IInv(st') /\ Passed
  <2>1. Looping /\ ~st.effects /\ st.step = step
    BY <1>13 DEF Row
  <2>2. PICK s \in RulesManagement(st) :
          st' \in IF s.winner # NoWinner \/ s.effects THEN {s} ELSE {Goto(s, Follow[step])}
    BY <1>13 DEF Row
  <2> DEFINE D == {Goto(s, Follow[step])}
  <2>3. Ready(s) /\ s.step = st.step => \A x \in D : IInv(x)
    BY <2>1, TurnRowsAreGood
  <2>4. st.step \notin ActionSteps
    BY <2>1, FollowSteps
  <2>5. st' \in IF s.winner # NoWinner \/ s.effects THEN {s} ELSE D
    BY <2>2
  <2> HIDE DEF D
  <2>6. QED
    BY <2>1, <2>3, <2>4, <2>5, RowIsGood
<1>14. ASSUME NEW step \in DOMAIN Announce,
             LET Do(s) == Emit({Goto(s, Announce[step])}) IN Row(step, Do)
      PROVE  IInv(st') /\ Passed
  <2>1. Looping /\ ~st.effects /\ st.step = step
    BY <1>14 DEF Row
  <2>2. PICK s \in RulesManagement(st) :
          st' \in IF s.winner # NoWinner \/ s.effects THEN {s}
                  ELSE Emit({Goto(s, Announce[step])})
    BY <1>14 DEF Row
  <2>3. Ready(s) /\ s.step = st.step => \A x \in Emit({Goto(s, Announce[step])}) : IInv(x)
    BY <2>1, TurnRowsAreGood
  <2>4. st.step \notin ActionSteps
    BY <2>1, FollowSteps
  <2>5. QED
    BY <2>1, <2>2, <2>3, <2>4, RowIsGood
<1>15. CASE LET Do(s) == CheckBattle(s, "Block") IN Row("AttackEndCheck", Do)
  <2>1. Looping /\ ~st.effects /\ st.step = "AttackEndCheck"
    BY <1>15 DEF Row
  <2>2. PICK s \in RulesManagement(st) :
          st' \in IF s.winner # NoWinner \/ s.effects THEN {s} ELSE CheckBattle(s, "Block")
    BY <1>15 DEF Row
  <2>3. Ready(s) /\ s.step = st.step /\ s.action_count <= MaxActions => \A x \in CheckBattle(s, "Block") : IInv(x)
    BY <2>1, AskingRowsAreGood
  <2>4. QED
    BY <2>1, <2>2, <2>3, RowIsGood DEF ActionSteps
<1>16. CASE Row("Block", Block)
  <2>1. Looping /\ ~st.effects /\ st.step = "Block"
    BY <1>16 DEF Row
  <2>2. PICK s \in RulesManagement(st) :
          st' \in IF s.winner # NoWinner \/ s.effects THEN {s} ELSE Block(s)
    BY <1>16 DEF Row
  <2>3. Ready(s) /\ s.step = st.step /\ s.action_count <= MaxActions => \A x \in Block(s) : IInv(x)
    BY <2>1, BlockIsGood
  <2>4. QED
    BY <2>1, <2>2, <2>3, RowIsGood DEF ActionSteps
<1>17. CASE Row("BlockEndCheck", BlockEndCheck)
  <2>1. Looping /\ ~st.effects /\ st.step = "BlockEndCheck"
    BY <1>17 DEF Row
  <2>2. PICK s \in RulesManagement(st) :
          st' \in IF s.winner # NoWinner \/ s.effects THEN {s} ELSE BlockEndCheck(s)
    BY <1>17 DEF Row
  <2>3. Ready(s) /\ s.step = st.step /\ s.action_count <= MaxActions => \A x \in BlockEndCheck(s) : IInv(x)
    BY <2>1, AskingRowsAreGood
  <2>4. QED
    BY <2>1, <2>2, <2>3, RowIsGood DEF ActionSteps
<1>18. ASSUME NEW step \in ActionSteps, Row(step, ActionStep) PROVE IInv(st') /\ Passed
  <2>1. Looping /\ ~st.effects /\ st.step = step
    BY <1>18 DEF Row
  <2>2. PICK s \in RulesManagement(st) :
          st' \in IF s.winner # NoWinner \/ s.effects THEN {s} ELSE ActionStep(s)
    BY <1>18 DEF Row
  <2>3. Ready(s) /\ s.step = st.step /\ s.action_count <= MaxActions =>
          \A x \in ActionStep(s) : IInv(x) /\ (x.step \in ActionSteps \/ s.declined = Players)
    BY <2>1, ActionStepIsGood
  <2>4. QED
    BY <2>1, <2>2, <2>3, RowIsGood
<1>19. CASE LET Do(s) == CheckBattle(s, "Damage") IN Row("BattleActionEndCheck", Do)
  <2>1. Looping /\ ~st.effects /\ st.step = "BattleActionEndCheck"
    BY <1>19 DEF Row
  <2>2. PICK s \in RulesManagement(st) :
          st' \in IF s.winner # NoWinner \/ s.effects THEN {s} ELSE CheckBattle(s, "Damage")
    BY <1>19 DEF Row
  <2>3. Ready(s) /\ s.step = st.step /\ s.action_count <= MaxActions => \A x \in CheckBattle(s, "Damage") : IInv(x)
    BY <2>1, AskingRowsAreGood
  <2>4. QED
    BY <2>1, <2>2, <2>3, RowIsGood DEF ActionSteps
<1>20. CASE Row("Damage", Damage)
  <2>1. Looping /\ ~st.effects /\ st.step = "Damage"
    BY <1>20 DEF Row
  <2>2. PICK s \in RulesManagement(st) :
          st' \in IF s.winner # NoWinner \/ s.effects THEN {s} ELSE Damage(s)
    BY <1>20 DEF Row
  <2>3. Ready(s) /\ s.step = st.step /\ s.action_count <= MaxActions => \A x \in Damage(s) : IInv(x)
    BY <2>1, DamageIsGood
  <2>4. QED
    BY <2>1, <2>2, <2>3, RowIsGood DEF ActionSteps
<1>21. CASE Row("BattleEnd", BattleEnd)
  <2>1. Looping /\ ~st.effects /\ st.step = "BattleEnd"
    BY <1>21 DEF Row
  <2>2. PICK s \in RulesManagement(st) :
          st' \in IF s.winner # NoWinner \/ s.effects THEN {s} ELSE BattleEnd(s)
    BY <1>21 DEF Row
  <2>3. Ready(s) /\ s.step = st.step /\ s.action_count <= MaxActions => \A x \in BattleEnd(s) : IInv(x)
    BY <2>1, BattleEndIsGood
  <2>4. QED
    BY <2>1, <2>2, <2>3, RowIsGood DEF ActionSteps
<1>22. CASE Row("BattleEndDone", BattleEndDone)
  <2>1. Looping /\ ~st.effects /\ st.step = "BattleEndDone"
    BY <1>22 DEF Row
  <2>2. PICK s \in RulesManagement(st) :
          st' \in IF s.winner # NoWinner \/ s.effects THEN {s} ELSE BattleEndDone(s)
    BY <1>22 DEF Row
  <2>3. Ready(s) /\ s.step = st.step /\ s.action_count <= MaxActions => \A x \in BattleEndDone(s) : IInv(x)
    BY <2>1, BattleEndDoneIsGood
  <2>4. QED
    BY <2>1, <2>2, <2>3, RowIsGood DEF ActionSteps
<1>23. CASE Row("CleanupStep", CleanupStep)
  <2>1. Looping /\ ~st.effects /\ st.step = "CleanupStep"
    BY <1>23 DEF Row
  <2>2. PICK s \in RulesManagement(st) :
          st' \in IF s.winner # NoWinner \/ s.effects THEN {s} ELSE CleanupStep(s)
    BY <1>23 DEF Row
  <2>3. Ready(s) /\ s.step = st.step /\ s.action_count <= MaxActions => \A x \in CleanupStep(s) : IInv(x)
    BY <2>1, CleanupIsGood
  <2>4. QED
    BY <2>1, <2>2, <2>3, RowIsGood DEF ActionSteps
<1>24. CASE Row("TurnEnd", NextTurn)
  <2>1. Looping /\ ~st.effects /\ st.step = "TurnEnd"
    BY <1>24 DEF Row
  <2>2. PICK s \in RulesManagement(st) :
          st' \in IF s.winner # NoWinner \/ s.effects THEN {s} ELSE NextTurn(s)
    BY <1>24 DEF Row
  <2>3. Ready(s) /\ s.step = st.step /\ s.action_count <= MaxActions => \A x \in NextTurn(s) : IInv(x)
    BY <2>1, NextTurnIsGood
  <2>4. QED
    BY <2>1, <2>2, <2>3, RowIsGood DEF ActionSteps
<1>25. QED
  BY <1>1, <1>2, <1>3, <1>4, <1>5, <1>6, <1>7, <1>8, <1>9, <1>10, <1>11, <1>12, <1>13, <1>14, <1>15, <1>16, <1>17, <1>18, <1>19, <1>20, <1>21, <1>22, <1>23, <1>24 DEF Advance

\* The game starts in the invariant.
LEMMA InitIsGood == Init => IInv(st)
<1> SUFFICES ASSUME Init PROVE IInv(st)
  OBVIOUS
<1>1. /\ st.step = "SetupChooseFirst" /\ st.pending = None /\ st.winner = NoWinner
      /\ st.end_reason = "none" /\ st.battles = <<>> /\ st.lasting = {} /\ ~st.effects
      /\ ~st.checked /\ st.deck = [p \in Players |-> DeckSize]
  BY DEF Init
<1>2. st \in GameState
  <2>1. [c \in Cards |-> [zone |-> "away", zone_seq |-> 0, rested |-> FALSE, damage |-> 0]]
          \in [Cards -> CardState]
    BY Parameters DEF CardState
  <2>2. /\ [p \in Players |-> DeckSize] \in [Players -> 0 .. DeckSize]
        /\ [p \in Players |-> 0] \in [Players -> 0 .. ShieldCount]
    BY Parameters
  <2>3. 0 \in 0 .. TurnLimit /\ 0 \in 0 .. MaxActions + 1 /\ MaxEffects \in 0 .. MaxEffects
    BY Parameters
  <2> DEFINE cards == [c \in Cards |-> [zone |-> "away", zone_seq |-> 0, rested |-> FALSE,
                                        damage |-> 0]]
             decks == [p \in Players |-> DeckSize]
             shields == [p \in Players |-> 0]
  <2>4. st = [step |-> "SetupChooseFirst", turn |-> 0, active |-> 0, priority |-> 0,
              passes |-> 0, pending |-> None, action_count |-> 0, winner |-> NoWinner,
              end_reason |-> "none", deck |-> decks, shields |-> shields, card |-> cards,
              battles |-> <<>>, next_battle_id |-> 1, lasting |-> {}, effects |-> FALSE,
              checked |-> FALSE, declined |-> {}, budget |-> MaxEffects]
    BY DEF Init
  <2>5. /\ cards \in [Cards -> CardState] /\ decks \in [Players -> 0 .. DeckSize]
        /\ shields \in [Players -> 0 .. ShieldCount]
    BY <2>1, <2>2
  <2> HIDE DEF cards, decks, shields
  <2>6. QED
    BY <2>3, <2>4, <2>5 DEF GameState, SetupSteps, Players
<1>3. Len(st.battles) = 0
  BY <1>1
<1>4. st.step \notin BattleSteps \cup ActionSteps /\ st.step # "GameOver"
  BY <1>1 DEF BattleSteps, ActionSteps
<1>5. OverInv(st) /\ StackInv(st) /\ LastingInv(st)
  BY <1>1, <1>3, <1>4 DEF OverInv, StackInv, LastingInv
<1>6. SetupInv(st) /\ EffectsInv(st) /\ CheckedInv(st)
  BY <1>1 DEF SetupInv, EffectsInv, CheckedInv
<1>7. AskedInv(st) /\ WholeInv(st) /\ PassInv(st) /\ Cause(st)
  BY <1>1, <1>4 DEF AskedInv, WholeInv, PassInv, Cause
<1>8. QED
  BY <1>2, <1>5, <1>6, <1>7 DEF IInv

\* Every step keeps it.
LEMMA NextIsGood == ASSUME IInv(st), Next PROVE IInv(st') /\ Passed
  BY AnswerIsGood, AdvanceIsGood, ConcedeIsGood DEF Next

\* The inductive invariant of the turn procedure.
THEOREM Invariant == Spec => []IInv(st)
<1>1. IInv(st) /\ [Next]_st => IInv(st)'
  <2>1. SUFFICES ASSUME IInv(st), [Next]_st PROVE IInv(st')
    OBVIOUS
  <2>2. CASE Next
    BY <2>1, <2>2, NextIsGood
  <2>3. CASE UNCHANGED st
    BY <2>1, <2>3
  <2>4. QED
    BY <2>1, <2>2, <2>3
<1>2. QED
  BY <1>1, InitIsGood, PTL DEF Spec


\* The state of the engine always has its type, and a battle is on the stack in
\* exactly the steps of a battle: current_battle never fails.
THEOREM TypeCorrect == Spec => []TypeOK
<1>1. IInv(st) => TypeOK
  <2>1. SUFFICES ASSUME IInv(st), st.winner = NoWinner
                 PROVE  Len(st.battles) = IF st.step \in BattleSteps THEN 1 ELSE 0
    BY DEF TypeOK, IInv
  <2>2. Len(st.battles) \in Nat /\ Len(st.battles) <= 1
    <3>1. st.battles \in Seq(BattleRec)
      BY <2>1 DEF IInv, GameState
    <3>2. QED
      BY <2>1, <3>1 DEF IInv, StackInv
  <2>3. Len(st.battles) = 1 <=> st.step \in BattleSteps
    BY <2>1 DEF IInv, StackInv
  <2>4. \A n \in Nat : n <= 1 => n = 0 \/ n = 1
    OBVIOUS
  <2>5. QED
    BY <2>2, <2>3, <2>4
<1>2. QED
  BY <1>1, Invariant, PTL

\* set_winner is final wherever it is called: no row, instruction or decision
\* that goes on after it leaves the last step or asks a question.
THEOREM OverIsFinal == Spec => []GameOverIsFinal
<1>1. IInv(st) => GameOverIsFinal
  BY DEF IInv, OverInv, GameOverIsFinal
<1>2. QED
  BY <1>1, Invariant, PTL

\* No block is asked for and no battle damage dealt for an attacker or target
\* that left the board since the declaration, whatever ran in between.
THEOREM WholeBattles == Spec => []BrokenBattleGoesNoFurther
<1>1. IInv(st) => BrokenBattleGoesNoFurther
  BY DEF IInv, WholeInv, BattleBroken, BrokenBattleGoesNoFurther
<1>2. QED
  BY <1>1, Invariant, PTL

\* A "during this battle" effect never outlives its battle.
THEOREM EffectsDie == Spec => []BattleEffectsDieWithTheBattle
<1>1. IInv(st) => BattleEffectsDieWithTheBattle
  <2>1. SUFFICES ASSUME IInv(st), NEW id \in st.lasting
                 PROVE  \E i \in DOMAIN st.battles :
                          ~st.battles[i].ended /\ id = st.battles[i].battle_id
    BY DEF BattleEffectsDieWithTheBattle
  <2>2. Len(st.battles) = 1 /\ ~st.battles[1].ended /\ id = st.battles[1].battle_id
    BY <2>1 DEF IInv, LastingInv
  <2>3. st.battles \in Seq(BattleRec)
    BY <2>1 DEF IInv, GameState
  <2>4. DOMAIN st.battles = 1 .. Len(st.battles)
    BY <2>3
  <2>5. 1 \in 1 .. 1
    OBVIOUS
  <2>6. 1 \in DOMAIN st.battles
    BY <2>2, <2>4, <2>5, Zenon
  <2>7. QED
    BY <2>2, <2>6
<1>2. QED
  BY <1>1, Invariant, PTL

\* The turn procedure never asks a player over a board with a defeat or a dead
\* card that rules management has not seen: rules_checked is never stale.
THEOREM SettledDecisions == Spec => []DecisionsSeeASettledBoard
<1>1. IInv(st) => DecisionsSeeASettledBoard
  BY DEF IInv, AskedInv, Settled, DecisionsSeeASettledBoard
<1>2. QED
  BY <1>1, Invariant, PTL

\* Every result has its cause on the board that ended the game.
THEOREM EndsHaveCauses == Spec => []EveryEndHasItsCause
<1>1. IInv(st) => EveryEndHasItsCause
  <2>1. SUFFICES ASSUME IInv(st) PROVE EveryEndHasItsCause
    OBVIOUS
  <2>2. Cause(st) /\ OverInv(st)
    BY <2>1 DEF IInv
  <2>3. st.end_reason \in {"none", "turn_limit", "deck_out", "both_defeated", "battle_damage",
                           "concede"}
    BY <2>1 DEF IInv, GameState
  <2>4. st.deck[0] = 0 /\ st.deck[1] = 0 => st.deck[0] + st.deck[1] = 0
    OBVIOUS
  <2>5. QED
    BY <2>2, <2>3, <2>4 DEF Cause, OverInv, EveryEndHasItsCause
<1>2. QED
  BY <1>1, Invariant, PTL

\* An action step closes only after both players passed in a row, or with the game.
THEOREM BothPass == Spec => BothPlayersPassed
<1>1. IInv(st) /\ [Next]_st =>
        [st.step \in ActionSteps /\ st'.step \notin ActionSteps \cup {"GameOver"}
           => st.declined = Players]_st
  BY NextIsGood DEF Passed
<1>2. QED
  BY <1>1, Invariant, PTL DEF Spec, BothPlayersPassed
=============================================================================
