-------------------------------- MODULE Match --------------------------------
(***************************************************************************)
(* Match sequencing (gcg-runner: matches.rs, game.rs): games until a side  *)
(* has the points it needs or the format's last game was played; the loser *)
(* of a game chooses who plays first in the next one.  A game ends in the  *)
(* ways Game ends: with a winner, a simultaneous defeat or the turn limit; *)
(* or it raises an error, is interrupted, or stops for a lower match.      *)
(*                                                                         *)
(* A point belongs to a deck, a choice to a seat: the deck under test sits *)
(* at seat m % 2 of match m.                                               *)
(***************************************************************************)
EXTENDS Integers, Sequences, SequencesExt, FiniteSets

CONSTANTS MatchIndexes  \* the matches looked at

ASSUME MatchAssumption == MatchIndexes \subseteq Nat

Seats    == {0, 1}
Draw     == -1
Roles    == {"dut", "bench"}
Formats  == {"bo1", "bo3"}
NoSeat   == 2           \* None: the seeded die roll decides
NoPoint  == "none"
\* How a game ends: (winner, end_reason) of the final state.
Results  == (Seats \X {"defeat"}) \cup ({Draw} \X {"both_defeated", "turn_limit"})

games_per_match(f) == IF f = "bo3" THEN 3 ELSE 1
wins_needed(f)     == IF f = "bo3" THEN 2 ELSE 1
dut_seat(k)        == k % 2
role(seat, dut)    == IF seat = dut THEN "dut" ELSE "bench"

VARIABLES
  m, format,
  games,       \* the GameRecords
  dut_points, bench_points,
  chooser,     \* who chooses in the next game
  outcome      \* "playing", the MatchRecord's winner, or "error"

vars == <<m, format, games, dut_points, bench_points, chooser, outcome>>

Init ==
  /\ m \in MatchIndexes /\ format \in Formats
  /\ games = <<>>
  /\ dut_points = 0 /\ bench_points = 0
  /\ chooser = NoSeat
  /\ outcome = "playing"

----------------------------------------------------------------------------
\* match_point_of: in BO3 the turn player at the end loses a simultaneous defeat.
match_point(winner, reason, active, dut, f) ==
  IF winner # Draw THEN role(winner, dut)
  ELSE IF f = "bo3" /\ reason = "both_defeated" THEN role(1 - active, dut) ELSE NoPoint

\* Mutant: the seat of the deck under test is taken to be 0.
LoserByRole(r) ==
  CASE r.match_point = "dut" -> 1 [] r.match_point = "bench" -> 0 [] OTHER -> NoSeat
match_loser_seat(r) ==
  CASE r.match_point = "dut"   -> 1 - r.dut_seat
    [] r.match_point = "bench" -> r.dut_seat
    [] OTHER -> NoSeat

winner_of(d, b) == IF d > b THEN "dut" ELSE IF b > d THEN "bench" ELSE "draw"

Decided(d, b, n) ==
  d >= wins_needed(format) \/ b >= wins_needed(format) \/ n = games_per_match(format)

PlayGame(result, active) ==
  LET dut == dut_seat(m)
      point  == match_point(result[1], result[2], active, dut, format)
      record == [winner |-> result[1], end_reason |-> result[2], active |-> active,
                 dut_seat |-> dut, chooser |-> chooser, match_point |-> point]
  IN  /\ outcome = "playing"
      /\ games' = Append(games, record)
      /\ dut_points' = dut_points + (IF point = "dut" THEN 1 ELSE 0)
      /\ bench_points' = bench_points + (IF point = "bench" THEN 1 ELSE 0)
      /\ IF Decided(dut_points', bench_points', Len(games'))
         THEN outcome' = winner_of(dut_points', bench_points') /\ UNCHANGED chooser
         ELSE chooser' = match_loser_seat(record) /\ UNCHANGED outcome
      /\ UNCHANGED <<m, format>>

\* The first RunError of a game: the games before it are dropped with it.
GameFails ==
  /\ outcome = "playing"
  /\ outcome' = "error"
  /\ UNCHANGED <<m, format, games, dut_points, bench_points, chooser>>

----------------------------------------------------------------------------
\* The points of the seat where the deck under test sits, game by game.
Scored(seat) ==
  Cardinality({g \in DOMAIN games :
    \/ games[g].winner = seat
    \/ format = "bo3" /\ games[g].end_reason = "both_defeated" /\ games[g].active = 1 - seat})
Dut == m % 2
Ended == outcome \in Roles \cup {"draw"}

\* A point belongs to a deck and a choice to a seat, and the seats alternate.
\* The winner of a match is the deck whose seat scored more of its games; no game
\* is played after a side has its wins, and none is left out: a drawn best of
\* three had a game without a point.  Who lost the last game chooses in the next
\* one, also the turn player of a simultaneous defeat (matches.rs:12-28,
\* game.rs:50-101).
DeckScoresSeatChooses ==
  /\ Ended =>
       /\ outcome = CASE Scored(Dut) > Scored(1 - Dut) -> "dut"
                      [] Scored(Dut) < Scored(1 - Dut) -> "bench"
                      [] OTHER -> "draw"
       /\ Len(games) < games_per_match(format) =>
            \E seat \in Seats : Scored(seat) = wins_needed(format)
       /\ \A seat \in Seats : Scored(seat) <= wins_needed(format)
       /\ outcome = "draw" => \E g \in DOMAIN games : games[g].match_point = NoPoint
  /\ \A g \in 2 .. Len(games) :
       LET last == games[g - 1] IN
       /\ last.winner # Draw => games[g].chooser = 1 - last.winner
       /\ last.end_reason = "both_defeated" => games[g].chooser = last.active
       /\ last.end_reason = "turn_limit" => games[g].chooser = NoSeat
=============================================================================
