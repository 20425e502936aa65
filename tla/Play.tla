-------------------------------- MODULE Play --------------------------------
(***************************************************************************)
(* A match played by a search agent (gcg-runner: game.rs play_game, drive; *)
(* matches.rs): the decisions of one seat are searches (Search), each game *)
(* has agents of its own, and the games make the match (Match).            *)
(***************************************************************************)
EXTENDS Search, Match

CONSTANTS Searched   \* bound: the matches <<m, format>> whose seat searches

PlayInit ==
  /\ SearchInit /\ Init
  /\ searches = IF <<m, format>> \in Searched THEN 0 ELSE Len(Budgets)

\* drive: a decision of the seat, or what the others do until its next one.
Decide == outcome = "playing" /\ SearchStep /\ UNCHANGED vars

\* The game ended; the next one begins unless the match is over.
GameEnds ==
  /\ pc = "chosen"
  /\ \E result \in Results, active \in Seats : PlayGame(result, active)
  /\ IF outcome' = "playing"
     THEN NewGame /\ UNCHANGED <<trees, limit, t, line>>
     ELSE Discard /\ UNCHANGED <<game, came>>
  /\ UNCHANGED <<cfg, searches>>

\* An error or an interrupt ends the game and the match with it: drive reads the
\* flag before every decision too.
Stops ==
  /\ Fails \/ pc = "choose"
  /\ GameFails
  /\ Discard /\ UNCHANGED <<cfg, game, came, searches>>

PlayNext == Decide \/ GameEnds \/ Stops

PlaySpec == PlayInit /\ [][PlayNext]_<<svars, vars>>
=============================================================================
