------------------------------- MODULE MCBoard -------------------------------
(* Small games: three cards; two turns; a resource card and a token.        *)
EXTENDS Observe

Game(main, resources, tokens, turns, battles) ==
  [main |-> main, resources |-> resources, tokens |-> tokens, events |-> 1,
   turns |-> turns, battles |-> battles]

MCTables == {Game(<<Unit, Unit, Pilot>>, 0, 0, 1, FALSE),
             Game(<<Unit, Pilot>>, 0, 0, 2, TRUE),
             Game(<<Unit, Pilot>>, 1, 1, 1, FALSE)}
=============================================================================
