---------------------------- MODULE MCCheckpoint ----------------------------
(* Small instances of Checkpoint for TLC.                                  *)
EXTENDS Checkpoint

CONSTANTS c1, c2

\* Match 1 of c2 fails.
MCBad == [c \in Configs |-> IF c = c2 THEN {1} ELSE {}]
=============================================================================
