------------------------------- MODULE MCGame -------------------------------
(* Small instances of Game for TLC.                                        *)
EXTENDS Game

CONSTANTS u1, v1, v2, base1

MCOwner == [c \in Cards |-> IF c \in {u1} THEN 0 ELSE 1]
Guarded == {<<v1, v2>>}
=============================================================================
