----------------------------- MODULE MCTriggers -----------------------------
(* Small instances of Triggers for TLC: two hosts of different players,    *)
(* each with triggered abilities, one limited to once per turn.            *)
EXTENDS Triggers

CONSTANTS h0, h1, s0, s1, c0, once, other, third, act

MCOwner == [c \in Cards |-> IF c \in {h1, s1} THEN 1 ELSE 0]
MCHost  == [a \in Abilities |-> IF a = other THEN h1 ELSE h0]
=============================================================================
