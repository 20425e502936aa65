---------------------------- MODULE MCMapIndexed ----------------------------
(* Small instances of MapIndexed for TLC.                                  *)
EXTENDS MapIndexed, MCPool
=============================================================================
