---------------------------- MODULE MCSeedLedger ----------------------------
(* Small instances of SeedLedger for TLC: r3 is a rerun of r2, and r4 asks *)
(* for a master outside its role's range.                                  *)
EXTENDS SeedLedger

CONSTANTS r1, r2, r3, r4, e0, e1, e2, e4

MCEntry == [r \in Runs |-> CASE r = r1 -> e1 [] r = r4 -> e4 [] OTHER -> e2]
MCEarlier == {<<>>, <<e0>>}
=============================================================================
