----------------------------- MODULE MCHandover -----------------------------
(* Three Resources, two Workpieces and three calls.                          *)
EXTENDS Handover, TLC

CONSTANTS r1, r2, r3, w1, w2, c1, c2, c3

Symmetry == Permutations(Calls) \cup Permutations(Workpieces)
=============================================================================
