----------------------------- MODULE MCIssuedWait -----------------------------
(* Instances for TLC: each kind of wait waits for the claim and for the end. *)
EXTENDS IssuedWait, TLC

CONSTANTS bc, be, cc, ce

WantedOf == [w \in Waits |-> IF w \in {bc, cc} THEN Claimed ELSE EndedSet]
=============================================================================
