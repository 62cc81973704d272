------------------------------- MODULE MCIntake -------------------------------
(* The intake on three Operations: one of a peer for a workflow here, one     *)
(* that this Resource issued to itself, and one that it issued to a peer.     *)
EXTENDS Intake

CONSTANTS peers, self, abroad, n1, n2
===============================================================================
