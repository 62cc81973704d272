---------------------------- MODULE MCGeneralWrite ----------------------------
(* Instances for TLC.  The creations of one store are interchangeable.       *)
EXTENDS GeneralWrite, TLC

CONSTANTS k1, c1, c2, c3, a1, t1, t2

Symmetry == Permutations(Creations \ Foreign)
=============================================================================
