------------------------------ MODULE MCNotifier ------------------------------
(* Instances for TLC. The threads are interchangeable, but the run checks    *)
(* liveness, so no symmetry is declared.                                     *)
EXTENDS Notifier

CONSTANTS w1, w2, w3, c1, c2
=============================================================================
