-------------------------- MODULE NotificationQueue --------------------------
(***************************************************************************)
(* What the class comment of _Notifier promises, whatever threads carry it *)
(* out: the jobs that are handed over run one at a time, first in, first   *)
(* out; a stop may drop those that have not started, and nothing else is   *)
(* lost.                                                                   *)
(***************************************************************************)
EXTENDS Naturals, Sequences

VARIABLES
  handed,    \* how many jobs were handed over; a job is its number
  pending,   \* those that wait
  sending    \* the one that runs, as a set of at most one

vars == <<handed, pending, sending>>

Init == handed = 0 /\ pending = <<>> /\ sending = {}

Hand ==
  /\ handed' = handed + 1
  /\ pending' = Append(pending, handed + 1)
  /\ UNCHANGED sending

Start ==
  /\ sending = {} /\ pending # <<>>
  /\ sending' = {Head(pending)} /\ pending' = Tail(pending)
  /\ UNCHANGED handed

Finish == sending # {} /\ sending' = {} /\ UNCHANGED <<handed, pending>>

Drop == pending' = <<>> /\ UNCHANGED <<handed, sending>>

Next == Hand \/ Start \/ Finish \/ Drop

Spec == Init /\ [][Next]_vars
=============================================================================
