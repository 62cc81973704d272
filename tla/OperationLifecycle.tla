------------------------- MODULE OperationLifecycle -------------------------
(***************************************************************************)
(* The life of an Operation as the status values order it, whoever writes  *)
(* them: it is created queued, claimed while it is queued, and ended while *)
(* it runs; an end is for good ("irreversible without dispatching a fresh  *)
(* Operation").  How an Operation ended makes no difference here, and none *)
(* is given up while it is queued, as a watchdog may do.                   *)
(***************************************************************************)
CONSTANT Ops

VARIABLE status

Init == status = [o \in Ops |-> "absent"]

Move(o, from, to) == status[o] = from /\ status' = [status EXCEPT ![o] = to]

Create(o) == Move(o, "absent", "queued")
Claim(o)  == Move(o, "queued", "running")
Finish(o) == Move(o, "running", "ended")

Next == \E o \in Ops : Create(o) \/ Claim(o) \/ Finish(o)

Spec == Init /\ [][Next]_status
=============================================================================
