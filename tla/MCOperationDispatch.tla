------------------------- MODULE MCOperationDispatch -------------------------
(* Instances for TLC.  Neither the Operations nor the instances are          *)
(* interchangeable: Own tells the Operations apart, and only i1 exposes the  *)
(* Workflow.                                                                 *)
EXTENDS OperationDispatch

CONSTANTS o1, i1, i2, t1
=============================================================================
