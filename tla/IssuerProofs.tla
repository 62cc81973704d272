----------------------------- MODULE IssuerProofs -----------------------------
(***************************************************************************)
(* Proofs about the notifier that tells issuers of moves, for any number   *)
(* of workers, callers and jobs, and about the waits on an issued          *)
(* Operation, for any number of threads and coroutines that wait and any   *)
(* number of notifications.                                                *)
(***************************************************************************)
EXTENDS Notifier, IssuedWait, TLAPS

-----------------------------------------------------------------------------
(* The notifier.                                                           *)

WorkerType == [Workers -> [at : WorkerPcs, job : Nat]]
CallerType == [Callers -> [at : CallerPcs, mark : Nat, stop : BOOLEAN, all : BOOLEAN]]

(* A thread that has not come to its end is the one that _thread names. *)
Owner ==
  \A w \in Workers : worker[w].at \notin {"ended", "final"} => thread = w

-----------------------------------------------------------------------------
(* What notify_all does to the threads. *)

LEMMA WakeWorkersIs ==
  ASSUME NEW ws \in WorkerType
  PROVE  /\ WakeWorkers(ws) \in WorkerType
         /\ \A w \in Workers :
              /\ WakeWorkers(ws)[w].job = ws[w].job
              /\ WakeWorkers(ws)[w].at =
                   IF ws[w].at = "waiting" THEN "woken" ELSE ws[w].at
<1>1. ASSUME NEW w \in Workers
      PROVE  /\ WakeWorkers(ws)[w] \in [at : WorkerPcs, job : Nat]
             /\ WakeWorkers(ws)[w].job = ws[w].job
             /\ WakeWorkers(ws)[w].at = IF ws[w].at = "waiting" THEN "woken" ELSE ws[w].at
  BY DEF WakeWorkers, WorkerType, WorkerPcs
<1> QED BY <1>1 DEF WakeWorkers, WorkerType

LEMMA WakeCallersIs ==
  ASSUME caller \in CallerType
  PROVE  /\ WakeCallers \in CallerType
         /\ \A c \in Callers : /\ WakeCallers[c].all = caller[c].all
                               /\ WakeCallers[c].mark = caller[c].mark
<1>1. ASSUME NEW c \in Callers
      PROVE  /\ WakeCallers[c] \in [at : CallerPcs, mark : Nat, stop : BOOLEAN, all : BOOLEAN]
             /\ WakeCallers[c].all = caller[c].all
             /\ WakeCallers[c].mark = caller[c].mark
  BY DEF WakeCallers, CallerType, CallerPcs
<1> QED BY <1>1 DEF WakeCallers, CallerType

LEMMA RangeIsNat ==
  ASSUME NEW s \in Seq(Nat) PROVE Range1(s) \subseteq Nat
BY DEF Range1

-----------------------------------------------------------------------------
(* Type correctness: every variable keeps its type, whatever the workers   *)
(* and the callers do.                                                     *)
LEMMA TypeStep == TypeOK /\ [Next]_vars => TypeOK'
<1> SUFFICES ASSUME TypeOK, [Next]_vars PROVE TypeOK'
  OBVIOUS
<1> USE NotifierAssumption
<1>0. worker \in WorkerType /\ caller \in CallerType
  BY DEF TypeOK, WorkerType, CallerType
<1>a. WakeCallers \in CallerType
  BY <1>0, WakeCallersIs
<1>1. CASE Submit
  <2>1. ASSUME NEW w \in Workers
        PROVE  [worker EXCEPT ![w].at = "top"] \in WorkerType
    BY <1>0 DEF WorkerType, WorkerPcs
  <2>2. WakeWorkers(worker) \in WorkerType
    BY <1>0, WakeWorkersIs
  <2>3. \A w \in Workers : WakeWorkers([worker EXCEPT ![w].at = "top"]) \in WorkerType
    BY <2>1, WakeWorkersIs
  <2>4. worker' \in WorkerType /\ thread' \in Workers \cup {None}
    BY <1>1, <2>2, <2>3 DEF Submit, Begin, TypeOK
  <2> QED BY <1>1, <1>a, <2>4 DEF Submit, TypeOK, WorkerType, CallerType
<1>2. CASE SubmitRaises
  <2>1. PICK w \in Workers : Begin(w) /\ worker' = [worker EXCEPT ![w].at = "unstarted"]
    BY <1>2 DEF SubmitRaises
  <2>2. worker' \in WorkerType
    BY <1>0, <2>1 DEF WorkerType, WorkerPcs
  <2> QED BY <1>2, <2>1, <2>2 DEF SubmitRaises, Begin, TypeOK, WorkerType
<1>3. ASSUME NEW w \in Workers, Take(w) PROVE TypeOK'
  <2>1. Head(jobs) \in Nat /\ Tail(jobs) \in Seq(Nat)
    BY <1>3 DEF Take, TypeOK
  <2> QED BY <1>3, <2>1 DEF Take, Pop, TypeOK, WorkerPcs
<1>4. ASSUME NEW w \in Workers, Wait(w) PROVE TypeOK'
  BY <1>4 DEF Wait, TypeOK, WorkerPcs
<1>5. ASSUME NEW w \in Workers, IdleLongEnough(w) PROVE TypeOK'
  BY <1>5 DEF IdleLongEnough, TypeOK, WorkerPcs
<1>6. ASSUME NEW w \in Workers, Retire(w) PROVE TypeOK'
  BY <1>6 DEF Retire, TypeOK, WorkerPcs
<1>7. ASSUME NEW w \in Workers, JobEnds(w) PROVE TypeOK'
  <2>1. worker[w].job \in Nat
    BY DEF TypeOK
  <2>2. PICK next \in {"settle", "dying"} :
          worker' = [worker EXCEPT ![w] = [at |-> next, job |-> 0]]
    BY <1>7 DEF JobEnds
  <2>3. worker' \in [Workers -> [at : WorkerPcs, job : Nat]]
    BY <2>2 DEF TypeOK, WorkerPcs
  <2> QED BY <1>7, <2>1, <2>3 DEF JobEnds, TypeOK
<1>8. ASSUME NEW w \in Workers, Settle(w) PROVE TypeOK'
  <2> DEFINE ws == [worker EXCEPT ![w].at = IF @ = "settle" THEN "top" ELSE "final"]
  <2>1. ws \in WorkerType
    BY <1>0 DEF WorkerType, WorkerPcs
  <2>2. worker' \in WorkerType
    BY <1>8, <2>1, WakeWorkersIs DEF Settle
  <2> QED BY <1>8, <1>a, <2>2 DEF Settle, TypeOK, WorkerType, CallerType
<1>9. ASSUME NEW w \in Workers, Leave(w) PROVE TypeOK'
  <2>1. [worker EXCEPT ![w] = Ended] \in WorkerType
    BY <1>0 DEF WorkerType, WorkerPcs, Ended
  <2>2. ASSUME NEW v \in Workers
        PROVE  [worker EXCEPT ![w] = Ended, ![v].at = "top"] \in WorkerType
    BY <1>0 DEF WorkerType, WorkerPcs, Ended
  <2>3. worker' \in WorkerType /\ thread' \in Workers \cup {None}
    BY <1>9, <2>1, <2>2, WakeWorkersIs DEF Leave, Begin, TypeOK
  <2> QED BY <1>9, <1>a, <2>3 DEF Leave, TypeOK, WorkerType, CallerType
<1>10. ASSUME NEW w \in Workers, LeaveRaises(w) PROVE TypeOK'
  <2>1. PICK v \in Workers :
          Begin(v) /\ worker' = [worker EXCEPT ![w] = Ended, ![v].at = "unstarted"]
    BY <1>10 DEF LeaveRaises
  <2>2. worker' \in WorkerType
    BY <1>0, <2>1 DEF WorkerType, WorkerPcs, Ended
  <2> QED BY <1>10, <2>1, <2>2 DEF LeaveRaises, Begin, TypeOK, WorkerType
<1>11. ASSUME NEW c \in Callers, NEW stop \in BOOLEAN, Flush(c, stop) PROVE TypeOK'
  BY <1>11 DEF Flush, TypeOK, CallerPcs
<1>12. ASSUME NEW c \in Callers, Return(c) PROVE TypeOK'
  <2>1. AllDone \in BOOLEAN
    BY DEF AllDone
  <2> QED BY <1>12, <2>1 DEF Return, TypeOK, CallerPcs
<1>13. ASSUME NEW c \in Callers, WaitOn(c) PROVE TypeOK'
  BY <1>13 DEF WaitOn, TypeOK, CallerPcs
<1>14. ASSUME NEW c \in Callers, Deadline(c) PROVE TypeOK'
  BY <1>14 DEF Deadline, TypeOK, CallerPcs
<1>15. ASSUME NEW c \in Callers, Clear(c) PROVE TypeOK'
  <2>1. worker' \in WorkerType
    BY <1>0, <1>15, WakeWorkersIs DEF Clear
  <2>2. caller' \in CallerType
    BY <1>a, <1>15 DEF Clear, CallerType, CallerPcs
  <2>3. dropped' \subseteq Nat
    BY <1>15, RangeIsNat DEF Clear, TypeOK
  <2> QED BY <1>15, <2>1, <2>2, <2>3 DEF Clear, TypeOK, WorkerType, CallerType
<1>16. CASE UNCHANGED vars
  BY <1>16 DEF vars, TypeOK
<1> QED
  BY <1>1, <1>2, <1>3, <1>4, <1>5, <1>6, <1>7, <1>8, <1>9, <1>10, <1>11, <1>12,
     <1>13, <1>14, <1>15, <1>16 DEF Next, Work

LEMMA TypeInit == Init => TypeOK
<1> SUFFICES ASSUME Init PROVE TypeOK
  OBVIOUS
<1>1. worker \in [Workers -> [at : WorkerPcs, job : Nat]]
  BY DEF Init, Ended, WorkerPcs
<1>2. caller \in [Callers -> [at : CallerPcs, mark : Nat, stop : BOOLEAN, all : BOOLEAN]]
  BY DEF Init, CallerPcs
<1>3. jobs \in Seq(Nat) /\ handed \in Nat
  BY DEF Init
<1>4. running \in BOOLEAN /\ thread \in Workers \cup {None}
  BY DEF Init
<1>5. done \subseteq Nat /\ dropped \subseteq Nat
  BY DEF Init
<1> QED BY <1>1, <1>2, <1>3, <1>4, <1>5 DEF TypeOK

(* The types of _Notifier's fields, of its threads and of its callers. *)
THEOREM TypeCorrect == Spec => []TypeOK
BY TypeInit, TypeStep, PTL DEF Spec

-----------------------------------------------------------------------------
(* Where the actions that notify leave the workers. *)

Woken(at) == IF at = "waiting" THEN "woken" ELSE at

LEMMA SubmitIs ==
  ASSUME TypeOK, Submit
  PROVE  /\ \A v \in Workers : worker'[v].job = worker[v].job
         /\ \/ /\ thread # None /\ thread' = thread
               /\ \A v \in Workers : worker'[v].at = Woken(worker[v].at)
            \/ /\ thread = None /\ thread' \in Workers /\ worker[thread'].at = "ended"
               /\ \A v \in Workers :
                    worker'[v].at = IF v = thread' THEN "top" ELSE Woken(worker[v].at)
<1>0. worker \in WorkerType
  BY DEF TypeOK, WorkerType
<1>1. CASE thread # None
  <2>1. worker' = WakeWorkers(worker) /\ thread' = thread
    BY <1>1 DEF Submit
  <2> QED BY <1>0, <1>1, <2>1, WakeWorkersIs DEF Woken
<1>2. CASE thread = None
  <2>1. PICK w \in Workers :
          /\ worker[w].at = "ended" /\ thread' = w
          /\ worker' = WakeWorkers([worker EXCEPT ![w].at = "top"])
    BY <1>2 DEF Submit, Begin
  <2> DEFINE ws == [worker EXCEPT ![w].at = "top"]
  <2>2. ws \in WorkerType
    BY <1>0 DEF WorkerType, WorkerPcs
  <2>3. \A v \in Workers : /\ ws[v].job = worker[v].job
                           /\ ws[v].at = IF v = w THEN "top" ELSE worker[v].at
    BY <1>0 DEF WorkerType
  <2>4. \A v \in Workers : worker'[v].job = ws[v].job /\ worker'[v].at = Woken(ws[v].at)
    BY <2>1, <2>2, WakeWorkersIs DEF Woken
  <2> HIDE DEF ws
  <2> QED BY <1>2, <2>1, <2>3, <2>4 DEF Woken
<1> QED BY <1>1, <1>2

LEMMA SettleIs ==
  ASSUME TypeOK, NEW w \in Workers, Settle(w)
  PROVE  \A v \in Workers :
           /\ worker'[v].job = worker[v].job
           /\ worker'[v].at = IF v # w THEN Woken(worker[v].at)
                              ELSE IF worker[w].at = "settle" THEN "top" ELSE "final"
<1> DEFINE ws == [worker EXCEPT ![w].at = IF @ = "settle" THEN "top" ELSE "final"]
<1>0. worker \in WorkerType
  BY DEF TypeOK, WorkerType
<1>1. ws \in WorkerType
  BY <1>0 DEF WorkerType, WorkerPcs
<1>2. \A v \in Workers : /\ ws[v].job = worker[v].job
                         /\ ws[v].at = IF v # w THEN worker[v].at
                                       ELSE IF worker[w].at = "settle" THEN "top" ELSE "final"
  BY <1>0 DEF WorkerType
<1>3. worker' = WakeWorkers(ws)
  BY DEF Settle
<1> HIDE DEF ws
<1>4. \A v \in Workers : worker'[v].job = ws[v].job /\ worker'[v].at = Woken(ws[v].at)
  BY <1>1, <1>3, WakeWorkersIs DEF Woken
<1> QED BY <1>2, <1>4 DEF Woken

LEMMA LeaveIs ==
  ASSUME TypeOK, NEW w \in Workers, Leave(w)
  PROVE  /\ worker[w].at = "final"
         /\ \/ /\ \A v \in Workers :
                    /\ v # w => worker'[v].job = worker[v].job
                    /\ worker'[v].at = IF v = w THEN "ended" ELSE Woken(worker[v].at)
               /\ \/ thread # w /\ thread' = thread
                  \/ thread = w /\ jobs = <<>> /\ thread' = None
            \/ /\ thread = w /\ jobs # <<>>
               /\ thread' \in Workers /\ worker[thread'].at = "ended"
               /\ \A v \in Workers :
                    /\ v # w => worker'[v].job = worker[v].job
                    /\ worker'[v].at = IF v = w THEN "ended"
                                       ELSE IF v = thread' THEN "top" ELSE Woken(worker[v].at)
<1>0. worker \in WorkerType /\ worker[w].at = "final"
  BY DEF TypeOK, WorkerType, Leave
<1>1. CASE /\ worker' = WakeWorkers([worker EXCEPT ![w] = Ended])
           /\ \/ thread # w /\ thread' = thread
              \/ thread = w /\ jobs = <<>> /\ thread' = None
  <2> DEFINE ws == [worker EXCEPT ![w] = Ended]
  <2>1. ws \in WorkerType
    BY <1>0 DEF WorkerType, WorkerPcs, Ended
  <2>2. \A v \in Workers : /\ v # w => ws[v].job = worker[v].job
                           /\ ws[v].at = IF v = w THEN "ended" ELSE worker[v].at
    BY <1>0 DEF WorkerType, Ended
  <2>3. worker' = WakeWorkers(ws)
    BY <1>1
  <2> HIDE DEF ws
  <2>4. \A v \in Workers : worker'[v].job = ws[v].job /\ worker'[v].at = Woken(ws[v].at)
    BY <2>1, <2>3, WakeWorkersIs DEF Woken
  <2>5. \A v \in Workers :
          /\ v # w => worker'[v].job = worker[v].job
          /\ worker'[v].at = IF v = w THEN "ended" ELSE Woken(worker[v].at)
    <3>1. ASSUME NEW v \in Workers, v = w PROVE worker'[v].at = "ended"
      BY <2>2, <2>4, <3>1 DEF Woken
    <3>2. ASSUME NEW v \in Workers, v # w
          PROVE  worker'[v].job = worker[v].job /\ worker'[v].at = Woken(worker[v].at)
      BY <2>2, <2>4, <3>2
    <3> QED BY <3>1, <3>2
  <2> QED BY <1>0, <1>1, <2>5
<1>2. CASE /\ thread = w /\ jobs # <<>>
           /\ \E u \in Workers :
                /\ Begin(u)
                /\ worker' = WakeWorkers([worker EXCEPT ![w] = Ended, ![u].at = "top"])
  <2>1. PICK u \in Workers :
          /\ worker[u].at = "ended" /\ thread' = u
          /\ worker' = WakeWorkers([worker EXCEPT ![w] = Ended, ![u].at = "top"])
    BY <1>2 DEF Begin
  <2> DEFINE us == [worker EXCEPT ![w] = Ended, ![u].at = "top"]
  <2>2. us \in WorkerType
    BY <1>0 DEF WorkerType, WorkerPcs, Ended
  <2>3. \A v \in Workers :
          /\ v # w => us[v].job = worker[v].job
          /\ us[v].at = IF v = w THEN "ended" ELSE IF v = u THEN "top" ELSE worker[v].at
    BY <1>0, <2>1 DEF WorkerType, Ended
  <2>4. worker' = WakeWorkers(us)
    BY <2>1
  <2> HIDE DEF us
  <2>5. \A v \in Workers : worker'[v].job = us[v].job /\ worker'[v].at = Woken(us[v].at)
    BY <2>2, <2>4, WakeWorkersIs DEF Woken
  <2>6. \A v \in Workers : v # w => worker'[v].job = worker[v].job
    BY <2>3, <2>5
  <2>7. ASSUME NEW v \in Workers
        PROVE  worker'[v].at = IF v = w THEN "ended"
                               ELSE IF v = thread' THEN "top" ELSE Woken(worker[v].at)
    <3>1. CASE v = w
      BY <2>3, <2>5, <3>1 DEF Woken
    <3>2. CASE v # w /\ v = u
      BY <2>1, <2>3, <2>5, <3>2 DEF Woken
    <3>3. CASE v # w /\ v # u
      BY <2>1, <2>3, <2>5, <3>3
    <3> QED BY <3>1, <3>2, <3>3
  <2> QED BY <1>0, <1>2, <2>1, <2>6, <2>7
<1> QED BY <1>1, <1>2 DEF Leave, Mine

LEMMA ClearIs ==
  ASSUME TypeOK, NEW c \in Callers, Clear(c)
  PROVE  \A v \in Workers : worker'[v].job = worker[v].job /\ worker'[v].at = Woken(worker[v].at)
<1>0. worker \in WorkerType /\ worker' = WakeWorkers(worker)
  BY DEF TypeOK, WorkerType, Clear
<1> QED BY <1>0, WakeWorkersIs DEF Woken

LEMMA SubmitRaisesIs ==
  ASSUME TypeOK, SubmitRaises
  PROVE  /\ thread = None
         /\ \E w \in Workers :
              /\ thread' = w /\ worker[w].at = "ended" /\ worker'[w].at = "unstarted"
              /\ \A u \in Workers \ {w} : worker'[u] = worker[u]
BY DEF SubmitRaises, Begin, TypeOK

LEMMA LeaveRaisesIs ==
  ASSUME TypeOK, NEW w \in Workers, LeaveRaises(w)
  PROVE  /\ thread = w /\ worker[w].at = "final" /\ worker'[w].at = "ended"
         /\ \E v \in Workers \ {w} :
              /\ thread' = v /\ worker[v].at = "ended" /\ worker'[v].at = "unstarted"
              /\ \A u \in Workers \ {v, w} : worker'[u] = worker[u]
<1>1. PICK v \in Workers :
        Begin(v) /\ worker' = [worker EXCEPT ![w] = Ended, ![v].at = "unstarted"]
  BY DEF LeaveRaises
<1>2. v # w
  BY <1>1 DEF LeaveRaises, Begin
<1>3. worker'[w].at = "ended" /\ worker'[v].at = "unstarted"
  BY <1>1, <1>2 DEF TypeOK, Ended
<1>4. \A u \in Workers \ {v, w} : worker'[u] = worker[u]
  BY <1>1 DEF TypeOK
<1> QED BY <1>1, <1>2, <1>3, <1>4 DEF LeaveRaises, Begin, Mine

-----------------------------------------------------------------------------
(* Mutual exclusion.  It rests on Owner: every worker that has not come to *)
(* its end is the one that _thread names, so two of them are the same.     *)

LEMMA OwnerStep == TypeOK /\ Owner /\ OneAtATime /\ [Next]_vars => Owner' /\ OneAtATime'
<1> SUFFICES ASSUME TypeOK, Owner, OneAtATime, [Next]_vars
             PROVE  Owner' /\ (running' <=> \E w \in Workers : AtWork(w)')
  BY DEF Owner, OneAtATime, AtWork
<1> USE NotifierAssumption
<1>a. \A w \in Workers : worker[w] \in [at : WorkerPcs, job : Nat]
  BY DEF TypeOK
<1>1. CASE Submit
  BY <1>1, SubmitIs DEF Submit, Owner, OneAtATime, AtWork, Woken
<1>2. CASE SubmitRaises
  BY <1>2, SubmitRaisesIs DEF SubmitRaises, Owner, OneAtATime, AtWork
<1>3. ASSUME NEW w \in Workers, Take(w) PROVE Owner' /\ (running' <=> \E v \in Workers : AtWork(v)')
  <2>1. worker' = [worker EXCEPT ![w] = [at |-> "job", job |-> Pop.job]] /\ running' = TRUE
    BY <1>3 DEF Take
  <2>2. worker'[w].at = "job" /\ \A v \in Workers \ {w} : worker'[v] = worker[v]
    BY <2>1 DEF TypeOK
  <2>3. Owner'
    BY <1>3, <2>2 DEF Take, Owner
  <2> QED BY <2>1, <2>2, <2>3 DEF AtWork
<1>4. ASSUME NEW w \in Workers, Wait(w) \/ IdleLongEnough(w) \/ Retire(w) \/ JobEnds(w)
      PROVE  Owner' /\ (running' <=> \E v \in Workers : AtWork(v)')
  <2>1. PICK at \in {"waiting", "woken", "final", "settle", "dying"} :
          /\ worker'[w].at = at /\ \A v \in Workers \ {w} : worker'[v] = worker[v]
          /\ at \in {"settle", "dying"} <=> worker[w].at = "job"
          /\ at # "final" => thread' = thread
          /\ worker[w].at \notin {"ended", "final", "settle", "dying"}
    BY <1>4 DEF Wait, IdleLongEnough, Retire, JobEnds, TypeOK
  <2>2. running' = running
    BY <1>4 DEF Wait, IdleLongEnough, Retire, JobEnds
  <2>3. Owner'
    BY <2>1 DEF Owner
  <2>4. \A v \in Workers : AtWork(v)' <=> AtWork(v)
    BY <2>1 DEF AtWork
  <2> QED BY <2>2, <2>3, <2>4 DEF OneAtATime
<1>5. ASSUME NEW w \in Workers, Settle(w)
      PROVE  Owner' /\ (running' <=> \E v \in Workers : AtWork(v)')
  <2>1. running' = FALSE /\ thread' = thread /\ AtWork(w)
    BY <1>5 DEF Settle, AtWork
  <2>2. \A v \in Workers \ {w} : ~AtWork(v)
    BY <2>1 DEF OneAtATime
  <2>3. \A v \in Workers : ~AtWork(v)'
    BY <1>5, <2>2, SettleIs DEF AtWork, Woken
  <2>4. Owner'
    BY <1>5, <2>1, SettleIs DEF Owner, Woken, AtWork
  <2> QED BY <2>1, <2>3, <2>4
<1>6. ASSUME NEW w \in Workers, Leave(w)
      PROVE  Owner' /\ (running' <=> \E v \in Workers : AtWork(v)')
  <2>1. running' = running
    BY <1>6 DEF Leave
  <2>2. Owner'
    BY <1>6, LeaveIs DEF Owner, Woken
  <2>3. \A v \in Workers : AtWork(v)' <=> AtWork(v)
    BY <1>6, LeaveIs DEF AtWork, Woken
  <2> QED BY <2>1, <2>2, <2>3 DEF OneAtATime
<1>7. ASSUME NEW w \in Workers, LeaveRaises(w)
      PROVE  Owner' /\ (running' <=> \E v \in Workers : AtWork(v)')
  <2>1. running' = running
    BY <1>7 DEF LeaveRaises
  <2>2. Owner'
    BY <1>7, LeaveRaisesIs DEF Owner
  <2>3. \A v \in Workers : AtWork(v)' <=> AtWork(v)
    BY <1>7, LeaveRaisesIs DEF AtWork
  <2> QED BY <2>1, <2>2, <2>3 DEF OneAtATime
<1>8. ASSUME NEW c \in Callers, Clear(c)
      PROVE  Owner' /\ (running' <=> \E v \in Workers : AtWork(v)')
  BY <1>8, ClearIs DEF Clear, Owner, OneAtATime, AtWork, Woken
<1>9. CASE UNCHANGED <<worker, thread, running>>
  BY <1>9 DEF Owner, OneAtATime, AtWork
<1> QED
  BY <1>1, <1>2, <1>3, <1>4, <1>5, <1>6, <1>7, <1>8, <1>9
     DEF Next, Work, Flush, Return, WaitOn, Deadline, vars

LEMMA OwnerInit == Init => Owner /\ OneAtATime
BY DEF Init, Owner, OneAtATime, AtWork, Ended

(* "At most one worker thread runs at a time", and _running tells of it. *)
THEOREM MutualExclusion == Spec => []OneAtATime
BY TypeInit, TypeStep, OwnerInit, OwnerStep, PTL DEF Spec

-----------------------------------------------------------------------------
(* No job is stranded. *)

Named == thread # None => worker[thread].at # "ended"

LEMMA StrandedStep ==
  TypeOK /\ Owner /\ Named /\ NoneStranded /\ [Next]_vars => Named' /\ NoneStranded'
<1> SUFFICES ASSUME TypeOK, Owner, Named, NoneStranded, [Next]_vars
             PROVE  Named' /\ NoneStranded'
  OBVIOUS
<1> USE NotifierAssumption
<1>a. \A w \in Workers : worker[w] \in [at : WorkerPcs, job : Nat]
  BY DEF TypeOK
<1>b. thread # None => thread \in Workers
  BY DEF TypeOK
<1>1. CASE Submit
  <2>1. thread' \in Workers /\ worker'[thread'].at \notin {"ended", "waiting"}
    BY <1>1, <1>b, SubmitIs DEF Named, Woken
  <2> QED BY <2>1 DEF Named, NoneStranded
<1>2. CASE SubmitRaises
  BY <1>2, SubmitRaisesIs DEF Named, NoneStranded
<1>3. ASSUME NEW w \in Workers, Take(w) \/ Wait(w) \/ IdleLongEnough(w) \/ JobEnds(w)
      PROVE  Named' /\ NoneStranded'
  <2>1. PICK at \in {"job", "waiting", "woken", "settle", "dying"} :
          /\ worker'[w].at = at /\ \A v \in Workers \ {w} : worker'[v] = worker[v]
          /\ at = "waiting" => jobs = <<>>
          /\ worker[w].at \notin {"ended", "final"}
    BY <1>3 DEF Take, Wait, IdleLongEnough, JobEnds, TypeOK
  <2>2. thread' = thread /\ (jobs = <<>> => jobs' = jobs)
    BY <1>3 DEF Take, Wait, IdleLongEnough, JobEnds
  <2> QED BY <1>b, <2>1, <2>2 DEF Named, NoneStranded, Owner
<1>4. ASSUME NEW w \in Workers, Retire(w) PROVE Named' /\ NoneStranded'
  BY <1>4 DEF Retire, Named, NoneStranded
<1>5. ASSUME NEW w \in Workers, Settle(w) PROVE Named' /\ NoneStranded'
  BY <1>5, <1>b, SettleIs DEF Settle, Named, NoneStranded, Woken
<1>6. ASSUME NEW w \in Workers, Leave(w) PROVE Named' /\ NoneStranded'
  <2>1. jobs' = jobs
    BY <1>6 DEF Leave
  <2> QED BY <1>6, <1>b, <2>1, LeaveIs DEF Named, NoneStranded, Woken
<1>7. ASSUME NEW w \in Workers, LeaveRaises(w) PROVE Named' /\ NoneStranded'
  BY <1>7, LeaveRaisesIs DEF Named, NoneStranded
<1>8. ASSUME NEW c \in Callers, Clear(c) PROVE Named' /\ NoneStranded'
  BY <1>8, <1>b, ClearIs DEF Clear, Named, NoneStranded, Woken
<1>9. CASE UNCHANGED <<worker, thread, jobs>>
  BY <1>9 DEF Named, NoneStranded
<1> QED
  BY <1>1, <1>2, <1>3, <1>4, <1>5, <1>6, <1>7, <1>8, <1>9
     DEF Next, Work, Flush, Return, WaitOn, Deadline, vars

LEMMA StrandedInit == Init => Named /\ NoneStranded
BY DEF Init, Named, NoneStranded

(* The wake-up of submit is never lost, and no thread ends past a job: a   *)
(* job that waits has a worker, or the thread whose start() raised.        *)
THEOREM NeverStranded == Spec => []NoneStranded
BY TypeInit, TypeStep, OwnerInit, OwnerStep, StrandedInit, StrandedStep, PTL DEF Spec

-----------------------------------------------------------------------------
(* The account of the jobs.  InJob are the numbers of those that run now.  *)

InJob == {worker[w].job : w \in {v \in Workers : worker[v].at = "job"}}

Account ==
  /\ Len(jobs) \leq handed
  /\ \A n \in 1 .. Len(jobs) : jobs[n] = handed - Len(jobs) + n
  /\ done \cup dropped \cup InJob = 1 .. handed - Len(jobs)
  /\ done \cap dropped = {} /\ InJob \cap (done \cup dropped) = {}

(* The workers in a job stay as they are, or none is. *)
LEMMA SameInJob ==
  ASSUME \A w \in Workers : /\ worker'[w].at = "job" <=> worker[w].at = "job"
                            /\ worker[w].at = "job" => worker'[w].job = worker[w].job
  PROVE  InJob' = InJob
BY DEF InJob

LEMMA SameStep ==
  ASSUME TypeOK, NEW w \in Workers,
         Wait(w) \/ IdleLongEnough(w) \/ Retire(w) \/ Settle(w) \/ Leave(w) \/ LeaveRaises(w)
  PROVE  InJob' = InJob
<1>1. CASE Wait(w) \/ IdleLongEnough(w) \/ Retire(w)
  <2>1. /\ worker[w].at # "job" /\ worker'[w].at # "job"
        /\ \A v \in Workers \ {w} : worker'[v] = worker[v]
    BY <1>1 DEF Wait, IdleLongEnough, Retire, TypeOK
  <2> QED BY <2>1, SameInJob
<1>2. CASE Settle(w)
  BY <1>2, SettleIs, SameInJob DEF Settle, Woken
<1>3. CASE Leave(w)
  BY <1>3, LeaveIs, SameInJob DEF Woken
<1>4. CASE LeaveRaises(w)
  BY <1>4, LeaveRaisesIs, SameInJob
<1> QED BY <1>1, <1>2, <1>3, <1>4

LEMMA AccountStep == TypeOK /\ Owner /\ Account /\ [Next]_vars => Account'
<1> SUFFICES ASSUME TypeOK, Owner, Account, [Next]_vars PROVE Account'
  OBVIOUS
<1>a. Len(jobs) \in Nat /\ DOMAIN jobs = 1 .. Len(jobs) /\ handed \in Nat
  BY DEF TypeOK
<1>1. CASE Submit \/ SubmitRaises
  <2>1. \A w \in Workers : /\ worker'[w].at = "job" <=> worker[w].at = "job"
                           /\ worker[w].at = "job" => worker'[w].job = worker[w].job
    BY <1>1, SubmitIs, SubmitRaisesIs DEF Woken
  <2>2. InJob' = InJob
    BY <2>1, SameInJob
  <2>3. /\ handed' = handed + 1 /\ jobs' = Append(jobs, handed + 1)
        /\ done' = done /\ dropped' = dropped
    BY <1>1 DEF Submit, SubmitRaises
  <2>4. /\ Len(jobs') = Len(jobs) + 1
        /\ \A n \in 1 .. Len(jobs) : jobs'[n] = jobs[n]
        /\ jobs'[Len(jobs) + 1] = handed + 1
    BY <2>3 DEF TypeOK
  <2> QED BY <1>a, <2>2, <2>3, <2>4 DEF Account
<1>2. ASSUME NEW w \in Workers, Take(w) PROVE Account'
  <2>1. /\ jobs # <<>> /\ jobs' = Tail(jobs) /\ handed' = handed
        /\ done' = done /\ dropped' = dropped
        /\ worker' = [worker EXCEPT ![w] = [at |-> "job", job |-> Head(jobs)]]
    BY <1>2 DEF Take, Pop
  <2>2. /\ Len(jobs) > 0 /\ Len(jobs') = Len(jobs) - 1
        /\ \A n \in 1 .. Len(jobs') : jobs'[n] = jobs[n + 1]
        /\ Head(jobs) = jobs[1]
    BY <2>1 DEF TypeOK
  <2>3. InJob = {} /\ InJob' = {Head(jobs)}
    <3>1. \A v \in Workers : worker[v].at # "job"
      BY <1>2 DEF Take, Owner
    <3>2. worker'[w].at = "job" /\ worker'[w].job = Head(jobs)
      BY <2>1 DEF TypeOK
    <3>3. \A v \in Workers \ {w} : worker'[v].at # "job"
      BY <2>1, <3>1 DEF TypeOK
    <3> QED BY <3>1, <3>2, <3>3 DEF InJob
  <2>4. Head(jobs) = handed - Len(jobs) + 1
    BY <1>a, <2>2 DEF Account
  <2>5. \A n \in 1 .. Len(jobs') : jobs'[n] = handed - Len(jobs') + n
    BY <1>a, <2>2 DEF Account
  <2>6. done \cup dropped \cup {Head(jobs)} = 1 .. handed - Len(jobs')
    BY <1>a, <2>2, <2>3, <2>4 DEF Account
  <2>7. Head(jobs) \notin done \cup dropped
    BY <1>a, <2>4 DEF Account
  <2> QED BY <1>a, <2>1, <2>2, <2>3, <2>5, <2>6, <2>7 DEF Account
<1>3. ASSUME NEW w \in Workers, JobEnds(w) PROVE Account'
  <2>1. /\ worker[w].at = "job" /\ done' = done \cup {worker[w].job}
        /\ jobs' = jobs /\ handed' = handed /\ dropped' = dropped
        /\ worker'[w].at # "job" /\ \A v \in Workers \ {w} : worker'[v] = worker[v]
    BY <1>3 DEF JobEnds, TypeOK
  <2>2. \A v \in Workers \ {w} : worker[v].at # "job"
    BY <2>1 DEF Owner
  <2>3. InJob = {worker[w].job} /\ InJob' = {}
    BY <2>1, <2>2 DEF InJob
  <2> QED BY <2>1, <2>3 DEF Account
<1>4. ASSUME NEW w \in Workers,
             Wait(w) \/ IdleLongEnough(w) \/ Retire(w) \/ Settle(w) \/ Leave(w) \/ LeaveRaises(w)
      PROVE  Account'
  <2>1. jobs' = jobs /\ handed' = handed /\ done' = done /\ dropped' = dropped
    BY <1>4 DEF Wait, IdleLongEnough, Retire, Settle, Leave, LeaveRaises
  <2>2. InJob' = InJob
    BY <1>4, SameStep
  <2> QED BY <2>1, <2>2 DEF Account
<1>5. ASSUME NEW c \in Callers, Clear(c) PROVE Account'
  <2>1. /\ dropped' = dropped \cup Range1(jobs) /\ jobs' = <<>>
        /\ handed' = handed /\ done' = done
    BY <1>5 DEF Clear
  <2>2. InJob' = InJob
    BY <1>5, ClearIs, SameInJob DEF Woken
  <2>3. Range1(jobs) = (handed - Len(jobs) + 1) .. handed
    <3>1. Range1(jobs) = {handed - Len(jobs) + n : n \in 1 .. Len(jobs)}
      BY <1>a DEF Range1, Account
    <3>2. \A m \in (handed - Len(jobs) + 1) .. handed :
            m - (handed - Len(jobs)) \in 1 .. Len(jobs)
            /\ m = handed - Len(jobs) + (m - (handed - Len(jobs)))
      BY <1>a DEF Account
    <3> QED BY <1>a, <3>1, <3>2
  <2>4. Len(jobs') = 0
    BY <2>1
  <2> QED BY <1>a, <2>1, <2>2, <2>3, <2>4 DEF Account
<1>6. CASE UNCHANGED <<worker, jobs, handed, done, dropped>>
  BY <1>6 DEF Account, InJob
<1> QED
  BY <1>1, <1>2, <1>3, <1>4, <1>5, <1>6
     DEF Next, Work, Flush, Return, WaitOn, Deadline, vars

LEMMA AccountInit == Init => Account
<1> SUFFICES ASSUME Init PROVE Account
  OBVIOUS
<1>1. InJob = {}
  BY DEF Init, InJob, Ended
<1>2. Len(jobs) = 0 /\ handed = 0 /\ done = {} /\ dropped = {}
  BY DEF Init
<1> QED BY <1>1, <1>2 DEF Account

LEMMA AccountGives == TypeOK /\ Account => Accounted
<1> SUFFICES ASSUME TypeOK, Account PROVE Accounted
  OBVIOUS
<1>1. DOMAIN jobs = 1 .. Len(jobs)
  BY DEF TypeOK
<1>2. done \cup dropped \cup InJob = 1 .. handed - Len(jobs)
  BY DEF Account
<1>3. \A n \in DOMAIN jobs : jobs[n] = handed - Len(jobs) + n
  BY <1>1 DEF Account
<1> QED BY <1>2, <1>3 DEF Account, Accounted, InJob

(* Nothing is lost, doubled or reordered between submit and a worker, over *)
(* every change of the worker thread: what was handed over waits in order, *)
(* runs, ran or was dropped by a stop.                                     *)
THEOREM EveryJobAccounted == Spec => []Accounted
BY TypeInit, TypeStep, OwnerInit, OwnerStep, AccountInit, AccountStep, AccountGives,
   PTL DEF Spec

-----------------------------------------------------------------------------
(* flush. *)

Marked ==
  \A c \in Callers : /\ caller[c].mark \leq handed
                     /\ caller[c].all => 1 .. caller[c].mark \subseteq done \cup dropped

LEMMA MarkedStep ==
  TypeOK /\ Owner /\ OneAtATime /\ Account /\ Marked /\ [Next]_vars => Marked'
<1> SUFFICES ASSUME TypeOK, OneAtATime, Account, Marked, [Next]_vars PROVE Marked'
  OBVIOUS
<1>0. caller \in CallerType /\ handed \in Nat /\ \A c \in Callers : caller[c].mark \in Nat
  BY DEF TypeOK, CallerType
<1>1. handed' \in Nat /\ handed \leq handed' /\ done \subseteq done' /\ dropped \subseteq dropped'
  <2>1. CASE Submit \/ SubmitRaises
    BY <1>0, <2>1 DEF Submit, SubmitRaises
  <2>2. ASSUME NEW w \in Workers, JobEnds(w)
        PROVE  handed' \in Nat /\ handed \leq handed' /\ done \subseteq done' /\ dropped \subseteq dropped'
    BY <1>0, <2>2 DEF JobEnds
  <2>3. ASSUME NEW c \in Callers, Clear(c)
        PROVE  handed' \in Nat /\ handed \leq handed' /\ done \subseteq done' /\ dropped \subseteq dropped'
    BY <1>0, <2>3 DEF Clear
  <2>4. CASE UNCHANGED <<handed, done, dropped>>
    BY <1>0, <2>4
  <2> QED
    BY <2>1, <2>2, <2>3, <2>4 DEF Next, Work, Take, Wait, IdleLongEnough, Retire, Settle,
       Leave, LeaveRaises, Flush, Return, WaitOn, Deadline, vars
<1>2. CASE \A c \in Callers : /\ caller'[c].all = caller[c].all
                              /\ caller'[c].mark = caller[c].mark
  BY <1>0, <1>1, <1>2 DEF Marked
<1>3. ASSUME NEW c \in Callers, NEW stop \in BOOLEAN, Flush(c, stop) PROVE Marked'
  <2>1. /\ caller'[c].mark = handed /\ caller'[c].all = FALSE /\ handed' = handed
        /\ \A b \in Callers \ {c} : caller'[b] = caller[b]
    BY <1>3 DEF Flush, TypeOK
  <2> QED BY <1>0, <1>1, <2>1 DEF Marked
<1>4. ASSUME NEW c \in Callers, Return(c) PROVE Marked'
  <2>1. /\ caller'[c].mark = caller[c].mark /\ caller'[c].all = AllDone
        /\ \A b \in Callers \ {c} : caller'[b] = caller[b]
    BY <1>4 DEF Return, TypeOK
  <2>2. ASSUME AllDone PROVE 1 .. caller[c].mark \subseteq done \cup dropped
    <3>1. InJob = {}
      BY <2>2 DEF AllDone, OneAtATime, AtWork, InJob
    <3>2. Len(jobs) = 0
      BY <2>2 DEF AllDone
    <3>3. done \cup dropped = 1 .. handed
      BY <1>0, <3>1, <3>2 DEF Account
    <3> QED BY <1>0, <3>3 DEF Marked
  <2> QED BY <1>0, <1>1, <2>1, <2>2 DEF Marked
<1>5. ASSUME NEW c \in Callers, Clear(c) PROVE Marked'
  <2>1. caller' = [WakeCallers EXCEPT ![c].at = "idle"]
    BY <1>5 DEF Clear
  <2>2. \A b \in Callers : /\ caller'[b].all = WakeCallers[b].all
                           /\ caller'[b].mark = WakeCallers[b].mark
    BY <1>0, <2>1, WakeCallersIs DEF CallerType
  <2> QED BY <1>0, <1>2, <2>2, WakeCallersIs
<1>6. ASSUME NEW c \in Callers, WaitOn(c) \/ Deadline(c) PROVE Marked'
  <2>1. \A b \in Callers : caller'[b].all = caller[b].all /\ caller'[b].mark = caller[b].mark
    <3>1. PICK at \in CallerPcs : caller' = [caller EXCEPT ![c].at = at]
      BY <1>6 DEF WaitOn, Deadline, CallerPcs
    <3> QED BY <1>0, <3>1 DEF CallerType
  <2> QED BY <1>2, <2>1
<1>7. CASE caller' \in {caller, WakeCallers}
  BY <1>0, <1>2, <1>7, WakeCallersIs
<1> QED
  BY <1>3, <1>4, <1>5, <1>6, <1>7
     DEF Next, Work, Submit, SubmitRaises, Take, Wait, IdleLongEnough, Retire, JobEnds,
     Settle, Leave, LeaveRaises, vars

LEMMA MarkedInit == Init => Marked
BY DEF Init, Marked

(* A flush that returns True tells the truth: what had been handed over    *)
(* when it was called has run, or was dropped by a stop of another thread. *)
THEOREM FlushIsSound == Spec => []FlushTellsTrue
<1>1. Marked => FlushTellsTrue
  BY DEF Marked, FlushTellsTrue
<1> QED
  BY <1>1, TypeInit, TypeStep, OwnerInit, OwnerStep, AccountInit, AccountStep, MarkedInit,
     MarkedStep, PTL DEF Spec

-----------------------------------------------------------------------------
(* The threads implement the queue of the class comment. *)

LEMMA RefinesInit == Init => Queue!Init
<1> SUFFICES ASSUME Init PROVE Queue!Init
  OBVIOUS
<1>1. InJob = {}
  BY DEF Init, InJob, Ended
<1> QED BY <1>1 DEF Init, InJob, Queue!Init

LEMMA RefinesStep == TypeOK /\ Owner /\ [Next]_vars => [Queue!Next]_(Queue!vars)
<1> SUFFICES ASSUME TypeOK, Owner, [Next]_vars PROVE [Queue!Next]_(Queue!vars)
  OBVIOUS
<1>1. CASE Submit \/ SubmitRaises
  <2>1. InJob' = InJob
    BY <1>1, SubmitIs, SubmitRaisesIs, SameInJob DEF Woken
  <2>2. Queue!Hand
    BY <1>1, <2>1 DEF Submit, SubmitRaises, Queue!Hand, InJob
  <2> QED BY <2>2 DEF Queue!Next
<1>2. ASSUME NEW w \in Workers, Take(w) PROVE Queue!Start
  <2>1. \A v \in Workers : worker[v].at # "job"
    BY <1>2 DEF Take, Owner
  <2>2. worker'[w].at = "job" /\ worker'[w].job = Head(jobs)
    BY <1>2 DEF Take, Pop, TypeOK
  <2>3. \A v \in Workers \ {w} : worker'[v].at # "job"
    BY <1>2, <2>1 DEF Take, TypeOK
  <2>4. InJob = {} /\ InJob' = {Head(jobs)}
    BY <2>1, <2>2, <2>3 DEF InJob
  <2> QED BY <1>2, <2>4 DEF Take, Pop, Queue!Start, InJob
<1>3. ASSUME NEW w \in Workers, JobEnds(w) PROVE Queue!Finish
  <2>1. /\ worker[w].at = "job" /\ jobs' = jobs /\ handed' = handed
        /\ worker'[w].at # "job" /\ \A v \in Workers \ {w} : worker'[v] = worker[v]
    BY <1>3 DEF JobEnds, TypeOK
  <2>2. \A v \in Workers \ {w} : worker[v].at # "job"
    BY <2>1 DEF Owner
  <2>3. InJob = {worker[w].job} /\ InJob' = {}
    BY <2>1, <2>2 DEF InJob
  <2> QED BY <2>1, <2>3 DEF Queue!Finish, InJob
<1>4. ASSUME NEW w \in Workers,
             Wait(w) \/ IdleLongEnough(w) \/ Retire(w) \/ Settle(w) \/ Leave(w) \/ LeaveRaises(w)
      PROVE  UNCHANGED Queue!vars
  <2>1. jobs' = jobs /\ handed' = handed
    BY <1>4 DEF Wait, IdleLongEnough, Retire, Settle, Leave, LeaveRaises
  <2>2. InJob' = InJob
    BY <1>4, SameStep
  <2> QED BY <2>1, <2>2 DEF Queue!vars, InJob
<1>5. ASSUME NEW c \in Callers, Clear(c) PROVE Queue!Drop
  <2>1. InJob' = InJob
    BY <1>5, ClearIs, SameInJob DEF Woken
  <2> QED BY <1>5, <2>1 DEF Clear, Queue!Drop, InJob
<1>6. CASE UNCHANGED <<worker, jobs, handed>>
  BY <1>6 DEF Queue!vars
<1> QED
  BY <1>1, <1>2, <1>3, <1>4, <1>5, <1>6
     DEF Next, Work, Flush, Return, WaitOn, Deadline, vars, Queue!Next

(* _Notifier carries out what its class comment promises, also while its   *)
(* worker thread idles out, dies and is replaced: one job at a time, first *)
(* in, first out, and only a stop drops jobs.                              *)
THEOREM Refinement == Spec => IsNotificationQueue
BY TypeInit, TypeStep, OwnerInit, OwnerStep, RefinesInit, RefinesStep, PTL
   DEF Spec, IsNotificationQueue, Queue!Spec

-----------------------------------------------------------------------------
(* The waits.                                                              *)

USE IssuedWaitAssumption DEF IssuedWaitAssumption

Record == [pc : Pcs, seen : Nat, flag : BOOLEAN, calls : Nat,
           due : BOOLEAN, met : BOOLEAN, result : {"none"} \cup Claimed]

LEMMA WantedIs ==
  ASSUME NEW w \in Waits
  PROVE  /\ Wanted[w] \in {Claimed, EndedSet}
         /\ Wanted[w] \subseteq Claimed
         /\ "absent" \notin Wanted[w] /\ "queued" \notin Wanted[w] /\ "none" \notin Wanted[w]
BY DEF Claimed, EndedSet

LEMMA FlagsAre ==
  ASSUME NEW r \in Record, NEW b \in BOOLEAN
  PROVE  /\ [r EXCEPT !.flag = b] \in Record
         /\ [r EXCEPT !.due = b] \in Record
         /\ [r EXCEPT !.met = b] \in Record
<1>1. [r EXCEPT !.flag = b] \in Record
  BY ZenonT(30) DEF Record
<1>2. [r EXCEPT !.due = b] \in Record
  BY ZenonT(30) DEF Record
<1>3. [r EXCEPT !.met = b] \in Record
  BY ZenonT(30) DEF Record
<1> QED BY <1>1, <1>2, <1>3

LEMMA CallsAre ==
  ASSUME NEW r \in Record, NEW n \in Nat PROVE [r EXCEPT !.calls = n] \in Record
BY DEF Record

-----------------------------------------------------------------------------
(* The inductive invariant, a wait at a time.                              *)

(* The news of the status that the wait wants is still on its way. *)
OnItsWay == status \in notes \cup lost

(* From its read to its sleep, a thread that missed the status has not     *)
(* seen the arrival yet; once it sleeps there was none that it missed.     *)
ThreadIsTold(w) ==
  w \in Blocking =>
    /\ wait[w].seen <= arrivals
    /\ wait[w].pc = "waiting" => wait[w].seen = arrivals
    /\ wait[w].pc \in {"check", "waiting"} /\ status \in Wanted[w]
         => wait[w].seen # arrivals \/ OnItsWay

(* A coroutine that missed the status has its event set, or will have.     *)
CoroutineIsTold(w) ==
  w \in Coroutines /\ wait[w].pc \in {"check", "waiting"} /\ status \in Wanted[w]
    => wait[w].flag \/ wait[w].calls > 0 \/ OnItsWay

(* What was met at the deadline stays met, and the last read comes after.  *)
AtDeadline(w) ==
  /\ wait[w].met => wait[w].due /\ status \in Wanted[w]
  /\ w \in Blocking /\ wait[w].pc = "last" => wait[w].due
  /\ w \in Blocking /\ GivesUp(w) => wait[w].due /\ ~wait[w].met

(* A wait begins on a handle that the trigger knows. *)
IsKnown(w) == wait[w].pc # "idle" => known

WInv(w) == ThreadIsTold(w) /\ CoroutineIsTold(w) /\ AtDeadline(w) /\ IsKnown(w)

WaitInv == WaitTypeOK /\ \A w \in Waits : WInv(w)

LEMMA WaitInitInv == WaitInit => WaitInv
<1> SUFFICES ASSUME WaitInit PROVE WaitInv
  OBVIOUS
<1>1. Fresh \in Record
  BY DEF Fresh, Record, Pcs
<1>2. known \in BOOLEAN
  BY Zenon DEF WaitInit
<1>3. WaitTypeOK
  BY <1>1, <1>2 DEF WaitInit, WaitTypeOK, Record
<1>4. ASSUME NEW w \in Waits PROVE WInv(w)
  BY WantedIs DEF WaitInit, Fresh, WInv, ThreadIsTold, CoroutineIsTold, AtDeadline, IsKnown, GivesUp
<1> QED BY <1>3, <1>4 DEF WaitInv

-----------------------------------------------------------------------------
(* A step of one wait alone.                                               *)

LEMMA OnlyKeeps ==
  ASSUME WaitInv, NEW w \in Waits, NEW r \in Record, Only(w, r),
         WInv(w)'
  PROVE  WaitInv'
<1>1. wait \in [Waits -> Record]
  BY DEF WaitInv, WaitTypeOK, Record
<1>2. \A v \in Waits : wait'[v] = IF v = w THEN r ELSE wait[v]
  BY <1>1 DEF Only
<1>3. WaitTypeOK'
  BY <1>1 DEF Only, WaitInv, WaitTypeOK, Record
<1>4. ASSUME NEW v \in Waits, v # w PROVE WInv(v)'
  <2>1. wait'[v] = wait[v]
        /\ UNCHANGED <<status, known, notes, lost, strays, arrivals>>
    BY <1>2, <1>4 DEF Only
  <2>2. WInv(v)
    BY DEF WaitInv
  <2> QED
    BY <2>1, <2>2 DEF WInv, ThreadIsTold, CoroutineIsTold, AtDeadline, IsKnown, GivesUp, OnItsWay
<1> QED BY <1>3, <1>4 DEF WaitInv

LEMMA WaitStepKeeps ==
  ASSUME WaitInv, NEW w \in Waits, BeginWait(w) \/ Expire(w) \/ SetEvent(w) \/ Step(w)
  PROVE  WaitInv'
<1>0. /\ wait \in [Waits -> Record] /\ wait[w] \in Record /\ WInv(w)
      /\ status \in {"absent", "queued"} \cup Claimed /\ arrivals \in Nat
  BY DEF WaitInv, WaitTypeOK, Record
<1>1. ASSUME NEW r \in Record, Only(w, r)
      PROVE  wait'[w] = r /\ UNCHANGED <<status, known, notes, lost, strays, arrivals>>
  BY <1>0, <1>1 DEF Only
<1> DEFINE Holds(r) ==
      /\ w \in Blocking =>
           /\ r.seen <= arrivals
           /\ r.pc = "waiting" => r.seen = arrivals
           /\ r.pc \in {"check", "waiting"} /\ status \in Wanted[w]
                => r.seen # arrivals \/ OnItsWay
           /\ r.pc = "last" => r.due
           /\ r.pc = "returned" /\ r.result = "none" => r.due /\ ~r.met
      /\ w \in Coroutines /\ r.pc \in {"check", "waiting"} /\ status \in Wanted[w]
           => r.flag \/ r.calls > 0 \/ OnItsWay
      /\ r.met => r.due /\ status \in Wanted[w]
      /\ r.pc # "idle" => known
<1>2. Holds(wait[w])
  BY <1>0 DEF WInv, ThreadIsTold, CoroutineIsTold, AtDeadline, IsKnown, GivesUp
<1>3. ASSUME NEW r \in Record, Only(w, r), Holds(r) PROVE WaitInv'
  <2>1. WInv(w)'
    BY <1>1, <1>3 DEF WInv, ThreadIsTold, CoroutineIsTold, AtDeadline, IsKnown, GivesUp, OnItsWay
  <2> QED BY <1>3, <2>1, OnlyKeeps
<1>4. Blocking \cap Coroutines = {} /\ (w \in Blocking \/ w \in Coroutines)
  BY DEF Waits
<1>5. CASE BeginWait(w)
  <2> DEFINE r == [wait[w] EXCEPT !.pc = IF w \in Blocking THEN "read" ELSE "clear",
                                  !.seen = IF w \in Blocking THEN arrivals ELSE 0]
  <2>1. r \in Record
    BY <1>0 DEF Record, Pcs
  <2>2. Holds(r)
    BY <1>0, <1>2, <1>4, <1>5 DEF BeginWait, Record
  <2>3. Only(w, r)
    BY <1>5 DEF BeginWait
  <2> HIDE DEF r, Holds
  <2> QED BY <1>3, <2>1, <2>2, <2>3
<1>6. CASE Expire(w)
  <2> DEFINE r == [wait[w] EXCEPT !.due = TRUE, !.met = status \in Wanted[w]]
  <2>1. r \in Record
    <3>1. [wait[w] EXCEPT !.due = TRUE] \in Record
      BY <1>0, FlagsAre, Zenon
    <3>2. (status \in Wanted[w]) \in BOOLEAN
      OBVIOUS
    <3>3. r = [[wait[w] EXCEPT !.due = TRUE] EXCEPT !.met = status \in Wanted[w]]
      OBVIOUS
    <3> HIDE DEF r
    <3> QED BY <3>1, <3>2, <3>3, FlagsAre, Zenon
  <2>a. /\ r.pc = wait[w].pc /\ r.seen = wait[w].seen /\ r.flag = wait[w].flag
        /\ r.calls = wait[w].calls /\ r.pc \notin {"idle", "returned"}
    BY <1>0, <1>6 DEF Expire, Record
  <2>b. r.due = TRUE /\ r.met = (status \in Wanted[w])
    BY <1>0, Zenon DEF Record
  <2>2. Holds(r)
    <3> HIDE DEF r
    <3>1. r.due /\ (r.met => status \in Wanted[w])
      BY <2>b
    <3> QED BY <1>2, <2>a, <3>1
  <2>3. Only(w, r)
    BY <1>6 DEF Expire
  <2> HIDE DEF r, Holds
  <2> QED BY <1>3, <2>1, <2>2, <2>3
<1>7. CASE SetEvent(w)
  <2> DEFINE r == [wait[w] EXCEPT !.calls = @ - 1, !.flag = TRUE]
  <2>1. r \in Record
    <3>1. wait[w].calls - 1 \in Nat
      BY <1>0, <1>7 DEF SetEvent, Record
    <3>2. [wait[w] EXCEPT !.calls = wait[w].calls - 1] \in Record
      BY <1>0, <3>1, CallsAre, Zenon
    <3>3. r = [[wait[w] EXCEPT !.calls = wait[w].calls - 1] EXCEPT !.flag = TRUE]
      OBVIOUS
    <3> HIDE DEF r
    <3> QED BY <3>2, <3>3, FlagsAre, Zenon
  <2>a. /\ r.pc = wait[w].pc /\ r.seen = wait[w].seen /\ r.due = wait[w].due
        /\ r.met = wait[w].met /\ r.result = wait[w].result
    BY <1>0 DEF Record
  <2>b. r.flag = TRUE
    BY <1>0, Zenon DEF Record
  <2>2. Holds(r)
    <3> HIDE DEF r
    <3> QED BY <1>2, <2>a, <2>b
  <2>3. Only(w, r)
    BY <1>0, <1>7 DEF SetEvent, Only
  <2> HIDE DEF r, Holds
  <2> QED BY <1>3, <2>1, <2>2, <2>3
<1>8. CASE ClearEvent(w)
  <2> DEFINE r == [wait[w] EXCEPT !.pc = "read", !.flag = FALSE]
  <2>1. r \in Record
    <3>1. [wait[w] EXCEPT !.pc = "read"] \in Record
      BY <1>0 DEF Record, Pcs
    <3>2. r = [[wait[w] EXCEPT !.pc = "read"] EXCEPT !.flag = FALSE]
      OBVIOUS
    <3> HIDE DEF r
    <3> QED BY <3>1, <3>2, FlagsAre, Zenon
  <2>2. Holds(r)
    <3>1. /\ r.pc = "read" /\ r.seen = wait[w].seen /\ r.due = wait[w].due
          /\ r.met = wait[w].met /\ wait[w].pc = "clear"
      BY <1>0, <1>8 DEF ClearEvent, Record
    <3> HIDE DEF r
    <3> QED BY <1>2, <3>1
  <2>3. Only(w, r)
    BY <1>8 DEF ClearEvent
  <2> HIDE DEF r, Holds
  <2> QED BY <1>3, <2>1, <2>2, <2>3
<1>9. CASE Read(w)
  <2>1. CASE status \in Wanted[w]
    <3> DEFINE r == [wait[w] EXCEPT !.pc = "returned", !.result = status]
    <3>1. status \in Claimed /\ status # "none"
      BY <2>1, WantedIs
    <3>2. r \in Record
      BY <1>0, <3>1 DEF Record, Pcs
    <3>3. Holds(r)
      BY <1>0, <1>2, <1>9, <3>1 DEF Read, Record
    <3>4. Only(w, r)
      BY <1>9, <2>1 DEF Read
    <3> HIDE DEF r, Holds
    <3> QED BY <1>3, <3>2, <3>3, <3>4
  <2>2. CASE status \notin Wanted[w]
    <3> DEFINE r == [wait[w] EXCEPT !.pc = "check"]
    <3>1. r \in Record
      BY <1>0 DEF Record, Pcs
    <3>2. Holds(r)
      BY <1>0, <1>2, <1>9, <2>2 DEF Read, Record
    <3>3. Only(w, r)
      BY <1>9, <2>2 DEF Read
    <3> HIDE DEF r, Holds
    <3> QED BY <1>3, <3>1, <3>2, <3>3
  <2> QED BY <2>1, <2>2
<1>10. CASE CheckBlocking(w)
  <2>1. CASE arrivals # wait[w].seen
    <3> DEFINE r == [wait[w] EXCEPT !.pc = "read", !.seen = arrivals]
    <3>1. r \in Record
      BY <1>0 DEF Record, Pcs
    <3>2. Holds(r)
      BY <1>0, <1>2, <1>4, <1>10 DEF CheckBlocking, Record
    <3>3. Only(w, r)
      BY <1>10, <2>1 DEF CheckBlocking
    <3> HIDE DEF r, Holds
    <3> QED BY <1>3, <3>1, <3>2, <3>3
  <2>2. CASE arrivals = wait[w].seen
    <3> DEFINE r == [wait[w] EXCEPT !.pc = IF wait[w].due THEN "last" ELSE "waiting"]
    <3>1. r \in Record
      BY <1>0 DEF Record, Pcs
    <3>2. Holds(r)
      BY <1>0, <1>2, <1>4, <1>10, <2>2 DEF CheckBlocking, Record
    <3>3. Only(w, r)
      BY <1>10, <2>2 DEF CheckBlocking
    <3> HIDE DEF r, Holds
    <3> QED BY <1>3, <3>1, <3>2, <3>3
  <2> QED BY <2>1, <2>2
<1>11. CASE CheckCoroutine(w)
  <2> DEFINE r == [wait[w] EXCEPT !.pc = IF wait[w].due THEN "returned" ELSE "waiting"]
  <2>1. r \in Record
    BY <1>0 DEF Record, Pcs
  <2>2. Holds(r)
    BY <1>0, <1>2, <1>4, <1>11 DEF CheckCoroutine, Record
  <2>3. Only(w, r)
    BY <1>11 DEF CheckCoroutine
  <2> HIDE DEF r, Holds
  <2> QED BY <1>3, <2>1, <2>2, <2>3
<1>12. CASE Resume(w)
  <2>1. PICK p \in Pcs :
          /\ Only(w, [wait[w] EXCEPT !.pc = p])
          /\ \/ p = "check" /\ w \in Blocking
             \/ p \in {"clear", "last"} /\ w \in Coroutines
          /\ wait[w].pc = "waiting"
    BY <1>12 DEF Resume, Pcs
  <2> DEFINE r == [wait[w] EXCEPT !.pc = p]
  <2>2. r \in Record
    BY <1>0 DEF Record
  <2>3. Holds(r)
    BY <1>0, <1>2, <1>4, <2>1 DEF Record
  <2>4. Only(w, r)
    BY <2>1
  <2> HIDE DEF r, Holds
  <2> QED BY <1>3, <2>2, <2>3, <2>4
<1>13. CASE Last(w)
  <2> DEFINE r == [wait[w] EXCEPT !.pc = "returned", !.result = LastRead(w)]
  <2>1. LastRead(w) \in {"none"} \cup Claimed
        /\ (LastRead(w) = "none" => status \notin Wanted[w])
    BY WantedIs DEF LastRead
  <2>2. r \in Record
    BY <1>0, <2>1 DEF Record, Pcs
  <2>3. Holds(r)
    BY <1>0, <1>2, <1>13, <2>1 DEF Last, Record
  <2>4. Only(w, r)
    BY <1>13 DEF Last
  <2> HIDE DEF r, Holds
  <2> QED BY <1>3, <2>2, <2>3, <2>4
<1> QED
  BY <1>5, <1>6, <1>7, <1>8, <1>9, <1>10, <1>11, <1>12, <1>13 DEF Step

-----------------------------------------------------------------------------
(* The moves of the Operation and their notifications.                     *)

(* No wait changes, and what is wanted and on its way stays so. *)
LEMMA GraphStepKeeps ==
  ASSUME WaitInv, Create \/ Register \/ \E n \in Claimed : Move(n) \/ Lose(n)
  PROVE  WaitInv'
<1>1. wait' = wait /\ arrivals' = arrivals /\ (known => known')
  BY DEF Create, Register, Move, Lose
<1>2. WaitTypeOK'
  <2>1. CASE Create
    BY <2>1 DEF Create, WaitInv, WaitTypeOK
  <2>2. CASE Register
    <3>1. known' \in BOOLEAN
      BY <2>2, Zenon DEF Register
    <3> QED BY <2>2, <3>1 DEF Register, WaitInv, WaitTypeOK
  <2>3. ASSUME NEW n \in Claimed, Move(n) \/ Lose(n) PROVE WaitTypeOK'
    BY <2>3 DEF Move, Lose, WaitInv, WaitTypeOK, Claimed, EndedSet
  <2> QED BY <2>1, <2>2, <2>3
<1>3. ASSUME NEW w \in Waits PROVE WInv(w)'
  <2>1. status \in Wanted[w] => status' \in Wanted[w]
    BY WantedIs DEF Create, Register, Move, Lose, Claimed, EndedSet
  <2>2. status' \in Wanted[w] => (status \in Wanted[w] /\ status' = status) \/ OnItsWay'
    BY WantedIs DEF Create, Register, Move, Lose, OnItsWay
  <2>3. status' = status /\ OnItsWay => OnItsWay'
    BY DEF Create, Register, Move, Lose, OnItsWay
  <2> QED
    BY <1>1, <2>1, <2>2, <2>3 DEF WaitInv, WInv, ThreadIsTold, CoroutineIsTold, AtDeadline,
         IsKnown, GivesUp
<1> QED BY <1>2, <1>3 DEF WaitInv

(* An arrival: the news is no longer on its way, and every wait is told. *)
LEMMA ArrivalKeeps ==
  ASSUME WaitInv, Wake, UNCHANGED <<status, known, lost>>,
         notes' \subseteq notes, strays' \in Nat
  PROVE  WaitInv'
<1>0. /\ wait \in [Waits -> Record] /\ arrivals \in Nat
      /\ Blocking \cap Coroutines = {} /\ Waits = Blocking \cup Coroutines
  BY DEF WaitInv, WaitTypeOK, Record, Waits
<1>1. CASE ~known
  <2>1. UNCHANGED <<arrivals, wait>> /\ \A w \in Waits : wait[w].pc = "idle"
    BY <1>1 DEF Wake, WaitInv, WInv, IsKnown
  <2>2. WaitTypeOK'
    BY <2>1 DEF WaitInv, WaitTypeOK
  <2>3. ASSUME NEW w \in Waits PROVE WInv(w)'
    BY <2>1 DEF WaitInv, WInv, ThreadIsTold, CoroutineIsTold, AtDeadline, IsKnown, GivesUp
  <2> QED BY <2>2, <2>3 DEF WaitInv
<1>2. CASE known
  <2>1. arrivals' = arrivals + 1 /\ wait' = [w \in Waits |-> WokenWait(w)]
    BY <1>2 DEF Wake
  <2>2. ASSUME NEW w \in Waits
        PROVE  /\ WokenWait(w) \in Record
               /\ WokenWait(w).seen = wait[w].seen /\ WokenWait(w).due = wait[w].due
               /\ WokenWait(w).met = wait[w].met /\ WokenWait(w).result = wait[w].result
               /\ w \in Blocking => WokenWait(w).pc = IF wait[w].pc = "waiting"
                                                  THEN "check" ELSE wait[w].pc
               /\ w \in Coroutines => WokenWait(w).pc = wait[w].pc
               /\ w \in Coroutines /\ wait[w].pc \in {"check", "waiting"}
                    => WokenWait(w).calls > 0
    <3>1. wait[w] \in Record
      BY <1>0
    <3>2. CASE w \in Blocking /\ wait[w].pc = "waiting"
      BY <1>0, <3>1, <3>2 DEF WokenWait, Record, Pcs
    <3>3. CASE w \in Coroutines /\ wait[w].pc \notin {"idle", "returned"}
      <4>1. WokenWait(w) = [wait[w] EXCEPT !.calls = @ + 1]
        BY <1>0, <3>3 DEF WokenWait
      <4> QED BY <1>0, <3>1, <3>3, <4>1 DEF Record
    <3>4. CASE /\ ~(w \in Blocking /\ wait[w].pc = "waiting")
               /\ ~(w \in Coroutines /\ wait[w].pc \notin {"idle", "returned"})
      BY <1>0, <3>1, <3>4 DEF WokenWait
    <3> QED BY <3>2, <3>3, <3>4
  <2>3. wait' \in [Waits -> Record]
    BY <2>1, <2>2
  <2>4. WaitTypeOK'
    BY <2>1, <2>3, <1>0 DEF WaitInv, WaitTypeOK, Record
  <2>5. ASSUME NEW w \in Waits PROVE WInv(w)'
    <3>1. wait'[w] = WokenWait(w)
      BY <2>1
    <3>2. wait[w] \in Record /\ WInv(w)
      BY <1>0 DEF WaitInv
    <3>3. ThreadIsTold(w)'
      BY <1>0, <2>1, <2>2, <3>1, <3>2 DEF WInv, ThreadIsTold, Record
    <3>4. CoroutineIsTold(w)'
      BY <1>0, <2>2, <3>1 DEF CoroutineIsTold
    <3>5. AtDeadline(w)' /\ IsKnown(w)'
      BY <1>0, <2>2, <3>1, <3>2, <1>2 DEF WInv, AtDeadline, IsKnown, GivesUp
    <3> QED BY <3>3, <3>4, <3>5 DEF WInv
  <2> QED BY <2>4, <2>5 DEF WaitInv
<1> QED BY <1>1, <1>2

LEMMA WaitStepInv == WaitInv /\ [WaitNext]_waitVars => WaitInv'
<1> SUFFICES ASSUME WaitInv, [WaitNext]_waitVars PROVE WaitInv'
  OBVIOUS
<1>1. CASE UNCHANGED waitVars
  <2>1. WaitTypeOK'
    BY <1>1 DEF waitVars, WaitInv, WaitTypeOK
  <2>2. ASSUME NEW w \in Waits PROVE WInv(w)'
    BY <1>1 DEF waitVars, WaitInv, WInv, ThreadIsTold, CoroutineIsTold, AtDeadline, IsKnown,
         GivesUp, OnItsWay
  <2> QED BY <2>1, <2>2 DEF WaitInv
<1>2. CASE Create \/ Register \/ \E n \in Claimed : Move(n) \/ Lose(n)
  BY <1>2, GraphStepKeeps
<1>3. CASE ArriveStray
  <2>1. strays' \in Nat
    BY <1>3 DEF ArriveStray, WaitInv, WaitTypeOK
  <2> QED BY <1>3, <2>1, ArrivalKeeps DEF ArriveStray
<1>4. ASSUME NEW n \in Claimed, Arrive(n) PROVE WaitInv'
  <2>1. strays' \in Nat
    BY <1>4 DEF Arrive, WaitInv, WaitTypeOK
  <2> QED BY <1>4, <2>1, ArrivalKeeps DEF Arrive
<1>5. ASSUME NEW w \in Waits, BeginWait(w) \/ Expire(w) \/ SetEvent(w) \/ Step(w) PROVE WaitInv'
  BY <1>5, WaitStepKeeps
<1> QED BY <1>1, <1>2, <1>3, <1>4, <1>5 DEF WaitNext

LEMMA WaitInvariance == WaitSpec => []WaitInv
BY WaitInitInv, WaitStepInv, PTL DEF WaitSpec

-----------------------------------------------------------------------------
(* The theorems.                                                           *)

(* Every variable of the waits keeps its type, whatever arrives, is lost   *)
(* or expires in _wait, _until and _wake.                                  *)
THEOREM WaitTypeCorrect == WaitSpec => []WaitTypeOK
BY WaitInvariance, PTL DEF WaitInv

(* No thread in _wait and no coroutine in _until sleeps through the news   *)
(* that its Operation is where it waits for, however _wake, the read of    *)
(* the status and the wait for the next arrival interleave.                *)
THEOREM NeverSleepsThrough == WaitSpec => []NoLostWakeUp
<1>1. WaitInv => NoLostWakeUp
  BY DEF WaitInv, WInv, ThreadIsTold, CoroutineIsTold, OnItsWay, NoLostWakeUp, Waits, WaitTypeOK
<1> QED BY <1>1, WaitInvariance, PTL

(* A thread in _wait never gives up on what was there at its deadline.     *)
THEOREM LastLook == WaitSpec => []ReadsOnceMore
<1>1. WaitInv => ReadsOnceMore
  BY DEF WaitInv, WInv, AtDeadline, ReadsOnceMore, Waits
<1> QED BY <1>1, WaitInvariance, PTL
===============================================================================
