----------------------------- MODULE IntakeProofs -----------------------------
(***************************************************************************)
(* Proofs about the intake of notifications, for any Operations, any       *)
(* number of requests under way and all bounds.                            *)
(***************************************************************************)
EXTENDS Intake, FiniteSetTheorems, TLAPS

USE IntakeAssumption DEF IntakeAssumption

-----------------------------------------------------------------------------
(* What the operators of the intake return.                                *)

LEMMA ReadIs ==
  ASSUME TypeOK, NEW o \in Ops
  PROVE  Read(o) \in ReadState /\ Read(o).fresh
BY DEF Read, ReadState

LEMMA AgedIs ==
  ASSUME NEW read \in ReadState PROVE Aged(read) \in ReadState
BY DEF Aged, ReadState

LEMMA AgeTriggersIs ==
  ASSUME TypeOK, AgeTriggers PROVE trigger' \in [Slots -> TriggerState]
<1>1. ASSUME NEW n \in Slots
      PROVE  [trigger[n] EXCEPT !.read = Aged(@)] \in TriggerState
  <2>1. trigger[n] \in TriggerState
    BY DEF TypeOK
  <2>2. Aged(trigger[n].read) \in ReadState
    BY <2>1, AgedIs DEF TriggerState
  <2> QED BY <2>1, <2>2 DEF TriggerState
<1> QED BY <1>1 DEF AgeTriggers

LEMMA MatchedIs ==
  ASSUME NEW item \in WorkerState
  PROVE  /\ Matched(item) \in WorkerState
         /\ Matched(item).op = item.op
         /\ Matched(item).read = item.read
         /\ Matched(item).behind = item.behind
         /\ Matched(item).pc \in {"checking", "handler"}
         /\ Matched(item).pc = "checking" => item.op \in Mine
BY DEF Matched, WorkerState

LEMMA NoWorkerIs == NoWorker \in WorkerState
BY DEF NoWorker, WorkerState, ReadState, Behind

LEMMA PoppedIs ==
  ASSUME NEW item \in Received, item.behind = "worker" => item.read = None
  PROVE  /\ Popped(item) \in WorkerState
         /\ Popped(item).pc \in {"reading", "checking", "handler"}
         /\ Popped(item).op \in Ops
         /\ Popped(item).pc = "checking" => Popped(item).op \in Mine
         /\ Popped(item).behind = "worker" => Popped(item).pc = "reading"
<1> DEFINE taken == [NoWorker EXCEPT !.op = item.op, !.read = item.read,
                                     !.behind = item.behind]
<1>1. taken \in WorkerState /\ taken.op = item.op /\ item.op \in Ops /\ taken.read = item.read /\ taken.behind = item.behind
  BY DEF NoWorker, WorkerState, Received, Behind
<1>2. /\ [taken EXCEPT !.pc = "reading"] \in WorkerState
      /\ [taken EXCEPT !.pc = "reading"].op = taken.op
      /\ [taken EXCEPT !.pc = "reading"].pc = "reading"
  BY <1>1 DEF WorkerState
<1>3. Popped(item) = IF item.read = None THEN [taken EXCEPT !.pc = "reading"]
                                         ELSE Matched(taken)
  BY DEF Popped
<1> HIDE DEF taken
<1> QED BY <1>1, <1>2, <1>3, MatchedIs

-----------------------------------------------------------------------------
(* The inductive invariant.                                                *)

(* What waits behind a worker that lives carries no read. *)
WaitedIsUnread ==
  \A i \in 1..Len(intake) : intake[i].behind = "worker" => intake[i].read = None

(* A request that has begun, and a worker that has popped, name what for.  *)
NamesOperation ==
  /\ \A n \in Slots : trigger[n].pc # "idle" => trigger[n].op \in Ops
  /\ worker.pc \notin {"none", "created", "returned"} => worker.op \in Ops

(* A worker lives only in a process, and what it runs by a workflow is an  *)
(* Operation with a workflow here.                                         *)
WorkerRunsMine ==
  /\ phase = "down" => worker.pc = "none" /\ \A n \in Slots : trigger[n].pc = "idle"
  /\ worker.pc \in {"checking", "workflow", "running"} => worker.op \in Mine

(* Nobody but the worker moves an Operation of this Resource to itself, so *)
(* what the check of the feedback saw still holds in the workflow.         *)
WorkflowSeesQueued ==
  /\ worker.pc = "workflow" /\ worker.op \in Own => status[worker.op] = "queued"
  /\ worker.pc = "running" /\ worker.op \in Own => status[worker.op] = "running"

IInv ==
  /\ TypeOK
  /\ NoneWithoutWorker
  /\ ReadAfterWait
  /\ WaitedIsUnread
  /\ NamesOperation
  /\ WorkerRunsMine
  /\ WorkflowSeesQueued

LEMMA InitIInv == Init => IInv
<1> SUFFICES ASSUME Init PROVE IInv
  OBVIOUS
<1>1. status \in [Ops -> Status]
  BY DEF Init, Status
<1>2. Quiet \in TriggerState
  BY DEF Quiet, TriggerState, ReadState
<1>3. trigger \in [Slots -> TriggerState] /\ \A n \in Slots : trigger[n].pc = "idle"
  BY <1>2 DEF Init, Quiet
<1>4. intake \in Seq(Received) /\ Len(intake) = 0
  BY DEF Init
<1>5. worker \in WorkerState /\ worker.pc = "none"
  BY NoWorkerIs DEF Init, NoWorker
<1>a. working \in BOOLEAN
  BY Zenon DEF Init
<1>b. notes \in 0..MaxNotes /\ crashes \in 0..MaxCrashes /\ faults \in 0..MaxFaults
  BY DEF Init
<1>c. phase \in {"down", "starting", "up"} /\ found \subseteq Ops
      /\ logged \subseteq Ops /\ left \subseteq Ops
  BY DEF Init
<1>6. TypeOK
  BY <1>1, <1>3, <1>4, <1>5, <1>a, <1>b, <1>c DEF TypeOK
<1>7. NoneWithoutWorker /\ WaitedIsUnread
  BY <1>4, <1>5 DEF Init, NoneWithoutWorker, WaitedIsUnread
<1> QED
  BY <1>3, <1>5, <1>6, <1>7 DEF IInv, ReadAfterWait, NamesOperation, WorkerRunsMine,
       WorkflowSeesQueued

-----------------------------------------------------------------------------
(* The worker.                                                             *)

LEMMA WorkIntakeKeeps == IInv /\ WorkIntake => IInv'
<1> SUFFICES ASSUME IInv, WorkIntake PROVE IInv'
  OBVIOUS
<1>0. /\ worker.pc \in {"created", "returned"} /\ phase # "down"
      /\ UNCHANGED <<status, phase, found, trigger, logged, left, notes, crashes, faults>>
  BY DEF WorkIntake, bounds, IInv, WorkerRunsMine
<1>1. CASE intake = <<>>
  <2>a. working' = FALSE /\ worker' = NoWorker /\ intake' = intake
    BY <1>1, Zenon DEF WorkIntake, NextReceived
  <2>b. working' \in BOOLEAN
    BY <2>a, Zenon
  <2>1. worker' \in WorkerState /\ worker'.pc = "none"
    BY <2>a, NoWorkerIs DEF NoWorker
  <2>2. TypeOK'
    BY <1>0, <2>1, <2>a, <2>b DEF IInv, TypeOK
  <2>3. NoneWithoutWorker' /\ WaitedIsUnread'
    BY <1>1, <2>1, <2>a DEF IInv, NoneWithoutWorker, WaitedIsUnread
  <2> QED
    BY <1>0, <2>1, <2>a, <2>2, <2>3
       DEF IInv, ReadAfterWait, NamesOperation, WorkerRunsMine, WorkflowSeesQueued
<1>2. CASE intake # <<>>
  <2>1. intake \in Seq(Received) /\ Head(intake) = intake[1] /\ 1 \in 1..Len(intake)
    BY <1>2 DEF IInv, TypeOK
  <2>2. intake[1] \in Received /\ (intake[1].behind = "worker" => intake[1].read = None)
    BY <2>1 DEF IInv, WaitedIsUnread
  <2>3. worker' = Popped(intake[1]) /\ intake' = Tail(intake) /\ working' = working
    BY <1>2, <2>1 DEF WorkIntake, NextReceived
  <2>4. /\ worker' \in WorkerState
        /\ worker'.pc \in {"reading", "checking", "handler"}
        /\ worker'.op \in Ops
        /\ worker'.pc = "checking" => worker'.op \in Mine
        /\ worker'.behind = "worker" => worker'.pc = "reading"
    BY <2>2, <2>3, PoppedIs
  <2>5. /\ Tail(intake) \in Seq(Received)
        /\ \A i \in 1..Len(Tail(intake)) :
             i + 1 \in 1..Len(intake) /\ Tail(intake)[i] = intake[i + 1]
    BY <1>2, <2>1
  <2>6. WaitedIsUnread'
    BY <2>3, <2>5 DEF IInv, WaitedIsUnread
  <2>7. TypeOK'
    BY <1>0, <2>3, <2>4, <2>5 DEF IInv, TypeOK
  <2> QED
    BY <1>0, <2>3, <2>4, <2>6, <2>7
       DEF IInv, NoneWithoutWorker, ReadAfterWait, NamesOperation, WorkerRunsMine,
           WorkflowSeesQueued
<1> QED BY <1>1, <1>2

(* The actions that leave the worker returned. *)
LEMMA ReturnedKeeps ==
  ASSUME IInv, Returned, AgeTriggers, worker.pc # "none",
         UNCHANGED <<phase, found, intake, working, notes, crashes>>,
         status' \in [Ops -> Status], logged' \subseteq Ops, left' \subseteq Ops, faults' \in 0..MaxFaults
  PROVE  IInv'
<1>1. TypeOK
  BY DEF IInv
<1>2. trigger' \in [Slots -> TriggerState]
  BY <1>1, AgeTriggersIs
<1>3. worker' \in WorkerState /\ worker'.pc = "returned"
  BY DEF Returned, NoWorker, WorkerState, ReadState, Behind
<1>4. TypeOK'
  BY <1>1, <1>2, <1>3 DEF TypeOK
<1>5. \A n \in Slots : trigger'[n].pc = trigger[n].pc /\ trigger'[n].op = trigger[n].op
  <2>1. ASSUME NEW n \in Slots
        PROVE  trigger'[n].pc = trigger[n].pc /\ trigger'[n].op = trigger[n].op
    BY <1>1 DEF AgeTriggers, TypeOK, TriggerState
  <2> QED BY <2>1
<1> QED
  BY <1>3, <1>4, <1>5 DEF IInv, NoneWithoutWorker, ReadAfterWait, WaitedIsUnread,
       NamesOperation, WorkerRunsMine, WorkflowSeesQueued

LEMMA RaisesKeeps == IInv /\ Raises => IInv'
<1> SUFFICES ASSUME IInv, Raises PROVE IInv'
  OBVIOUS
<1>1. worker.op \in Ops /\ worker.pc # "none"
  BY DEF IInv, NamesOperation, Raises
<1>2. logged' \subseteq Ops /\ left' \subseteq Ops /\ status' \in [Ops -> Status] /\ faults' \in 0..MaxFaults
  BY <1>1 DEF Raises, Fault, IInv, TypeOK
<1> QED BY <1>1, <1>2, ReturnedKeeps DEF Raises

LEMMA EscapesKeeps == IInv /\ Escapes => IInv'
<1> SUFFICES ASSUME IInv, Escapes PROVE IInv'
  OBVIOUS
<1>1. TypeOK /\ worker.op \in Ops /\ intake \in Seq(Received)
  BY DEF IInv, TypeOK, NamesOperation, Escapes
<1>2. trigger' \in [Slots -> TriggerState]
  BY <1>1, AgeTriggersIs DEF Escapes
<1>3. \A n \in Slots : trigger'[n].pc = trigger[n].pc /\ trigger'[n].op = trigger[n].op
  <2>1. ASSUME NEW n \in Slots
        PROVE  trigger'[n].pc = trigger[n].pc /\ trigger'[n].op = trigger[n].op
    BY <1>1 DEF Escapes, AgeTriggers, TypeOK, TriggerState
  <2> QED BY <2>1
<1>4. worker' \in WorkerState /\ worker'.pc = "none"
  BY NoWorkerIs DEF Escapes, NoWorker
<1>5. left' \subseteq Ops /\ \A i \in DOMAIN intake : intake[i].op \in left'
  <2>1. \A i \in DOMAIN intake : intake[i].op \in Ops
    <3>1. \A i \in DOMAIN intake : intake[i] \in Received
      BY <1>1
    <3> QED BY <3>1 DEF Received
  <2>2. left' = {worker.op} \cup {intake[i].op : i \in DOMAIN intake}
    BY DEF Escapes
  <2> QED BY <1>1, <2>1, <2>2
<1>6. working' = FALSE /\ working' \in BOOLEAN
  BY Zenon DEF Escapes
<1>7. TypeOK'
  BY <1>1, <1>2, <1>4, <1>5, <1>6 DEF Escapes, Fault, TypeOK
<1>8. NoneWithoutWorker'
  BY <1>4, <1>5, <1>6 DEF Escapes, NoneWithoutWorker
<1> QED
  BY <1>3, <1>4, <1>7, <1>8 DEF Escapes, IInv, ReadAfterWait, WaitedIsUnread,
       NamesOperation, WorkerRunsMine, WorkflowSeesQueued

LEMMA FunctionReturnsKeeps == IInv /\ FunctionReturns => IInv'
<1> SUFFICES ASSUME IInv, FunctionReturns PROVE IInv'
  OBVIOUS
<1>1. logged' \subseteq Ops /\ left' \subseteq Ops /\ status' \in [Ops -> Status] /\ faults' \in 0..MaxFaults
  BY DEF FunctionReturns, bounds, IInv, TypeOK
<1> QED BY <1>1, ReturnedKeeps DEF FunctionReturns, bounds

LEMMA WorkflowEndsKeeps == IInv /\ WorkflowEnds => IInv'
<1> SUFFICES ASSUME IInv, WorkflowEnds PROVE IInv'
  OBVIOUS
<1>1. logged' \subseteq Ops /\ left' \subseteq Ops /\ status' \in [Ops -> Status] /\ faults' \in 0..MaxFaults
  BY DEF WorkflowEnds, bounds, IInv, TypeOK, Status
<1> QED BY <1>1, ReturnedKeeps DEF WorkflowEnds, bounds

LEMMA ReadBeforeRunKeeps == IInv /\ ReadBeforeRun => IInv'
<1> SUFFICES ASSUME IInv, ReadBeforeRun PROVE IInv'
  OBVIOUS
<1> DEFINE item == [worker EXCEPT !.read = Read(worker.op)]
<1>1. worker \in WorkerState /\ worker.op \in Ops /\ phase # "down"
  BY DEF IInv, TypeOK, NamesOperation, WorkerRunsMine, ReadBeforeRun
<1>2. Read(worker.op) \in ReadState /\ Read(worker.op).fresh
  BY <1>1, ReadIs DEF IInv
<1>3. item \in WorkerState /\ item.op = worker.op /\ item.read.fresh
  BY <1>1, <1>2 DEF WorkerState
<1>4. worker' = Matched(item)
  BY DEF ReadBeforeRun
<1> HIDE DEF item
<1>5. /\ worker' \in WorkerState
      /\ worker'.op \in Ops
      /\ worker'.read.fresh
      /\ worker'.pc \in {"checking", "handler"}
      /\ worker'.pc = "checking" => worker'.op \in Mine
  BY <1>1, <1>3, <1>4, MatchedIs
<1> QED
  BY <1>1, <1>5 DEF ReadBeforeRun, bounds, IInv, TypeOK, NoneWithoutWorker, ReadAfterWait,
       WaitedIsUnread, NamesOperation, WorkerRunsMine, WorkflowSeesQueued

LEMMA CheckFeedbackKeeps == IInv /\ CheckFeedback => IInv'
<1> SUFFICES ASSUME IInv, CheckFeedback PROVE IInv'
  OBVIOUS
<1>1. worker \in WorkerState /\ worker.op \in Mine /\ phase # "down"
  BY DEF IInv, TypeOK, WorkerRunsMine, CheckFeedback
<1>2. /\ worker' \in WorkerState
      /\ worker'.pc \in {"handler", "workflow"}
      /\ worker'.op = worker.op /\ worker'.read = worker.read
      /\ worker'.behind = worker.behind
      /\ worker'.pc = "workflow" => ~IssuedAndClaimed(worker.op)
  BY <1>1 DEF CheckFeedback, WorkerState
<1> QED
  BY <1>1, <1>2 DEF CheckFeedback, IssuedAndClaimed, bounds, IInv, TypeOK,
       NoneWithoutWorker, ReadAfterWait, WaitedIsUnread, NamesOperation, WorkerRunsMine,
       WorkflowSeesQueued

LEMMA WorkflowClaimsKeeps == IInv /\ WorkflowClaims => IInv'
<1> SUFFICES ASSUME IInv, WorkflowClaims PROVE IInv'
  OBVIOUS
<1>1. worker \in WorkerState /\ worker.op \in Mine /\ phase # "down"
  BY DEF IInv, TypeOK, WorkerRunsMine, WorkflowClaims
<1>2. worker' \in WorkerState /\ worker'.pc = "running" /\ worker'.op = worker.op
  BY <1>1 DEF WorkflowClaims, NoWorker, WorkerState, ReadState, Behind
<1>3. status' \in [Ops -> Status] /\ status'[worker.op] = "running"
  BY <1>1 DEF WorkflowClaims, IInv, TypeOK, Status
<1> QED
  BY <1>1, <1>2, <1>3 DEF WorkflowClaims, bounds, IInv, TypeOK, NoneWithoutWorker,
       ReadAfterWait, WaitedIsUnread, NamesOperation, WorkerRunsMine, WorkflowSeesQueued

LEMMA WorkerStepKeeps == IInv /\ WorkerStep => IInv'
BY WorkIntakeKeeps, RaisesKeeps, EscapesKeeps, FunctionReturnsKeeps, WorkflowEndsKeeps,
   ReadBeforeRunKeeps, CheckFeedbackKeeps, WorkflowClaimsKeeps DEF WorkerStep

-----------------------------------------------------------------------------
(* The event trigger.                                                      *)

(* An Operation is taken in at the end, and starts a worker if none lives. *)
LEMMA TakeInKeeps ==
  ASSUME IInv, NEW o \in Ops, NEW read \in ReadState, TakeIn(o, read), phase # "down"
  PROVE  /\ intake' \in Seq(Received) /\ worker' \in WorkerState /\ working' = TRUE
         /\ NoneWithoutWorker' /\ ReadAfterWait' /\ WaitedIsUnread'
         /\ worker' = worker \/ worker'.pc = "created"
<1> DEFINE e == Entry(o, read)
<1>1. e \in Received /\ (e.behind = "worker" => e.read = None)
  BY DEF Entry, Predecessor, Behind, Received, ReadState, IInv, TypeOK
<1>2. intake \in Seq(Received) /\ worker \in WorkerState /\ working \in BOOLEAN
  BY DEF IInv, TypeOK
<1>3. intake' = Append(intake, e) /\ working' = TRUE
  BY DEF TakeIn
<1> HIDE DEF e
<1>4. /\ intake' \in Seq(Received)
      /\ \A i \in 1..Len(intake') :
           (i \in 1..Len(intake) /\ intake'[i] = intake[i]) \/ intake'[i] = e
  BY <1>1, <1>2, <1>3
<1>5. WaitedIsUnread'
  BY <1>1, <1>4 DEF WaitedIsUnread, IInv
<1>6. CASE working
  <2>1. worker' = worker
    BY <1>6 DEF TakeIn
  <2> QED
    BY <1>2, <1>3, <1>4, <1>5, <1>6, <2>1 DEF IInv, NoneWithoutWorker, ReadAfterWait
<1>7. CASE ~working
  <2>1. worker' \in WorkerState /\ worker'.pc = "created"
    BY <1>7 DEF TakeIn, NoWorker, WorkerState, ReadState, Behind
  <2> QED
    BY <1>3, <1>4, <1>5, <2>1 DEF NoneWithoutWorker, ReadAfterWait
<1> QED BY <1>2, <1>6, <1>7

(* What a request of the trigger does to its own record alone. *)
LEMMA TriggerOnlyKeeps ==
  ASSUME IInv, phase # "down", NEW n \in Slots, NEW t \in TriggerState,
         t.pc # "idle" => t.op \in Ops,
         trigger' = [trigger EXCEPT ![n] = t],
         UNCHANGED <<status, phase, found, intake, working, worker, logged, left, crashes>>,
         notes' \in 0..MaxNotes, faults' \in 0..MaxFaults
  PROVE  IInv'
<1>1. TypeOK'
  BY DEF IInv, TypeOK
<1>2. \A m \in Slots : trigger'[m] = IF m = n THEN t ELSE trigger[m]
  BY DEF IInv, TypeOK
<1> QED
  BY <1>1, <1>2 DEF IInv, NoneWithoutWorker, ReadAfterWait, WaitedIsUnread,
       NamesOperation, WorkerRunsMine, WorkflowSeesQueued

LEMMA QuietIs == Quiet \in TriggerState /\ Quiet.pc = "idle"
BY DEF Quiet, TriggerState, ReadState

LEMMA NotifyKeeps ==
  ASSUME NEW n \in Slots, NEW o \in Ops PROVE IInv /\ Notify(n, o) => IInv'
<1> SUFFICES ASSUME IInv, Notify(n, o) PROVE IInv'
  OBVIOUS
<1> DEFINE t == [Quiet EXCEPT !.pc = "reading", !.op = o]
<1>1. t \in TriggerState /\ t.op \in Ops
  BY DEF Quiet, TriggerState, ReadState
<1>2. notes' \in 0..MaxNotes /\ faults' \in 0..MaxFaults
  BY DEF Notify, IInv, TypeOK
<1>3. trigger' = [trigger EXCEPT ![n] = t]
  BY DEF Notify
<1> HIDE DEF t
<1> QED BY <1>1, <1>2, <1>3, TriggerOnlyKeeps DEF Notify

LEMMA ReadReceivedKeeps ==
  ASSUME NEW n \in Slots PROVE IInv /\ ReadReceived(n) => IInv'
<1> SUFFICES ASSUME IInv, ReadReceived(n) PROVE IInv'
  OBVIOUS
<1> DEFINE t == [trigger[n] EXCEPT !.pc = "read", !.read = Read(trigger[n].op)]
<1>1. trigger[n] \in TriggerState /\ trigger[n].op \in Ops /\ phase # "down"
  BY DEF ReadReceived, IInv, TypeOK, NamesOperation, WorkerRunsMine
<1>2. Read(trigger[n].op) \in ReadState
  BY <1>1, ReadIs DEF IInv
<1>3. t \in TriggerState /\ t.op \in Ops
  BY <1>1, <1>2 DEF TriggerState
<1>4. trigger' = [trigger EXCEPT ![n] = t]
  BY <1>1 DEF ReadReceived, IInv, TypeOK
<1>5. notes' \in 0..MaxNotes /\ faults' \in 0..MaxFaults
  BY DEF ReadReceived, bounds, IInv, TypeOK
<1> HIDE DEF t
<1> QED BY <1>1, <1>3, <1>4, <1>5, TriggerOnlyKeeps DEF ReadReceived, bounds

LEMMA RefuseNotificationKeeps ==
  ASSUME NEW n \in Slots PROVE IInv /\ RefuseNotification(n) => IInv'
<1> SUFFICES ASSUME IInv, RefuseNotification(n) PROVE IInv'
  OBVIOUS
<1>1. notes' \in 0..MaxNotes /\ faults' \in 0..MaxFaults
  BY DEF RefuseNotification, Fault, IInv, TypeOK
<1>2. phase # "down"
  BY DEF RefuseNotification, IInv, WorkerRunsMine
<1> QED BY <1>1, <1>2, QuietIs, TriggerOnlyKeeps DEF RefuseNotification

LEMMA AnswerNotificationKeeps ==
  ASSUME NEW n \in Slots PROVE IInv /\ AnswerNotification(n) => IInv'
<1> SUFFICES ASSUME IInv, AnswerNotification(n) PROVE IInv'
  OBVIOUS
<1> DEFINE o == trigger[n].op
           read == trigger[n].read
<1>1. o \in Ops /\ read \in ReadState /\ phase # "down"
  BY DEF AnswerNotification, IInv, TypeOK, TriggerState, NamesOperation, WorkerRunsMine
<1>2. /\ TakeIn(o, read)
      /\ trigger' = [trigger EXCEPT ![n] = Quiet]
      /\ UNCHANGED <<status, phase, found, logged, notes, crashes, faults>> /\ left' \subseteq Ops
  BY DEF AnswerNotification, TakeIn, bounds, IInv, TypeOK
<1> HIDE DEF o, read
<1>3. /\ intake' \in Seq(Received) /\ worker' \in WorkerState /\ working' = TRUE
      /\ NoneWithoutWorker' /\ ReadAfterWait' /\ WaitedIsUnread'
      /\ worker' = worker \/ worker'.pc = "created"
  BY <1>1, <1>2, TakeInKeeps
<1>4. TypeOK'
  BY <1>2, <1>3, QuietIs DEF IInv, TypeOK
<1>5. \A m \in Slots : trigger'[m] = IF m = n THEN Quiet ELSE trigger[m]
  BY <1>2 DEF IInv, TypeOK
<1> QED
  BY <1>1, <1>2, <1>3, <1>4, <1>5, QuietIs
     DEF IInv, NamesOperation, WorkerRunsMine, WorkflowSeesQueued

-----------------------------------------------------------------------------
(* The instance's life, and the other writers of the graph.                *)

LEMMA CrashKeeps == IInv /\ Crash => IInv'
<1> SUFFICES ASSUME IInv, Crash PROVE IInv'
  OBVIOUS
<1>1. worker' \in WorkerState /\ worker'.pc = "none"
  BY NoWorkerIs DEF Crash, NoWorker
<1>2. trigger' \in [Slots -> TriggerState] /\ \A n \in Slots : trigger'[n].pc = "idle"
  BY QuietIs DEF Crash
<1>3. intake' \in Seq(Received) /\ Len(intake') = 0 /\ intake' = <<>>
  BY DEF Crash
<1>a. working' \in BOOLEAN
  BY Zenon DEF Crash
<1>b. crashes' \in 0..MaxCrashes
  BY DEF Crash, IInv, TypeOK
<1>4. TypeOK'
  BY <1>1, <1>2, <1>3, <1>a, <1>b DEF Crash, IInv, TypeOK
<1>5. NoneWithoutWorker' /\ WaitedIsUnread'
  BY <1>1, <1>3 DEF Crash, NoneWithoutWorker, WaitedIsUnread
<1> QED
  BY <1>1, <1>2, <1>4, <1>5 DEF Crash, IInv, ReadAfterWait, NamesOperation,
       WorkerRunsMine, WorkflowSeesQueued

(* A step that changes only the status of an Operation, and of none that   *)
(* this Resource issued to itself and runs by a workflow.                  *)
LEMMA StatusOnlyKeeps ==
  ASSUME IInv, NEW o \in Ops, NEW s \in Status, status' = [status EXCEPT ![o] = s],
         worker.pc \in {"workflow", "running"} /\ worker.op \in Own => worker.op # o,
         UNCHANGED <<phase, found, trigger, intake, working, worker, logged, left, notes,
                     crashes, faults>>
  PROVE  IInv'
<1>1. TypeOK'
  BY DEF IInv, TypeOK
<1>2. worker.pc \in {"workflow", "running"} /\ worker.op \in Own
        => status'[worker.op] = status[worker.op]
  BY DEF IInv, TypeOK, WorkerRunsMine
<1> QED
  BY <1>1, <1>2 DEF IInv, NoneWithoutWorker, ReadAfterWait, WaitedIsUnread,
       NamesOperation, WorkerRunsMine, WorkflowSeesQueued

LEMMA PeerCommitsKeeps ==
  ASSUME NEW o \in Ops PROVE IInv /\ PeerCommits(o) => IInv'
<1> SUFFICES ASSUME IInv, PeerCommits(o) PROVE IInv'
  OBVIOUS
<1>1. worker.pc \in {"workflow", "running"} => worker.op # o
  BY DEF PeerCommits, IInv, WorkerRunsMine
<1> QED BY <1>1, StatusOnlyKeeps DEF PeerCommits, Status, bounds

LEMMA FailOrphanKeeps ==
  ASSUME NEW o \in Ops PROVE IInv /\ FailOrphan(o) => IInv'
<1> SUFFICES ASSUME IInv, FailOrphan(o) PROVE IInv'
  OBVIOUS
<1>1. worker.pc \notin {"workflow", "running"}
  BY DEF FailOrphan, IInv, WorkerRunsMine
<1> QED BY <1>1, StatusOnlyKeeps DEF FailOrphan, Status, bounds

LEMMA IssueKeeps ==
  ASSUME NEW o \in Ops PROVE IInv /\ Issue(o) => IInv'
<1> SUFFICES ASSUME IInv, Issue(o) PROVE IInv'
  OBVIOUS
<1>1. worker.pc \in {"workflow", "running"} /\ worker.op \in Own => worker.op # o
  BY DEF Issue, IInv, WorkflowSeesQueued
<1> QED BY <1>1, StatusOnlyKeeps DEF Issue, Status, bounds

LEMMA FindQueuedKeeps == IInv /\ FindQueued => IInv'
<1> SUFFICES ASSUME IInv, FindQueued PROVE IInv'
  OBVIOUS
<1>1. TypeOK'
  BY DEF FindQueued, Found, bounds, IInv, TypeOK
<1> QED
  BY <1>1 DEF FindQueued, bounds, IInv, NoneWithoutWorker, ReadAfterWait, WaitedIsUnread,
       NamesOperation, WorkerRunsMine, WorkflowSeesQueued

LEMMA TakeUpKeeps == IInv /\ TakeUp => IInv'
<1> SUFFICES ASSUME IInv, TakeUp PROVE IInv'
  OBVIOUS
<1>0. found \subseteq Ops
  BY DEF IInv, TypeOK
<1>1. PICK order \in SetToSeqs(found) :
        intake' = [i \in 1..Len(order) |->
                     [op |-> order[i], read |-> None,
                      behind |-> IF i = 1 THEN "nobody" ELSE "worker"]]
  BY DEF TakeUp
<1>2. PICK n \in Nat : order \in [1..n -> found] /\ (found = {} => n = 0)
  <2>1. IsFiniteSet(found)
    BY <1>0, FS_Subset
  <2>2. Cardinality(found) \in Nat /\ (found = {} => Cardinality(found) = 0)
    BY <2>1, FS_CardinalityType, FS_EmptySet
  <2>3. order \in [1..Cardinality(found) -> found]
    BY DEF SetToSeqs
  <2> QED BY <2>2, <2>3
<1>3. order \in Seq(found) /\ Len(order) = n
  BY <1>2
<1>4. ASSUME NEW i \in 1..n
      PROVE  [op |-> order[i], read |-> None,
                      behind |-> IF i = 1 THEN "nobody" ELSE "worker"] \in Received
  BY <1>0, <1>2, <1>4 DEF Received, ReadState, Behind
<1>5. /\ intake' \in Seq(Received) /\ Len(intake') = n
      /\ \A i \in 1..n : intake'[i].read = None
  BY <1>1, <1>3, <1>4
<1>6. worker' \in WorkerState /\ worker'.pc \in {"none", "created"}
      /\ (worker'.pc = "none" <=> found = {})
  BY DEF TakeUp, NoWorker, WorkerState, ReadState, Behind
<1>7. TypeOK'
  BY <1>5, <1>6 DEF TakeUp, bounds, IInv, TypeOK
<1>8. found = {} => intake' = <<>>
  BY <1>2, <1>5
<1>9. NoneWithoutWorker' /\ WaitedIsUnread'
  <2>1. WaitedIsUnread'
    BY <1>5 DEF WaitedIsUnread
  <2>2. worker'.pc = "none" => DOMAIN intake' = {}
    BY <1>6, <1>8
  <2>3. working' <=> worker'.pc # "none"
    BY <1>6 DEF TakeUp
  <2> QED BY <2>1, <2>2, <2>3 DEF NoneWithoutWorker
<1> QED
  BY <1>6, <1>7, <1>9 DEF TakeUp, bounds, IInv, ReadAfterWait, NamesOperation,
       WorkerRunsMine, WorkflowSeesQueued

-----------------------------------------------------------------------------
(* The theorems.                                                           *)

LEMMA StepIInv == IInv /\ [Next]_vars => IInv'
<1> SUFFICES ASSUME IInv, [Next]_vars PROVE IInv'
  OBVIOUS
<1>1. CASE UNCHANGED vars
  BY <1>1 DEF vars, bounds, IInv, TypeOK, NoneWithoutWorker, ReadAfterWait,
       WaitedIsUnread, NamesOperation, WorkerRunsMine, WorkflowSeesQueued
<1>2. CASE WorkerStep
  BY <1>2, WorkerStepKeeps
<1>3. CASE StartupStep
  BY <1>3, FindQueuedKeeps, TakeUpKeeps, FailOrphanKeeps DEF StartupStep
<1>4. CASE Crash
  BY <1>4, CrashKeeps
<1>5. ASSUME NEW n \in Slots, TriggerStep(n) PROVE IInv'
  BY <1>5, ReadReceivedKeeps, RefuseNotificationKeeps, AnswerNotificationKeeps
     DEF TriggerStep
<1>6. ASSUME NEW n \in Slots, NEW o \in Ops, Notify(n, o) PROVE IInv'
  BY <1>6, NotifyKeeps
<1>7. ASSUME NEW o \in Ops, Issue(o) \/ PeerCommits(o) PROVE IInv'
  BY <1>7, IssueKeeps, PeerCommitsKeeps
<1> QED BY <1>1, <1>2, <1>3, <1>4, <1>5, <1>6, <1>7 DEF Next

LEMMA Invariance == Spec => []IInv
BY InitIInv, StepIInv, PTL DEF Spec

(* Every variable of the intake keeps its type, whatever the trigger, the  *)
(* worker of _work_intake, crashes and restarts do.                        *)
THEOREM TypeCorrect == Spec => []TypeOK
BY Invariance, PTL DEF IInv

(* Nothing lies in the FIFO without a task of _work_intake but what a      *)
(* worker has left that died of an error which is no Exception, and        *)
(* _intake_working is true just as long as that task lives.                *)
THEOREM WorkerForWaiting == Spec => []NoneWithoutWorker
BY Invariance, PTL DEF IInv

(* What a function of the domain is given was read after the last function *)
(* of the intake returned, if the Operation waited.                        *)
THEOREM ReadIsFresh == Spec => []ReadAfterWait
BY Invariance, PTL DEF IInv

-----------------------------------------------------------------------------
(* The life of the Operations of this Resource.                            *)

OwnStatus == [o \in Own |-> status[o]]

(* A move of one Operation of the Resource is a step of its life, a move   *)
(* of another one is none.                                                 *)
LEMMA MoveRefines ==
  ASSUME status \in [Ops -> Status], NEW o \in Ops, NEW s, status' = [status EXCEPT ![o] = s],
         o \in Own => \/ status[o] = "absent" /\ s = "queued"
                      \/ status[o] = "queued" /\ s = "running"
                      \/ status[o] = "running" /\ s = "ended"
  PROVE  [Life!Next]_OwnStatus
<1>1. CASE o \in Own
  <2>1. OwnStatus' = [OwnStatus EXCEPT ![o] = s] /\ OwnStatus[o] = status[o]
    BY <1>1 DEF OwnStatus
  <2> QED
    BY <1>1, <2>1 DEF OwnStatus, Life!Next, Life!Create, Life!Claim, Life!Finish, Life!Move
<1>2. CASE o \notin Own
  <2>1. OwnStatus' = OwnStatus
    BY <1>2 DEF OwnStatus
  <2> QED BY <2>1
<1> QED BY <1>1, <1>2

LEMMA SameRefines ==
  ASSUME status' = status
  PROVE  [Life!Next]_OwnStatus
BY DEF OwnStatus

LEMMA StepRefines ==
  IInv /\ [Next]_vars => [Life!Next]_OwnStatus
<1> SUFFICES ASSUME IInv, [Next]_vars
             PROVE  [Life!Next]_OwnStatus
  OBVIOUS
<1>0. status \in [Ops -> Status] /\ Mine \subseteq Ops
  BY DEF IInv, TypeOK
<1>1. CASE WorkflowClaims
  <2>1. worker.op \in Ops /\ (worker.op \in Own => status[worker.op] = "queued")
    BY <1>0, <1>1 DEF WorkflowClaims, IInv, WorkflowSeesQueued, WorkerRunsMine
  <2>2. status' = [status EXCEPT ![worker.op] = "running"]
    BY <1>1 DEF WorkflowClaims
  <2> QED BY <1>0, <2>1, <2>2, MoveRefines
<1>2. CASE WorkflowEnds
  <2>1. worker.op \in Ops /\ (worker.op \in Own => status[worker.op] = "running")
    BY <1>0, <1>2 DEF WorkflowEnds, IInv, WorkflowSeesQueued, WorkerRunsMine
  <2>2. status' = [status EXCEPT ![worker.op] = "ended"]
    BY <1>2 DEF WorkflowEnds
  <2> QED BY <1>0, <2>1, <2>2, MoveRefines
<1>3. ASSUME NEW o \in Ops, FailOrphan(o) \/ Issue(o) \/ PeerCommits(o)
      PROVE  [Life!Next]_OwnStatus
  BY <1>0, <1>3, MoveRefines DEF FailOrphan, Orphans, Issue, PeerCommits
<1>4. CASE WorkIntake \/ ReadBeforeRun \/ CheckFeedback \/ FunctionReturns \/ Raises
             \/ Escapes \/ FindQueued \/ TakeUp \/ Crash \/ UNCHANGED vars
  BY <1>4, SameRefines DEF WorkIntake, ReadBeforeRun, CheckFeedback, FunctionReturns, Raises,
     Escapes, FindQueued, TakeUp, Crash, vars
<1>5. ASSUME NEW n \in Slots, TriggerStep(n) \/ \E o \in Ops : Notify(n, o)
      PROVE  [Life!Next]_OwnStatus
  BY <1>5, SameRefines DEF TriggerStep, ReadReceived, RefuseNotification, AnswerNotification, Notify
<1> QED BY <1>1, <1>2, <1>3, <1>4, <1>5 DEF Next, WorkerStep, StartupStep

(* An Operation of this Resource is claimed only while it is queued and    *)
(* ended only while it runs, once, however often and late the trigger is   *)
(* told of it, and over any number of crashes and restarts: the feedback   *)
(* check, the second read and the query of the startup fit together.       *)
THEOREM OwnLifecycle == Spec => OwnLivesOnce
<1>1. Init => Life!Init
  BY DEF Init, Life!Init
<1>2. IInv /\ [Next]_vars => [Life!Next]_OwnStatus
  BY StepRefines
<1> QED BY <1>1, <1>2, Invariance, PTL DEF Spec, OwnLivesOnce, Life!Spec, OwnStatus
===============================================================================
