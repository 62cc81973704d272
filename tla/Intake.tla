------------------------------- MODULE Intake -------------------------------
(***************************************************************************)
(* The intake of one middleware instance with a notification handler       *)
(* (on_notification): the event trigger reads the Operation in a worker    *)
(* thread, puts it into the instance's FIFO, and one worker task runs the  *)
(* Operations one at a time.                                               *)
(*                                                                         *)
(* An action is what the event loop does between two awaits, or one read   *)
(* or commit of a worker thread.  A read keeps whether a function of the   *)
(* intake has returned since: such a read may tell of a state of the graph *)
(* that is over.                                                           *)
(***************************************************************************)
EXTENDS Naturals, Sequences, SequencesExt

CONSTANTS
  Ops,         \* the Operations this instance may be notified of
  Own,         \* those that this Resource issued
  Mine,        \* those that implement a Capability with a workflow here
  Slots,       \* requests to the event trigger that may be under way at once
  None,        \* no Operation
  MaxNotes,    \* bound on notifications
  MaxCrashes,  \* bound on crashes
  MaxFaults    \* bound on reads and functions that raise

ASSUME IntakeAssumption ==
  /\ IsFiniteSet(Ops) /\ Own \subseteq Ops /\ Mine \subseteq Ops
  /\ None \notin Ops
  /\ MaxNotes \in Nat /\ MaxCrashes \in Nat /\ MaxFaults \in Nat

VARIABLES
  status,    \* the graph: svc:hasOperationStatus, "absent" before it exists
  phase,     \* the instance: down, starting (with what it found), up
  found,     \* the queued Operations that the startup found
  trigger,   \* one record per request of the event trigger
  intake,    \* _intake: the FIFO of _Received
  working,   \* _intake_working
  worker,    \* the task of _work_intake
  logged,    \* the Operations for which an error was logged
  left,      \* those that a worker which died has left, until the next is taken in
  notes, crashes, faults

bounds == <<notes, crashes, faults>>
vars == <<status, phase, found, trigger, intake, working, worker, logged, left, bounds>>

(* How an Operation ended, done or failed, makes no difference here.       *)
Status == {"absent", "queued", "running", "ended"}

(* A read of the Operation: whether it was queued then, and whether the    *)
(* read is still from after the last function that returned.               *)
ReadState == [queued : BOOLEAN, fresh : BOOLEAN] \cup {None}
Read(o)   == [queued |-> status[o] = "queued", fresh |-> TRUE]
Aged(read) == IF read = None THEN None ELSE [read EXCEPT !.fresh = FALSE]

Quiet    == [pc |-> "idle", op |-> None, read |-> None]
NoWorker == [pc |-> "none", op |-> None, read |-> None, behind |-> "nobody"]

(* What an Operation of the FIFO was taken in behind: nothing, a worker    *)
(* that lives, or only what a worker that died has left.                   *)
Behind == {"nobody", "worker", "left"}

Received     == [op : Ops, read : ReadState, behind : Behind]
TriggerState == [pc : {"idle", "reading", "read"}, op : Ops \cup {None}, read : ReadState]
WorkerState  == [pc : {"none", "created", "reading", "checking", "workflow", "running",
                       "handler", "returned"},
                 op : Ops \cup {None}, read : ReadState, behind : Behind]

TypeOK ==
  /\ status \in [Ops -> Status]
  /\ phase \in {"down", "starting", "up"}
  /\ found \subseteq Ops
  /\ trigger \in [Slots -> TriggerState]
  /\ intake \in Seq(Received)
  /\ working \in BOOLEAN
  /\ worker \in WorkerState
  /\ logged \subseteq Ops /\ left \subseteq Ops
  /\ notes \in 0..MaxNotes /\ crashes \in 0..MaxCrashes /\ faults \in 0..MaxFaults

Init ==
  /\ status = [o \in Ops |-> "absent"]
  /\ phase = "down" /\ found = {}
  /\ trigger = [n \in Slots |-> Quiet]
  /\ intake = <<>> /\ working = FALSE /\ worker = NoWorker
  /\ logged = {} /\ left = {}
  /\ notes = 0 /\ crashes = 0 /\ faults = 0

-----------------------------------------------------------------------------
(* The graph, as the other parts change it.                                *)

Issue(o) ==
  /\ status[o] = "absent"
  /\ status' = [status EXCEPT ![o] = "queued"]
  /\ UNCHANGED <<phase, found, trigger, intake, working, worker, logged, left, bounds>>

(* A peer claims and ends what this Resource issued to the peer.           *)
PeerCommits(o) ==
  /\ o \notin Mine
  /\ \/ status[o] = "queued" /\ status' = [status EXCEPT ![o] = "running"]
     \/ status[o] = "running" /\ status' = [status EXCEPT ![o] = "ended"]
  /\ UNCHANGED <<phase, found, trigger, intake, working, worker, logged, left, bounds>>

-----------------------------------------------------------------------------
(* The FIFO and its worker.                                                *)

Fault == faults < MaxFaults /\ faults' = faults + 1

IssuedAndClaimed_Never(o) == o \in Own /\ status[o] = "absent"
IssuedAndClaimed(o) == o \in Own /\ status[o] # "queued"

Predecessor == IF working THEN "worker" ELSE IF intake = <<>> THEN "nobody" ELSE "left"

Entry_Kept(o, read) == [op |-> o, read |-> read, behind |-> Predecessor]

(* _take_in: the read of an Operation that finds a worker is dropped.      *)
Entry(o, read) ==
  [op |-> o, read |-> IF working THEN None ELSE read, behind |-> Predecessor]

TakeIn(o, read) ==
  /\ intake' = Append(intake, Entry(o, read))
  /\ working' = TRUE
  /\ worker' = IF working THEN worker ELSE [NoWorker EXCEPT !.pc = "created"]
  /\ left' = IF working THEN left ELSE {}

(* The worker goes on with an Operation that it has read.                  *)
Matched(item) ==
  [item EXCEPT !.pc = IF item.op \in Mine THEN "checking" ELSE "handler"]

(* _work_intake's loop: the next Operation, or the end of the worker.      *)
Popped(item) ==
  LET taken == [NoWorker EXCEPT !.op = item.op, !.read = item.read, !.behind = item.behind]
  IN IF item.read = None THEN [taken EXCEPT !.pc = "reading"] ELSE Matched(taken)

NextReceived_StaysWorking ==
  IF intake = <<>>
  THEN worker' = NoWorker /\ UNCHANGED <<intake, working>>
  ELSE worker' = Popped(Head(intake)) /\ intake' = Tail(intake) /\ UNCHANGED working

NextReceived ==
  IF intake = <<>>
  THEN working' = FALSE /\ worker' = NoWorker /\ UNCHANGED intake
  ELSE worker' = Popped(Head(intake)) /\ intake' = Tail(intake) /\ UNCHANGED working

WorkIntake ==
  /\ worker.pc \in {"created", "returned"}
  /\ NextReceived
  /\ UNCHANGED <<status, phase, found, trigger, logged, left, bounds>>

(* Every read is from before this return from now on.                      *)
AgeTriggers == trigger' = [n \in Slots |-> [trigger[n] EXCEPT !.read = Aged(@)]]

Returned == worker' = [NoWorker EXCEPT !.pc = "returned"]

(* An Exception is logged, and the worker goes on.                         *)
Raises ==
  /\ worker.pc \in {"reading", "checking", "workflow", "running", "handler"}
  /\ Fault
  /\ logged' = logged \cup {worker.op}
  /\ Returned /\ AgeTriggers
  /\ UNCHANGED <<status, phase, found, intake, working, left, notes, crashes>>

(* What a function raises that is no Exception, such as the CancelledError *)
(* of a future that a coroutine function awaits, is not caught: it ends    *)
(* _work_intake with its loop, and what lies in the FIFO has no worker.    *)
Escapes ==
  /\ worker.pc \in {"workflow", "running", "handler"}
  /\ Fault
  /\ working' = FALSE /\ worker' = NoWorker
  /\ left' = {worker.op} \cup {intake[i].op : i \in DOMAIN intake}
  /\ AgeTriggers
  /\ UNCHANGED <<status, phase, found, intake, logged, notes, crashes>>

ReadBeforeRun ==
  /\ worker.pc = "reading"
  /\ worker' = Matched([worker EXCEPT !.read = Read(worker.op)])
  /\ UNCHANGED <<status, phase, found, trigger, intake, working, logged, left, bounds>>

(* The feedback of an Operation of this Resource is no work for it.        *)
CheckFeedback ==
  /\ worker.pc = "checking"
  /\ worker' = [worker EXCEPT !.pc =
                  IF IssuedAndClaimed(worker.op) THEN "handler" ELSE "workflow"]
  /\ UNCHANGED <<status, phase, found, trigger, intake, working, logged, left, bounds>>

(* A workflow that goes by the Operation object it is given: it commits    *)
(* the claim of one that is queued and leaves any other alone.             *)
WorkflowClaims ==
  /\ worker.pc = "workflow" /\ worker.read.queued
  /\ status' = [status EXCEPT ![worker.op] = "running"]
  /\ worker' = [NoWorker EXCEPT !.pc = "running", !.op = worker.op]
  /\ UNCHANGED <<phase, found, trigger, intake, working, logged, left, bounds>>

WorkflowEnds ==
  /\ worker.pc = "running"
  /\ status' = [status EXCEPT ![worker.op] = "ended"]
  /\ Returned /\ AgeTriggers
  /\ UNCHANGED <<phase, found, intake, working, logged, left, bounds>>

FunctionReturns ==
  /\ \/ worker.pc = "handler"
     \/ worker.pc = "workflow" /\ ~worker.read.queued
  /\ Returned /\ AgeTriggers
  /\ UNCHANGED <<status, phase, found, intake, working, logged, left, bounds>>

-----------------------------------------------------------------------------
(* The event trigger.                                                      *)

(* A notification names an Operation and nothing else: it may be late,     *)
(* repeated, of the work or of its feedback.                               *)
Notify(n, o) ==
  /\ phase = "up" /\ trigger[n].pc = "idle" /\ status[o] # "absent"
  /\ notes < MaxNotes /\ notes' = notes + 1
  /\ trigger' = [trigger EXCEPT ![n] = [Quiet EXCEPT !.pc = "reading", !.op = o]]
  /\ UNCHANGED <<status, phase, found, intake, working, worker, logged, left, crashes, faults>>

ReadReceived(n) ==
  /\ trigger[n].pc = "reading"
  /\ trigger' = [trigger EXCEPT ![n].pc = "read", ![n].read = Read(trigger[n].op)]
  /\ UNCHANGED <<status, phase, found, intake, working, worker, logged, left, bounds>>

(* A read that fails is raised to the notifier.                            *)
RefuseNotification(n) ==
  /\ trigger[n].pc = "reading" /\ Fault
  /\ trigger' = [trigger EXCEPT ![n] = Quiet]
  /\ UNCHANGED <<status, phase, found, intake, working, worker, logged, left, notes, crashes>>

AnswerNotification(n) ==
  /\ trigger[n].pc = "read"
  /\ TakeIn(trigger[n].op, trigger[n].read)
  /\ trigger' = [trigger EXCEPT ![n] = Quiet]
  /\ UNCHANGED <<status, phase, found, logged, bounds>>

-----------------------------------------------------------------------------
(* The instance's life.                                                    *)

Crash ==
  /\ phase # "down" /\ crashes < MaxCrashes /\ crashes' = crashes + 1
  /\ phase' = "down" /\ found' = {}
  /\ trigger' = [n \in Slots |-> Quiet]
  /\ intake' = <<>> /\ working' = FALSE /\ worker' = NoWorker
  /\ left' = {}
  /\ UNCHANGED <<status, logged, notes, faults>>

(* Startup: the own orphans become failed, then the queued are queried.    *)
Orphans == {o \in Mine : status[o] = "running"}

FailOrphan(o) ==
  /\ phase = "down" /\ o \in Orphans
  /\ status' = [status EXCEPT ![o] = "ended"]
  /\ UNCHANGED <<phase, found, trigger, intake, working, worker, logged, left, bounds>>

Found_Peers == {o \in Mine \ Own : status[o] = "queued"}
Found == {o \in Mine : status[o] = "queued"}

FindQueued ==
  /\ phase = "down" /\ Orphans = {}
  /\ phase' = "starting"
  /\ found' = Found
  /\ UNCHANGED <<status, trigger, intake, working, worker, logged, left, bounds>>

TakeUp ==
  /\ phase = "starting"
  /\ phase' = "up" /\ found' = {}
  /\ \E order \in SetToSeqs(found) :
       LET received(i) == [op |-> order[i], read |-> None,
                           behind |-> IF i = 1 THEN "nobody" ELSE "worker"]
       IN intake' = [i \in 1..Len(order) |-> received(i)]
  /\ working' = (found # {})
  /\ worker' = IF found = {} THEN NoWorker ELSE [NoWorker EXCEPT !.pc = "created"]
  /\ UNCHANGED <<status, trigger, logged, left, bounds>>

-----------------------------------------------------------------------------
WorkerStep ==
  WorkIntake \/ ReadBeforeRun \/ CheckFeedback \/ WorkflowClaims \/ WorkflowEnds
    \/ FunctionReturns \/ Raises \/ Escapes

TriggerStep(n) == ReadReceived(n) \/ RefuseNotification(n) \/ AnswerNotification(n)

StartupStep == FindQueued \/ TakeUp \/ \E o \in Ops : FailOrphan(o)

Next ==
  \/ WorkerStep \/ StartupStep \/ Crash
  \/ \E n \in Slots : TriggerStep(n)
  \/ \E n \in Slots, o \in Ops : Notify(n, o)
  \/ \E o \in Ops : Issue(o) \/ PeerCommits(o)

(* The event loop schedules every task, a worker thread ends its read, and *)
(* a function of the domain returns; the process is started again.         *)
Fairness == WF_vars(WorkerStep) /\ WF_vars(StartupStep) /\ \A n \in Slots : WF_vars(TriggerStep(n))

Spec == Init /\ [][Next]_vars /\ Fairness

-----------------------------------------------------------------------------
(* _intake_working is true just as long as the worker lives: the worker    *)
(* that finds the FIFO empty is gone before the next Operation is taken in *)
(* (_work_intake's finally).  Whatever is in the FIFO has a worker, unless *)
(* a function has ended it by what is no Exception; the next Operation     *)
(* that is taken in starts the worker of all of them.                      *)
NoneWithoutWorker ==
  /\ worker.pc = "none" => \A i \in DOMAIN intake : intake[i].op \in left
  /\ working <=> worker.pc # "none"

(* "An Operation that waited behind another one is read again before it    *)
(* runs": what a function is given after it waited for the worker was read *)
(* after the last one returned.  What is taken in behind those that a dead *)
(* worker left keeps its read, and is not meant.                           *)
ReadAfterWait ==
  worker.pc \in {"checking", "workflow", "handler"} /\ worker.behind = "worker"
    => worker.read.fresh

(* The Operations of this Resource, among those that the intake handles.   *)
Life == INSTANCE OperationLifecycle WITH Ops <- Own, status <- [o \in Own |-> status[o]]

(* An Operation of this Resource lives once: a workflow claims it only     *)
(* while it is queued and ends it only while it runs, and nothing starts   *)
(* it again after its end, however often and late its notifications come,  *)
(* whatever a read, a restart or a recovery of orphans comes in between.   *)
OwnLivesOnce == Life!Spec

(* A queued Operation for this instance survives the instance: it is taken *)
(* up at the start and claimed, unless its run is logged as an error or    *)
(* the worker died of it or before it.                                     *)
QueuedIsRun ==
  \A o \in Mine :
    (status[o] = "queued" /\ phase = "down") ~> (status[o] # "queued" \/ o \in logged \cup left)
=============================================================================
