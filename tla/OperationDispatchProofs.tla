------------------------ MODULE OperationDispatchProofs ------------------------
(***************************************************************************)
(* Proofs about the dispatch of Operations, for any number of Operations,  *)
(* instances, threads, ends of processes and faults.                       *)
(***************************************************************************)
EXTENDS OperationDispatch, FiniteSetTheorems, TLAPS

(* A part of the state that a step leaves alone keeps its type. *)
LEMMA Kept ==
  /\ GraphOK /\ UNCHANGED graph => GraphOK'
  /\ MemoryOK /\ UNCHANGED memory => MemoryOK'
  /\ PostOK /\ UNCHANGED post => PostOK'
  /\ SweepOK /\ UNCHANGED sweep => SweepOK'
  /\ BoundsOK /\ UNCHANGED bounds => BoundsOK'
<1>1. GraphOK /\ UNCHANGED graph => GraphOK'
  BY DEF GraphOK, graph
<1>2. MemoryOK /\ UNCHANGED memory => MemoryOK'
  BY DEF MemoryOK, memory
<1>3. PostOK /\ UNCHANGED post => PostOK'
  BY DEF PostOK
<1>4. SweepOK /\ UNCHANGED sweep => SweepOK'
  BY DEF SweepOK
<1>5. BoundsOK /\ UNCHANGED bounds => BoundsOK'
  BY DEF BoundsOK, bounds
<1> QED BY <1>1, <1>2, <1>3, <1>4, <1>5

-----------------------------------------------------------------------------
(* The helpers keep their types. *)

LEMMA OrdersAreSequences ==
  ASSUME NEW S, S \subseteq Ops PROVE Orders(S) \subseteq Seq(Ops)
<1>1. Cardinality(S) \in Nat
  BY DispatchAssumption, FS_Subset, FS_CardinalityType DEF DispatchAssumption
<1>2. SUFFICES ASSUME NEW s \in [1..Cardinality(S) -> S] PROVE s \in Seq(Ops)
  BY DEF Orders
<1>3. s \in Seq(S)
  BY <1>1
<1> QED BY <1>3

LEMMA FeedbackType ==
  ASSUME PostOK, NEW o, NEW kind, Feedback(o, kind) PROVE PostOK'
<1>1. [pc |-> "due", to |-> None] \in PostState
  BY DEF PostState
<1>2. [post EXCEPT ![<<o, kind>>] = [pc |-> "due", to |-> None]] \in [Ops \X Kinds -> PostState]
  BY <1>1 DEF PostOK
<1> QED BY <1>2 DEF Feedback, PostOK

(* A slot's move to another stage keeps the notifications' type. *)
LEMMA StageType ==
  ASSUME PostOK, NEW m \in Ops \X Kinds,
         NEW stage \in {"none", "found", "due", "received", "read", "over"},
         post' = [post EXCEPT ![m].pc = stage]
  PROVE  PostOK'
<1>1. post[m] \in PostState
  BY DEF PostOK
<1>2. [post[m] EXCEPT !.pc = stage] \in PostState
  BY <1>1 DEF PostState
<1> QED BY <1>2 DEF PostOK

LEMMA TaskUpdateType ==
  ASSUME MemoryOK, NEW i, NEW t, NEW state \in TaskState
  PROVE  [task EXCEPT ![i][t] = state] \in [Instances -> [Tasks -> TaskState]]
BY DEF MemoryOK

LEMMA IdleType == Idle \in TaskState
BY DEF Idle, TaskState

LEMMA ForgetType ==
  ASSUME MemoryOK, NEW i \in Instances, Forget(i) PROVE MemoryOK'
<1>1. phase' \in [Instances -> Phases] /\ orphans' \in [Instances -> SUBSET Ops]
  BY DEF MemoryOK, Forget, Phases
<1>2. scheduled' \in [Instances -> Nat]
  BY DEF MemoryOK, Forget
<1>3. << >> \in Seq(Ops)
  OBVIOUS
<1>4. queue' \in [Instances -> Seq(Ops)]
  BY <1>3 DEF MemoryOK, Forget
<1>5. [t \in Tasks |-> Idle] \in [Tasks -> TaskState]
  BY IdleType
<1>6. task' \in [Instances -> [Tasks -> TaskState]]
  BY <1>5 DEF MemoryOK, Forget
<1> QED BY <1>1, <1>2, <1>4, <1>6 DEF MemoryOK

LEMMA FaultType == \A part : faults \in Nat /\ Fault(part) => faults' \in Nat
BY DEF Fault

-----------------------------------------------------------------------------
(* Type correctness, one lemma for each part of the system.                *)

LEMMA StartupType ==
  ASSUME TypeOK, NEW i \in Instances, Startup(i) PROVE TypeOK'
<1> USE DEF TypeOK
<1>1. CASE Register(i)
  <2>1. GraphOK'
    BY <1>1 DEF Register, GraphOK
  <2>2. MemoryOK'
    BY <1>1 DEF Register, MemoryOK, Phases
  <2> QED BY <1>1, <2>1, <2>2, Kept DEF Register
<1>2. CASE ReadOrphans(i)
  <2>1. Stranded({"running"}, LiveOnRestart(i)) \in SUBSET Ops
    BY DEF Stranded
  <2>2. MemoryOK'
    BY <1>2, <2>1 DEF ReadOrphans, MemoryOK, Phases
  <2> QED BY <1>2, <2>2, Kept DEF ReadOrphans
<1>3. ASSUME NEW o \in Ops, FailOrphan(i, o) PROVE TypeOK'
  <2>1. PostOK'
    BY <1>3, FeedbackType DEF FailOrphan
  <2>2. GraphOK'
    BY <1>3 DEF FailOrphan, GraphOK, Status
  <2>3. MemoryOK'
    BY <1>3 DEF FailOrphan, MemoryOK
  <2> QED BY <1>3, <2>1, <2>2, <2>3, Kept DEF FailOrphan
<1>4. CASE TakeUpQueued(i)
  <2>1. Orders(OwnQueued) \subseteq Seq(Ops)
    BY OrdersAreSequences DEF OwnQueued
  <2>2. PICK s \in Seq(Ops) : queue' = [queue EXCEPT ![i] = s]
    BY <1>4, <2>1 DEF TakeUpQueued
  <2>3. MemoryOK'
    BY <1>4, <2>2 DEF TakeUpQueued, MemoryOK, Phases
  <2> QED BY <1>4, <2>3, Kept DEF TakeUpQueued
<1>5. CASE Publish(i)
  <2>1. GraphOK'
    BY <1>5 DEF Publish, GraphOK
  <2>2. MemoryOK'
    BY <1>5 DEF Publish, MemoryOK, Phases
  <2> QED BY <1>5, <2>1, <2>2, Kept DEF Publish
<1> QED BY <1>1, <1>2, <1>3, <1>4, <1>5 DEF Startup

LEMMA HeartbeatType ==
  ASSUME TypeOK, NEW i \in Instances, Beat(i) \/ Age(i) PROVE TypeOK'
<1> USE DEF TypeOK
<1>1. GraphOK'
  BY DEF Beat, Age, GraphOK
<1>2. CASE Beat(i)
  BY <1>1, <1>2, Kept DEF Beat
<1>3. CASE Age(i)
  <2>1. BoundsOK'
    BY <1>3, FaultType DEF Age, BoundsOK
  <2> QED BY <1>1, <1>3, <2>1, Kept DEF Age
<1> QED BY <1>2, <1>3

LEMMA IssueType ==
  ASSUME TypeOK, NEW o \in Ops, Issue(o) PROVE TypeOK'
<1> USE DEF TypeOK
<1>0. <<o, "work">> \in Ops \X Kinds
  BY DEF Kinds
<1>1. CASE Discover(o)
  <2>1. [pc |-> "found", to |-> realizer] \in PostState
    BY DEF GraphOK, PostState
  <2>2. PostOK'
    BY <1>1, <2>1 DEF Discover, PostOK
  <2> QED BY <1>1, <2>2, Kept DEF Discover
<1>2. CASE Create(o)
  <2>1. PostOK'
    BY <1>0, <1>2, StageType DEF Create
  <2>2. GraphOK'
    BY <1>2 DEF Create, GraphOK, Status
  <2> QED BY <1>2, <2>1, <2>2, Kept DEF Create
<1>3. CASE Deliver(o)
  <2>1. PostOK'
    BY <1>0, <1>3, StageType DEF Deliver
  <2>2. BoundsOK'
    BY <1>3, FaultType DEF Deliver, BoundsOK
  <2> QED BY <1>3, <2>1, <2>2, Kept DEF Deliver
<1> QED BY <1>1, <1>2, <1>3 DEF Issue

LEMMA TriggerType ==
  ASSUME TypeOK, NEW m \in Ops \X Kinds, Trigger(m) \/ SendFeedback(m[1], m[2])
  PROVE  TypeOK'
<1> USE DEF TypeOK
<1>0. m = <<m[1], m[2]>> /\ m[1] \in Ops
  OBVIOUS
<1>1. CASE SendFeedback(m[1], m[2])
  <2>1. CASE post' = [post EXCEPT ![m].pc = "over"]
    BY <1>1, <2>1, StageType, Kept DEF SendFeedback
  <2>2. ASSUME NEW i \in Instances, post' = [post EXCEPT ![m] = [pc |-> "received", to |-> i]]
        PROVE  TypeOK'
    <3>1. [pc |-> "received", to |-> i] \in PostState
      BY DEF PostState
    <3>2. PostOK'
      BY <2>2, <3>1 DEF PostOK
    <3> QED BY <1>1, <3>2, Kept DEF SendFeedback
  <2> QED BY <1>0, <1>1, <2>1, <2>2 DEF SendFeedback
<1>2. CASE ReadTrigger(m)
  BY <1>2, StageType, Kept DEF ReadTrigger
<1>3. CASE Enqueue(m)
  <2>1. PostOK'
    BY <1>3, StageType DEF Enqueue
  <2>2. phase' = phase /\ orphans' = orphans /\ task' = task
    BY <1>3 DEF Enqueue
  <2>3. \A q \in Seq(Ops) : Enqueued(q, m[1]) \in Seq(Ops)
    BY <1>0 DEF Enqueued
  <2>4. queue' \in [Instances -> Seq(Ops)]
    BY <1>3, <2>3 DEF Enqueue, MemoryOK
  <2>5. scheduled' \in [Instances -> Nat]
    <3> DEFINE i == post[m].to
               n == IF Callback /\ i \in Claimers THEN scheduled[i] + 1 ELSE scheduled[i]
    <3>1. scheduled' = [scheduled EXCEPT ![i] = n]
      BY <1>3 DEF Enqueue
    <3>2. i \in Instances => n \in Nat
      BY DEF MemoryOK
    <3> HIDE DEF n
    <3> QED BY <3>1, <3>2 DEF MemoryOK
  <2>6. MemoryOK'
    BY <2>2, <2>4, <2>5 DEF MemoryOK
  <2> QED BY <1>3, <2>1, <2>6, Kept DEF Enqueue
<1> QED BY <1>1, <1>2, <1>3 DEF Trigger

LEMMA ClaimType ==
  ASSUME TypeOK, NEW i \in Instances, NEW t \in Tasks, Claim(i, t) PROVE TypeOK'
<1> USE DEF TypeOK
<1>0. task[i][t] \in TaskState /\ queue[i] \in Seq(Ops) /\ realizer \in Instances \cup {None}
  BY DEF MemoryOK, GraphOK
<1>1. CASE Peek(i, t)
  <2>0. scheduled' \in [Instances -> Nat]
    <3>1. scheduled \in [Instances -> Nat]
      BY DEF MemoryOK
    <3>2. CASE Callback
      <4>1. scheduled[i] \in Nat /\ scheduled[i] > 0
        BY <1>1, <3>1, <3>2 DEF Peek
      <4>2. scheduled[i] - 1 \in Nat
        BY <4>1
      <4>3. scheduled' = [scheduled EXCEPT ![i] = scheduled[i] - 1]
        BY <1>1, <3>2 DEF Peek
      <4> QED BY <3>1, <4>2, <4>3
    <3>3. CASE ~Callback
      BY <1>1, <3>1, <3>3 DEF Peek
    <3> QED BY <3>2, <3>3
  <2>a. phase' = phase /\ orphans' = orphans /\ queue' = queue
    BY <1>1 DEF Peek
  <2>1. CASE queue[i] = <<>>
    <3>0. task' = task
      BY <1>1, <2>1 DEF Peek
    <3>1. MemoryOK'
      BY <2>0, <2>a, <3>0 DEF MemoryOK
    <3> QED BY <1>1, <3>1, Kept DEF Peek
  <2>2. CASE queue[i] # <<>>
    <3>1. [pc |-> "resolving", op |-> Head(queue[i]), workflow |-> None] \in TaskState
      BY <1>0, <2>2 DEF TaskState
    <3>2. task' \in [Instances -> [Tasks -> TaskState]]
      BY <1>1, <2>2, <3>1, TaskUpdateType DEF Peek
    <3>3. MemoryOK'
      BY <2>0, <2>a, <3>2 DEF MemoryOK
    <3> QED BY <1>1, <3>3, Kept DEF Peek
  <2> QED BY <2>1, <2>2
<1>2. CASE Resolve(i, t)
  <2>1. BoundsOK'
    BY <1>2, FaultType DEF Resolve, BoundsOK
  <2>2. CASE /\ queue[i] # <<>> /\ queue' = [queue EXCEPT ![i] = Tail(@)]
             /\ task' = [task EXCEPT ![i][t].pc = "claiming", ![i][t].workflow = realizer]
    <3>1. task' = [task EXCEPT ![i][t] = [task[i][t] EXCEPT !.pc = "claiming", !.workflow = realizer]]
      BY <2>2 DEF MemoryOK
    <3>2. [task[i][t] EXCEPT !.pc = "claiming", !.workflow = realizer] \in TaskState
      BY <1>0 DEF TaskState
    <3>3. task' \in [Instances -> [Tasks -> TaskState]]
      BY <3>1, <3>2, TaskUpdateType
    <3>4. Tail(queue[i]) \in Seq(Ops)
      BY <1>0, <2>2
    <3>5. queue' \in [Instances -> Seq(Ops)]
      BY <2>2, <3>4 DEF MemoryOK
    <3>6. MemoryOK'
      BY <1>2, <3>3, <3>5 DEF Resolve, MemoryOK
    <3> QED BY <1>2, <2>1, <3>6, Kept DEF Resolve
  <2>3. CASE task' = [task EXCEPT ![i][t] = Idle] /\ UNCHANGED queue
    <3>1. task' \in [Instances -> [Tasks -> TaskState]]
      BY <2>3, IdleType, TaskUpdateType
    <3>2. MemoryOK'
      BY <1>2, <2>3, <3>1 DEF Resolve, MemoryOK
    <3> QED BY <1>2, <2>1, <3>2, Kept DEF Resolve
  <2> QED BY <1>2, <2>2, <2>3 DEF Resolve
<1>3. CASE CommitClaim(i, t)
  <2>1. status' \in [Ops -> Status] /\ executor' \in [Ops -> Instances \cup {None}]
    BY <1>3 DEF CommitClaim, GraphOK, Status
  <2>2. GraphOK'
    BY <1>3, <2>1 DEF CommitClaim, GraphOK
  <2>3. PostOK'
    BY <1>3, FeedbackType DEF CommitClaim
  <2>4. task' = [task EXCEPT ![i][t] = [task[i][t] EXCEPT !.pc = "body"]]
    BY <1>3 DEF CommitClaim, MemoryOK
  <2>5. [task[i][t] EXCEPT !.pc = "body"] \in TaskState
    BY <1>0 DEF TaskState
  <2>6. task' \in [Instances -> [Tasks -> TaskState]]
    BY <2>4, <2>5, TaskUpdateType
  <2>7. MemoryOK'
    BY <1>3, <2>6 DEF CommitClaim, MemoryOK
  <2> QED BY <1>3, <2>2, <2>3, <2>7, Kept DEF CommitClaim
<1>4. CASE RefuseClaim(i, t) \/ LoseEnd(i, t)
  <2>0. task[i][t].op \in Ops \cup {None}
    BY <1>0 DEF TaskState
  <2>1. BoundsOK'
    BY <1>4, <2>0, FaultType DEF RefuseClaim, LoseEnd, BoundsOK
  <2>a. task' = [task EXCEPT ![i][t] = Idle]
    BY <1>4 DEF RefuseClaim, LoseEnd
  <2>2. task' \in [Instances -> [Tasks -> TaskState]]
    BY <2>a, IdleType, TaskUpdateType
  <2>3. MemoryOK'
    BY <1>4, <2>2 DEF RefuseClaim, LoseEnd, MemoryOK
  <2> QED BY <1>4, <2>1, <2>3, Kept DEF RefuseClaim, LoseEnd
<1>5. ASSUME NEW outcome \in Terminal, End(i, t, outcome) PROVE TypeOK'
  <2>1. status' \in [Ops -> Status]
    BY <1>5 DEF End, GraphOK, Status, Terminal
  <2>2. (IF i \in Exposers THEN i ELSE task[i][t].workflow) \in Instances \cup {None}
    BY <1>0 DEF TaskState
  <2>3. executor' \in [Ops -> Instances \cup {None}]
    BY <1>5, <2>2 DEF End, GraphOK
  <2>4. GraphOK'
    BY <1>5, <2>1, <2>3 DEF End, GraphOK
  <2>5. PostOK'
    BY <1>5, FeedbackType DEF End
  <2>6. task' \in [Instances -> [Tasks -> TaskState]]
    BY <1>5, IdleType, TaskUpdateType DEF End
  <2>7. MemoryOK'
    BY <1>5, <2>6 DEF End, MemoryOK
  <2> QED BY <1>5, <2>4, <2>5, <2>7, Kept DEF End
<1> QED BY <1>1, <1>2, <1>3, <1>4, <1>5 DEF Claim

LEMMA ProcessType ==
  ASSUME TypeOK, NEW i \in Instances, Crash(i) \/ Stop(i) \/ Deregister(i) \/ Exit(i)
  PROVE  TypeOK'
<1> USE DEF TypeOK
<1>1. CASE Crash(i)
  <2>1. ASSUME NEW m \in Ops \X Kinds PROVE [post[m] EXCEPT !.pc = "over"] \in PostState
    BY DEF PostOK, PostState
  <2>2. PostOK'
    BY <1>1, <2>1 DEF Crash, PostOK
  <2>3. MemoryOK'
    BY <1>1, ForgetType DEF Crash
  <2>4. BoundsOK'
    BY <1>1 DEF Crash, BoundsOK
  <2> QED BY <1>1, <2>2, <2>3, <2>4, Kept DEF Crash
<1>2. CASE Stop(i)
  <2>1. MemoryOK'
    BY <1>2 DEF Stop, MemoryOK, Phases
  <2>2. BoundsOK'
    BY <1>2 DEF Stop, BoundsOK
  <2> QED BY <1>2, <2>1, <2>2, Kept DEF Stop
<1>3. CASE Deregister(i)
  <2>1. GraphOK'
    BY <1>3 DEF DropAddress, Deregister, GraphOK
  <2>2. MemoryOK'
    BY <1>3 DEF Deregister, MemoryOK, Phases
  <2>3. BoundsOK'
    BY <1>3, FaultType DEF Deregister, BoundsOK
  <2> QED BY <1>3, <2>1, <2>2, <2>3, Kept DEF Deregister
<1>4. CASE Exit(i)
  <2>1. MemoryOK'
    BY <1>4, ForgetType DEF Exit
  <2> QED BY <1>4, <2>1, Kept DEF Exit
<1> QED BY <1>1, <1>2, <1>3, <1>4

LEMMA SweepTypeStep ==
  ASSUME TypeOK, Sweep PROVE TypeOK'
<1> USE DEF TypeOK
<1>0. NoSweep \in SweepState
  BY DEF NoSweep, SweepState
<1>1. CASE SweepBegin
  <2>1. SweepOK'
    BY <1>0, <1>1 DEF SweepBegin, SweepOK, SweepState, Beating
  <2> QED BY <1>1, <2>1, Kept DEF SweepBegin
<1>2. CASE SweepEnd
  <2>1. SweepOK'
    BY <1>0, <1>2 DEF SweepEnd, SweepOK
  <2> QED BY <1>2, <2>1, Kept DEF SweepEnd
<1>3. ASSUME NEW i \in Instances, SweepRead(i) PROVE TypeOK'
  <2>1. Stranded({"queued", "running"}, sweep.recent \cup Beating) \in SUBSET Ops
    BY DEF Stranded
  <2>2. SweepOK'
    BY <1>3, <2>1 DEF SweepRead, SweepOK, SweepState
  <2>3. BoundsOK'
    BY <1>3, FaultType DEF SweepRead, BoundsOK
  <2> QED BY <1>3, <2>2, <2>3, Kept DEF SweepRead
<1>4. ASSUME NEW o \in Ops, SweepFail(o) PROVE TypeOK'
  <2>1. PostOK'
    BY <1>4, FeedbackType DEF SweepFail
  <2>2. SweepOK'
    BY <1>4 DEF SweepFail, SweepOK, SweepState
  <2>3. GraphOK'
    BY <1>4 DEF SweepFail, GraphOK, Status
  <2> QED BY <1>4, <2>1, <2>2, <2>3, Kept DEF SweepFail
<1>5. ASSUME NEW o \in Ops, SweepMiss(o) PROVE TypeOK'
  <2>1. SweepOK'
    BY <1>5 DEF SweepMiss, SweepOK, SweepState
  <2>2. BoundsOK'
    BY <1>5, FaultType DEF SweepMiss, BoundsOK
  <2> QED BY <1>5, <2>1, <2>2, Kept DEF SweepMiss
<1>6. CASE SweepDeregister
  <2>1. SweepOK'
    BY <1>6 DEF SweepDeregister, SweepOK, SweepState
  <2>2. BoundsOK'
    BY <1>6, FaultType DEF SweepDeregister, BoundsOK
  <2>3. GraphOK'
    BY <1>6 DEF DropAddress, SweepDeregister, GraphOK
  <2> QED BY <1>6, <2>1, <2>2, <2>3, Kept DEF SweepDeregister
<1> QED BY <1>1, <1>2, <1>3, <1>4, <1>5, <1>6 DEF Sweep

LEMMA TypeStep == TypeOK /\ [Next]_vars => TypeOK'
<1> SUFFICES ASSUME TypeOK, [Next]_vars PROVE TypeOK'
  OBVIOUS
<1>1. CASE UNCHANGED vars
  BY <1>1, Kept DEF vars, TypeOK
<1> QED
  BY <1>1, StartupType, HeartbeatType, IssueType, TriggerType, ClaimType, ProcessType,
     SweepTypeStep DEF Next

LEMMA TypeInit == Init => TypeOK
<1> SUFFICES ASSUME Init PROVE TypeOK
  OBVIOUS
<1>1. GraphOK
  BY DEF Init, GraphOK, Status
<1>2. phase \in [Instances -> Phases] /\ orphans \in [Instances -> SUBSET Ops]
  BY DEF Init, Phases
<1>3. queue \in [Instances -> Seq(Ops)] /\ scheduled \in [Instances -> Nat]
  BY DEF Init
<1>4. task \in [Instances -> [Tasks -> TaskState]]
  BY IdleType DEF Init
<1>5. PostOK
  BY DEF Init, PostOK, PostState, NoPost
<1>6. SweepOK
  BY DEF Init, SweepOK, SweepState, NoSweep
<1>7. BoundsOK
  BY DEF Init, BoundsOK
<1> QED BY <1>1, <1>2, <1>3, <1>4, <1>5, <1>6, <1>7 DEF MemoryOK, TypeOK

(* The graph, the memory of the instances, the notifications and the sweep *)
(* keep their types; in particular an Operation's status is always one of  *)
(* the four of service-shapes.ttl once it exists.                          *)
THEOREM TypeCorrect == Spec => []TypeOK
BY TypeInit, TypeStep, PTL DEF Spec

-----------------------------------------------------------------------------
(* Feedback is no work.  A notification of a claim or an end is posted only *)
(* after the status has left "queued", and the status never comes back to  *)
(* it: it is written once, by issue_operation, for an Operation nobody can *)
(* know of yet.  So the invariant says who can know of an Operation.       *)

Issued(o) == post[<<o, "work">>].pc \notin {"none", "found"}

StatusIssued   == \A o \in Ops : status[o] # "absent" => Issued(o)
OrphansIssued  == \A i \in Instances : \A o \in orphans[i] : Issued(o)
QueueIssued    == \A i \in Instances : \A n \in DOMAIN queue[i] : Issued(queue[i][n])
TasksIssued    == \A i \in Instances, t \in Tasks :
                    task[i][t].pc # "idle" => task[i][t].op \in Ops /\ Issued(task[i][t].op)
StrandedIssued == \A o \in sweep.stranded : Issued(o)

FeedbackKinds   == {"claimed", "ended"}
AfterMove(o, kind) ==
  /\ post[<<o, kind>>].pc \in {"none", "due", "received", "over"}
  /\ post[<<o, kind>>].pc \in {"due", "received"}
       => o \in Own /\ status[o] \notin {"absent", "queued"}
FeedbackOfMoves == \A o \in Ops, kind \in FeedbackKinds : AfterMove(o, kind)

KnownOnlyIssued == StatusIssued /\ OrphansIssued /\ QueueIssued /\ TasksIssued /\ StrandedIssued

FeedbackInv == TypeOK /\ KnownOnlyIssued /\ FeedbackOfMoves

LEMMA FeedbackSparesWork ==
  ASSUME TypeOK, NEW p, NEW kind \in FeedbackKinds, Feedback(p, kind), NEW o \in Ops, Issued(o)
  PROVE  Issued(o)'
BY DEF TypeOK, PostOK, Feedback, FeedbackKinds, Issued

(* Whatever the step, an issued Operation stays issued. *)
LEMMA IssuedStays ==
  ASSUME TypeOK, [Next]_vars, NEW o \in Ops, Issued(o) PROVE Issued(o)'
<1> USE DEF TypeOK
<1>0. <<o, "work">> \in Ops \X Kinds /\ "claimed" \in FeedbackKinds /\ "ended" \in FeedbackKinds
  BY DEF Kinds, FeedbackKinds
<1>1. CASE UNCHANGED post
  BY <1>1 DEF Issued
<1>2. CASE \E p \in Ops, kind \in FeedbackKinds : Feedback(p, kind)
  BY <1>2, FeedbackSparesWork
<1>3. ASSUME NEW p \in Ops, Issue(p) PROVE Issued(o)'
  <2>1. CASE Discover(p)
    BY <1>0, <2>1 DEF Discover, Issued, PostOK
  <2>2. CASE Create(p)
    BY <1>0, <2>2 DEF Create, Issued, PostOK
  <2>3. CASE Deliver(p)
    <3>1. \E stage \in {"received", "over"} : post' = [post EXCEPT ![<<p, "work">>].pc = stage]
      BY <2>3 DEF Deliver
    <3> QED BY <1>0, <3>1 DEF Issued, PostOK
  <2> QED BY <1>3, <2>1, <2>2, <2>3 DEF Issue
<1>4. ASSUME NEW m \in Ops \X Kinds, Trigger(m) \/ SendFeedback(m[1], m[2]) PROVE Issued(o)'
  <2>1. CASE SendFeedback(m[1], m[2])
    BY <1>0, <2>1 DEF SendFeedback, Issued, PostOK
  <2>2. CASE ReadTrigger(m)
    BY <1>0, <2>2 DEF ReadTrigger, Issued, PostOK
  <2>3. CASE Enqueue(m)
    BY <1>0, <2>3 DEF Enqueue, Issued, PostOK
  <2> QED BY <1>4, <2>1, <2>2, <2>3 DEF Trigger
<1>5. ASSUME NEW i \in Instances, Startup(i) PROVE Issued(o)'
  BY <1>0, <1>1, <1>2, <1>5 DEF Startup, Register, ReadOrphans, FailOrphan, TakeUpQueued, Publish
<1>6. ASSUME NEW i \in Instances, Beat(i) \/ Age(i) \/ Stop(i) \/ Deregister(i) \/ Exit(i)
      PROVE  Issued(o)'
  BY <1>1, <1>6 DEF Beat, Age, Stop, Deregister, Exit
<1>7. ASSUME NEW i \in Instances, Crash(i) PROVE Issued(o)'
  BY <1>0, <1>7 DEF Crash, Issued, PostOK
<1>8. ASSUME NEW i \in Instances, NEW t \in Tasks, Claim(i, t) PROVE Issued(o)'
  <2>1. CASE Peek(i, t) \/ Resolve(i, t) \/ RefuseClaim(i, t) \/ LoseEnd(i, t)
    BY <1>1, <2>1 DEF Peek, Resolve, RefuseClaim, LoseEnd
  <2>2. CASE CommitClaim(i, t)
    BY <1>0, <2>2, FeedbackSparesWork DEF CommitClaim
  <2>3. CASE \E outcome \in Terminal : End(i, t, outcome)
    BY <1>0, <2>3, FeedbackSparesWork DEF End
  <2> QED BY <1>8, <2>1, <2>2, <2>3 DEF Claim
<1>9. CASE Sweep
  BY <1>0, <1>1, <1>2, <1>9
     DEF Sweep, SweepBegin, SweepRead, SweepFail, SweepMiss, SweepDeregister, SweepEnd
<1>10. CASE UNCHANGED vars
  BY <1>1, <1>10 DEF vars
<1> QED BY <1>3, <1>4, <1>5, <1>6, <1>7, <1>8, <1>9, <1>10 DEF Next

LEMMA KnowledgeKept ==
  ASSUME TypeOK, \A o \in Ops : Issued(o) => Issued(o)'
  PROVE  /\ StatusIssued /\ UNCHANGED status => StatusIssued'
         /\ OrphansIssued /\ UNCHANGED orphans => OrphansIssued'
         /\ QueueIssued /\ UNCHANGED queue => QueueIssued'
         /\ TasksIssued /\ UNCHANGED task => TasksIssued'
         /\ StrandedIssued /\ UNCHANGED sweep => StrandedIssued'
<1> USE DEF TypeOK
<1>1. StatusIssued /\ UNCHANGED status => StatusIssued'
  BY DEF StatusIssued
<1>2. OrphansIssued /\ UNCHANGED orphans => OrphansIssued'
  BY DEF OrphansIssued, MemoryOK
<1>3. QueueIssued /\ UNCHANGED queue => QueueIssued'
  <2>1. \A i \in Instances : \A n \in DOMAIN queue[i] : queue[i][n] \in Ops
    BY DEF MemoryOK
  <2> QED BY <2>1 DEF QueueIssued
<1>4. TasksIssued /\ UNCHANGED task => TasksIssued'
  BY DEF TasksIssued
<1>5. StrandedIssued /\ UNCHANGED sweep => StrandedIssued'
  BY DEF StrandedIssued, SweepOK, SweepState
<1> QED BY <1>1, <1>2, <1>3, <1>4, <1>5

(* An Operation that a claim, a body, a recovery or a sweep moves was      *)
(* known to it, so it stays true that only issued ones have a status.      *)
LEMMA StatusMove ==
  ASSUME TypeOK, StatusIssued, \A o \in Ops : Issued(o) => Issued(o)',
         NEW p, p \in Ops => Issued(p), NEW new, status' = [status EXCEPT ![p] = new]
  PROVE  StatusIssued'
BY DEF TypeOK, GraphOK, StatusIssued

LEMMA FeedbackMove ==
  ASSUME TypeOK, FeedbackOfMoves, NEW p \in Ops, NEW kind \in FeedbackKinds,
         NEW new \in Terminal \cup {"running"},
         status' = [status EXCEPT ![p] = new], Feedback(p, kind)
  PROVE  FeedbackOfMoves'
<1>1. new \notin {"absent", "queued"}
  BY DEF Terminal
<1>2. SUFFICES ASSUME NEW o \in Ops, NEW k \in FeedbackKinds
             PROVE  AfterMove(o, k)'
  BY DEF FeedbackOfMoves
<1>3. <<o, k>> \in Ops \X Kinds
  BY DEF FeedbackKinds, Kinds
<1>4. CASE post'[<<o, k>>] = post[<<o, k>>]
  BY <1>1, <1>4 DEF FeedbackOfMoves, AfterMove, TypeOK, GraphOK
<1>5. CASE post'[<<o, k>>] # post[<<o, k>>]
  <2>1. <<o, k>> = <<p, kind>> /\ o \in Own /\ post'[<<o, k>>].pc = "due"
    BY <1>3, <1>5 DEF Feedback, TypeOK, PostOK
  <2> QED BY <1>1, <2>1 DEF AfterMove, TypeOK, GraphOK
<1> QED BY <1>4, <1>5

LEMMA FeedbackKept ==
  ASSUME FeedbackOfMoves, UNCHANGED <<status, post>> PROVE FeedbackOfMoves'
BY DEF FeedbackOfMoves, AfterMove

(* The steps on a slot of kind "work" do not concern the feedback. *)
LEMMA WorkIsNoFeedback ==
  ASSUME FeedbackOfMoves,
         \A p \in Ops, kind \in FeedbackKinds : post'[<<p, kind>>] = post[<<p, kind>>],
         \A p \in Ops : status'[p] = status[p] \/ status[p] = "absent"
  PROVE  FeedbackOfMoves'
BY DEF FeedbackOfMoves, AfterMove

LEMMA WorkSlotOnly ==
  ASSUME TypeOK, NEW o \in Ops, NEW slot, post' = [post EXCEPT ![<<o, "work">>] = slot]
  PROVE  \A p \in Ops, kind \in FeedbackKinds : post'[<<p, kind>>] = post[<<p, kind>>]
BY DEF TypeOK, PostOK, Kinds, FeedbackKinds

LEMMA FeedbackInvStep == FeedbackInv /\ [Next]_vars => FeedbackInv'
<1> SUFFICES ASSUME FeedbackInv, [Next]_vars PROVE FeedbackInv'
  OBVIOUS
<1> USE DEF FeedbackInv, KnownOnlyIssued
<1>0. TypeOK' /\ \A o \in Ops : Issued(o) => Issued(o)'
  BY TypeStep, IssuedStays
<1>a. "claimed" \in FeedbackKinds /\ "ended" \in FeedbackKinds
  BY DEF FeedbackKinds
<1>1. CASE UNCHANGED vars
  BY <1>0, <1>1, KnowledgeKept, FeedbackKept DEF vars, graph, memory
<1>2. ASSUME NEW i \in Instances, Startup(i) PROVE FeedbackInv'
  <2>1. CASE Register(i) \/ Publish(i)
    BY <1>0, <2>1, KnowledgeKept, FeedbackKept DEF Register, Publish
  <2>2. CASE ReadOrphans(i)
    <3>1. \A o \in Stranded({"running"}, LiveOnRestart(i)) : o \in Ops /\ Issued(o)
      BY DEF Stranded, StatusIssued
    <3>2. OrphansIssued'
      BY <1>0, <2>2, <3>1 DEF ReadOrphans, OrphansIssued, TypeOK, MemoryOK
    <3> QED BY <1>0, <2>2, <3>2, KnowledgeKept, FeedbackKept DEF ReadOrphans, graph
  <2>3. ASSUME NEW o \in Ops, FailOrphan(i, o) PROVE FeedbackInv'
    <3>1. Issued(o)
      BY <2>3 DEF FailOrphan, OrphansIssued
    <3>2. StatusIssued'
      BY <1>0, <2>3, <3>1, StatusMove DEF FailOrphan
    <3>3. OrphansIssued'
      BY <1>0, <2>3 DEF FailOrphan, OrphansIssued, TypeOK, MemoryOK
    <3>4. FeedbackOfMoves'
      BY <1>a, <2>3, FeedbackMove DEF FailOrphan, Terminal
    <3> QED BY <1>0, <2>3, <3>2, <3>3, <3>4, KnowledgeKept DEF FailOrphan
  <2>4. CASE TakeUpQueued(i)
    <3>1. PICK s \in Orders(OwnQueued) : queue' = [queue EXCEPT ![i] = s]
      BY <2>4 DEF TakeUpQueued
    <3>2. \A n \in DOMAIN s : s[n] \in Ops /\ Issued(s[n])
      BY DEF Orders, OwnQueued, StatusIssued
    <3>3. \A j \in Instances : \A n \in DOMAIN queue[j] : queue[j][n] \in Ops
      BY DEF TypeOK, MemoryOK
    <3>4. QueueIssued'
      BY <1>0, <3>1, <3>2, <3>3 DEF QueueIssued, TypeOK, MemoryOK
    <3> QED BY <1>0, <2>4, <3>4, KnowledgeKept, FeedbackKept DEF TakeUpQueued, graph
  <2> QED BY <1>2, <2>1, <2>2, <2>3, <2>4 DEF Startup
<1>3. ASSUME NEW i \in Instances, Beat(i) \/ Age(i) PROVE FeedbackInv'
  BY <1>0, <1>3, KnowledgeKept, FeedbackKept DEF Beat, Age, memory
<1>4. ASSUME NEW i \in Instances, Stop(i) \/ Deregister(i) PROVE FeedbackInv'
  BY <1>0, <1>4, KnowledgeKept, FeedbackKept DEF Stop, Deregister, graph
<1>5. ASSUME NEW i \in Instances, Crash(i) \/ Exit(i) PROVE FeedbackInv'
  <2>1. Forget(i) /\ UNCHANGED <<graph, sweep>>
    BY <1>5 DEF Crash, Exit
  <2>2. OrphansIssued' /\ QueueIssued' /\ TasksIssued'
    <3>1. OrphansIssued'
      BY <1>0, <2>1 DEF Forget, OrphansIssued, TypeOK, MemoryOK
    <3>2. \A j \in Instances : \A n \in DOMAIN queue[j] : queue[j][n] \in Ops
      BY DEF TypeOK, MemoryOK
    <3>3. QueueIssued'
      BY <1>0, <2>1, <3>2 DEF Forget, QueueIssued, TypeOK, MemoryOK
    <3>4. TasksIssued'
      BY <1>0, <2>1 DEF Forget, TasksIssued, TypeOK, MemoryOK, Idle
    <3> QED BY <3>1, <3>3, <3>4
  <2>3. FeedbackOfMoves'
    <3>1. SUFFICES ASSUME NEW o \in Ops, NEW kind \in FeedbackKinds
                 PROVE  AfterMove(o, kind)'
      BY DEF FeedbackOfMoves
    <3>2. <<o, kind>> \in Ops \X Kinds /\ status' = status
      BY <2>1 DEF FeedbackKinds, Kinds, graph
    <3>3. post'[<<o, kind>>].pc \in {post[<<o, kind>>].pc, "over"}
      BY <1>5, <3>2 DEF Crash, Exit, TypeOK, PostOK, PostState
    <3> QED BY <3>2, <3>3 DEF FeedbackOfMoves, AfterMove
  <2> QED BY <1>0, <2>1, <2>2, <2>3, KnowledgeKept DEF graph
<1>6. ASSUME NEW i \in Instances, NEW t \in Tasks, Claim(i, t) PROVE FeedbackInv'
  <2>1. CASE Peek(i, t)
    <3>1. queue[i] # <<>> => Head(queue[i]) \in Ops /\ Issued(Head(queue[i]))
      BY DEF QueueIssued, TypeOK, MemoryOK
    <3>2. TasksIssued'
      BY <1>0, <2>1, <3>1 DEF Peek, TasksIssued, TypeOK, MemoryOK
    <3> QED BY <1>0, <2>1, <3>2, KnowledgeKept, FeedbackKept DEF Peek, graph
  <2>2. CASE Resolve(i, t)
    <3>1. \A j \in Instances : queue[j] \in Seq(Ops)
      BY DEF TypeOK, MemoryOK
    <3>2. \A q \in Seq(Ops) : q # <<>> =>
            \A n \in DOMAIN Tail(q) : n + 1 \in DOMAIN q /\ Tail(q)[n] = q[n + 1] /\ q[n + 1] \in Ops
      OBVIOUS
    <3>a. ASSUME queue[i] # <<>>, queue' = [queue EXCEPT ![i] = Tail(@)] PROVE QueueIssued'
      <4>1. ASSUME NEW j \in Instances, NEW n \in DOMAIN queue'[j] PROVE Issued(queue[j][n])'
        <5>1. CASE j # i
          BY <1>0, <3>1, <3>a, <5>1 DEF QueueIssued, TypeOK, MemoryOK
        <5>2. CASE j = i
          <6>1. queue'[j] = Tail(queue[i])
            BY <3>a, <5>2 DEF TypeOK, MemoryOK
          <6>2. n + 1 \in DOMAIN queue[i] /\ queue'[j][n] = queue[i][n + 1] /\ queue[i][n + 1] \in Ops
            BY <3>1, <3>2, <3>a, <6>1
          <6> QED BY <1>0, <6>2 DEF QueueIssued
        <5> QED BY <5>1, <5>2
      <4> QED BY <4>1 DEF QueueIssued
    <3>4. QueueIssued'
      BY <1>0, <2>2, <3>a, KnowledgeKept DEF Resolve
    <3>5. TasksIssued'
      <4>1. \A j \in Instances, u \in Tasks :
              task'[j][u].pc # "idle" => task'[j][u].op = task[j][u].op /\ task[j][u].pc # "idle"
        <5>1. CASE task' = [task EXCEPT ![i][t] = Idle]
          BY <5>1 DEF TypeOK, MemoryOK, Idle
        <5>2. CASE task' = [task EXCEPT ![i][t].pc = "claiming", ![i][t].workflow = realizer]
          <6>1. task[i][t].pc # "idle" /\ task[i][t] \in TaskState
            BY <2>2 DEF Resolve, TypeOK, MemoryOK
          <6>2. task' = [task EXCEPT ![i][t] = [task[i][t] EXCEPT !.pc = "claiming", !.workflow = realizer]]
            BY <5>2 DEF TypeOK, MemoryOK
          <6>3. [task[i][t] EXCEPT !.pc = "claiming", !.workflow = realizer].op = task[i][t].op
            BY <6>1 DEF TaskState
          <6> QED BY <6>1, <6>2, <6>3 DEF TypeOK, MemoryOK
        <5> QED BY <2>2, <5>1, <5>2 DEF Resolve
      <4> QED BY <1>0, <4>1 DEF TasksIssued
    <3> QED BY <1>0, <2>2, <3>4, <3>5, KnowledgeKept, FeedbackKept DEF Resolve, graph
  <2>3. CASE RefuseClaim(i, t) \/ LoseEnd(i, t)
    <3>0. task' = [task EXCEPT ![i][t] = Idle]
      BY <2>3 DEF RefuseClaim, LoseEnd
    <3>1. TasksIssued'
      BY <1>0, <3>0 DEF TasksIssued, TypeOK, MemoryOK, Idle
    <3> QED BY <1>0, <2>3, <3>1, KnowledgeKept, FeedbackKept DEF RefuseClaim, LoseEnd, graph
  <2>4. CASE CommitClaim(i, t)
    <3> DEFINE o == task[i][t].op
    <3>1. o \in Ops /\ Issued(o)
      BY <2>4 DEF CommitClaim, TasksIssued
    <3>2. StatusIssued'
      BY <1>0, <2>4, <3>1, StatusMove DEF CommitClaim
    <3>3. TasksIssued'
      BY <1>0, <2>4, <3>1 DEF CommitClaim, TasksIssued, TypeOK, MemoryOK
    <3>4. FeedbackOfMoves'
      BY <1>a, <2>4, <3>1, FeedbackMove DEF CommitClaim
    <3> QED BY <1>0, <2>4, <3>2, <3>3, <3>4, KnowledgeKept DEF CommitClaim
  <2>5. ASSUME NEW outcome \in Terminal, End(i, t, outcome) PROVE FeedbackInv'
    <3> DEFINE o == task[i][t].op
    <3>1. o \in Ops /\ Issued(o)
      BY <2>5 DEF End, TasksIssued
    <3>2. StatusIssued'
      BY <1>0, <2>5, <3>1, StatusMove DEF End
    <3>3. TasksIssued'
      BY <1>0, <2>5 DEF End, TasksIssued, TypeOK, MemoryOK, Idle
    <3>4. FeedbackOfMoves'
      BY <1>a, <2>5, <3>1, FeedbackMove DEF End
    <3> QED BY <1>0, <2>5, <3>2, <3>3, <3>4, KnowledgeKept DEF End
  <2> QED BY <1>6, <2>1, <2>2, <2>3, <2>4, <2>5 DEF Claim
<1>7. ASSUME NEW o \in Ops, Issue(o) PROVE FeedbackInv'
  <2>0. <<o, "work">> \in Ops \X Kinds
    BY DEF Kinds
  <2>1. CASE Discover(o)
    <3>1. post' = [post EXCEPT ![<<o, "work">>] = [pc |-> "found", to |-> realizer]]
          /\ UNCHANGED <<status, orphans, queue, task, sweep>>
      BY <2>1 DEF Discover, graph, memory
    <3>2. FeedbackOfMoves'
      BY <3>1, WorkSlotOnly, WorkIsNoFeedback
    <3> QED BY <1>0, <3>1, <3>2, KnowledgeKept
  <2>2. CASE Create(o)
    <3>1. post' = [post EXCEPT ![<<o, "work">>] = [post[<<o, "work">>] EXCEPT !.pc = "due"]]
      BY <2>2 DEF Create
    <3>2. Issued(o)'
      BY <2>0, <2>2 DEF Create, Issued, TypeOK, PostOK, PostState
    <3>3. status[o] = "absent" /\ ~Issued(o)
      BY <2>2 DEF Create, StatusIssued, Issued
    <3>4. StatusIssued'
      BY <1>0, <2>2, <3>2 DEF Create, StatusIssued, TypeOK, GraphOK
    <3>5. FeedbackOfMoves'
      <4>1. \A p \in Ops : status'[p] = status[p] \/ status[p] = "absent"
        BY <2>2, <3>3 DEF Create, TypeOK, GraphOK
      <4> QED BY <3>1, <4>1, WorkSlotOnly, WorkIsNoFeedback
    <3> QED BY <1>0, <2>2, <3>4, <3>5, KnowledgeKept DEF Create, memory
  <2>3. CASE Deliver(o)
    <3>1. PICK slot : post' = [post EXCEPT ![<<o, "work">>] = slot]
      BY <2>3 DEF Deliver
    <3>2. UNCHANGED status
      BY <2>3 DEF Deliver, graph
    <3>3. FeedbackOfMoves'
      BY <3>1, <3>2, WorkSlotOnly, WorkIsNoFeedback
    <3> QED BY <1>0, <2>3, <3>3, KnowledgeKept DEF Deliver, graph, memory
  <2> QED BY <1>7, <2>1, <2>2, <2>3 DEF Issue
<1>8. ASSUME NEW m \in Ops \X Kinds, Trigger(m) \/ SendFeedback(m[1], m[2]) PROVE FeedbackInv'
  <2>0. m = <<m[1], m[2]>> /\ m[1] \in Ops /\ m[2] \in Kinds
    OBVIOUS
  <2>1. CASE SendFeedback(m[1], m[2])
    <3>1. FeedbackOfMoves'
      <4>1. SUFFICES ASSUME NEW o \in Ops, NEW kind \in FeedbackKinds
                   PROVE  AfterMove(o, kind)'
        BY DEF FeedbackOfMoves
      <4>2. <<o, kind>> \in Ops \X Kinds
        BY DEF FeedbackKinds, Kinds
      <4>3. CASE <<o, kind>> = m
        <5>1. post[m].pc = "due" /\ status' = status
          BY <2>0, <2>1 DEF SendFeedback, graph
        <5>2. post'[m].pc \in {"received", "over"}
          <6>1. \/ post' = [post EXCEPT ![m].pc = "over"]
                \/ \E i \in Instances : post' = [post EXCEPT ![m] = [pc |-> "received", to |-> i]]
            BY <2>0, <2>1 DEF SendFeedback
          <6> QED BY <6>1 DEF TypeOK, PostOK, PostState
        <5> QED BY <4>3, <5>1, <5>2 DEF FeedbackOfMoves, AfterMove
      <4>4. CASE <<o, kind>> # m
        <5>1. post'[<<o, kind>>] = post[<<o, kind>>] /\ status' = status
          BY <2>0, <2>1, <4>2, <4>4 DEF SendFeedback, TypeOK, PostOK, graph
        <5> QED BY <5>1 DEF FeedbackOfMoves, AfterMove
      <4> QED BY <4>3, <4>4
    <3> QED BY <1>0, <2>1, <3>1, KnowledgeKept DEF SendFeedback, graph, memory
  <2>2. CASE ReadTrigger(m)
    <3>1. FeedbackOfMoves'
      <4>1. SUFFICES ASSUME NEW o \in Ops, NEW kind \in FeedbackKinds
                   PROVE  AfterMove(o, kind)'
        BY DEF FeedbackOfMoves
      <4>2. <<o, kind>> \in Ops \X Kinds
        BY DEF FeedbackKinds, Kinds
      <4>3. CASE <<o, kind>> = m
        <5>1. IssuedAndClaimed(m[1])
          BY <2>2, <4>3 DEF ReadTrigger, FeedbackOfMoves, AfterMove, IssuedAndClaimed
        <5>2. post'[m].pc = "over"
          BY <2>2, <5>1 DEF ReadTrigger, TypeOK, PostOK, PostState
        <5> QED BY <4>3, <5>2 DEF AfterMove
      <4>4. CASE <<o, kind>> # m
        <5>1. post'[<<o, kind>>] = post[<<o, kind>>] /\ status' = status
          BY <2>2, <4>2, <4>4 DEF ReadTrigger, TypeOK, PostOK, graph
        <5> QED BY <5>1 DEF FeedbackOfMoves, AfterMove
      <4> QED BY <4>3, <4>4
    <3> QED BY <1>0, <2>2, <3>1, KnowledgeKept DEF ReadTrigger, graph, memory
  <2>3. CASE Enqueue(m)
    <3>1. m[2] = "work"
      BY <2>0, <2>3 DEF Enqueue, FeedbackOfMoves, AfterMove, FeedbackKinds, Kinds
    <3>2. Issued(m[1])
      BY <2>0, <2>3, <3>1 DEF Enqueue, Issued
    <3>3. \A j \in Instances : queue[j] \in Seq(Ops)
      BY DEF TypeOK, MemoryOK
    <3>4. \A q \in Seq(Ops), p \in Ops : \A n \in DOMAIN Append(q, p) :
            \/ n \in DOMAIN q /\ Append(q, p)[n] = q[n] /\ q[n] \in Ops
            \/ Append(q, p)[n] = p
      OBVIOUS
    <3>5. ASSUME NEW j \in Instances, NEW n \in DOMAIN queue'[j] PROVE Issued(queue[j][n])'
      <4>1. CASE queue'[j] = queue[j]
        BY <1>0, <3>3, <4>1 DEF QueueIssued
      <4>2. CASE queue'[j] = Append(queue[j], m[1])
        <5>1. \/ n \in DOMAIN queue[j] /\ queue'[j][n] = queue[j][n] /\ queue[j][n] \in Ops
              \/ queue'[j][n] = m[1]
          BY <2>0, <3>3, <3>4, <4>2
        <5> QED BY <1>0, <2>0, <3>2, <5>1 DEF QueueIssued
      <4> QED BY <2>3, <4>1, <4>2 DEF Enqueue, Enqueued, TypeOK, MemoryOK
    <3>6. QueueIssued'
      BY <3>5 DEF QueueIssued
    <3>7. post' = [post EXCEPT ![<<m[1], "work">>] = [post[m] EXCEPT !.pc = "over"]]
      BY <2>0, <2>3, <3>1 DEF Enqueue
    <3>8. FeedbackOfMoves'
      <4>1. UNCHANGED status
        BY <2>3 DEF Enqueue, graph
      <4> QED BY <2>0, <3>7, <4>1, WorkSlotOnly, WorkIsNoFeedback
    <3> QED BY <1>0, <2>3, <3>6, <3>8, KnowledgeKept DEF Enqueue, graph
  <2> QED BY <1>8, <2>1, <2>2, <2>3 DEF Trigger
<1>9. CASE Sweep
  <2>1. CASE SweepBegin \/ SweepEnd
    <3>1. sweep'.stranded = {}
      <4>1. CASE SweepBegin
        <5> DEFINE late == {i \in Instances : address[i] /\ ~fresh[i]}
        <5>1. sweep' = [NoSweep EXCEPT !.on = TRUE, !.recent = Beating, !.todo = late]
          BY <4>1 DEF SweepBegin
        <5> HIDE DEF late
        <5> QED BY <5>1 DEF NoSweep
      <4>2. CASE SweepEnd
        BY <4>2 DEF SweepEnd, NoSweep
      <4> QED BY <2>1, <4>1, <4>2
    <3>2. StrandedIssued'
      BY <3>1 DEF StrandedIssued
    <3> QED BY <1>0, <2>1, <3>2, KnowledgeKept, FeedbackKept DEF SweepBegin, SweepEnd, graph, memory
  <2>2. ASSUME NEW i \in Instances, SweepRead(i) PROVE FeedbackInv'
    <3>1. \A o \in Stranded({"queued", "running"}, sweep.recent \cup Beating) : o \in Ops /\ Issued(o)
      BY DEF Stranded, StatusIssued
    <3>2. sweep'.stranded \in {sweep.stranded, Stranded({"queued", "running"}, sweep.recent \cup Beating)}
      BY <2>2 DEF SweepRead, TypeOK, SweepOK, SweepState
    <3>3. StrandedIssued'
      BY <1>0, <3>1, <3>2 DEF StrandedIssued, TypeOK, SweepOK, SweepState
    <3> QED BY <1>0, <2>2, <3>3, KnowledgeKept, FeedbackKept DEF SweepRead, graph, memory
  <2>3. ASSUME NEW o \in Ops, SweepFail(o) PROVE FeedbackInv'
    <3>1. Issued(o)
      BY <2>3 DEF SweepFail, StrandedIssued
    <3>2. StatusIssued'
      BY <1>0, <2>3, <3>1, StatusMove DEF SweepFail
    <3>3. StrandedIssued'
      BY <1>0, <2>3 DEF SweepFail, StrandedIssued, TypeOK, SweepOK, SweepState
    <3>4. FeedbackOfMoves'
      BY <1>a, <2>3, FeedbackMove DEF SweepFail, Terminal
    <3> QED BY <1>0, <2>3, <3>2, <3>3, <3>4, KnowledgeKept DEF SweepFail, memory
  <2>4. ASSUME NEW o \in Ops, SweepMiss(o) PROVE FeedbackInv'
    <3>1. StrandedIssued'
      BY <1>0, <2>4 DEF SweepMiss, StrandedIssued, TypeOK, SweepOK, SweepState
    <3> QED BY <1>0, <2>4, <3>1, KnowledgeKept, FeedbackKept DEF SweepMiss, graph, memory
  <2>5. CASE SweepDeregister
    <3>1. StrandedIssued'
      BY <1>0, <2>5 DEF SweepDeregister, StrandedIssued, TypeOK, SweepOK, SweepState
    <3> QED BY <1>0, <2>5, <3>1, KnowledgeKept, FeedbackKept DEF SweepDeregister, memory
  <2> QED BY <1>9, <2>1, <2>2, <2>3, <2>4, <2>5 DEF Sweep
<1> QED BY <1>1, <1>2, <1>3, <1>4, <1>5, <1>6, <1>7, <1>8, <1>9 DEF Next

LEMMA FeedbackInvInit == Init => FeedbackInv
<1> SUFFICES ASSUME Init PROVE FeedbackInv
  OBVIOUS
<1>1. StatusIssued /\ OrphansIssued /\ StrandedIssued
  BY DEF Init, StatusIssued, OrphansIssued, StrandedIssued, NoSweep
<1>2. QueueIssued
  BY DEF Init, QueueIssued
<1>3. TasksIssued
  BY DEF Init, TasksIssued, Idle
<1>4. FeedbackOfMoves
  BY DEF Init, FeedbackOfMoves, AfterMove, FeedbackKinds, Kinds, NoPost
<1> QED BY <1>1, <1>2, <1>3, <1>4, TypeInit DEF FeedbackInv, KnownOnlyIssued

(* No Operation is enqueued as work because a notification of its claim or *)
(* its end came back, however late and in whatever order it comes, through *)
(* crashes, restarts, sweeps and a body that ends long after a sweep       *)
(* failed its Operation: what _issued_and_claimed reads is never "queued". *)
THEOREM FeedbackNeverWork == Spec => FeedbackIsNoWork
<1>1. FeedbackInv /\ [Next]_vars =>
        [\A o \in Ops, kind \in Kinds \ {"work"} : ~Enqueue(<<o, kind>>)]_vars
  <2> SUFFICES ASSUME FeedbackInv, NEW o \in Ops, NEW kind \in Kinds \ {"work"},
                      Enqueue(<<o, kind>>)
               PROVE  FALSE
    OBVIOUS
  <2>1. post[<<o, kind>>].pc = "read" /\ kind \in FeedbackKinds
    BY DEF Enqueue, Kinds, FeedbackKinds
  <2> QED BY <2>1 DEF FeedbackInv, FeedbackOfMoves, AfterMove
<1> QED BY <1>1, FeedbackInvInit, FeedbackInvStep, PTL DEF Spec, FeedbackIsNoWork

-----------------------------------------------------------------------------
(***************************************************************************)
(* What the steps do to the threads, the phases and the running Operations. *)
(***************************************************************************)

LEMMA TaskMoves ==
  ASSUME TypeOK, [Next]_vars, NEW j \in Instances, NEW u \in Tasks
  PROVE  \/ task'[j][u] = task[j][u]
         \/ task'[j][u].pc = "idle"
         \/ /\ Peek(j, u) /\ queue[j] # <<>>
            /\ task'[j][u].pc = "resolving" /\ task'[j][u].op = Head(queue[j])
         \/ /\ Resolve(j, u) /\ task[j][u].pc = "resolving" /\ task'[j][u].pc = "claiming"
            /\ queue[j] # <<>> /\ task'[j][u].op = task[j][u].op
         \/ /\ CommitClaim(j, u) /\ task[j][u].pc = "claiming" /\ task'[j][u].pc = "body"
            /\ task'[j][u].op = task[j][u].op
<1>0. task \in [Instances -> [Tasks -> TaskState]]
  BY DEF TypeOK, MemoryOK
<1>1. CASE UNCHANGED task
  BY <1>1
<1>2. ASSUME NEW i \in Instances, NEW t \in Tasks, task' = [task EXCEPT ![i][t] = Idle]
      PROVE  task'[j][u] = task[j][u] \/ task'[j][u].pc = "idle"
  BY <1>0, <1>2 DEF Idle
<1>3. ASSUME NEW i \in Instances, Forget(i)
      PROVE  task'[j][u] = task[j][u] \/ task'[j][u].pc = "idle"
  BY <1>0, <1>3 DEF Forget, Idle
<1>4. ASSUME NEW i \in Instances, NEW t \in Tasks, Peek(i, t)
      PROVE  \/ task'[j][u] = task[j][u]
             \/ /\ Peek(j, u) /\ queue[j] # <<>>
                /\ task'[j][u].pc = "resolving" /\ task'[j][u].op = Head(queue[j])
  <2>1. CASE queue[i] = <<>>
    BY <1>4, <2>1 DEF Peek
  <2>2. CASE queue[i] # <<>>
    <3>1. task' = [task EXCEPT ![i][t] =
                     [pc |-> "resolving", op |-> Head(queue[i]), workflow |-> None]]
      BY <1>4, <2>2 DEF Peek
    <3>2. CASE i = j /\ t = u
      BY <1>0, <1>4, <2>2, <3>1, <3>2
    <3>3. CASE ~(i = j /\ t = u)
      BY <1>0, <3>1, <3>3
    <3> QED BY <3>2, <3>3
  <2> QED BY <2>1, <2>2
<1>5. ASSUME NEW i \in Instances, NEW t \in Tasks, Resolve(i, t)
      PROVE  \/ task'[j][u] = task[j][u] \/ task'[j][u].pc = "idle"
             \/ /\ Resolve(j, u) /\ task[j][u].pc = "resolving" /\ task'[j][u].pc = "claiming"
                /\ queue[j] # <<>> /\ task'[j][u].op = task[j][u].op
  <2>1. CASE task' = [task EXCEPT ![i][t] = Idle]
    BY <1>2, <2>1
  <2>2. CASE queue[i] # <<>> /\
             task' = [task EXCEPT ![i][t].pc = "claiming", ![i][t].workflow = realizer]
    <3>1. task' = [task EXCEPT ![i][t] =
                     [task[i][t] EXCEPT !.pc = "claiming", !.workflow = realizer]]
      BY <1>0, <2>2
    <3>2. task[i][t] \in TaskState /\ task[i][t].pc = "resolving"
      BY <1>0, <1>5 DEF Resolve
    <3>3. /\ [task[i][t] EXCEPT !.pc = "claiming", !.workflow = realizer].pc = "claiming"
          /\ [task[i][t] EXCEPT !.pc = "claiming", !.workflow = realizer].op = task[i][t].op
      BY <3>2 DEF TaskState
    <3>4. CASE i = j /\ t = u
      BY <1>0, <1>5, <2>2, <3>1, <3>2, <3>3, <3>4
    <3>5. CASE ~(i = j /\ t = u)
      BY <1>0, <3>1, <3>5
    <3> QED BY <3>4, <3>5
  <2> QED BY <1>5, <2>1, <2>2 DEF Resolve
<1>6. ASSUME NEW i \in Instances, NEW t \in Tasks, CommitClaim(i, t)
      PROVE  \/ task'[j][u] = task[j][u]
             \/ /\ CommitClaim(j, u) /\ task[j][u].pc = "claiming" /\ task'[j][u].pc = "body"
                /\ task'[j][u].op = task[j][u].op
  <2>1. task' = [task EXCEPT ![i][t] = [task[i][t] EXCEPT !.pc = "body"]]
    BY <1>0, <1>6 DEF CommitClaim
  <2>2. task[i][t] \in TaskState /\ task[i][t].pc = "claiming"
    BY <1>0, <1>6 DEF CommitClaim
  <2>3. CASE i = j /\ t = u
    BY <1>0, <1>6, <2>1, <2>2, <2>3 DEF TaskState
  <2>4. CASE ~(i = j /\ t = u)
    BY <1>0, <2>1, <2>4
  <2> QED BY <2>3, <2>4
<1>7. ASSUME NEW i \in Instances, NEW t \in Tasks, RefuseClaim(i, t) \/ LoseEnd(i, t)
      PROVE  task'[j][u] = task[j][u] \/ task'[j][u].pc = "idle"
  BY <1>2, <1>7 DEF RefuseClaim, LoseEnd
<1>8. ASSUME NEW i \in Instances, NEW t \in Tasks, NEW outcome \in Terminal, End(i, t, outcome)
      PROVE  task'[j][u] = task[j][u] \/ task'[j][u].pc = "idle"
  BY <1>2, <1>8 DEF End
<1>9. ASSUME NEW i \in Instances, Startup(i) \/ Beat(i) \/ Age(i) \/ Stop(i) \/ Deregister(i)
      PROVE  UNCHANGED task
  BY <1>9 DEF Startup, Register, ReadOrphans, FailOrphan, TakeUpQueued, Publish, Beat, Age,
       Stop, Deregister, memory
<1>10. ASSUME NEW i \in Instances, Crash(i) \/ Exit(i) PROVE Forget(i)
  BY <1>10 DEF Crash, Exit
<1>11. ASSUME NEW o \in Ops, Issue(o) PROVE UNCHANGED task
  BY <1>11 DEF Issue, Discover, Create, Deliver, memory
<1>12. ASSUME NEW m \in Ops \X Kinds, Trigger(m) \/ SendFeedback(m[1], m[2]) PROVE UNCHANGED task
  BY <1>12 DEF Trigger, ReadTrigger, Enqueue, SendFeedback, memory
<1>13. CASE Sweep
  BY <1>13 DEF Sweep, SweepBegin, SweepRead, SweepFail, SweepMiss, SweepDeregister, SweepEnd, memory
<1>14. CASE UNCHANGED vars
  BY <1>14 DEF vars, memory
<1>15. ASSUME NEW i \in Instances, NEW t \in Tasks, Claim(i, t)
       PROVE  \/ Peek(i, t) \/ Resolve(i, t) \/ CommitClaim(i, t)
              \/ RefuseClaim(i, t) \/ LoseEnd(i, t)
              \/ \E outcome \in Terminal : End(i, t, outcome)
  BY <1>15 DEF Claim
<1>16. ASSUME NEW i \in Instances, NEW t \in Tasks, Claim(i, t)
       PROVE  \/ task'[j][u] = task[j][u]
              \/ task'[j][u].pc = "idle"
              \/ /\ Peek(j, u) /\ queue[j] # <<>>
                 /\ task'[j][u].pc = "resolving" /\ task'[j][u].op = Head(queue[j])
              \/ /\ Resolve(j, u) /\ task[j][u].pc = "resolving" /\ task'[j][u].pc = "claiming"
                 /\ queue[j] # <<>> /\ task'[j][u].op = task[j][u].op
              \/ /\ CommitClaim(j, u) /\ task[j][u].pc = "claiming" /\ task'[j][u].pc = "body"
                 /\ task'[j][u].op = task[j][u].op
  BY <1>4, <1>5, <1>6, <1>7, <1>8, <1>15, <1>16
<1> QED BY <1>1, <1>3, <1>9, <1>10, <1>11, <1>12, <1>13, <1>14, <1>16 DEF Next

LEMMA PhaseMoves ==
  ASSUME TypeOK, [Next]_vars, NEW j \in Instances
  PROVE  \/ /\ phase'[j] = phase[j]
            /\ orphans'[j] = orphans[j] \/ \E o \in Ops : FailOrphan(j, o)
         \/ Forget(j)
         \/ Register(j) /\ phase'[j] = "registered"
         \/ ReadOrphans(j) /\ phase'[j] = "reclaiming"
         \/ TakeUpQueued(j)
         \/ phase[j] = "publishing" /\ phase'[j] = "serving"
         \/ phase[j] = "serving" /\ phase'[j] = "stopping"
         \/ phase[j] = "stopping" /\ phase'[j] = "leaving"
<1>0. phase \in [Instances -> Phases] /\ orphans \in [Instances -> SUBSET Ops]
  BY DEF TypeOK, MemoryOK
<1>1. CASE UNCHANGED <<phase, orphans>>
  BY <1>1
<1>2. ASSUME NEW i \in Instances, Startup(i) PROVE
         \/ /\ phase'[j] = phase[j]
            /\ orphans'[j] = orphans[j] \/ \E o \in Ops : FailOrphan(j, o)
         \/ Register(j) /\ phase'[j] = "registered"
         \/ ReadOrphans(j) /\ phase'[j] = "reclaiming"
         \/ TakeUpQueued(j)
         \/ phase[j] = "publishing" /\ phase'[j] = "serving"
  <2>1. CASE i # j
    BY <1>0, <1>2, <2>1 DEF Startup, Register, ReadOrphans, FailOrphan, TakeUpQueued, Publish
  <2>2. CASE i = j
    <3>1. CASE Register(i)
      BY <1>0, <2>2, <3>1 DEF Register
    <3>2. CASE ReadOrphans(i)
      BY <1>0, <2>2, <3>2 DEF ReadOrphans
    <3>3. CASE \E o \in Ops : FailOrphan(i, o)
      BY <1>0, <2>2, <3>3 DEF FailOrphan
    <3>4. CASE Publish(i)
      BY <1>0, <2>2, <3>4 DEF Publish
    <3> QED BY <1>2, <2>2, <3>1, <3>2, <3>3, <3>4 DEF Startup
  <2> QED BY <2>1, <2>2
<1>3. ASSUME NEW i \in Instances, Crash(i) \/ Exit(i)
      PROVE  Forget(j) \/ (phase'[j] = phase[j] /\ orphans'[j] = orphans[j])
  <2>1. CASE i # j
    BY <1>0, <1>3, <2>1 DEF Crash, Exit, Forget
  <2> QED BY <1>3, <2>1 DEF Crash, Exit
<1>4. ASSUME NEW i \in Instances, Stop(i) \/ Deregister(i) PROVE
         \/ phase'[j] = phase[j] /\ orphans'[j] = orphans[j]
         \/ phase[j] = "serving" /\ phase'[j] = "stopping"
         \/ phase[j] = "stopping" /\ phase'[j] = "leaving"
  <2>1. CASE i # j
    BY <1>0, <1>4, <2>1 DEF Stop, Deregister
  <2>2. CASE i = j /\ Stop(i)
    BY <1>0, <2>2 DEF Stop
  <2>3. CASE i = j /\ Deregister(i)
    BY <1>0, <2>3 DEF Deregister
  <2> QED BY <1>4, <2>1, <2>2, <2>3
<1>5. ASSUME NEW i \in Instances, Beat(i) \/ Age(i) PROVE UNCHANGED <<phase, orphans>>
  BY <1>5 DEF Beat, Age, memory
<1>6. ASSUME NEW i \in Instances, NEW t \in Tasks, Claim(i, t) PROVE UNCHANGED <<phase, orphans>>
  BY <1>6 DEF Claim, Peek, Resolve, CommitClaim, RefuseClaim, End, LoseEnd
<1>7. ASSUME NEW o \in Ops, Issue(o) PROVE UNCHANGED <<phase, orphans>>
  BY <1>7 DEF Issue, Discover, Create, Deliver, memory
<1>8. ASSUME NEW m \in Ops \X Kinds, Trigger(m) \/ SendFeedback(m[1], m[2])
      PROVE  UNCHANGED <<phase, orphans>>
  BY <1>8 DEF Trigger, ReadTrigger, Enqueue, SendFeedback, memory
<1>9. CASE Sweep
  BY <1>1, <1>9
     DEF Sweep, SweepBegin, SweepRead, SweepFail, SweepMiss, SweepDeregister, SweepEnd, memory
<1>10. CASE UNCHANGED vars
  BY <1>1, <1>10 DEF vars, memory
<1> QED BY <1>1, <1>2, <1>3, <1>4, <1>5, <1>6, <1>7, <1>8, <1>9, <1>10 DEF Next

(* An Operation is running because it was, or because it has been claimed. *)
LEMMA RunningMoves ==
  ASSUME TypeOK, [Next]_vars, NEW o \in Ops, status'[o] = "running"
  PROVE  \/ status[o] = "running" /\ executor'[o] = executor[o]
         \/ \E i \in Instances, t \in Tasks : CommitClaim(i, t) /\ task[i][t].op = o
<1>0. status \in [Ops -> Status] /\ executor \in [Ops -> Instances \cup {None}]
  BY DEF TypeOK, GraphOK
<1>1. CASE UNCHANGED <<status, executor>>
  BY <1>1
<1>2. ASSUME NEW p, NEW new \in {"queued", "failed"}, status' = [status EXCEPT ![p] = new],
             UNCHANGED executor
      PROVE  status[o] = "running" /\ executor'[o] = executor[o]
  BY <1>0, <1>2
<1>3. ASSUME NEW i \in Instances, Startup(i)
      PROVE  status[o] = "running" /\ executor'[o] = executor[o]
  <2>1. CASE Register(i) \/ ReadOrphans(i) \/ TakeUpQueued(i) \/ Publish(i)
    BY <2>1 DEF Register, ReadOrphans, TakeUpQueued, Publish, graph
  <2>2. CASE \E p \in Ops : FailOrphan(i, p)
    BY <1>2, <2>2 DEF FailOrphan
  <2> QED BY <1>3, <2>1, <2>2 DEF Startup
<1>4. ASSUME NEW i \in Instances, NEW t \in Tasks, Claim(i, t)
      PROVE  \/ status[o] = "running" /\ executor'[o] = executor[o]
             \/ CommitClaim(i, t) /\ task[i][t].op = o
  <2>1. CASE Peek(i, t) \/ Resolve(i, t) \/ RefuseClaim(i, t) \/ LoseEnd(i, t)
    BY <2>1 DEF Peek, Resolve, RefuseClaim, LoseEnd, graph
  <2>2. CASE CommitClaim(i, t)
    BY <1>0, <2>2 DEF CommitClaim
  <2>3. ASSUME NEW outcome \in Terminal, End(i, t, outcome)
        PROVE  status[o] = "running" /\ executor'[o] = executor[o]
    <3>1. outcome # "running"
      BY DEF Terminal
    <3>2. task[i][t].op # o
      BY <1>0, <2>3, <3>1 DEF End
    <3> QED BY <1>0, <2>3, <3>2 DEF End
  <2> QED BY <1>4, <2>1, <2>2, <2>3 DEF Claim
<1>5. ASSUME NEW i \in Instances,
             Beat(i) \/ Age(i) \/ Crash(i) \/ Stop(i) \/ Deregister(i) \/ Exit(i)
      PROVE  UNCHANGED <<status, executor>>
  BY <1>5 DEF Beat, Age, Crash, Stop, Deregister, Exit, graph
<1>6. ASSUME NEW p \in Ops, Issue(p)
      PROVE  status[o] = "running" /\ executor'[o] = executor[o]
  <2>1. CASE Create(p)
    BY <1>2, <2>1 DEF Create
  <2>2. CASE Discover(p) \/ Deliver(p)
    BY <2>2 DEF Discover, Deliver, graph
  <2> QED BY <1>6, <2>1, <2>2 DEF Issue
<1>7. ASSUME NEW m \in Ops \X Kinds, Trigger(m) \/ SendFeedback(m[1], m[2])
      PROVE  UNCHANGED <<status, executor>>
  BY <1>7 DEF Trigger, ReadTrigger, Enqueue, SendFeedback, graph
<1>8. CASE Sweep
  <2>1. CASE \E p \in Ops : SweepFail(p)
    BY <1>2, <2>1 DEF SweepFail
  <2>2. CASE SweepBegin \/ SweepDeregister \/ SweepEnd
             \/ (\E i \in Instances : SweepRead(i)) \/ (\E p \in Ops : SweepMiss(p))
    BY <1>1, <2>2 DEF SweepBegin, SweepRead, SweepMiss, SweepDeregister, SweepEnd, graph
  <2> QED BY <1>8, <2>1, <2>2 DEF Sweep
<1>9. CASE UNCHANGED vars
  BY <1>1, <1>9 DEF vars, graph
<1> QED BY <1>1, <1>3, <1>4, <1>5, <1>6, <1>7, <1>8, <1>9 DEF Next

-----------------------------------------------------------------------------
(* Only an instance that serves, or served, has a thread at work.          *)
Working == {"serving", "stopping", "leaving"}
ThreadsServe ==
  \A i \in Instances, t \in Tasks :
    task[i][t].pc # "idle" => i \in Claimers /\ phase[i] \in Working

LEMMA ThreadsServeStep ==
  ASSUME TypeOK, ThreadsServe, [Next]_vars PROVE ThreadsServe'
<1>1. SUFFICES ASSUME NEW i \in Instances, NEW t \in Tasks, task'[i][t].pc # "idle"
               PROVE  i \in Claimers /\ phase'[i] \in Working
  BY DEF ThreadsServe
<1>2. i \in Claimers /\ phase[i] \in Working
  <2>1. CASE task[i][t].pc # "idle"
    BY <2>1 DEF ThreadsServe
  <2>2. CASE task[i][t].pc = "idle"
    <3>1. Peek(i, t)
      BY <1>1, <2>2, TaskMoves
    <3> QED BY <3>1 DEF Peek, Working
  <2> QED BY <2>1, <2>2
<1>3. ~Forget(i)
  <2>1. ASSUME Forget(i) PROVE FALSE
    BY <1>1, <2>1 DEF Forget, Idle, TypeOK, MemoryOK
  <2> QED BY <2>1
<1>4. ~Register(i) /\ ~ReadOrphans(i) /\ ~TakeUpQueued(i)
  BY <1>2 DEF Register, ReadOrphans, TakeUpQueued, Working
<1>5. phase'[i] \in Working
  BY <1>2, <1>3, <1>4, PhaseMoves DEF Working
<1> QED BY <1>2, <1>5

LEMMA ThreadsServeInit == Init => ThreadsServe
BY DEF Init, ThreadsServe, Idle

-----------------------------------------------------------------------------
(* What the graph says an instance runs is in one of its threads, or its   *)
(* recovery has not come to it yet.                                        *)
Recovers(i, o) ==
  \/ phase[i] \in {"down", "registered"}
  \/ phase[i] = "reclaiming" /\ o \in orphans[i]

RunningIsHeld ==
  \A i \in Instances, o \in Ops :
    status[o] = "running" /\ executor[o] = i
      => InBody(i, o) \/ Recovers(i, o) \/ o \in refused

LEMMA RefusedStays ==
  ASSUME [Next]_vars PROVE refused \subseteq refused'
<1>1. ASSUME NEW i \in Instances, NEW t \in Tasks, Claim(i, t) PROVE refused \subseteq refused'
  BY <1>1 DEF Claim, Peek, Resolve, CommitClaim, RefuseClaim, End, LoseEnd, bounds
<1>2. ASSUME NEW i \in Instances,
             \/ Startup(i) \/ Beat(i) \/ Age(i)
             \/ Crash(i) \/ Stop(i) \/ Deregister(i) \/ Exit(i)
      PROVE  refused' = refused
  BY <1>2 DEF Startup, Register, ReadOrphans, FailOrphan, TakeUpQueued, Publish, Beat, Age,
       Crash, Stop, Deregister, Exit, bounds
<1>3. ASSUME NEW o \in Ops, Issue(o) PROVE refused' = refused
  BY <1>3 DEF Issue, Discover, Create, Deliver, bounds
<1>4. ASSUME NEW m \in Ops \X Kinds, Trigger(m) \/ SendFeedback(m[1], m[2])
      PROVE  refused' = refused
  BY <1>4 DEF Trigger, ReadTrigger, Enqueue, SendFeedback, bounds
<1>5. CASE Sweep
  BY <1>5 DEF Sweep, SweepBegin, SweepRead, SweepFail, SweepMiss, SweepDeregister, SweepEnd,
       bounds
<1>6. CASE UNCHANGED vars
  BY <1>6 DEF vars, bounds
<1> QED BY <1>1, <1>2, <1>3, <1>4, <1>5, <1>6 DEF Next

LEMMA BodyStays ==
  ASSUME TypeOK, [Next]_vars, NEW i \in Instances, NEW o \in Ops,
         InBody(i, o), status'[o] = "running"
  PROVE  InBody(i, o)' \/ phase'[i] = "down" \/ o \in refused'
<1>1. PICK t \in Tasks : task[i][t].pc = "body" /\ task[i][t].op = o
  BY DEF InBody
<1>2. CASE task'[i][t] = task[i][t]
  BY <1>1, <1>2 DEF InBody
<1>3. ASSUME task'[i][t].pc = "idle" PROVE phase'[i] = "down" \/ o \in refused'
  <2>1. task' # task
    BY <1>1, <1>3
  <2>2. ASSUME NEW j \in Instances, NEW u \in Tasks, task' = [task EXCEPT ![j][u] = Idle]
        PROVE  j = i /\ u = t
    BY <1>1, <1>3, <2>2 DEF TypeOK, MemoryOK
  <2>3. ASSUME NEW j \in Instances, NEW u \in Tasks, Claim(j, u) PROVE o \in refused'
    <3>1. CASE RefuseClaim(j, u)
      BY <1>1, <2>2, <3>1 DEF RefuseClaim
    <3>2. CASE LoseEnd(j, u)
      BY <1>1, <2>2, <3>2 DEF LoseEnd
    <3>3. ASSUME NEW outcome \in Terminal, End(j, u, outcome) PROVE FALSE
      <4>1. j = i /\ u = t
        BY <2>2, <3>3 DEF End
      <4>2. status'[o] = outcome
        BY <1>1, <3>3, <4>1 DEF End, TypeOK, GraphOK
      <4> QED BY <4>2 DEF Terminal
    <3>4. CASE Peek(j, u)
      <4>1. queue[j] # <<>> /\ task' = [task EXCEPT ![j][u] =
                     [pc |-> "resolving", op |-> Head(queue[j]), workflow |-> None]]
        BY <2>1, <3>4 DEF Peek
      <4> QED BY <1>1, <1>3, <4>1 DEF TypeOK, MemoryOK
    <3>5. CASE Resolve(j, u)
      <4>1. CASE task' = [task EXCEPT ![j][u] = Idle]
        BY <1>1, <2>2, <3>5, <4>1 DEF Resolve
      <4>2. CASE task' = [task EXCEPT ![j][u].pc = "claiming", ![j][u].workflow = realizer]
        BY <1>1, <1>3, <3>5, <4>2 DEF Resolve, TypeOK, MemoryOK, TaskState
      <4> QED BY <3>5, <4>1, <4>2 DEF Resolve
    <3>6. CASE CommitClaim(j, u)
      <4>1. task' = [task EXCEPT ![j][u].pc = "body"]
        BY <3>6 DEF CommitClaim
      <4> QED BY <1>1, <1>3, <4>1 DEF TypeOK, MemoryOK, TaskState
    <3> QED BY <2>3, <3>1, <3>2, <3>3, <3>4, <3>5, <3>6 DEF Claim
  <2>4. ASSUME NEW j \in Instances, Startup(j) \/ Beat(j) \/ Age(j) \/ Stop(j) \/ Deregister(j)
        PROVE  FALSE
    BY <2>1, <2>4 DEF Startup, Register, ReadOrphans, FailOrphan, TakeUpQueued, Publish, Beat,
         Age, Stop, Deregister, memory
  <2>5. ASSUME NEW j \in Instances, Crash(j) \/ Exit(j) PROVE phase'[i] = "down"
    <3>1. Forget(j)
      BY <2>5 DEF Crash, Exit
    <3>2. CASE j = i
      BY <3>1, <3>2 DEF Forget, TypeOK, MemoryOK
    <3>3. CASE j # i
      BY <1>1, <1>3, <3>1, <3>3 DEF Forget, TypeOK, MemoryOK
    <3> QED BY <3>2, <3>3
  <2>6. ASSUME NEW p \in Ops, Issue(p) PROVE FALSE
    BY <2>1, <2>6 DEF Issue, Discover, Create, Deliver, memory
  <2>7. ASSUME NEW m \in Ops \X Kinds, Trigger(m) \/ SendFeedback(m[1], m[2]) PROVE FALSE
    BY <2>1, <2>7 DEF Trigger, ReadTrigger, Enqueue, SendFeedback, memory
  <2>8. ~Sweep
    BY <2>1 DEF Sweep, SweepBegin, SweepRead, SweepFail, SweepMiss, SweepDeregister, SweepEnd, memory
  <2>9. vars' # vars
    BY <2>1 DEF vars, memory
  <2> QED BY <2>3, <2>4, <2>5, <2>6, <2>7, <2>8, <2>9 DEF Next
<1>4. ~Peek(i, t)
  BY <1>1 DEF Peek
<1> QED BY <1>1, <1>2, <1>3, <1>4, TaskMoves

LEMMA RunningIsHeldStep ==
  ASSUME TypeOK, TypeOK', ThreadsServe, RunningIsHeld, [Next]_vars,
         Claimers \subseteq Exposers
  PROVE  RunningIsHeld'
<1>1. SUFFICES ASSUME NEW i \in Instances, NEW o \in Ops, status'[o] = "running", executor'[o] = i
               PROVE  InBody(i, o)' \/ Recovers(i, o)' \/ o \in refused'
  BY DEF RunningIsHeld
<1>2. ASSUME NEW j \in Instances, NEW t \in Tasks, CommitClaim(j, t), task[j][t].op = o
      PROVE  InBody(i, o)'
  <2>1. j \in Exposers
    BY <1>2 DEF CommitClaim, ThreadsServe
  <2>2. executor'[o] = j
    BY <1>2, <2>1 DEF CommitClaim, TypeOK, GraphOK
  <2>3. task'[j][t].pc = "body" /\ task'[j][t].op = o
    BY <1>2 DEF CommitClaim, TypeOK, MemoryOK, TaskState
  <2> QED BY <1>1, <2>2, <2>3 DEF InBody
<1>3. CASE status[o] = "running" /\ executor[o] = i
  <2>1. CASE InBody(i, o)
    BY <1>1, <2>1, BodyStays DEF Recovers
  <2>2. CASE Recovers(i, o)
    <3>1. CASE Forget(i)
      BY <3>1 DEF Forget, Recovers, TypeOK, MemoryOK
    <3>2. CASE Register(i) /\ phase'[i] = "registered"
      BY <3>2 DEF Recovers
    <3>3. CASE ReadOrphans(i) /\ phase'[i] = "reclaiming"
      <4>1. o \in Stranded({"running"}, LiveOnRestart(i))
        BY <1>3 DEF Stranded, LiveOnRestart, Live
      <4>2. orphans'[i] = Stranded({"running"}, LiveOnRestart(i))
        BY <3>3 DEF ReadOrphans, TypeOK, MemoryOK
      <4> QED BY <3>3, <4>1, <4>2 DEF Recovers
    <3>4. ASSUME NEW p \in Ops, FailOrphan(i, p), phase'[i] = phase[i]
          PROVE  Recovers(i, o)'
      <4>1. status'[p] = "failed" /\ orphans'[i] = orphans[i] \ {p}
        BY <3>4 DEF FailOrphan, TypeOK, GraphOK, MemoryOK
      <4> QED BY <1>1, <2>2, <3>4, <4>1 DEF Recovers
    <3>5. CASE phase'[i] = phase[i] /\ orphans'[i] = orphans[i]
      BY <2>2, <3>5 DEF Recovers
    <3>6. ~TakeUpQueued(i)
      BY <2>2 DEF TakeUpQueued, Recovers
    <3>7. phase[i] \notin {"publishing", "serving", "stopping"}
      BY <2>2 DEF Recovers
    <3> QED BY <3>1, <3>2, <3>3, <3>4, <3>5, <3>6, <3>7, PhaseMoves
  <2>3. CASE o \in refused
    BY <2>3, RefusedStays
  <2> QED BY <1>3, <2>1, <2>2, <2>3 DEF RunningIsHeld
<1> QED BY <1>1, <1>2, <1>3, RunningMoves

(* Whatever is running with an instance that is past its recovery as its   *)
(* executor is in the body of one of its threads, over any crashes, stops, *)
(* late deliveries, outages and sweeps, unless the store has refused its   *)
(* end: if whoever claims exposes the Workflow.                            *)
THEOREM NoZombies ==
  ASSUME Claimers \subseteq Exposers PROVE Spec => []NoZombie
<1> DEFINE Inv == TypeOK /\ ThreadsServe /\ RunningIsHeld
<1>1. Init => Inv
  <2>1. Init => RunningIsHeld
    BY DEF Init, RunningIsHeld
  <2> QED BY <2>1, TypeInit, ThreadsServeInit
<1>2. Inv /\ [Next]_vars => Inv'
  BY TypeStep, ThreadsServeStep, RunningIsHeldStep
<1>3. Inv => NoZombie
  BY DEF RunningIsHeld, Recovers, NoZombie
<1> QED BY <1>1, <1>2, <1>3, PTL DEF Spec

-----------------------------------------------------------------------------
(* With one exposer, which alone claims: what a sweep finds stranded was   *)
(* found while that instance was not live.                                 *)

RealizerExposes ==
  /\ realizer \in Exposers \cup {None}
  /\ \A o \in Ops : post[<<o, "work">>].pc # "none" => realizer # None
ExecutorExposes == \A o \in Ops : status[o] = "running" => executor[o] \in Exposers
StrandedOfTheDead == sweep.stranded # {} => sweep.live \cap Exposers = {}

LEMMA RealizerExposesStep ==
  ASSUME TypeOK, RealizerExposes, [Next]_vars PROVE RealizerExposes'
<1> USE DEF TypeOK
<1>0. /\ \A i \in Exposers : i # None
      /\ \A o \in Ops : <<o, "work">> \in Ops \X Kinds
  BY DispatchAssumption DEF DispatchAssumption, Kinds
<1>1. CASE UNCHANGED <<post, realizer>>
  BY <1>1 DEF RealizerExposes
<1>2. ASSUME NEW p \in Ops, NEW kind \in FeedbackKinds, Feedback(p, kind), UNCHANGED realizer
      PROVE  RealizerExposes'
  <2>1. \A o \in Ops : post'[<<o, "work">>] = post[<<o, "work">>]
    BY <1>0, <1>2 DEF Feedback, FeedbackKinds, PostOK
  <2> QED BY <1>2, <2>1 DEF RealizerExposes
<1>3. ASSUME NEW m \in Ops \X Kinds, NEW slot,
             post' = [post EXCEPT ![m] = slot], realizer # None \/ post[m].pc # "none",
             UNCHANGED realizer
      PROVE  RealizerExposes'
  <2>1. ASSUME NEW o \in Ops, post'[<<o, "work">>].pc # "none" PROVE realizer # None
    <3>1. CASE post'[<<o, "work">>] = post[<<o, "work">>]
      BY <2>1, <3>1 DEF RealizerExposes
    <3>2. CASE post'[<<o, "work">>] # post[<<o, "work">>]
      <4>1. m = <<o, "work">>
        BY <1>0, <1>3, <3>2 DEF PostOK
      <4> QED BY <1>3, <4>1 DEF RealizerExposes
    <3> QED BY <3>1, <3>2
  <2> QED BY <1>3, <2>1 DEF RealizerExposes
<1>4. ASSUME NEW i \in Instances, Startup(i) PROVE RealizerExposes'
  <2>1. CASE Register(i) \/ ReadOrphans(i) \/ TakeUpQueued(i)
    BY <1>1, <2>1 DEF Register, ReadOrphans, TakeUpQueued, graph
  <2>2. CASE \E o \in Ops : FailOrphan(i, o)
    BY <1>2, <2>2 DEF FailOrphan, FeedbackKinds
  <2>3. CASE Publish(i)
    BY <1>0, <2>3 DEF Publish, RealizerExposes
  <2> QED BY <1>4, <2>1, <2>2, <2>3 DEF Startup
<1>5. ASSUME NEW i \in Instances, NEW t \in Tasks, Claim(i, t) PROVE RealizerExposes'
  <2>0. ASSUME task[i][t].pc # "idle", task[i][t].op \notin Ops, NEW kind,
               Feedback(task[i][t].op, kind)
        PROVE  UNCHANGED post
    BY <2>0, DispatchAssumption DEF Feedback, DispatchAssumption
  <2>1. CASE Peek(i, t) \/ Resolve(i, t) \/ RefuseClaim(i, t) \/ LoseEnd(i, t)
    BY <1>1, <2>1 DEF Peek, Resolve, RefuseClaim, LoseEnd, graph
  <2>2. CASE CommitClaim(i, t)
    <3>1. Feedback(task[i][t].op, "claimed") /\ UNCHANGED realizer /\ task[i][t].pc # "idle"
      BY <2>2 DEF CommitClaim
    <3> QED BY <1>1, <1>2, <2>0, <3>1 DEF FeedbackKinds
  <2>3. ASSUME NEW outcome \in Terminal, End(i, t, outcome) PROVE RealizerExposes'
    <3>1. Feedback(task[i][t].op, "ended") /\ UNCHANGED realizer /\ task[i][t].pc # "idle"
      BY <2>3 DEF End
    <3> QED BY <1>1, <1>2, <2>0, <3>1 DEF FeedbackKinds
  <2> QED BY <1>5, <2>1, <2>2, <2>3 DEF Claim
<1>6. ASSUME NEW i \in Instances, Beat(i) \/ Age(i) \/ Stop(i) \/ Deregister(i) \/ Exit(i)
      PROVE  RealizerExposes'
  BY <1>1, <1>6 DEF Beat, Age, Stop, Deregister, Exit, graph
<1>7. ASSUME NEW i \in Instances, Crash(i) PROVE RealizerExposes'
  <2>1. \A o \in Ops : post'[<<o, "work">>].pc # "none" => post[<<o, "work">>].pc # "none"
    BY <1>0, <1>7 DEF Crash, Handling, PostOK, PostState
  <2>2. realizer' = realizer
    BY <1>7 DEF Crash, graph
  <2> QED BY <2>1, <2>2 DEF RealizerExposes
<1>8. ASSUME NEW o \in Ops, Issue(o) PROVE RealizerExposes'
  <2>1. CASE Discover(o)
    BY <1>0, <1>3, <2>1 DEF Discover, graph
  <2>2. CASE Create(o)
    BY <1>0, <1>3, <2>2 DEF Create
  <2>3. CASE Deliver(o)
    <3>1. PICK stage : post' = [post EXCEPT ![<<o, "work">>].pc = stage]
      BY <2>3 DEF Deliver
    <3> QED BY <1>0, <1>3, <2>3, <3>1 DEF Deliver, graph
  <2> QED BY <1>8, <2>1, <2>2, <2>3 DEF Issue
<1>9. ASSUME NEW m \in Ops \X Kinds, Trigger(m) \/ SendFeedback(m[1], m[2])
      PROVE  RealizerExposes'
  <2>0. m = <<m[1], m[2]>>
    OBVIOUS
  <2>1. PICK slot : post' = [post EXCEPT ![m] = slot]
    BY <1>9, <2>0 DEF Trigger, ReadTrigger, Enqueue, SendFeedback
  <2>2. post[m].pc # "none" /\ UNCHANGED realizer
    BY <1>9, <2>0 DEF Trigger, ReadTrigger, Enqueue, SendFeedback, graph
  <2> QED BY <1>3, <2>1, <2>2
<1>10. CASE Sweep
  <2>1. CASE \E o \in Ops : SweepFail(o)
    BY <1>2, <2>1 DEF SweepFail, FeedbackKinds
  <2>2. CASE SweepBegin \/ SweepDeregister \/ SweepEnd
             \/ (\E i \in Instances : SweepRead(i)) \/ (\E o \in Ops : SweepMiss(o))
    BY <1>1, <2>2 DEF SweepBegin, SweepRead, SweepMiss, SweepDeregister, SweepEnd, graph
  <2> QED BY <1>10, <2>1, <2>2 DEF Sweep
<1>11. CASE UNCHANGED vars
  BY <1>1, <1>11 DEF vars, graph
<1> QED BY <1>4, <1>5, <1>6, <1>7, <1>8, <1>9, <1>10, <1>11 DEF Next

LEMMA ExecutorExposesStep ==
  ASSUME TypeOK, ThreadsServe, ExecutorExposes, [Next]_vars, Claimers \subseteq Exposers
  PROVE  ExecutorExposes'
<1>1. SUFFICES ASSUME NEW o \in Ops, status'[o] = "running" PROVE executor'[o] \in Exposers
  BY DEF ExecutorExposes
<1>2. ASSUME NEW i \in Instances, NEW t \in Tasks, CommitClaim(i, t), task[i][t].op = o
      PROVE  executor'[o] \in Exposers
  <2>1. i \in Exposers
    BY <1>2 DEF CommitClaim, ThreadsServe
  <2> QED BY <1>2, <2>1 DEF CommitClaim, TypeOK, GraphOK
<1> QED BY <1>1, <1>2, RunningMoves DEF ExecutorExposes

LEMMA StrandedOfTheDeadStep ==
  ASSUME TypeOK, StatusIssued, RealizerExposes, ExecutorExposes, StrandedOfTheDead, [Next]_vars,
         \A i, j \in Exposers : i = j
  PROVE  StrandedOfTheDead'
<1>0. sweep \in SweepState
  BY DEF TypeOK, SweepOK
<1>1. CASE UNCHANGED sweep
  BY <1>1 DEF StrandedOfTheDead
<1>2. CASE Sweep
  <2>1. CASE SweepBegin \/ SweepEnd
    <3> DEFINE late == {i \in Instances : address[i] /\ ~fresh[i]}
    <3>1. \/ sweep' = [NoSweep EXCEPT !.on = TRUE, !.recent = Beating, !.todo = late]
          \/ sweep' = NoSweep
      BY <2>1 DEF SweepBegin, SweepEnd
    <3> HIDE DEF late
    <3>2. sweep'.stranded = {}
      <4>1. CASE sweep' = NoSweep
        BY <4>1 DEF NoSweep
      <4>2. CASE sweep' = [NoSweep EXCEPT !.on = TRUE, !.recent = Beating, !.todo = late]
        BY <4>2 DEF NoSweep
      <4> QED BY <3>1, <4>1, <4>2
    <3> QED BY <3>2 DEF StrandedOfTheDead
  <2>2. ASSUME NEW i \in Instances, SweepRead(i) PROVE StrandedOfTheDead'
    <3> DEFINE recent == sweep.recent \cup Beating
               found  == Stranded({"queued", "running"}, recent)
               alive  == {j \in Instances : Live(j, recent)}
    <3>1. CASE sweep' = [sweep EXCEPT !.service = i, !.all = TRUE, !.stranded = found,
                                      !.live = alive]
      <4>1. sweep'.stranded = found /\ sweep'.live = alive
        <5> HIDE DEF found, alive
        <5> QED BY <1>0, <3>1 DEF SweepState
      <4>2. ASSUME NEW o \in found PROVE \E j \in Exposers : ~Live(j, recent)
        <5>1. o \in Ops /\ status[o] \in {"queued", "running"}
          BY DEF Stranded
        <5>2. CASE status[o] = "running"
          <6>1. executor[o] \in Exposers /\ executor[o] \in Instances
            BY <5>1, <5>2, DispatchAssumption DEF ExecutorExposes, DispatchAssumption
          <6> QED BY <5>2, <6>1 DEF Stranded
        <5>3. CASE status[o] = "queued"
          <6>1. realizer \in Exposers /\ realizer \in Instances
            BY <5>1, <5>3, DispatchAssumption
               DEF StatusIssued, Issued, RealizerExposes, DispatchAssumption
          <6> QED BY <5>3, <6>1 DEF Stranded
        <5> QED BY <5>1, <5>2, <5>3
      <4>3. found # {} => alive \cap Exposers = {}
        BY <4>2
      <4> QED BY <4>1, <4>3 DEF StrandedOfTheDead
    <3>2. CASE sweep' = [sweep EXCEPT !.todo = @ \ {i}]
      BY <1>0, <3>2 DEF StrandedOfTheDead, SweepState
    <3> QED BY <2>2, <3>1, <3>2 DEF SweepRead
  <2>3. CASE (\E o \in Ops : SweepFail(o) \/ SweepMiss(o)) \/ SweepDeregister
    <3>1. sweep'.stranded \subseteq sweep.stranded /\ sweep'.live = sweep.live
      BY <1>0, <2>3 DEF SweepFail, SweepMiss, SweepDeregister, SweepState
    <3> QED BY <3>1 DEF StrandedOfTheDead
  <2> QED BY <1>2, <2>1, <2>2, <2>3 DEF Sweep
<1>3. ASSUME NEW i \in Instances,
             \/ Startup(i) \/ Beat(i) \/ Age(i) \/ Crash(i) \/ Stop(i) \/ Deregister(i) \/ Exit(i)
             \/ \E t \in Tasks : Claim(i, t)
      PROVE  UNCHANGED sweep
  BY <1>3 DEF Startup, Register, ReadOrphans, FailOrphan, TakeUpQueued, Publish, Beat, Age, Crash,
       Stop, Deregister, Exit, Claim, Peek, Resolve, CommitClaim, RefuseClaim, End, LoseEnd
<1>4. ASSUME NEW o \in Ops, Issue(o) PROVE UNCHANGED sweep
  BY <1>4 DEF Issue, Discover, Create, Deliver
<1>5. ASSUME NEW m \in Ops \X Kinds, Trigger(m) \/ SendFeedback(m[1], m[2]) PROVE UNCHANGED sweep
  BY <1>5 DEF Trigger, ReadTrigger, Enqueue, SendFeedback
<1>6. CASE UNCHANGED vars
  BY <1>1, <1>6 DEF vars
<1> QED BY <1>1, <1>2, <1>3, <1>4, <1>5, <1>6 DEF Next

(* A sweep fails no Operation that the one exposer, live when the sweep    *)
(* read what is stranded, has in a body by then, whatever was delivered,   *)
(* claimed or restarted between the read and the failing.                  *)
THEOREM SweepIsSparing ==
  ASSUME Claimers \subseteq Exposers, \A i, j \in Exposers : i = j
  PROVE  Spec => SweepSparesTheLive
<1> DEFINE Inv == /\ FeedbackInv /\ ThreadsServe
                  /\ RealizerExposes /\ ExecutorExposes /\ StrandedOfTheDead
<1>1. Init => Inv
  <2>1. Init => RealizerExposes /\ ExecutorExposes /\ StrandedOfTheDead
    BY DEF Init, RealizerExposes, ExecutorExposes, StrandedOfTheDead, NoSweep, NoPost, Kinds
  <2> QED BY <2>1, FeedbackInvInit, ThreadsServeInit
<1>2. Inv /\ [Next]_vars => Inv'
  BY FeedbackInvStep, ThreadsServeStep, RealizerExposesStep, ExecutorExposesStep,
     StrandedOfTheDeadStep DEF FeedbackInv, KnownOnlyIssued
<1>3. Inv /\ [Next]_vars =>
        [\A o \in Ops : SweepFail(o) => \A i \in sweep.live : ~InBody(i, o)]_vars
  <2> SUFFICES ASSUME Inv, NEW o \in Ops, SweepFail(o), NEW i \in sweep.live, InBody(i, o)
               PROVE  FALSE
    OBVIOUS
  <2>1. i \in Instances
    BY DEF FeedbackInv, TypeOK, SweepOK, SweepState
  <2>2. i \in Exposers
    BY <2>1 DEF InBody, ThreadsServe
  <2> QED BY <2>2 DEF SweepFail, StrandedOfTheDead
<1> QED BY <1>1, <1>2, <1>3, PTL DEF Spec, SweepSparesTheLive

=============================================================================
