-------------------------- MODULE OperationDispatch --------------------------
(***************************************************************************)
(* The coordination of Operations on one Resource: its middleware          *)
(* instances, the issuers that dispatch to it, and the watchdog meet only  *)
(* in the shared graph and at the instances' event triggers.               *)
(*                                                                         *)
(* Every store commit is one atomic step, and so is every query; whatever  *)
(* the code does between two of them (an await, a thread, a post) can be   *)
(* interleaved with the others.  This is the path of an instance without a *)
(* notification handler: the in-memory queue, claim_next and, when         *)
(* Callback holds, the callback that an enqueue fires.                     *)
(***************************************************************************)
EXTENDS Naturals, Sequences, FiniteSets

CONSTANTS
  Ops,         \* the Operations that may be issued to the Resource
  Own,         \* those of them that the Resource itself issues
  Instances,   \* the middleware instances on the Resource, one Service each
  Exposers,    \* those that expose the Workflow of the Capability
  Claimers,    \* those whose domain code or callback claims; a monitor does not
  Tasks,       \* the worker threads an instance claims with
  None,        \* no instance, no Operation
  Callback,    \* BOOLEAN: register_callback was called
  MaxEnds,     \* bound on ends of processes, by a kill or a clean stop
  Faulty,      \* the parts whose store calls and posts may fail
  MaxFaults    \* bound on those that do

ASSUME DispatchAssumption ==
  /\ IsFiniteSet(Ops)
  /\ Own \subseteq Ops
  /\ Exposers \subseteq Instances /\ Claimers \subseteq Instances
  /\ None \notin Ops \cup Instances
  /\ Callback \in BOOLEAN
  /\ MaxEnds \in Nat /\ MaxFaults \in Nat

VARIABLES
  \* the graph
  status,      \* svc:hasOperationStatus; "absent" before the Operation exists
  executor,    \* svc:executedByWorkflow, as the instance whose Workflow it is
  realizer,    \* svc:realizedByWorkflow of the Capability, likewise
  address,     \* whether the Service has an svc:hasAddress
  fresh,       \* whether svc:hasLastHeartbeat is within the threshold
  \* the instances
  phase,       \* how far the process is in its life
  orphans,     \* the orphaned Operations the startup still has to fail
  queue,       \* _operation_queue
  scheduled,   \* callback tasks that wait for a worker thread
  task,        \* what each worker thread does
  \* the notifications and the watchdog
  post,        \* one slot per Operation and kind of notification
  sweep,       \* the watchdog's sweep in progress
  \* bounds, and a history: the Operations of which the store has refused a
  \* claim, or an end and its error transition
  ends, faults, refused

graph    == <<status, executor, realizer, address, fresh>>
memory   == <<phase, orphans, queue, scheduled, task>>
bounds   == <<ends, faults, refused>>
vars     == <<graph, memory, post, sweep, bounds>>

Status   == {"absent", "queued", "running", "done", "failed"}
Terminal == {"done", "failed"}
Kinds    == {"work", "claimed", "ended"}
Phases   == {"down", "registered", "reclaiming", "publishing", "serving",
             "stopping", "leaving"}

Idle     == [pc |-> "idle", op |-> None, workflow |-> None]
NoPost   == [pc |-> "none", to |-> None]
NoSweep  == [on |-> FALSE, todo |-> {}, recent |-> {}, service |-> None,
             stranded |-> {}, all |-> TRUE, live |-> {}]

TaskState  == [pc : {"idle", "resolving", "claiming", "body"}, op : Ops \cup {None},
               workflow : Instances \cup {None}]
PostState  == [pc : {"none", "found", "due", "received", "read", "over"},
               to : Instances \cup {None}]
SweepState == [on : BOOLEAN, todo : SUBSET Instances, recent : SUBSET Instances,
               service : Instances \cup {None}, stranded : SUBSET Ops, all : BOOLEAN,
               live : SUBSET Instances]

GraphOK ==
  /\ status \in [Ops -> Status]
  /\ executor \in [Ops -> Instances \cup {None}]
  /\ realizer \in Instances \cup {None}
  /\ address \in [Instances -> BOOLEAN]
  /\ fresh \in [Instances -> BOOLEAN]

MemoryOK ==
  /\ phase \in [Instances -> Phases]
  /\ orphans \in [Instances -> SUBSET Ops]
  /\ queue \in [Instances -> Seq(Ops)]
  /\ scheduled \in [Instances -> Nat]
  /\ task \in [Instances -> [Tasks -> TaskState]]

PostOK   == post \in [Ops \X Kinds -> PostState]
SweepOK  == sweep \in SweepState
BoundsOK == ends \in Nat /\ faults \in Nat /\ refused \subseteq Ops \cup {None}

TypeOK == GraphOK /\ MemoryOK /\ PostOK /\ SweepOK /\ BoundsOK

Init ==
  /\ status = [o \in Ops |-> "absent"]
  /\ executor = [o \in Ops |-> None]
  /\ realizer = None
  /\ address = [i \in Instances |-> FALSE]
  /\ fresh = [i \in Instances |-> FALSE]
  /\ phase = [i \in Instances |-> "down"]
  /\ orphans = [i \in Instances |-> {}]
  /\ queue = [i \in Instances |-> <<>>]
  /\ scheduled = [i \in Instances |-> 0]
  /\ task = [i \in Instances |-> [t \in Tasks |-> Idle]]
  /\ post = [m \in Ops \X Kinds |-> NoPost]
  /\ sweep = NoSweep
  /\ ends = 0 /\ faults = 0 /\ refused = {}

(* A store call or a post that fails, and an outage of the store for as    *)
(* long as a heartbeat's threshold, use up one of the bounded faults.      *)
Fault(part) == part \in Faulty /\ faults < MaxFaults /\ faults' = faults + 1

-----------------------------------------------------------------------------
(* Reads of the graph.                                                     *)

Beating == {i \in Instances : fresh[i]}

(* A live Service has an address and a heartbeat that is recent enough. *)
Live(i, recent) == address[i] /\ i \in recent

StrandedByResource(statuses, recent) == {o \in Ops : status[o] \in statuses}

(* find_stranded_operations: the running ones whose executor is not live,  *)
(* and the others whose Capability no live Service realizes.               *)
Stranded(statuses, recent) ==
  {o \in Ops : /\ status[o] \in statuses
               /\ \A i \in Instances :
                    i = (IF status[o] = "running" THEN executor[o] ELSE realizer)
                      => ~Live(i, recent)}

(* The notification of the issuer after an admitted move of o; only an     *)
(* Operation of the Resource's own comes back to this Resource.            *)
Feedback(o, kind) ==
  post' = IF o \in Own /\ post[<<o, kind>>].pc \in {"none", "over"}
          THEN [post EXCEPT ![<<o, kind>>] = [pc |-> "due", to |-> None]]
          ELSE post

-----------------------------------------------------------------------------
(* The startup callbacks of an instance, in their order.                   *)

Register(i) ==
  /\ phase[i] = "down"
  /\ phase' = [phase EXCEPT ![i] = "registered"]
  /\ address' = [address EXCEPT ![i] = TRUE]
  /\ fresh' = [fresh EXCEPT ![i] = TRUE]
  /\ UNCHANGED <<status, executor, realizer, orphans, queue, scheduled, task,
                 post, sweep, bounds>>

LiveOnRestart_OwnToo(i) == Beating

(* The instance's own heartbeat may be fresh from before its crash. *)
LiveOnRestart(i) == Beating \ {i}

ReadOrphans(i) ==
  /\ phase[i] = "registered"
  /\ phase' = [phase EXCEPT ![i] = "reclaiming"]
  /\ orphans' = [orphans EXCEPT ![i] = Stranded({"running"}, LiveOnRestart(i))]
  /\ UNCHANGED <<graph, queue, scheduled, task, post, sweep, bounds>>

FailOrphan(i, o) ==
  /\ phase[i] = "reclaiming" /\ o \in orphans[i]
  /\ status' = [status EXCEPT ![o] = "failed"]
  /\ orphans' = [orphans EXCEPT ![i] = @ \ {o}]
  /\ Feedback(o, "ended")
  /\ UNCHANGED <<executor, realizer, address, fresh, phase, queue, scheduled,
                 task, sweep, bounds>>

(* The rows of the query come in any order. *)
Orders(S) == {s \in [1..Cardinality(S) -> S] :
                \A o \in S : \E n \in 1..Cardinality(S) : s[n] = o}

OwnQueued_NotIssued == {o \in Ops \ Own : status[o] = "queued"}

OwnQueued == {o \in Ops : status[o] = "queued"}

(* The queued Operations are enqueued again, without firing the callback.  *)
TakeUpQueued(i) ==
  /\ phase[i] = "reclaiming" /\ orphans[i] = {}
  /\ phase' = [phase EXCEPT ![i] = "publishing"]
  /\ \E s \in Orders(OwnQueued) :
       queue' = [queue EXCEPT ![i] = s]
  /\ UNCHANGED <<graph, orphans, scheduled, task, post, sweep, bounds>>

(* register_workflow runs after them; the last to register is the realizer. *)
Publish(i) ==
  /\ phase[i] = "publishing"
  /\ phase' = [phase EXCEPT ![i] = "serving"]
  /\ realizer' = IF i \in Exposers THEN i ELSE realizer
  /\ UNCHANGED <<status, executor, address, fresh, orphans, queue, scheduled,
                 task, post, sweep, bounds>>

-----------------------------------------------------------------------------
(* The heartbeat, and the time that passes without one.                    *)

Beat(i) ==
  /\ phase[i] \in {"publishing", "serving"} /\ ~fresh[i]
  /\ fresh' = [fresh EXCEPT ![i] = TRUE]
  /\ UNCHANGED <<status, executor, realizer, address, memory, post, sweep, bounds>>

Age(i) ==
  /\ fresh[i]
  /\ \/ phase[i] \in {"down", "stopping", "leaving"} /\ UNCHANGED faults
     \/ phase[i] \notin {"down", "stopping", "leaving"} /\ Fault("outage")
  /\ fresh' = [fresh EXCEPT ![i] = FALSE]
  /\ UNCHANGED <<status, executor, realizer, address, memory, post, sweep, ends,
                 refused>>

-----------------------------------------------------------------------------
(* issue_operation: discovery, the Operation's own commit, the delivery.   *)

Discover(o) ==
  /\ post[<<o, "work">>].pc = "none"
  /\ realizer # None /\ address[realizer]
  /\ post' = [post EXCEPT ![<<o, "work">>] = [pc |-> "found", to |-> realizer]]
  /\ UNCHANGED <<graph, memory, sweep, bounds>>

Create(o) ==
  /\ post[<<o, "work">>].pc = "found"
  /\ post' = [post EXCEPT ![<<o, "work">>].pc = "due"]
  /\ status' = [status EXCEPT ![o] = "queued"]
  /\ UNCHANGED <<executor, realizer, address, fresh, memory, sweep, bounds>>

(* The post reaches the address that discovery found, whatever runs there  *)
(* now; a post that fails leaves the Operation queued.                     *)
Deliver(o) ==
  /\ post[<<o, "work">>].pc = "due"
  /\ LET up == phase[post[<<o, "work">>].to] = "serving" IN
     \/ /\ up
        /\ post' = [post EXCEPT ![<<o, "work">>].pc = "received"]
        /\ UNCHANGED faults
     \/ /\ post' = [post EXCEPT ![<<o, "work">>].pc = "over"]
        /\ IF up THEN Fault("post") ELSE UNCHANGED faults
  /\ UNCHANGED <<graph, memory, sweep, ends, refused>>

(* reachable_service_addresses of the issuer. *)
Reachable == {i \in Instances : address[i]}

(* notify(): the issuer must have exactly one Service with an address.  A  *)
(* notification that is not delivered is dropped with a log line.          *)
SendFeedback(o, kind) ==
  /\ kind # "work" /\ post[<<o, kind>>].pc = "due"
  /\ \/ \E i \in Instances :
          /\ Reachable = {i} /\ phase[i] = "serving"
          /\ post' = [post EXCEPT ![<<o, kind>>] = [pc |-> "received", to |-> i]]
     \/ post' = [post EXCEPT ![<<o, kind>>].pc = "over"]
  /\ UNCHANGED <<graph, memory, sweep, bounds>>

-----------------------------------------------------------------------------
(* The event trigger without a notification handler: a read in a thread,   *)
(* then, back on the event loop, the enqueue and the callback's task.      *)

IssuedAndClaimed_ClaimOnly(o) == o \in Own /\ status[o] = "running"

(* _issued_and_claimed: feedback of a claim or an end, and no work. *)
IssuedAndClaimed(o) == o \in Own /\ status[o] # "queued"

ReadTrigger(m) ==
  /\ post[m].pc = "received"
  /\ post' = [post EXCEPT ![m].pc = IF IssuedAndClaimed(m[1]) THEN "over" ELSE "read"]
  /\ UNCHANGED <<graph, memory, sweep, bounds>>

Enqueued(q, o) == Append(q, o)

Enqueue(m) ==
  /\ post[m].pc = "read"
  /\ LET i == post[m].to IN
       /\ queue' = [queue EXCEPT ![i] = Enqueued(@, m[1])]
       /\ scheduled' = [scheduled EXCEPT ![i] = IF Callback /\ i \in Claimers THEN @ + 1 ELSE @]
  /\ post' = [post EXCEPT ![m].pc = "over"]
  /\ UNCHANGED <<graph, phase, orphans, task, sweep, bounds>>

-----------------------------------------------------------------------------
(* claim_next in a worker thread: peek, read, pop, claim, body, end.       *)

(* A callback's task begins with a free thread; without a callback the     *)
(* domain claims when it likes.  An empty queue raises OperationQueueEmpty. *)
Peek(i, t) ==
  /\ i \in Claimers
  /\ phase[i] \in {"serving", "stopping", "leaving"} /\ task[i][t].pc = "idle"
  /\ IF Callback
     THEN scheduled[i] > 0 /\ scheduled' = [scheduled EXCEPT ![i] = @ - 1]
     ELSE queue[i] # <<>> /\ UNCHANGED scheduled
  /\ task' = IF queue[i] = <<>> THEN task
             ELSE [task EXCEPT ![i][t] =
                     [pc |-> "resolving", op |-> Head(queue[i]), workflow |-> None]]
  /\ UNCHANGED <<graph, phase, orphans, queue, post, sweep, bounds>>

(* _resolve_claim reads the Workflow; then pop(0) drops the queue's first  *)
(* entry, whichever it is now.  A failed read, or a pop of an empty queue, *)
(* raises.                                                                 *)
Resolve(i, t) ==
  /\ task[i][t].pc = "resolving"
  /\ \/ /\ queue[i] # <<>>
        /\ queue' = [queue EXCEPT ![i] = Tail(@)]
        /\ task' = [task EXCEPT ![i][t].pc = "claiming", ![i][t].workflow = realizer]
        /\ UNCHANGED faults
     \/ /\ IF queue[i] = <<>> THEN UNCHANGED faults ELSE Fault("claim")
        /\ task' = [task EXCEPT ![i][t] = Idle]
        /\ UNCHANGED queue
  /\ UNCHANGED <<graph, phase, orphans, scheduled, post, sweep, ends, refused>>

(* The claim overwrites whatever the status is. *)
CommitClaim(i, t) ==
  /\ task[i][t].pc = "claiming"
  /\ LET o == task[i][t].op IN
       /\ status' = [status EXCEPT ![o] = "running"]
       /\ executor' = [executor EXCEPT ![o] = IF i \in Exposers THEN i ELSE @]
       /\ Feedback(o, "claimed")
  /\ task' = [task EXCEPT ![i][t].pc = "body"]
  /\ UNCHANGED <<realizer, address, fresh, phase, orphans, queue, scheduled,
                 sweep, bounds>>

(* A refused claim raises: the Operation has left the queue, not the graph. *)
RefuseClaim(i, t) ==
  /\ task[i][t].pc = "claiming" /\ Fault("claim")
  /\ refused' = refused \cup {task[i][t].op}
  /\ task' = [task EXCEPT ![i][t] = Idle]
  /\ UNCHANGED <<graph, phase, orphans, queue, scheduled, post, sweep, ends>>

(* done on a clean exit; failed on an error of the body, of the fetch or   *)
(* after a refused done.                                                   *)
End(i, t, outcome) ==
  /\ task[i][t].pc = "body"
  /\ LET o == task[i][t].op IN
       /\ status' = [status EXCEPT ![o] = outcome]
       /\ executor' = [executor EXCEPT ![o] =
                         IF i \in Exposers THEN i ELSE task[i][t].workflow]
       /\ Feedback(o, "ended")
  /\ task' = [task EXCEPT ![i][t] = Idle]
  /\ UNCHANGED <<realizer, address, fresh, phase, orphans, queue, scheduled,
                 sweep, bounds>>

(* The error transition fails too: it is only noted on the error. *)
LoseEnd(i, t) ==
  /\ task[i][t].pc = "body" /\ Fault("end")
  /\ refused' = refused \cup {task[i][t].op}
  /\ task' = [task EXCEPT ![i][t] = Idle]
  /\ UNCHANGED <<graph, phase, orphans, queue, scheduled, post, sweep, ends>>

-----------------------------------------------------------------------------
(* The end of a process.                                                   *)

(* What the process held in memory is gone; the graph stays. *)
Forget(i) ==
  /\ phase' = [phase EXCEPT ![i] = "down"]
  /\ orphans' = [orphans EXCEPT ![i] = {}]
  /\ queue' = [queue EXCEPT ![i] = <<>>]
  /\ scheduled' = [scheduled EXCEPT ![i] = 0]
  /\ task' = [task EXCEPT ![i] = [t \in Tasks |-> Idle]]

Handling(i) == {m \in Ops \X Kinds : post[m].to = i /\ post[m].pc \in {"received", "read"}}

Crash(i) ==
  /\ phase[i] # "down" /\ ends < MaxEnds
  /\ ends' = ends + 1
  /\ Forget(i)
  /\ post' = [m \in Ops \X Kinds |->
                IF m \in Handling(i) THEN [post[m] EXCEPT !.pc = "over"] ELSE post[m]]
  /\ UNCHANGED <<graph, sweep, faults, refused>>

(* The server has answered every open request before the shutdown runs. *)
Stop(i) ==
  /\ phase[i] = "serving" /\ ends < MaxEnds /\ Handling(i) = {}
  /\ ends' = ends + 1
  /\ phase' = [phase EXCEPT ![i] = "stopping"]
  /\ UNCHANGED <<graph, orphans, queue, scheduled, task, post, sweep, faults, refused>>

(* deregister_service: the Service stays in the graph, without an address. *)
DropAddress(i) == address' = [address EXCEPT ![i] = FALSE]

(* The deregistration is given up when its window ends without success. *)
Deregister(i) ==
  /\ phase[i] = "stopping"
  /\ phase' = [phase EXCEPT ![i] = "leaving"]
  /\ \/ DropAddress(i) /\ UNCHANGED faults
     \/ Fault("stop") /\ UNCHANGED address
  /\ UNCHANGED <<status, executor, realizer, fresh, orphans, queue, scheduled,
                 task, post, sweep, ends, refused>>

(* The process waits for the threads that still run a body. *)
Exit(i) ==
  /\ phase[i] = "leaving" /\ \A t \in Tasks : task[i][t].pc = "idle"
  /\ Forget(i)
  /\ UNCHANGED <<graph, post, sweep, bounds>>

-----------------------------------------------------------------------------
(* The watchdog: _sweep_stale_services, one stale Service after another.   *)

SweepBegin ==
  /\ ~sweep.on
  /\ \E i \in Instances : address[i] /\ ~fresh[i]
  /\ sweep' = [NoSweep EXCEPT !.on = TRUE, !.recent = Beating,
                 !.todo = {i \in Instances : address[i] /\ ~fresh[i]}]
  /\ UNCHANGED <<graph, memory, post, bounds>>

(* The threshold counts back from the sweep's start, so a Service that was *)
(* recent then stays recent for this sweep.  (live is a history: who was   *)
(* live at the read.)                                                      *)
SweepRead(i) ==
  /\ sweep.on /\ sweep.service = None /\ i \in sweep.todo
  /\ \/ /\ LET recent == sweep.recent \cup Beating
             IN sweep' = [sweep EXCEPT !.service = i, !.all = TRUE,
                            !.stranded = Stranded({"queued", "running"}, recent),
                            !.live = {j \in Instances : Live(j, recent)}]
        /\ UNCHANGED faults
     \/ /\ Fault("sweep")
        /\ sweep' = [sweep EXCEPT !.todo = @ \ {i}]
  /\ UNCHANGED <<graph, memory, post, ends, refused>>

SweepFail(o) ==
  /\ o \in sweep.stranded
  /\ status' = [status EXCEPT ![o] = "failed"]
  /\ Feedback(o, "ended")
  /\ sweep' = [sweep EXCEPT !.stranded = @ \ {o}]
  /\ UNCHANGED <<executor, realizer, address, fresh, memory, bounds>>

SweepMiss(o) ==
  /\ o \in sweep.stranded /\ Fault("sweep")
  /\ sweep' = [sweep EXCEPT !.stranded = @ \ {o}, !.all = FALSE]
  /\ UNCHANGED <<graph, memory, post, ends, refused>>

AllFailed_Ignored == TRUE
AllFailed == sweep.all

(* A Service whose stranded Operations were not all failed keeps its       *)
(* address, so that the next sweep finds it again.                         *)
SweepDeregister ==
  /\ sweep.service # None /\ sweep.stranded = {}
  /\ \/ /\ AllFailed
        /\ DropAddress(sweep.service)
        /\ UNCHANGED faults
     \/ /\ UNCHANGED address
        /\ IF AllFailed THEN Fault("sweep") ELSE UNCHANGED faults
  /\ sweep' = [sweep EXCEPT !.todo = @ \ {sweep.service}, !.service = None]
  /\ UNCHANGED <<status, executor, realizer, fresh, memory, post, ends, refused>>

SweepEnd ==
  /\ sweep.on /\ sweep.todo = {}
  /\ sweep' = NoSweep
  /\ UNCHANGED <<graph, memory, post, bounds>>

-----------------------------------------------------------------------------
Startup(i) ==
  \/ Register(i) \/ ReadOrphans(i) \/ TakeUpQueued(i) \/ Publish(i)
  \/ \E o \in Ops : FailOrphan(i, o)

Issue(o) == Discover(o) \/ Create(o) \/ Deliver(o)

Trigger(m) == ReadTrigger(m) \/ Enqueue(m)

Claim(i, t) ==
  \/ Peek(i, t) \/ Resolve(i, t) \/ CommitClaim(i, t) \/ RefuseClaim(i, t)
  \/ \E outcome \in Terminal : End(i, t, outcome)
  \/ LoseEnd(i, t)

Sweep ==
  \/ SweepBegin \/ SweepDeregister \/ SweepEnd
  \/ \E i \in Instances : SweepRead(i)
  \/ \E o \in Ops : SweepFail(o) \/ SweepMiss(o)

Next ==
  \/ \E i \in Instances :
       \/ Startup(i) \/ Beat(i) \/ Age(i)
       \/ Crash(i) \/ Stop(i) \/ Deregister(i) \/ Exit(i)
       \/ \E t \in Tasks : Claim(i, t)
  \/ \E o \in Ops : Issue(o)
  \/ \E m \in Ops \X Kinds : Trigger(m) \/ SendFeedback(m[1], m[2])
  \/ Sweep

Spec == Init /\ [][Next]_vars

(* Fairness: a started process goes on with its startup, its threads and   *)
(* its posts, a body ends, time passes for a heartbeat that nobody         *)
(* refreshes, and a watchdog runs.  No crash, stop, restart or issue is    *)
(* assumed to happen.                                                      *)
FairSpec ==
  /\ Spec
  /\ \A i \in Instances :
       /\ WF_vars(phase[i] # "down" /\ Startup(i))
       /\ WF_vars(Beat(i)) /\ WF_vars(phase[i] = "down" /\ Age(i))
       /\ WF_vars(Deregister(i)) /\ WF_vars(Exit(i))
  /\ \A i \in Claimers, t \in Tasks :
       /\ WF_vars(Peek(i, t)) /\ WF_vars(Resolve(i, t))
       /\ WF_vars(CommitClaim(i, t))
       /\ WF_vars(\E outcome \in Terminal : End(i, t, outcome))
  /\ \A o \in Ops : WF_vars(Deliver(o))
  /\ \A m \in Ops \X Kinds : WF_vars(Trigger(m)) /\ WF_vars(SendFeedback(m[1], m[2]))
  /\ WF_vars(Sweep)

-----------------------------------------------------------------------------
(* Properties.                                                             *)

InBody(i, o) == \E t \in Tasks : task[i][t].pc = "body" /\ task[i][t].op = o

(* A running Operation whose recorded executor is an instance that is past *)
(* its crash recovery is in the body of one of its threads: the recovery   *)
(* of _reconstruct_queue left no orphan of an earlier run of the process,  *)
(* also when its old heartbeat was still fresh.  Excepted is one whose end *)
(* and error transition were both refused: it is left running.             *)
NoZombie ==
  \A i \in Instances, o \in Ops :
    /\ phase[i] \in {"publishing", "serving", "stopping", "leaving"}
    /\ status[o] = "running" /\ executor[o] = i
    => InBody(i, o) \/ o \in refused

(* The notification of a claim or an end that comes back to the Resource   *)
(* that issued the Operation is never enqueued as work, in whatever order  *)
(* it arrives with the delivery of the Operation itself.                   *)
FeedbackIsNoWork ==
  [][\A o \in Ops, kind \in Kinds \ {"work"} : ~Enqueue(<<o, kind>>)]_vars

(* The sweep of a stale Service does not fail what a live sibling runs: an *)
(* instance that was live when the sweep read what is stranded does not    *)
(* have an Operation in a body that the sweep fails later, whatever it     *)
(* claimed since.  Holds while one instance exposes the Workflow: two      *)
(* "count as one realizer, the one that registered last".                  *)
SweepSparesTheLive ==
  [][\A o \in Ops : SweepFail(o) => \A i \in sweep.live : ~InBody(i, o)]_vars

(* A sweep finds what i has if i dies now, because its Service still has   *)
(* an address and no sweep has it on its list.  A live process is unlisted *)
(* while it stops, and when a sweep that began in an outage or before a    *)
(* restart takes its address: what it has then waits for its next start.   *)
Findable(i) == address[i] /\ i \notin sweep.todo
Unlisted(i) == phase[i] # "down" /\ ~Findable(i)

(* Every claimed Operation ends: by its claimer, by the recovery of its    *)
(* restart, or by the watchdog's sweep, also when a store call of a sweep  *)
(* fails: then the Service keeps its address, and the next sweep finds it. *)
(* Excepted are an end that is refused with its error transition, and an   *)
(* executor that is unlisted while it lives.                               *)
ClaimedEnds ==
  \A o \in Ops, i \in Exposers :
    (status[o] = "running" /\ executor[o] = i /\ Findable(i))
      ~> (status[o] \in Terminal \/ o \in refused \/ Unlisted(i))

(* An Operation in an instance's queue does not stay queued: it is claimed *)
(* or, when the instance dies, taken up again or failed.  Excepted are a   *)
(* claim that the store refuses, which has left the queue, a clean stop,   *)
(* which leaves what is queued, and an instance that is unlisted.          *)
QueuedIsTaken ==
  \A i \in Claimers, o \in Ops :
    o \in {queue[i][n] : n \in DOMAIN queue[i]}
      ~> (status[o] # "queued" \/ o \in refused \/ phase[i] = "stopping" \/ Unlisted(i))
=============================================================================
