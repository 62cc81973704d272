# A TLA+ model of the semantic middleware

The system is a Python library, `src/src/kapps_semantic_middleware`, with a demo
application, `src/demo/transferunits`. Each process that runs the library is a
*middleware instance* on one Resource of a plant. The instances share nothing but
a triple store (the *graph*) and the HTTP event triggers by which they notify
each other. Work is an *Operation*, an instance in the graph with a status
`queued`, `running`, `done` or `failed`; whoever issues one is told of its claim
and its end.

All line numbers below are those of the files under `src/`.

## 1. Inventory

### Components

| component | source | state it keeps | operations |
|---|---|---|---|
| Operation dispatch and recovery | `middleware.py`, `registration.py` | the graph's statuses, executors, addresses, heartbeats; `_operation_queue`, callback tasks | `issue_operation`, `_handle_event_trigger`, `claim_next`, `register_callback`, `_reconstruct_queue`, heartbeats, stop, `sweep` |
| Intake of notifications | `middleware.py` `_take_in`, `_work_intake`, `_run_received` | a FIFO, whether its worker is at work, the read of an Operation | take in, read again, test for feedback, run the workflow or the handler |
| Issuers' notification worker | `middleware.py` `_Notifier` | `_jobs`, `_running`, `_thread` under one condition | `submit`, `_work`, `flush`, `stop` |
| Waits on an issued Operation | `middleware.py` `IssuedOperation` | `_arrivals`, `_waiters`, the table of issued handles | `claimed`, `ended`, `wait_claimed`, `wait_ended`, `_wake` |
| General write | `commit.py`, `commit()` and `create()` in `middleware.py` | `_pending_write`, the staged changes, the parent of a creation | entry, body, exit, error transition, join |
| Possession and handover | `possession.py` | none of its own: the possession states in the graph | `handover`, `switch_possession`, a workpiece's creation |
| Activity feed | `activity.py` | a ring of records with sequence numbers, the streams | append, `oldest_seq`, `since`, the event stream |
| Observation of connections | `observation.py` | a record per connector and one of the store | wrap, stamp, fail |
| Semantic connectors and wiring | `connectors/` | the bindings, the registered connectors, the transports brought up | recognise, read metadata, build, receive |
| Projection and REST routes | `projection.py`, `rest_router.py` | the pruned class specification, the mounted routes | prune, mount, serve |
| Registration | `registration.py` | none of its own: Services and Workflows in the graph | register, discover, deregister, the stranded-Operation predicate |
| Operation scope, dashboard, validation report, seeding, SHACL interop | the modules of those names | records for display, or none | translations, rendering |
| Demo: launcher | `launcher.py`, `index.py` | the list of children, the state of each | spawn, watch, drain, stop a unit, stop all |
| Demo: controller and algorithm | `controller.py`, `algorithm.py`, `control_station.py`, `station_board.py` | the loaded units, their wirings, `rebuild_lock`, the last sample | `rebuild_view`, cards, tick |
| Demo: PLC of a TransferUnit | `plc/` | belt speeds, throughput, the panel | drive loop, panel |
| Demo: unit middleware, watchdog runner, seed | `middleware.py`, `watchdog.py`, `seed.py` of the demo | none of its own | process entry points |

### How they interact

- An issuer **discovers** the realizing Workflow, commits the Operation as
  `queued`, and posts its IRI to the address that it found. The two steps are not
  atomic, and the post may fail or reach another run of the process.
- The **event trigger** reads the Operation in a thread, and back on the event loop
  either wakes the issuer's handle or enqueues the Operation. An instance with a
  **handler** puts it into the intake's FIFO instead, whose one worker runs it.
- `claim_next` **peeks** the queue, reads the graph, **pops**, and commits `running`
  as the entry of a general write; its exit writes `done`, its error transition
  `failed`.
- Every admitted write that moves an issued Operation hands a job to the
  **notification worker**, which posts to the issuer's event trigger; there it
  **wakes** the waits on the handle.
- A **restart** fails what its own earlier run left running and takes up what is
  queued; a **watchdog** fails what a dead Service left and takes its address away.
- A **creation** in the body of a commit joins its write through a context
  variable, which tasks inherit. A **handover** is a commit whose entry moves the
  possession and whose body is the physical move.
- The **wiring** follows the same class specification as the **projection**: one
  recognises the parameters whose connectors feed the datamodel, the other prunes
  the protocols' fields from what the **routes** serve of it.
- Each connector runs behind an **observation**, and its formatter logs what it
  receives; the log is the **activity feed** that a browser follows.
- The demo's **launcher** starts the middlewares and PLCs in an order that their
  brokers need, and watches the graph for their addresses; the **controller** wires
  those of its view again and again while its **algorithm** samples them.

### What is hard

- *Interleaving*: the peek, read and pop of a claim; the sweep's read and a live sibling's
  claim; the worker that ends and the job or Operation handed over; overlapping handovers;
  polls that rebuild one view; the watch and the stops of a child.
- *Crash and restart*: a process that restarts faster than its heartbeat ages; a post
  sent to the earlier run; event ids of an earlier process.
- *Loss, repetition, order*: feedback of a claim that overtakes or repeats; a Resource that is
  issuer and executor; a commit whose answer is lost.
- *Partial failure*: one of several stranded Operations cannot be failed; the end of an
  Operation and then its error transition are refused; `Thread.start()` raises; a function ends
  the worker that runs it; a fetch, a wiring or a spawn in the middle of a row of them.
- *Stale reads*: a read that waited in a FIFO; a repeat decided on a first read; a difference
  taken before a lock; a deadline that passes during a read.
- *Context*: which write a creation joins, when bodies nest, belong to two stores,
  fail or are outlived by a task.

`PROJECT.json` lists each hazard at the line where it bites, with the properties
that would catch it or the reason why none does.

### What makes each component correct

- Dispatch: whatever is queued is taken or failed; whatever is claimed ends; nothing is
  failed that somebody runs; nothing runs that nobody issued.
- Intake: what waits has a worker, while functions raise no more than an `Exception`; nothing runs on a stale read; an ended Operation is not
  started again; a queued one survives a crash.
- Notification worker: one job at a time, in order, none lost but by a stop.
- Waits: no notification is slept through; a wait that gives up was not answered in time.
- General write: a write is admitted or refused as a whole, with what joined it.
- Handover: one possessor at a time; a call moves a workpiece at most once, and not on a
  precondition that was lost meanwhile.
- Activity feed and observation: a viewer sees each record once, or is told of the gap (it is not always: section 6); what
  is shown was stamped; a stop ends.
- Wiring, projection, routes: no southbound field is served; derived paths exist; a transport is up first.
- Launcher: nothing survives it; a PLC is stopped after its middleware; the page ends up right.
- Controller and algorithm: a departed unit leaves nothing; each request returns; cards and
  algorithm settle.

## 2. Modules and the code

### OperationDispatch

One step is one commit to the store, one query, one stretch of an event loop
between awaits, or the arrival or loss of a post. The variables are the graph
(`status`, `executor`, `realizer`, `address`, `fresh`), each instance's memory
(`phase`, `orphans`, `queue`, `scheduled`, `task`), the posts under way, and the
watchdog's sweep.

| actions | code |
|---|---|
| `Register`, `ReadOrphans`, `FailOrphan`, `TakeUpQueued`, `Publish` | the startup callbacks, in the order in which the constructor registers them: `register_service`, `_reconstruct_queue`, `register_workflow` |
| `Beat`, `Age` | `_heartbeat_loop`, and the time in which no heartbeat is admitted |
| `Discover`, `Create`, `Deliver` | `issue_operation`, `_deliver` |
| `ReadTrigger`, `Enqueue` | `_handle_event_trigger` before and after its await |
| `Peek`, `Resolve`, `CommitClaim`, `RefuseClaim`, `End`, `LoseEnd` | `claim_next` and the write that it opens |
| `SendFeedback` | `_notify_issuers_of_write`, `_send_to_issuers`, `notify` |
| `Crash`, `Stop`, `Deregister`, `Exit` | the end of a process, by a kill or by shutdown |
| `SweepBegin`, `SweepRead`, `SweepFail`, `SweepMiss`, `SweepDeregister`, `SweepEnd` | `sweep`, `_sweep_stale_services` |

Time is one bit per instance: whether its heartbeat is within the threshold. A
live process ages only while the store is out for that long, which is one of the
faults. A store error in `_reconstruct_queue` aborts the startup, so it is a `Crash`.
There are at most `MaxFaults` faults, in the parts that `Faulty` names: a post, a claim,
an end, a stop, a sweep, an outage. Processes end at most `MaxEnds` times, by a kill or by
a clean stop. `refused` holds, for the properties, the Operations of which the store
refused a claim, or an end and the error transition after it.

### OperationLifecycle and Intake

`OperationLifecycle` is the life of an Operation as its status values order it: created queued, claimed while queued, ended while running,
and then never again, as `docs/mechanics/05-operation-coordination.md:211-212` has it. `Intake` is the other half of the event trigger, an instance
with `on_notification`, and implements it for the Operations of its own Resource (`OwnLivesOnce`). Those of a peer may be run twice (section 6). A read is a
record of whether the Operation was queued, and whether a function of the intake has
returned since (`fresh`), which is what makes a read out of date. For the properties, an entry
also records what it was taken in `behind` (nobody, a worker that lives, or only what a worker
that died has left), and `left` what the last such worker left.

| actions | code |
|---|---|
| `Notify`, `ReadReceived`, `RefuseNotification`, `AnswerNotification` | `_handle_event_trigger` around its await, `_take_in` |
| `WorkIntake`, `ReadBeforeRun`, `CheckFeedback` | `_work_intake`, `_run_received`: the next of the FIFO, the second read, the test for feedback |
| `WorkflowClaims`, `WorkflowEnds`, `FunctionReturns` | the workflow or handler, which goes by the Operation object that it is given |
| `Raises`, `Escapes` | an `Exception`, which `_run_received` logs; anything else, which ends `_work_intake` |
| `Crash`, `FailOrphan`, `FindQueued`, `TakeUp` | the loss of the FIFO, and `_reconstruct_queue` of an instance with a handler |
| `Issue`, `PeerCommits` | the graph as others change it |

### NotificationQueue and Notifier

`NotificationQueue` is what the class comment of `_Notifier` promises: a FIFO with
one sender, and a stop that may drop what has not started. `Notifier` is the code:
each block under the condition is one step, a wait is two. `IsNotificationQueue`
maps the one onto the other: the pending jobs are `_jobs`, the one that is sent is
the job of whichever thread is at work. `SubmitRaises` and `LeaveRaises` are a
`Thread.start()` that raises after `_thread` was assigned.

### IssuedWait

One Operation, the moves of its status, their notifications, and waits in threads
(`_wait`) and in coroutines (`_until`). A coroutine's wake-up is `calls` on its
loop (`call_soon_threadsafe`) that later set its event. `Expire` is the deadline;
`met` records, for the properties only, whether the wait could have ended then. A
wait begins after the `issue_operation` block, as the handle's documentation asks.

### GeneralWrite

Tasks with a stack of open context managers each. `pending` is the task's value of
`_pending_write`, `saved` the token of a manager, `parent` what a creation joins,
`staged` the changes for the exit, `log` what the store admitted.

| actions | code |
|---|---|
| `OpenCommit`, `Enter`, `RefuseEntry`, `Fetch` | `_Commit.__enter__`, `__aenter__`, `_enter` |
| `OpenCreation`, `Joins` | `_Creation.__enter__`, `_become_pending` |
| `OpenApart` | `_nothing_to_join` |
| `Update` | `_Commit.update`, `_stage`, of the commit's own instance, a creation's or `Shared` |
| `Spawn`, `Finish` | a task started in a body inherits the context |
| `Leave` | `__exit__`, `__aexit__`: a clean end, an error or cancellation, an interrupt |
| `ExitCommit`, `RefuseExit`, `WriteError` | `_clean_exit`, `_error` |
| `Join`, `CreateAlone`, `RefuseCreation` | `_Creation._exit` |

`Folded` is one step of `_one_change_per_instance`, `Merged` its loop, as a recursive function over the staged changes, and
`Over` is `_merged_data`.
The store refuses two changes of one instance and a `Create` of what it holds; any
write may be refused besides, at most `MaxFaults` times. `Shared` stands for the
possession state that the scope of a workpiece creates when the store has none.

### Handover

Concurrent calls of `handover`, `switch_possession` and the creation of a workpiece,
over a graph of two relations: the states of each Resource, and the state that each
workpiece points at. A commit is two steps, as kapps_ogm makes it: `Compare` reads the
instance afresh, and `Write` is admitted only while what it removes is still there and
what it creates is not.

| actions | code |
|---|---|
| `Check`, `Recheck` | `_check_handover_preconditions`, before the first commit and before the repeat |
| `Find`, `FindAgain` | `possession_state`, `_possession_change`: the counterpart's state, or one to create |
| `Compare`, `Write`, `Refuse`, `RefuseByShape`, `LoseAnswer` | the entry of the commit and the ways in which it fails |
| `EndBody` | the body of a handover, in which nothing joins the write |

`wrote` counts how often a call wrote, for the properties only.

### Launcher

The main thread, the watch thread, the drains, the page's stop requests, and one process
per child, which comes up, registers, and ends when it is asked to or by itself.

| actions | code |
|---|---|
| `Seed`, `RefuseSeed`, `Spawn`, `SpawnPlc`, `PanelSeen`, `PanelMissed`, `FailWait`, `RaiseFailedWait`, `Serve` | `start`, `_spawn_plc`, `_fail_plc_wait` |
| `BringUpBroker`, `AnnouncePanel`, `StationComesUp`, `PrintReady`, `Register`, `Exit`, `Die` | the processes: unit middleware, PLC, control station, watchdog |
| `Interrupt`, `InterruptAgain` | Ctrl+C at any time, and a second one, which breaks the stop off; with `Terminal` every child gets it as well |
| `StopUnit`, `StopAll`, `StopPlcs`, `Kill`, `MarkStopped` | `stop_unit`, `stop_all`, `stop_factory`, `_terminate_and_wait` |
| `Look`, `Promote`, `DrainWatchdog` | `_watch_once` before and after its query, `_drain` |

### StationBoard

The control station's event loop. `rebuild` is one record per call of `rebuild_view` (a
poll, a run or reset request, or the bulk load at startup) and `lock` the queue of the
fair `asyncio.Lock`; the difference is taken before the lock, as in the code.

| actions | code |
|---|---|
| `Poll`, `RunView`, `Acquire` | `/api/state`, `/api/view/run`, `rebuild_view` up to the lock and at it |
| `Unwire`, `Drop` | `_unwire_hit` before and after its awaits |
| `Wire`, `WireRaises` | `wire_view`; one that raises leaves the wirings of any of the joiners behind |
| `Load`, `PersistRaises` | `_load_one_hit`: a fetch that fails is logged, a `persist` that fails ends the call, or the process at its start |
| `Tick`, `Pause` | `run_algorithm_loop`, the pause button |
| `ComeOrGo`, `HeartbeatAges`, `PassBarrier` | the units and their workpieces |

### Wiring

One instance's construction and start, over a chosen ontology, graph and installation.
`Shape`, `Southbound` and `Northbound` are the effective shape of a parameter and what
the projection takes from it; a place is a walk from the resource down its links.

| actions | code |
|---|---|
| `Project`, `RefuseProjection` | `southbound_properties`, `prune_southbound`, for every parameter that the specification nests |
| `Recognise` | `_recognise`, with `_descriptor_for` (`MostSpecific`) and `_parameter_metadata` (`Metadata`) |
| `EnsureTransport`, `BuildMQTT`, `HookRaises` | the MQTT descriptor's `build`: the hook for the transport first, then the connectors of the binding (`building`) |
| `BuildREST`, `BuildOther`, `RefuseREST`, `Built` | the other descriptors' `build`, `_dedupe_by_address` |
| `Connect`, `Load`, `LoadFails` | the lifespan, `_load_resource_datamodel`, `_accumulate_routes` (`Mounted`) |
| `Receive` | a value arrives, reassembled by its formatter |
| `AddressChanges` | the peer's Service in the graph |

### ActivityFeed and ObservedConnector

`ActivityFeed` is the ring, one stream and one page, without a specification of its own;
`ObservedConnector` adds a connector behind its observation, whose changes are the
records of the feed, and the lifespan that ends both.

| actions | code |
|---|---|
| `Appended` | `ActivityFeed.append` |
| `Open`, `Look`, `Read`, `Pause` | `get_activity_stream`: its start, `oldest_seq`, `since`, the end of its lifetime or the next poll |
| `Deliver`, `Disconnect` | the browser, its `Last-Event-ID`, lost connections and reloads |
| `Stop`, `Stopped`, `Crash`, `Start`, `ProcessEnds` | the server's process |
| `BeginConnect` to `DisconnectRaises` | the wrapper's `connect`, `disconnect` |
| `Message`, `Poll`, `PollFails`, `Deserialize`, `ReceiveRaises` | the receive loops, the wrapper's `receive`, the formatter's log of a change |
| `BeginConsume`, `ConsumeReturns`, `ConsumeRaises`, `RefuseConsume` | the wrapper's `consume`, also before anything was received |

The `MC` modules declare the model values, the symmetry sets and, for the wiring, the
ontologies, graphs and installations of the runs. The `Proofs` modules are section 5.

## 3. Runs

| run | asks | result |
|---|---|---|
| `DispatchSiblings` | Does a recovery leave an Operation running that nobody runs? Is feedback ever enqueued as work? Does a sweep fail what a live sibling runs? Does every claimed Operation end, every queued one get taken? | holds |
| `DispatchCallbackRestart` | `QueuedIsTaken` with a callback | violated, section 6 |
| `IntakeWorker` | Is anything left without a worker, but by a function that raises what is no `Exception`? Run on a stale read, run again after its end, or forgotten in a crash? | holds |
| `NotifierThreads` | One job at a time, none stranded, flush tells the truth; refinement of the FIFO; jobs end, flushes return | holds |
| `WaitWakeUp` | Is a wake-up lost? Does a wait in a thread read once more? Do waits end? | holds |
| `WriteNesting` | What joins which write, what an exit sends, what becomes of it all? | holds |
| `HandoverRaces` | One possessor, one change per call, no repeat on a lost precondition | holds |
| `FeedLoss` | Is every loss told? | violated, section 6 |
| `FeedOfConnector` | Is a loss told but for that one, is anything shown twice or unstamped, does a viewer catch up, does a stop end? | holds |
| `WiringStart` | Is a southbound field served, a path derived that is not mounted, a connector built before its transport? | holds |
| `LauncherFactory` | What can end a PLC before its middleware, does a process survive, does the page end up right? | holds |
| `StationRebuilds` | Does a departed unit leave a wiring, does a request hang, do cards and algorithm settle? | holds |

Bounds, and why they are enough:

- *DispatchSiblings*: two instances of which one exposes the Workflow and claims, in one thread; one
  Operation, the Resource's own, so that its work and its feedback meet at one trigger; one end of a process, by a
  kill or a clean stop, of either sibling; one fault of any part, so that each error path is taken, but no two combined.
  With two ends `ClaimedEnds` fails, with two exposers `SweepSparesTheLive` (section 6).
- *IntakeWorker*: an Operation of a peer, one that the Resource issued to itself and one that it
  issued to a peer, so that work, its own feedback and a peer's feedback meet in the FIFO; two
  requests at once, two notifications beside what a restart finds, one crash, one fault: an `Exception` or
  something else.
- *NotifierThreads*: a dying thread, its successor and one more; two callers, so
  that a flush and a stop meet; two jobs, so that one waits while one runs.
- *WaitWakeUp*: one wait of either kind, both for the end: the one that sees moves it
  does not wait for. Two stray notifications.
- *WriteNesting*: one commit, two creations of its store and one of another, one
  marked body, two tasks, one `update` per commit, of any instance that it or a creation
  holds or of the shared one (before or after the `Create` of that instance, or between two of them), two refusals: that of an exit and of the
  error transition after it. Every nesting of these bodies occurs.
- *HandoverRaces*: three calls, because a third one is what creates a state between the
  reads of two others; three Resources, seeded or not, one of which is not able to take; two
  workpieces, so that one call creates the state that another was about to create; one lost answer.
- *FeedOfConnector*, *FeedLoss*: a ring of one record and three records, so that it is outrun
  between any two looks; a stream of two polls; one restart, one lost connection or reload;
  two values, so that a poll sees a change and none.
- *WiringStart*: a unit with two belts, which may share or hold each other; a parameter with MQTT
  and one with no interface, the root alone, another protocol or two; metadata present, absent and partial;
  two ports of one host. All combinations of these are initial states.
- *LauncherFactory*: one unit, so four children, in the order of the spawns; one stop request of the page
  beside the launcher's own end; any number of Ctrl+C, in a terminal; one child that fails or has to be killed. Units do not share
  anything but the launcher's threads.
- *StationRebuilds*: two units, the least on which the algorithm reacts; two requests, one of which
  waits for the lock; two changes of the world or the heuristic, one fetch, wiring or `persist` that fails; a
  third wiring of a unit is not counted.

No run checks deadlock, because each system may really stop: an instance for good, issuers that issue nothing more, waits, calls and
constructions that are over, a control station whose startup fails. That nothing hangs is asked by the liveness properties.

### Fairness

- `OperationDispatch!FairSpec`: a started process goes on with its startup and with
  the threads that claim, a body ends, a post is delivered or fails, the heartbeat
  of a dead process ages, and a watchdog runs its sweeps. The code's own loops,
  thread pools and HTTP timeouts give these. Nothing makes anybody issue, crash,
  stop or **restart**: where recovery needs a restart, the property has to hold by
  the watchdog. Without a callback, domain code is assumed to keep claiming
  (`Peek`); in the callback run only a scheduled task claims.
- `Intake!Spec`: the event loop schedules the worker's task and the trigger's, a read ends, a function
  returns or raises, and the process is started again: `QueuedIsRun` is about what a restart does, so it presumes one.
- `Notifier!FairSpec`: a runnable thread goes on, and a job ends, because the HTTP client has a timeout;
  no deadline and no idle timeout is assumed to pass.
- `IssuedWait!FairWaits`: a wait that began goes on, its loop runs its calls, a notification that is not lost arrives.
- `Handover!Spec` has weak fairness of each call's steps; its properties are invariants and do not use it.
- `Launcher!Spec`: the main thread, each stopper and the write of a look go on; processes come up or exit
  once asked (any of them may `Die` instead, at most `MaxFaults` times). The watch loops over all children, so a look at
  each registered child happens if it keeps being possible: strong fairness, because the watch is busy with another child in between.
- `StationBoard!Spec`: the loop runs every rebuild, and an open page polls. `Tick` is strongly fair, because it skips the ticks at which the lock
  is held, and polls keep taking it; the lock is free between them.
- `ObservedConnector!ObservedSpec`: the server runs its stream, the network delivers, the browser reopens, the process is started again; the
  stream's own steps are fair also while the network is busy; a connect or disconnect returns or raises.

## 4. Properties worth a word

- `NoZombie` relates the executor recorded in the graph with the threads of a process that has
  been restarted. It is what fails if the recovery trusts its own old heartbeat.
- `SweepSparesTheLive` relates who was live when a sweep read what is stranded (`sweep.live`, a history) to what
  those instances have in a body when the sweep comes to fail it, in commits of its own.
- `FeedbackIsNoWork` rests on an order: a claim is committed before its feedback is sent. That `claim_next` pops what it peeked
  is no property here: it fails as soon as two threads claim (section 6).
- `ClaimedEnds` and `QueuedIsTaken` are the ends that the recovery, the sweep and the claims together must come to. In the run one instance exposes and
  claims. An instance that no discovery finds while it lives (`Unlisted`) is excepted, and what the store has refused.
- `NoneWithoutWorker` and `NoneStranded` are about a worker that ends while work comes, the one on an event loop, the other
  under a condition. `NoneWithoutWorker` excepts what a worker left whose function raised no `Exception`: not the rule that the
  docstrings give, but what the code does (section 6). `ReadAfterWait` is about the age of a read, which only its history shows; it is about what
  waits for a worker that lives, for the same reason. It is near to its definition, since such an entry carries no read at all.
- `OwnLivesOnce` compares the intake with the life of an Operation as the status values order it. It needs the second read, the test for feedback and
  the startup's query to fit together, over a crash.
- `NoLostWakeUp` is about the stretch between a read and the wait after it.
- `JoinedTogether` follows a creation through the write that it joined, at any depth, to
  that write's commit, refusal or loss. `SendsLastOfEach` compares the fold in the code with what it
  is for: each instance once, the last value of each property. It holds unless an instance is updated between two of its `Create`s (`Recreated`); then it says
  that the fold has kept an instance twice only for that reason.
- `FirstGoesOnce` is the promise behind the repeat of `handover`: two handovers that both set out to create the
  counterpart's state are not both admitted. Its exceptions are the ones that the code has (section 6).
- `LossIsTold` is an account, and is violated: what a page was shown, plus what it was told it missed, should be what there
  was. `UntoldWasRaced` is the same account with what left the ring between the two looks of one poll: nothing else goes untold.
- `ShownIsStamped` is about received values; the lines that a formatter logs of what it sends are outside it.
- `NothingSouthboundServed` follows a field from the ontology through pruning, a received value and a
  route's type, at the places that declare the parameter, and not over the framework's own top-level GETs (`rest_router.py:210-224`);
  `PathsMeet` compares two computations of the same paths, whose per-branch memory of what was visited differs; `TransportFirst` compares the
  calls of the hook with what is built, in steps of their own.
- `PlcEndsLast` looks at how a PLC ends and not at whom the launcher has asked. The two exceptions in it are the ways in which one may end first: it dies by itself, or a
  terminal's Ctrl+C reaches it (section 6). `PlcEndsLast`, `NoneLeft` and `ShownInTheEnd` hold for every moment at which Ctrl+C, a dying child or a
  stop request may come, also in the middle of a spawn.
- `Settles` says what overlapping rebuilds must come to, whatever each of them saw before it had the lock.

The type invariants are in no run: each module's is proved.

## 5. Proofs

TLAPS proves the following for all values of the constants that satisfy the modules' assumptions
(`DispatchAssumption`, `NotifierAssumption`, `IntakeAssumption`, `IssuedWaitAssumption`, `WriteAssumption`, `HandoverAssumption`,
`FeedAssumption`, `ConnectorAssumption`, `WiringAssumption`, `LauncherAssumption`, `StationAssumption`: types of the constants, finiteness of the
Operations or Resources, `None`, `NoToken` and `Unset` not among the values). Each proof has an inductive
invariant with one lemma per action. Every invariant and every action property of the passing runs is stated by a theorem, and so are both
refinements; what is left to TLC alone is liveness (at the end of this section).

A theorem that needs more than the assumptions says so in its statement: `NoZombies`, `SweepIsSparing`, `CreationJoinedTogether`, `InOrderWithoutTerminal` and
`ServedIsNorthbound` are stated under a condition on the constants; section 6, or the theorem's own
entry here, says what happens without it.

- `OperationDispatchProofs!TypeCorrect`: `TypeOK`, which is inductive.
- `OperationDispatchProofs!FeedbackNeverWork`: `FeedbackIsNoWork`. It is not
  inductive: whether a notification is work is decided by a read, and the enqueue comes
  later. The strengthening `FeedbackInv` says that a notification of a claim or an end that is
  under way belongs to an Operation of the Resource's own that is no longer `absent` or
  `queued`, and that none of them is ever in the state `read` (`FeedbackOfMoves`). Only `Create`
  writes `queued`, so the proof must show that nobody can have moved the Operation before it:
  `KnownOnlyIssued` says that whatever an orphans list, a queue, a thread or a sweep names, or
  whose status is no longer `absent`, has been issued.
- `OperationDispatchProofs!NoZombies`, if claimers expose the Workflow. What the store has refused is excepted: a process that lives on
  after an end was refused twice is the case in which a zombie stays. The strengthening
  `RunningIsHeld` says that what the graph gives to an instance as its executor is in a body of one of its threads, or its recovery has not come to it:
  the instance is down, or the Operation is among its orphans, or the orphans are still to be read, or its end was refused.
- `OperationDispatchProofs!SweepIsSparing`, if at most one instance exposes the Workflow. Realizers and executors are then that
  instance (`RealizerExposes`, `ExecutorExposes`), and a sweep holds something as stranded only if that instance was not live at its read (`StrandedOfTheDead`).
- `IntakeProofs!TypeCorrect`, `WorkerForWaiting`, `ReadIsFresh`, `OwnLifecycle`. `IInv` adds to the type and the
  two invariants: what waits behind a worker that lives carries no read (`WaitedIsUnread`), a worker at work names an Operation
  (`NamesOperation`), it runs a workflow only for one of `Mine` (`WorkerRunsMine`), and, for an Operation of the
  Resource's own, a workflow that sees it queued is right: nobody but this worker moves it on since the read
  (`WorkflowSeesQueued`). The last is what makes each claim and end a step of `OperationLifecycle`
  (`StepRefines`); every other step moves no Operation of the Resource's own, but by `Issue`, a peer or the recovery, in the order of a life.
- `IssuerProofs!TypeCorrect`, `MutualExclusion`, `NeverStranded`, `EveryJobAccounted`,
  `FlushIsSound`, `Refinement`. The inductive invariant is built in four parts:
  `Owner` (a thread that has not come to its end is the one in `_thread`),
  `Named` (a `_thread` that is set names a thread that has not ended),
  `Account` (jobs are numbered without gaps; done, dropped and running ones are
  the rest) and `Marked` (a flush that answered True saw every job up to its mark done or dropped). `Refinement` maps each step to a step of
  `NotificationQueue` or to none. All hold also when `Thread.start()` may raise; then
  `NoneStranded` allows the thread that was never started.
- `IssuerProofs!WaitTypeCorrect`, `NeverSleepsThrough`, `LastLook`. Per wait, `WaitInv` says: a thread
  between its read and its sleep that missed the status has not counted the arrival yet, and one that sleeps
  has counted all (`ThreadIsTold`); a coroutine that missed it has its event set or a call that will set it
  (`CoroutineIsTold`); in both cases the notification may still be on its way or be lost. `AtDeadline` orders the last
  read after the timeout, and `IsKnown` says that a wait begins on a registered handle.
- `GeneralWriteProofs!ExitSendsLastOfEach`, with the lemma `MergedLastOfEach` beneath it: for every sequence of changes that a body may stage, the loop of
  `_one_change_per_instance` returns each instance once, with the value that was set last of each property, and as a `Create` if one of its
  changes is one; unless an instance is updated between two of its `Create`s. The induction needs that only the shared instance is created twice, by equal changes, and that
  nothing else was given of it before the later one (`OneCreate`); without this the fold keeps it twice, and `Recreated` holds. `Merged` is a recursive function, so three things have to be shown in turn: that it is a function at
  all (`FoldsExist`, over the initial parts of the sequence), that it takes `Folded` at each step (`MergedFolds`), and that
  `Folded` preserves `LastOfEach`, by cases of where the instance already is in what was merged (`StandsFor`).
- `GeneralWriteProofs!WriteSound`, `WriteType`, `CreationAloneOrJoined`, `ExitWholeOrSkippedAlways`. `Sound` adds to the type: what the state names
  has been opened (`Known`); only a commit's own updates, joined creations and the shared instance are staged (`StagedOK`); no creation's `Create` is
  staged in two places (`StagedOnce`) or admitted twice (`Logged`). The part without which none of it is inductive is `Ranked`: the writes can be
  numbered so that each joins one with a smaller number. Otherwise a write could be its own ancestor, and hand its changes to itself. `ExitsWhole` follows the
  one write that an exit makes.
- `GeneralWriteProofs!CreationJoinedTogether`, if no task outlives the body that started it. `Nested` adds the shape of the stacks: a manager restores what was pending
  below it and joins nothing else (`Frames`), each open write is at one place of one stack (`Placed`), and what is joined has been entered (`Entered`).
  Then a write ends only after whatever joins it, so `Joined` can follow each creation along its parents: what it staged is where its parent's changes are, admitted,
  lost or still to be sent.
- `HandoverProofs!TypeCorrect`, `PossessorIsOne`, `NeverTwice`. `IInv` says that a Resource has no state, its seeded or
  its minted one (`OneState`); that a workpiece points at the whole of what one Resource has (`OneLink`); what each call
  has read and found still allows its commit when it comes to it (`Good`: a state that the call found is still the one, one that it
  creates is the minted one, and a precondition that fails is refused); that no two calls create one workpiece (`OneCreator`); and how often a call has
  written, by where it is (`WroteOnce`).
- `HandoverProofs!AdmittedOnce`. `Rivals` follows two calls that nobody else interferes with (`Only`): until one of them has written, what each has read is how things
  are (`Fresh`); afterwards the other one gets no further than its second check (`Stuck`), because the giver has lost the workpiece and the state
  that it was to create is there (`LeavesState`).
- `ConnectorProofs!TransportIsFirst`, `PathsAreMounted`, `ServedIsNorthbound`. The first has its own invariant: the calls of the hook
  are a sequence without repetition, with the address of whatever is built in it (`TransportsUp`), and of the binding that is about to be built (`HookCalled`). The other two rest on `ServingInv`: a binding is of a
  place that recognition finds (`BoundPlaces`), what serves has mounted every way of the graph without a cycle (`LoadMounts`), and from pruning
  on what is hidden of a parameter is what the ontology declares southbound (`Pruned`). `ServedIsNorthbound` assumes that no parameter is a marker (section 6 has that case).
- `ConnectorProofs!WiringTypeCorrect`. `WiringType` adds to the type that nothing is registered before the bindings are recognised (`RegisteredAfter`), so that
  each registration is of a recognised binding.
- `ConnectorProofs!UntoldOnlyInRaces`, `NeverShownTwice`. `FeedInv` reads the wire as a chain of events from the page's own event id, each of which
  continues where the one before ended and carries what was missed in between (`Streams`); the stream's cursor is the end of that chain; nobody
  has read or is sent a record that is yet to come (`Behind`); and a page that has read nothing has nothing to account for (`Pages`). A lost connection cuts
  the chain, and the page resumes at the number that it did read.
- `ConnectorProofs!ObservedTypeCorrect`, `NeverShownUnstamped`. `ConnectorInv` carries the stamp over the two steps between the receipt
  of a value and its line in the log (`Stamped`), in which a connect, a failure or a cancellation may come.
- `LauncherProofs!TypeCorrect`, `MiddlewareFirst`, `InOrderWithoutTerminal`. A PLC in the list has its middleware in the list (`Paired`), because `SpawnOrder` has it right before
  the PLC (`OrderOfSpawns`, `TodoInOrder`); so whatever a stop takes in holds both (`ScopesPaired`), and who is asked to stop is in the list, except for
  the PLC of a spawn wait that failed (`AskedIsListed`). No middleware that has ended is ever spawned again. So a PLC is asked, or is in a scope that may kill it, only when its
  middleware has ended (`PlcStopsLast`, `ScopesLast`; `HandsLast`), and a step that ends any other PLC is its own (`EndsByItself`): it dies, or had the Ctrl+C of a
  terminal, which there is only with `Terminal` (`CtrlCInTerminal`). `MiddlewareFirst` is `PlcEndsLast`; without a terminal only dying is left.
- `StationBoardProofs!TypeCorrect`, `NothingLeftWired`. `IInv` adds to the type: only the head of the lock works, and no request before the bulk
  load is over (`OneWorks`); while nothing failed, what is wired is loaded or is a joiner of the call that loads now (`Covered`); a unit whose connectors are being
  disconnected is wired no more (`Unwired`). `Covered` is what the lock is for: a second call in between would lose the joiners of the first.
  A wiring or a `persist` that raises gives up `Covered` (something failed), not the lock.

Only model-checked: all liveness (`ClaimedEnds`, `QueuedIsTaken`, `QueuedIsRun`, `EveryJobEnds`,
`FlushReturns`, `WaitEnds`, `NoneLeft`, `ShownInTheEnd`, `RebuildReturns`, `Settles`, `CatchesUp`, `StopEnds`), which needs
fairness and ENABLED, beyond the prover. Induction over data is not taken from the library, whose induction theorems have an operator as a
parameter; where a proof needs it (`MergedLastOfEach`) it is an argument over the least
counterexample in a set of numbers (`Least`, `UpTo`), and what is recursive is a recursive function, not an operator. A proof covers the
safety of every fault that a module has; the number of faults, crashes and retries is a constant without a bound there.

## 6. Where the code and its documents differ

Two differences have a run of their own.

- *A restart with a callback* (`DispatchCallbackRestart`). `_reconstruct_queue` (`middleware.py:2564`)
  refills the queue and fires no callback. The Operations wait for other
  notifications, although `register_callback` says it drives a pull on each enqueue.
- *A loss that nobody tells* (`FeedLoss`). The stream reads `oldest_seq` (`activity.py:414`) and then `since()` (432), each under the ring's lock for
  itself. What the logging threads push out of the ring in between is neither sent nor counted as dropped, and the stream moves past it. Its docstring (376-377)
  says that "a client loses nothing and receives nothing twice", the module's (28-29) that "nothing is lost or repeated"; the comment at 408-413 is about telling
  just such losses.

The following schedules are in the models, or one change of a bound away, and no run is kept for them. First those that a
document or a docstring excludes:

- *Two callback threads* (`middleware.py:2312`; two `Tasks` and two Operations). Both peek one Operation; each pops one. One
  Operation is claimed twice and another leaves the queue unclaimed. The docstring of `claim_next` names the first half.
- *A function that raises no `Exception`* (`Escapes`). `_run_received` catches `Exception` only (`middleware.py:1922`), and the `CancelledError` of a future that a coroutine function
  awaits is none. It ends `_work_intake` (1872-1879), and what lies in the FIFO has no worker until the next notification or a restart. What is taken in behind it then keeps its read.
  The docstring of `on_notification` says that an error is logged and the next Operation runs (2440), and that what waited is read again (2434);
  so does `docs/mechanics/05-operation-coordination.md:157-158`.
- *Equal `Create`s with an update between them* (`commit.py:605-611`). The fold compares the second with the first as the update has changed it, keeps both, and the store refuses
  the exit, although "two equal Creates of one instance are one" (`commit.py:605-606`). `SendsLastOfEach` excepts it (`Recreated`).
- *Ctrl+C in a terminal* (`Interrupt` with `Terminal = TRUE`). It reaches the PLCs as soon as the launcher, and a PLC may end before its middleware has deregistered. The launcher's docstring says that
  teardown is ordered (`launcher.py:6-9`), the demo's README that Ctrl+C shuts the programs down in the right order (`demo/transferunits/README.md:128-133`). `PlcEndsLast` names it as the one
  way besides a PLC that dies.
- *A link that leads back* (`wiring.py:304-306`). Recognition derives a path for it that no route serves, although the two are said to agree exactly. `PathsMeet` is about ways without a cycle.
- *A late delivery* (`registration.py:899`). A post that arrives after a restart has
  taken the Operation up enqueues it again, and the claim overwrites `done`;
  `docs/mechanics/05-operation-coordination.md:211-212` calls a terminal state irreversible.
- *A coroutine's timeout* (`middleware.py:337`). It gives up on a read taken before
  the deadline; the docstring of `IssuedOperation` (212-213) promises one more read.
- *A task that outlives a body* (`commit.py:466`; `WriteNesting` with `MayOutlive = TRUE`). It inherits `_pending_write`, and a creation in it
  joins a commit that is over: nothing raises, and nothing is written (`create()`'s docstring, `middleware.py:1489-1492`).

Then those about which the documents promise nothing:

- With two crashes and a delivery to a restarted instance, a startup fails an Operation from a
  list of orphans that it read before a sibling took the Operation up (`middleware.py:2532`).
- A sweep takes the address of a Service that restarted after the sweep had read it (`registration.py:633`). When that
  instance dies as well, no sweep finds what it ran (`DispatchSiblings` with `MaxEnds = 2`).
- With two instances that expose the Workflow (the documents count them as one realizer, the one that registered last:
  `docs/mechanics/01-instantiation-and-lifecycle.md:96`), a sweep may fail a queued Operation that the live one takes up between the
  sweep's read and its commit; an instance that restarts in between may lose what it has just claimed in the same way.
- A repeated notification of a peer's Operation whose trigger reads before the workflow's claim and goes on after its end finds the intake at rest. So
  the read is kept (`_take_in`, `middleware.py:1865`), and a workflow that goes by it runs the Operation again and overwrites its end. Only an Operation of the
  Resource's own is protected, by the test for feedback (`OwnLivesOnce` with `Ops` in the place of `Own`).
- A clean stop takes the address and leaves what is queued; only a restart takes it up.
- An Operation created between a startup's query and the moment its server answers stays
  queued while the instance lives (`Deliver` to an instance that does not serve yet).
- A `Thread.start()` that raises leaves `_thread` set: later jobs wait for ever (`LeaveRaises`,
  `SubmitRaises`; `EveryJobEnds` and `FlushReturns` except it by `StartRaised`).
- Two handovers of one workpiece to a counterpart that has a state may both be admitted, as `handover` says itself; so may two
  first handovers when a third call creates the state for both, or when the workpiece is handed back in between. A write whose difference is
  empty is admitted without any precondition. A lost answer leaves the possession moved and the body not run.
- `_watch_once` tests `stopping` before its query and writes afterwards, so a stopped child may be shown as live or slow
  (`launcher.py:608-629` against `stop_unit`, 633).
- Ctrl+C during a PLC's spawn wait, or a second one during the stop, leaves PLCs to the terminal's signal; with `Terminal = FALSE` they survive the launcher.
- A fetch that fails leaves a wiring without its unit. The next rebuild wires it again, and `_unwire_hit` disconnects the connectors of
  the last wiring only (`controller.py:542`). A `wire_view` that raises leaves the wirings of the joiners before it (`controller.py:348-374`), and a `persist`
  that raises (425) ends the request, or at startup the process. The algorithm reacts to a change of its view as to a light barrier.
- An individual that the specification reaches at two depths, where one does not declare the parameter, is served there
  unfiltered; `NothingSouthboundServed` is about the places that declare it. A parameter that is itself the marker is bound and not pruned. A construction that fails leaves its transports up.
- A poll of a REST peer that fails is logged and not seen by the observation, whose last receive is the last *change*; `connected` stays
  when a disconnect raises; the store's stamps are taken before their lock, so they may go back.

## 7. Not modelled, and why

- The store's own concurrency: a commit is one step. kapps_ogm reads before it
  writes; where that read matters (`Handover`) it is a step of its own, and elsewhere the store's preconditions are modelled as refusals.
- Several Capabilities of one Resource, state properties, the assertion of classes, IRI minting.
- In `GeneralWrite`: class scopes, `_check`, `on_admitted` and `on_refused`; an
  `update` that a started task makes on its parent's commit; a scope of a domain
  whose changes fail their check after its `Create` was staged.
- In `Wiring`: payload formats, the JSON of a route, and the checks that only warn (`cross_check`, `carries_southbound`).
- In `ObservedConnector`: the `provide` leg, and the observation of the store.
- In `StationBoard`: writes to a unit's belt, `discover_resources`, the board's HTML. In `Launcher`: ports, the index page's HTML, what a seed contains.
- The PLC's drive loop, ramps and panel: one event loop without a partner that it waits for, once it has reached its broker.
- The Operation scope, the dashboard and its log buffer, validation reports, seeding, credentials, vocabulary and the translation of type hints have no
  order of steps to get wrong.

## 8. Plan

Everything above exists. What would be worth adding next, most important first:

1. `OperationDispatch` against `OperationLifecycle`, while nothing is delivered late and no Operation is in two queues.
2. The composition of `GeneralWrite` with `Handover`: the body of a handover, in which creations commit apart.
3. `TransferUnit`: the PLC's ramps and throughput against the writes of the belt's parameters.

Runs are kept few, one per question, each within minutes on two cores. A further question at the bounds of an existing run joins that run.
