------------------------------ MODULE Launcher ------------------------------
(***************************************************************************)
(* The launcher of the TransferUnit factory (demo/transferunits): its main *)
(* thread seeds the graph and spawns, one by one, a middleware and a PLC   *)
(* per unit, the control station and the watchdog; a watch thread and the  *)
(* threads that drain the children's output keep the state that the index  *)
(* page shows; the page's stop requests and the launcher's own end stop    *)
(* the children.                                                           *)
(*                                                                         *)
(* An action is what one thread does up to its next blocking call.  Time   *)
(* is not modelled: a timeout may pass whenever its wait is under way, and *)
(* a child that has no address yet may be slow at any look.                *)
(***************************************************************************)
EXTENDS Naturals, FiniteSets, Sequences

CONSTANTS
  N,           \* the number of units
  Requests,    \* stop requests of the index page
  None,
  Terminal,    \* BOOLEAN: Ctrl+C reaches every child, as in a POSIX terminal
  MaxFaults    \* bound on children that fail and stops that run into the kill

ASSUME LauncherAssumption ==
  /\ N \in Nat /\ None \notin 1..N
  /\ Terminal \in BOOLEAN /\ MaxFaults \in Nat /\ "main" \notin Requests

VARIABLES
  pc,        \* the main thread
  todo,      \* the children that start still has to spawn, in order
  listed,    \* Factory.children
  waited,    \* the PLC whose panel line the main thread waits for
  proc,      \* the processes: what each has reached
  asked,     \* the processes that the launcher sent the graceful stop
  ctrlc,     \* the processes that a terminal's Ctrl+C reached
  address,   \* the graph: which Service has an address
  state,     \* ChildHandle.state; what is live has its address with it
  stopping,  \* ChildHandle.stopping
  drained,   \* the drain has seen the watchdog's ready line
  watch,     \* the watch thread's look at one child
  stopper,   \* the threads that stop children: the page's requests and main
  faults

children == <<listed, state, stopping, drained>>
system   == <<proc, asked, ctrlc, address>>
vars     == <<pc, todo, waited, children, system, watch, stopper, faults>>

Units       == 1..N
Middlewares == {<<"middleware", u>> : u \in Units}
PLCs        == {<<"plc", u>> : u \in Units}
Control     == <<"controller", None>>
Watchdog    == <<"watchdog", None>>
Children    == Middlewares \cup PLCs \cup {Control, Watchdog}
Registered  == Middlewares \cup {Control}
GraphSide   == Registered \cup {Watchdog}
Mw(c)       == <<"middleware", c[2]>>
PLC(c)      == <<"plc", c[2]>>
Stoppers    == Requests \cup {"main"}

Looking     == [child |-> None, address |-> FALSE]
Resting     == [pc |-> "idle", scope |-> {}]
Done        == [pc |-> "done", scope |-> {}]
ChildStates == {"starting", "slow", "live", "failed", "stopped"}
Running(c)  == proc[c] \in {"running", "ready"}

TypeOK ==
  /\ pc \in {"seed", "spawn", "waitpanel", "failwait", "serving", "stopping", "exited"}
  /\ todo \in Seq(Children)
  /\ listed \subseteq Children
  /\ waited \in PLCs \cup {None}
  /\ proc \in [Children -> {"none", "running", "ready", "ended"}]
  /\ asked \subseteq Children /\ ctrlc \subseteq Children /\ address \subseteq Registered
  /\ drained \in BOOLEAN
  /\ state \in [Children -> ChildStates]
  /\ stopping \subseteq Children
  /\ watch \in [child : Children \cup {None}, address : BOOLEAN]
  /\ stopper \in [Stoppers -> [pc : {"idle", "graph", "plcs", "done"}, scope : SUBSET Children]]
  /\ faults \in 0..MaxFaults

(* The order in which start spawns: every middleware before its PLC.       *)
SpawnOrder ==
  [i \in 1..2*N |-> IF i % 2 = 1 THEN <<"middleware", (i + 1) \div 2>> ELSE <<"plc", i \div 2>>]
    \o <<Control, Watchdog>>

Init ==
  /\ pc = "seed" /\ todo = SpawnOrder /\ listed = {} /\ waited = None
  /\ proc = [c \in Children |-> "none"] /\ asked = {} /\ ctrlc = {}
  /\ address \in {{}, Registered}            \* a factory that was killed may have left its own
  /\ state = [c \in Children |-> "starting"]
  /\ stopping = {} /\ drained = FALSE
  /\ watch = Looking
  /\ stopper = [s \in Stoppers |-> Resting]
  /\ faults = 0

Fault == faults < MaxFaults /\ faults' = faults + 1

-----------------------------------------------------------------------------
(* The processes.                                                          *)

ComesUp(c) ==
  /\ proc[c] = "running"
  /\ proc' = [proc EXCEPT ![c] = "ready"]
  /\ UNCHANGED <<pc, todo, waited, children, asked, ctrlc, address, watch, stopper, faults>>

(* ensure_transport: the constructor of a middleware returns only when its *)
(* unit's broker listens; one that does not ends the process (Die).        *)
BringUpBroker(c) == c \in Middlewares /\ ComesUp(c)

(* The PLC retries its connection until that broker answers, and prints    *)
(* its panel line only then.                                               *)
ReachesBroker(c) == proc[Mw(c)] = "ready"
AnnouncePanel(c) == c \in PLCs /\ ReachesBroker(c) /\ ComesUp(c)

(* The control station runs and wires its view, then serves.               *)
StationComesUp == ComesUp(Control)

(* The watchdog has no Service: a line on its output says that it sweeps.  *)
PrintReady == ComesUp(Watchdog)

Register(c) ==
  /\ c \in Registered /\ proc[c] = "ready" /\ c \notin address \cup asked \cup ctrlc
  /\ address' = address \cup {c}
  /\ UNCHANGED <<pc, todo, waited, children, proc, asked, ctrlc, watch, stopper, faults>>

(* The end of a process, and of the signals that were on the way to it.    *)
Gone(c) ==
  /\ proc' = [proc EXCEPT ![c] = "ended"]
  /\ asked' = asked \ {c} /\ ctrlc' = ctrlc \ {c}

(* The graceful end: a graph-side child deregisters first.                 *)
Exit(c) ==
  /\ Running(c) /\ c \in asked \cup ctrlc
  /\ Gone(c)
  /\ address' = address \ {c}
  /\ UNCHANGED <<pc, todo, waited, children, watch, stopper, faults>>

(* A child that dies by itself leaves its address behind.                  *)
Die(c) ==
  /\ Running(c) /\ Fault
  /\ Gone(c)
  /\ UNCHANGED <<pc, todo, waited, children, address, watch, stopper>>

-----------------------------------------------------------------------------
(* start: seed, then spawn in order; a PLC's spawn waits for its panel.    *)

Seed ==
  /\ pc = "seed"
  /\ pc' = "spawn" /\ address' = {}
  /\ UNCHANGED <<todo, waited, children, proc, asked, ctrlc, watch, stopper, faults>>

(* A factory whose heartbeats are fresh is live: unasked, it is not cleared *)
(* and the launcher ends.                                                  *)
LiveFactory == address # {}

RefuseSeed ==
  /\ pc = "seed" /\ LiveFactory
  /\ pc' = "stopping"
  /\ UNCHANGED <<todo, waited, children, system, watch, stopper, faults>>

Upcoming(c) == todo # <<>> /\ Head(todo) = c /\ todo' = Tail(todo)

Spawn(c) ==
  /\ pc = "spawn" /\ c \in GraphSide /\ Upcoming(c)
  /\ proc' = [proc EXCEPT ![c] = "running"]
  /\ listed' = listed \cup {c}
  /\ UNCHANGED <<pc, waited, state, stopping, drained, asked, ctrlc, address, watch, stopper,
                 faults>>

(* A PLC goes into the list only when its panel is up.                     *)
SpawnPlc(c) ==
  /\ pc = "spawn" /\ c \in PLCs /\ Upcoming(c)
  /\ proc' = [proc EXCEPT ![c] = "running"]
  /\ pc' = "waitpanel" /\ waited' = c
  /\ UNCHANGED <<children, asked, ctrlc, address, watch, stopper, faults>>

(* The panel line has come: the handle is live and goes into the list.     *)
PanelSeen ==
  /\ pc = "waitpanel" /\ proc[waited] = "ready"
  /\ state' = [state EXCEPT ![waited] = "live"]
  /\ listed' = listed \cup {waited} /\ waited' = None /\ pc' = "spawn"
  /\ UNCHANGED <<todo, stopping, drained, system, watch, stopper, faults>>

(* The PLC ended without a panel line: a failed handle, no error.          *)
PanelMissed ==
  /\ pc = "waitpanel" /\ proc[waited] = "ended"
  /\ state' = [state EXCEPT ![waited] = "failed"]
  /\ listed' = listed \cup {waited} /\ waited' = None /\ pc' = "spawn"
  /\ UNCHANGED <<todo, stopping, drained, system, watch, stopper, faults>>

FailWait_Raises ==
  /\ pc = "waitpanel" /\ Running(waited)
  /\ proc[Mw(waited)] = "ended"
  /\ waited' = None /\ pc' = "stopping"
  /\ UNCHANGED <<todo, children, system, watch, stopper, faults>>

(* Its middleware has ended, or the time is up: the PLC is stopped before  *)
(* the error is raised, for nobody gets its handle.                        *)
FailWait ==
  /\ pc = "waitpanel" /\ Running(waited)
  /\ \/ proc[Mw(waited)] = "ended" /\ UNCHANGED faults
     \/ Fault
  /\ stopping' = stopping \cup {waited} /\ asked' = asked \cup {waited}
  /\ pc' = "failwait"
  /\ UNCHANGED <<todo, waited, listed, state, drained, proc, ctrlc, address, watch,
                 stopper>>

RaiseFailedWait ==
  /\ pc = "failwait"
  /\ Gone(waited)                        \* by itself, or by the kill
  /\ state' = [state EXCEPT ![waited] = "failed"]
  /\ waited' = None /\ pc' = "stopping"
  /\ UNCHANGED <<todo, listed, stopping, drained, address, watch,
                 stopper, faults>>

Serve ==
  /\ pc = "spawn" /\ todo = <<>>
  /\ pc' = "serving"
  /\ UNCHANGED <<todo, waited, children, system, watch, stopper, faults>>

(* A terminal sends its Ctrl+C to the launcher's children as well.         *)
CtrlC == ctrlc' = IF Terminal THEN {c \in Children : Running(c)} ELSE {}

(* Ctrl+C at any time, in the middle of a failed spawn wait too, is caught *)
(* and leads to the stop.                                                  *)
Interrupt ==
  /\ pc \notin {"stopping", "exited"}
  /\ pc' = "stopping" /\ waited' = None /\ CtrlC
  /\ UNCHANGED <<todo, children, proc, asked, address, watch, stopper, faults>>

(* The next one breaks the stop off, begun or not, and ends the launcher.  *)
InterruptAgain ==
  /\ pc = "stopping"
  /\ pc' = "exited" /\ CtrlC
  /\ stopper' = [stopper EXCEPT !["main"] = Done]
  /\ UNCHANGED <<todo, waited, children, proc, asked, address, watch, faults>>

-----------------------------------------------------------------------------
(* Stopping: stop_unit for the page, stop_all for the page and main.       *)

(* The handles are marked and the graph side is asked to stop.             *)
StopBegins(s, scope) ==
  /\ stopper[s].pc = "idle"
  /\ stopping' = stopping \cup scope
  /\ asked' = asked \cup {c \in scope \cap GraphSide : Running(c)}
  /\ stopper' = [stopper EXCEPT ![s] = [pc |-> "graph", scope |-> scope]]
  /\ UNCHANGED <<pc, todo, waited, listed, state, drained, proc, ctrlc, address,
                 watch, faults>>

(* Every one of part has ended.  One that is past the timeout is killed.   *)
Ended(part) == \A c \in part : ~Running(c)

Kill(s) ==
  LET part == IF stopper[s].pc = "graph" THEN GraphSide ELSE PLCs
  IN /\ stopper[s].pc \in {"graph", "plcs"} /\ Fault
     /\ \E c \in stopper[s].scope \cap part :
          Running(c) /\ Gone(c)
     /\ UNCHANGED <<pc, todo, waited, children, address, watch, stopper>>

StopPlcs_AtOnce(s) ==
  /\ stopper[s].pc = "graph"
  /\ asked' = asked \cup {c \in stopper[s].scope \cap PLCs : Running(c)}
  /\ stopper' = [stopper EXCEPT ![s].pc = "plcs"]
  /\ UNCHANGED <<pc, todo, waited, children, proc, ctrlc, address, watch, faults>>

(* The PLCs are asked only when the graph side has ended.                  *)
StopPlcs(s) ==
  /\ stopper[s].pc = "graph" /\ Ended(stopper[s].scope \cap GraphSide)
  /\ asked' = asked \cup {c \in stopper[s].scope \cap PLCs : Running(c)}
  /\ stopper' = [stopper EXCEPT ![s].pc = "plcs"]
  /\ UNCHANGED <<pc, todo, waited, children, proc, ctrlc, address, watch, faults>>

MarkStopped(s) ==
  /\ stopper[s].pc = "plcs" /\ Ended(stopper[s].scope \cap PLCs)
  /\ state' = [c \in Children |-> IF c \in stopper[s].scope THEN "stopped" ELSE state[c]]
  /\ stopper' = [stopper EXCEPT ![s] = Done]
  /\ pc' = IF s = "main" THEN "exited" ELSE pc
  /\ UNCHANGED <<todo, waited, listed, stopping, drained, system, watch, faults>>

UnitChildren(u) == {c \in listed : c[2] = u}

StopUnit(s, u) == s \in Requests /\ pc = "serving" /\ StopBegins(s, UnitChildren(u))
StopAll(s) ==
  /\ IF s = "main" THEN pc = "stopping" ELSE pc = "serving"
  /\ StopBegins(s, listed)

-----------------------------------------------------------------------------
(* The watch and the drains.                                               *)

Started == pc \in {"serving", "stopping"} /\ todo = <<>>

Watched_Starting(c) == c \notin stopping /\ state[c] = "starting"
Watched(c)          == c \notin stopping /\ state[c] \in {"starting", "slow"}

HasAddress(c) == c \in address

(* A child that is neither final nor being stopped is looked at: its       *)
(* process first, then the graph.                                          *)
Look(c) ==
  /\ Started /\ watch.child = None
  /\ c \in listed \cap GraphSide /\ Watched(c)
  /\ IF proc[c] = "ended"
     THEN state' = [state EXCEPT ![c] = "failed"] /\ UNCHANGED watch
     ELSE watch' = [child |-> c, address |-> HasAddress(c)] /\ UNCHANGED state
  /\ UNCHANGED <<pc, todo, waited, listed, stopping, drained, system, stopper,
                 faults>>

(* What it saw is written without a second look at the handle.             *)
Promote ==
  LET c == watch.child
  IN /\ pc # "exited" /\ c # None
     /\ \E new \in IF watch.address THEN {"live"} ELSE {"slow", state[c]} :
          state' = [state EXCEPT ![c] = new]
     /\ watch' = Looking
     /\ UNCHANGED <<pc, todo, waited, listed, stopping, drained, system, stopper, faults>>

(* The watchdog has no Service: the drain promotes it on its ready line.   *)
DrainWatchdog ==
  /\ Started /\ proc[Watchdog] = "ready" /\ ~drained
  /\ drained' = TRUE
  /\ state' = [state EXCEPT ![Watchdog] = IF @ \in {"starting", "slow"} THEN "live" ELSE @]
  /\ UNCHANGED <<pc, todo, waited, listed, stopping, system, watch, stopper, faults>>

(* What the index page shows of the children in the list.                  *)
Snapshot == [c \in listed |-> state[c]]

-----------------------------------------------------------------------------
Main     == Seed \/ RefuseSeed \/ PanelSeen \/ PanelMissed \/ FailWait \/ RaiseFailedWait \/ Serve
              \/ \E c \in Children : Spawn(c) \/ SpawnPlc(c)
Stop(s)  == StopPlcs(s) \/ MarkStopped(s) \/ (s = "main" /\ StopAll(s))
Watch    == DrainWatchdog \/ Promote \/ \E c \in Children : Look(c)
Live     == \/ \E c \in Children : BringUpBroker(c) \/ AnnouncePanel(c) \/ Register(c)
            \/ StationComesUp \/ PrintReady

Next ==
  \/ Main \/ Interrupt \/ InterruptAgain \/ Watch
  \/ Live
  \/ \E c \in Children : Exit(c) \/ Die(c)
  \/ \E s \in Stoppers : Stop(s) \/ Kill(s)
  \/ \E s \in Requests : StopAll(s) \/ \E u \in Units : StopUnit(s, u)

(* Every thread runs on, every process comes up unless it dies, and ends   *)
(* when it is told to; the watch's loop gets to every child.               *)
Fairness ==
  /\ WF_vars(Main) /\ WF_vars(Promote) /\ \A c \in Registered : SF_vars(Look(c))
  /\ \A s \in Stoppers : WF_vars(Stop(s))
  /\ WF_vars(Live \/ \E c \in Children : Exit(c))

Spec == Init /\ [][Next]_vars /\ Fairness

-----------------------------------------------------------------------------
(* Whom the launcher has told to stop, or may kill.                        *)
InItsHands(c) ==
  \/ c \in asked
  \/ \E s \in Stoppers : stopper[s].pc = "plcs" /\ c \in stopper[s].scope

(* "Teardown is ordered": a PLC of the list that ends while its unit's     *)
(* middleware still runs, and has yet to deregister, has not been told to  *)
(* stop and is not killed, whoever stops the children.  It died by itself, *)
(* or a terminal's Ctrl+C, which is not ordered, has reached it.  The PLC  *)
(* of a failed spawn wait is not in the list yet.                          *)
PlcEndsLast ==
  [][\A c \in PLCs \cap listed :
       Running(c) /\ Running(Mw(c)) /\ ~Running(c)' =>
         /\ ~InItsHands(c)
         /\ Die(c) \/ (Terminal /\ c \in ctrlc)]_vars

(* Once the launcher has exited, no process that it spawned stays: also    *)
(* after a PLC's spawn wait that failed and a Ctrl+C in the middle of the  *)
(* start, which leave a PLC that is in nobody's list.                      *)
NoneLeft == (pc = "exited") ~> \A c \in Children : ~Running(c)

(* Every child that registers, or ends before, is shown so in the end,     *)
(* unless it is being stopped or the launcher has ended with its page.     *)
ShownInTheEnd ==
  \A c \in Registered :
    (Started /\ c \in listed /\ (c \in address \/ proc[c] = "ended"))
      ~> \/ c \in listed /\ Snapshot[c] \notin {"starting", "slow"}
         \/ c \in stopping \/ pc = "exited"
=============================================================================
