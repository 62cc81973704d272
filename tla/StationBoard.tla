---------------------------- MODULE StationBoard ----------------------------
(***************************************************************************)
(* The control station of the factory (demo/transferunits): the controller *)
(* keeps the loaded units of its view, the board's polls and run requests  *)
(* rebuild that view one at a time under rebuild_lock, and the algorithm   *)
(* samples the light barriers of the loaded units between rebuilds.        *)
(*                                                                         *)
(* All of it runs on one event loop: an action is what happens between two *)
(* awaits.                                                                 *)
(***************************************************************************)
EXTENDS Naturals, FiniteSets, Sequences

CONSTANTS
  Units,
  None,
  Even,        \* the units with an even index
  Requests,    \* requests of the board that may be under way at once
  Startup,     \* the bulk load at startup, which is no request
  MaxChanges,  \* bound on changes of the graph, the readings and the query
  MaxFaults,   \* bound on fetches and wirings that fail
  MaxWired     \* bound on the wirings of one unit

ASSUME StationAssumption ==
  /\ Even \subseteq Units
  /\ Startup \notin Requests /\ None \notin Units
  /\ MaxChanges \in Nat /\ MaxFaults \in Nat /\ MaxWired \in Nat \ {0}

VARIABLES
  live,      \* the graph: the units whose Service has an address
  beating,   \* and those whose last heartbeat is recent
  reading,   \* the light barrier of each unit, as its connector reads it
  query,     \* _BoardState.current_query
  units,     \* Controller.units: the loaded units
  wired,     \* _view_wirings: how many wirings it holds of each unit
  lock,      \* rebuild_lock: who holds it, and who waits, in order
  rebuild,   \* one record per rebuild_view call, and the startup's load
  sample,    \* previous_barrier_snapshot
  paused,    \* AlgorithmState.paused
  reacted,   \* what the last tick's reaction came to
  changes, faults

world  == <<live, beating>>
view   == <<units, wired, lock, rebuild>>
algo   == <<sample, paused, reacted>>
bounds == <<changes, faults>>
vars   == <<world, reading, query, view, algo, bounds>>

Rebuilds == Requests \cup {Startup}
Queries  == {"all", "even", "odd", "malformed"}
NoRebuild == [pc |-> "idle", joiners |-> {}, leavers |-> {}, at |-> None]
Entries   == [Units -> 0..MaxWired]

TypeOK ==
  /\ live \subseteq Units /\ beating \subseteq Units /\ reading \in [Units -> BOOLEAN]
  /\ query \in Queries
  /\ units \subseteq Units /\ wired \in Entries
  /\ lock \in Seq(Requests)
  /\ rebuild \in [Rebuilds -> [pc : {"idle", "waiting", "unwiring", "dropping", "wiring",
                                     "loading", "failed"},
                               joiners : SUBSET Units, leavers : SUBSET Units,
                               at : Units \cup {None}]]
  /\ sample \in UNION {[S -> BOOLEAN] : S \in SUBSET Units}
  /\ paused \in BOOLEAN /\ reacted \in {"no", "too few", "observed"}
  /\ changes \in 0..MaxChanges /\ faults \in 0..MaxFaults

Serving == rebuild[Startup].pc = "idle"
Down    == rebuild[Startup].pc = "failed"                \* the startup raised
Locked  == lock # <<>>                                   \* held, or waited for
Held    == Locked /\ rebuild[Head(lock)].pc # "waiting"  \* rebuild_lock.locked()
Empty   == [u \in {} |-> FALSE]

(* main(): the default view is run and wired before the server starts.     *)
Init ==
  /\ live \in SUBSET Units /\ beating = live
  /\ reading = [u \in Units |-> FALSE] /\ query = "all"
  /\ units = {}
  /\ wired = [u \in Units |-> IF u \in live THEN 1 ELSE 0]
  /\ lock = <<>>
  /\ rebuild = [r \in Rebuilds |->
                  IF r = Startup
                  THEN [NoRebuild EXCEPT !.pc = "loading", !.joiners = live]
                  ELSE NoRebuild]
  /\ sample = Empty /\ paused = FALSE /\ reacted = "no"
  /\ changes = 0 /\ faults = 0

Change == changes < MaxChanges /\ changes' = changes + 1
Fault  == faults < MaxFaults /\ faults' = faults + 1

-----------------------------------------------------------------------------
(* The world: units come and go, die, and workpieces pass their barriers.  *)
(* A clean stop drops the address, not the heartbeat; a unit that is killed *)
(* keeps its address, so the view still selects it, until it registers     *)
(* again or a watchdog deregisters it.                                     *)

ComeOrGo(u) ==
  /\ Change
  /\ \/ u \notin live \cap beating /\ live' = live \cup {u} /\ beating' = beating \cup {u}
     \/ u \in live /\ live' = live \ {u} /\ UNCHANGED beating
  /\ UNCHANGED <<reading, query, view, algo, faults>>

HeartbeatAges(u) ==
  /\ Change /\ u \in beating
  /\ beating' = beating \ {u}
  /\ UNCHANGED <<live, reading, query, view, algo, faults>>

PassBarrier(u) ==
  /\ Change
  /\ reading' = [reading EXCEPT ![u] = ~@]
  /\ UNCHANGED <<world, query, view, algo, faults>>

-----------------------------------------------------------------------------
(* rebuild_view.                                                           *)

(* The hits: what the heuristic selects among the units whose Service has  *)
(* an address now.                                                         *)
Hits(q) == live \cap CASE q = "all" -> Units [] q = "even" -> Even [] OTHER -> Units \ Even

(* What happens once the lock is held: leavers first, then joiners.        *)
Stage(b) ==
  [b EXCEPT !.pc = IF b.leavers # {} THEN "unwiring"
                   ELSE IF b.joiners # {} THEN "wiring" ELSE "idle"]

(* The difference is taken before the lock is; an idle lock is taken       *)
(* without a turn of the event loop.                                       *)
Difference(q) ==
  [pc |-> "waiting", joiners |-> Hits(q) \ units, leavers |-> units \ Hits(q), at |-> None]

StartRebuild(r, q) ==
  /\ Serving /\ rebuild[r].pc = "idle"
  /\ IF q = "malformed" THEN UNCHANGED <<rebuild, lock>>       \* ViewDiff(error=...)
     ELSE LET b == IF Locked THEN Difference(q) ELSE Stage(Difference(q))
          IN /\ rebuild' = [rebuild EXCEPT ![r] = IF b.pc = "idle" THEN NoRebuild ELSE b]
             /\ lock' = IF b.pc = "idle" THEN lock ELSE Append(lock, r)
  /\ UNCHANGED <<world, reading, units, wired, algo, faults>>

(* GET /api/state re-runs the view on every poll.                          *)
Poll(r) == StartRebuild(r, query) /\ UNCHANGED <<query, changes>>

(* POST /api/view/run and /api/view/reset set the heuristic first.         *)
RunView(r) ==
  /\ Change
  /\ \E q \in Queries : query' = q /\ StartRebuild(r, q)

(* The head of the lock works; the lock passes on when it is done.         *)
Holds(r) == IF r = Startup THEN TRUE ELSE Locked /\ Head(lock) = r

Step(r, b) ==
  IF b.pc # "idle"
  THEN rebuild' = [rebuild EXCEPT ![r] = b] /\ UNCHANGED lock
  ELSE /\ rebuild' = [rebuild EXCEPT ![r] = NoRebuild]
       /\ lock' = IF r = Startup THEN lock ELSE Tail(lock)

Acquire(r) ==
  /\ Holds(r) /\ rebuild[r].pc = "waiting"
  /\ Step(r, Stage(rebuild[r]))
  /\ UNCHANGED <<world, reading, query, units, wired, algo, bounds>>

Unwire_First(r) ==
  /\ Holds(r) /\ rebuild[r].pc = "unwiring"
  /\ \E u \in rebuild[r].leavers :
       /\ wired' = [wired EXCEPT ![u] = IF @ = 0 THEN 0 ELSE @ - 1]
       /\ rebuild' = [rebuild EXCEPT ![r].pc = "dropping", ![r].at = u]
  /\ UNCHANGED <<world, reading, query, units, lock, algo, bounds>>

(* _unwire_hit: every wiring of the leaver goes, its connectors are        *)
(* disconnected, and then the unit itself is dropped.                      *)
Unwire(r) ==
  /\ Holds(r) /\ rebuild[r].pc = "unwiring"
  /\ \E u \in rebuild[r].leavers :
       /\ wired' = [wired EXCEPT ![u] = 0]
       /\ rebuild' = [rebuild EXCEPT ![r].pc = "dropping", ![r].at = u]
  /\ UNCHANGED <<world, reading, query, units, lock, algo, bounds>>

Drop(r) ==
  /\ Holds(r) /\ rebuild[r].pc = "dropping"
  /\ LET u == rebuild[r].at
     IN /\ units' = units \ {u}
        /\ Step(r, Stage([rebuild[r] EXCEPT !.leavers = @ \ {u}, !.at = None]))
  /\ UNCHANGED <<world, reading, query, wired, algo, bounds>>

(* wire_view registers the connectors of every joiner, loaded or not.      *)
Registers(joiners) ==
  wired' = [u \in Units |-> IF u \in joiners /\ wired[u] < MaxWired THEN wired[u] + 1
                             ELSE wired[u]]

Wire(r) ==
  /\ Holds(r) /\ rebuild[r].pc = "wiring"
  /\ Registers(rebuild[r].joiners)
  /\ LET loads == rebuild[r].joiners \ units
     IN Step(r, [rebuild[r] EXCEPT !.joiners = loads,
                                   !.pc = IF loads = {} THEN "idle" ELSE "loading"])
  /\ UNCHANGED <<world, reading, query, units, algo, bounds>>

(* A wiring that raises ends the call and gives the lock back; the wirings *)
(* of the joiners before it stay in the list, its own too if it was one of *)
(* its connectors that raised.                                             *)
WireRaises(r) ==
  /\ Holds(r) /\ rebuild[r].pc = "wiring" /\ Fault
  /\ \E before \in SUBSET rebuild[r].joiners : Registers(before)
  /\ Step(r, NoRebuild)
  /\ UNCHANGED <<world, reading, query, units, algo, changes>>

Load_Rewires(r) ==
  /\ Holds(r) /\ rebuild[r].pc = "loading"
  /\ IF rebuild[r].joiners = {}
     THEN Step(r, NoRebuild) /\ UNCHANGED units
     ELSE \/ units' = units \cup rebuild[r].joiners /\ Step(r, NoRebuild)
          \/ Step(r, [rebuild[r] EXCEPT !.pc = "wiring"]) /\ UNCHANGED units
  /\ UNCHANGED <<world, reading, query, wired, algo, bounds>>

(* _load_one_hit: the fetch runs in a thread; one that fails is logged and *)
(* the next hit is loaded.                                                 *)
Load(r) ==
  /\ Holds(r) /\ rebuild[r].pc = "loading"
  /\ IF rebuild[r].joiners = {}
     THEN Step(r, NoRebuild) /\ UNCHANGED <<units, faults>>
     ELSE \E u \in rebuild[r].joiners :
            LET rest == rebuild[r].joiners \ {u}
            IN /\ Step(r, [rebuild[r] EXCEPT !.joiners = rest,
                                             !.pc = IF rest = {} THEN "idle" ELSE @])
               /\ \/ units' = units \cup {u} /\ UNCHANGED faults
                  \/ Fault /\ UNCHANGED units
  /\ UNCHANGED <<world, reading, query, wired, algo, changes>>

(* Nothing catches what persist raises: it ends the call, and at startup   *)
(* the process.                                                            *)
PersistRaises(r) ==
  /\ Holds(r) /\ rebuild[r].pc = "loading" /\ rebuild[r].joiners # {} /\ Fault
  /\ Step(r, IF r = Startup THEN [NoRebuild EXCEPT !.pc = "failed"] ELSE NoRebuild)
  /\ UNCHANGED <<world, reading, query, units, wired, algo, changes>>

-----------------------------------------------------------------------------
(* The algorithm.                                                          *)

Pause ==
  /\ Serving /\ Change
  /\ paused' = ~paused
  /\ UNCHANGED <<world, reading, query, view, sample, reacted, faults>>

Snapshot == [u \in units |-> reading[u]]

(* The demonstration's reaction reads two units, or finds too few of them. *)
Reaction == IF Cardinality(units) < 2 THEN "too few" ELSE "observed"

Reacts == sample # Empty /\ Snapshot # sample

Tick_KeepsSample ==
  /\ Serving /\ ~paused /\ ~Held
  /\ reacted' = IF Reacts THEN Reaction ELSE "no"
  /\ sample' = IF sample = Empty THEN Snapshot ELSE sample
  /\ UNCHANGED <<world, reading, query, view, paused, bounds>>

(* One tick: a sample that differs from the one before fires a reaction.   *)
Tick ==
  /\ Serving /\ ~paused /\ ~Held
  /\ reacted' = IF Reacts THEN Reaction ELSE "no"
  /\ sample' = Snapshot
  /\ UNCHANGED <<world, reading, query, view, paused, bounds>>

(* The cards of /api/state: whether a loaded unit's heartbeat is fresh, and *)
(* the parameters that its wiring reads, if it has one.                    *)
Unreachable(u) == u \notin beating
WiringFor(u)   == wired[u] > 0
Card(u) == [unit |-> u, unreachable |-> Unreachable(u), parameters |-> WiringFor(u)]
Cards   == {Card(u) : u \in units}

-----------------------------------------------------------------------------
RebuildStep(r) ==
  Acquire(r) \/ Unwire(r) \/ Drop(r) \/ Wire(r) \/ WireRaises(r) \/ Load(r)
  \/ PersistRaises(r)

Next ==
  \/ \E u \in Units : ComeOrGo(u) \/ HeartbeatAges(u) \/ PassBarrier(u)
  \/ \E r \in Rebuilds : RebuildStep(r)
  \/ \E r \in Requests : Poll(r) \/ RunView(r)
  \/ Pause \/ Tick

(* The event loop runs every task, and an open page polls.                 *)
Fairness ==
  /\ \A r \in Rebuilds : WF_vars(RebuildStep(r))
  /\ WF_vars(\E r \in Requests : Poll(r)) /\ SF_vars(Tick)

Spec == Init /\ [][Next]_vars /\ Fairness

-----------------------------------------------------------------------------
(* _unwire_hit drops "every trace" of a departed hit: between two rebuilds *)
(* only a hit whose fetch or whose rebuild failed is wired and not loaded. *)
LeftIsGone ==
  Serving /\ ~Held /\ faults = 0 => \A u \in Units : wired[u] > 0 => u \in units

(* Whoever polls or runs a view gets an answer: the lock is given back by  *)
(* a rebuild that fails as well; and the startup serves or ends.           *)
RebuildReturns ==
  \A r \in Rebuilds : rebuild[r].pc # "idle" ~> rebuild[r].pc = "idle" \/ Down

(* However calls overlap and whatever fails, the cards end up as the graph *)
(* and the heuristic have them once both stay as they are: a unit that is  *)
(* gone has left, one that was killed is shown as unreachable, and each    *)
(* shows its parameters; and the algorithm falls quiet with them. Only a   *)
(* startup that raised leaves no station to show anything.                 *)
Settles ==
  <>[](\/ Down
       \/ /\ query # "malformed"
               => Cards = {[unit |-> u, unreachable |-> u \notin beating, parameters |-> TRUE]
                             : u \in Hits(query)}
          /\ paused \/ reacted = "no")
=============================================================================
