----------------------------- MODULE GeneralWrite -----------------------------
(***************************************************************************)
(* The general write: mw.commit() and mw.create() as context managers that *)
(* nest, the context variable _pending_write by which a creation finds the *)
(* write that it joins, and the tasks in which bodies run.  A task that is *)
(* started in a body inherits the value of the context variable.           *)
(*                                                                         *)
(* A change names an instance and the properties it sets.  The instance    *)
(* that a write is about, or creates, is named like the write; Shared is   *)
(* one that every creation's predefined scope makes when the store does    *)
(* not hold it, as a workpiece's scope makes its possessor's state.  One   *)
(* OGM.commit is one step.                                                 *)
(***************************************************************************)
EXTENDS Naturals, Sequences, FiniteSets, SequencesExt

CONSTANTS
  Commits,     \* the calls of commit()
  Creations,   \* the calls of create()
  Aparts,      \* the bodies marked with _nothing_to_join: handover, issue_operation
  Foreign,     \* the writes of another OGM or named graph in the process
  Tasks,       \* the tasks that run bodies
  First,       \* the one that runs from the beginning
  None,        \* no write
  Shared,      \* the instance that the scopes add
  MayOutlive,  \* BOOLEAN: a task started in a body may go on after the body
  MaxFaults,   \* bound on writes and fetches that fail
  MaxUpdates   \* bound on the calls of update in a body

Writes == Commits \cup Creations \cup Aparts

ASSUME WriteAssumption ==
  /\ Commits \cap Creations = {} /\ Aparts \cap (Commits \cup Creations) = {}
  /\ Foreign \subseteq Writes
  /\ First \in Tasks /\ None \notin Writes /\ Shared \notin Writes
  /\ MayOutlive \in BOOLEAN /\ MaxFaults \in Nat /\ MaxUpdates \in Nat

VARIABLES
  at,       \* where the context manager of each write is
  parent,   \* _parent: the write that a creation joins
  saved,    \* _token: what _pending_write was before the body
  staged,   \* _staged
  outcome,  \* how it ended
  stack,    \* for each task its open context managers, the innermost last
  pending,  \* for each task its value of _pending_write
  life,     \* for each task whether it runs, in which body it was started
  log,      \* the writes that the store admitted, in their order
  faults

writeVars == <<at, parent, saved, staged, outcome, stack, pending, life, log, faults>>

Ats      == {"new", "entering", "fetching", "body", "exiting", "failing", "over"}
Outcomes == {"none", "committed", "joined", "failed", "refused", "interrupted", "plain"}
Props    == {"status", "end", "result"}
Values   == {"running", "done", "failed", "now", "new", "set"}
Parts    == {"entry", "exit", "error"}

Change(x, new, data) == [inst |-> x, new |-> new, data |-> data]

EntryChanges(w) == <<Change(w, FALSE, [status |-> "running"])>>
ExitChanges(w)  == <<Change(w, FALSE, [status |-> "done", end |-> "now"])>>
ErrorChanges(w) == <<Change(w, FALSE, [status |-> "failed", end |-> "now"])>>

Datas   == UNION {[ps -> Values] : ps \in SUBSET Props}
Changes == [inst : Writes \cup {Shared}, new : BOOLEAN, data : Datas]

WriteTypeOK ==
  /\ at \in [Writes -> Ats]
  /\ parent \in [Writes -> Writes \cup {None}]
  /\ saved \in [Writes -> Writes \cup {None}]
  /\ staged \in [Writes -> Seq(Changes)]
  /\ outcome \in [Writes -> Outcomes]
  /\ stack \in [Tasks -> Seq(Writes)]
  /\ pending \in [Tasks -> Writes \cup {None}]
  /\ life \in [Tasks -> [on : {"new", "running", "over"}, of : Writes \cup {None},
                         base : Writes \cup {None}]]
  /\ log \in Seq([write : Writes, part : Parts, changes : Seq(Changes)])
  /\ faults \in Nat

Unborn == [on |-> "new", of |-> None, base |-> None]

WriteInit ==
  /\ at = [w \in Writes |-> "new"]
  /\ parent = [w \in Writes |-> None]
  /\ saved = [w \in Writes |-> None]
  /\ staged = [w \in Writes |-> <<>>]
  /\ outcome = [w \in Writes |-> "none"]
  /\ stack = [t \in Tasks |-> <<>>]
  /\ pending = [t \in Tasks |-> None]
  /\ life = [t \in Tasks |-> IF t = First THEN [Unborn EXCEPT !.on = "running"] ELSE Unborn]
  /\ log = <<>> /\ faults = 0

Fault == faults < MaxFaults /\ faults' = faults + 1

Top(t) == stack[t][Len(stack[t])]
Runs(t, w) == stack[t] # <<>> /\ Top(t) = w

(* The code of task t runs in a body, or outside every one. *)
InCode(t) == life[t].on = "running" /\ (stack[t] # <<>> => at[Top(t)] = "body")

Ends(t, w, how) ==
  /\ at' = [at EXCEPT ![w] = "over"]
  /\ outcome' = [outcome EXCEPT ![w] = how]
  /\ stack' = [stack EXCEPT ![t] = SubSeq(@, 1, Len(@) - 1)]

Once(changes) ==
  \A m, n \in DOMAIN changes : changes[m].inst = changes[n].inst => m = n

SameStore(v, w) == v \in Foreign <=> w \in Foreign

(* One of the changes is a Create of x.                                    *)
Makes(changes, x) == \E c \in ToSet(changes) : c.inst = x /\ c.new

(* The store of the write w holds the instance x.                          *)
Held(w, x) ==
  \E n \in DOMAIN log : SameStore(log[n].write, w) /\ Makes(log[n].changes, x)

(* kapps_ogm refuses two changes of one instance, and the store a Create   *)
(* of one that it holds.                                                   *)
Acceptable(w, changes) ==
  Once(changes) /\ \A c \in ToSet(changes) : c.new => ~Held(w, c.inst)

Admit(w, part, changes) ==
  /\ Acceptable(w, changes)
  /\ log' = Append(log, [write |-> w, part |-> part, changes |-> changes])

Refuse(w, changes) ==
  /\ IF Acceptable(w, changes) THEN Fault ELSE UNCHANGED faults
  /\ UNCHANGED log

-----------------------------------------------------------------------------
(* What an exit sends.                                                     *)

Overlap_Never(w) == FALSE

(* _overlap: a staged change sets a property that the exit sets as well.   *)
Overlap(w) ==
  \E e \in ToSet(ExitChanges(w)), c \in ToSet(staged[w]) :
    c.inst = e.inst /\ DOMAIN c.data \cap DOMAIN e.data # {}

Over(later, earlier) ==
  [p \in DOMAIN earlier \cup DOMAIN later |->
     IF p \in DOMAIN later THEN later[p] ELSE earlier[p]]

Folded_Earlier(merged, c) ==
  LET same == {n \in DOMAIN merged : merged[n].inst = c.inst} IN
  IF same = {} THEN Append(merged, c)
  ELSE LET first == CHOOSE n \in same : \A m \in same : n <= m IN
       IF merged[first].new /\ c.new
       THEN IF merged[first] = c THEN merged ELSE Append(merged, c)
       ELSE [merged EXCEPT ![first] =
               Change(c.inst, @.new \/ c.new, Over(@.data, c.data))]

(* One step of _one_change_per_instance.                                   *)
Folded(merged, c) ==
  LET same == {n \in DOMAIN merged : merged[n].inst = c.inst} IN
  IF same = {} THEN Append(merged, c)
  ELSE LET first == CHOOSE n \in same : \A m \in same : n <= m IN
       IF merged[first].new /\ c.new
       THEN IF merged[first] = c THEN merged ELSE Append(merged, c)
       ELSE [merged EXCEPT ![first] =
               Change(c.inst, @.new \/ c.new, Over(c.data, @.data))]

Merged(changes) ==
  LET merged[n \in 0..Len(changes)] ==
        IF n = 0 THEN <<>> ELSE Folded(merged[n-1], changes[n])
  IN merged[Len(changes)]

(* The Create of the new instance, what the scope adds, the nested ones.   *)
CreateChanges(w) ==
  <<Change(w, TRUE, [result |-> "new"])>>
    \o (IF Held(w, Shared) THEN <<>> ELSE <<Change(Shared, TRUE, <<>>)>>)
    \o staged[w]

Given(w) ==
  IF w \in Creations THEN CreateChanges(w)
  ELSE IF Overlap(w) THEN staged[w] ELSE ExitChanges(w) \o staged[w]

-----------------------------------------------------------------------------
(* The entry of a context manager.                                         *)

Open(t, w) ==
  /\ InCode(t) /\ at[w] = "new"
  /\ stack' = [stack EXCEPT ![t] = Append(@, w)]

OpenCommit(t, w) ==
  /\ w \in Commits /\ Open(t, w)
  /\ at' = [at EXCEPT ![w] = "entering"]
  /\ UNCHANGED <<parent, saved, staged, outcome, pending, life, log, faults>>

Enter(t, w) ==
  /\ Runs(t, w) /\ at[w] = "entering"
  /\ at' = [at EXCEPT ![w] = "fetching"]
  /\ Admit(w, "entry", EntryChanges(w))
  /\ UNCHANGED <<parent, saved, staged, outcome, stack, pending, life, faults>>

RefuseEntry(t, w) ==
  /\ Runs(t, w) /\ at[w] = "entering"
  /\ Refuse(w, EntryChanges(w))
  /\ Ends(t, w, "refused")
  /\ UNCHANGED <<parent, saved, staged, pending, life>>

Pend(t, w) ==
  /\ saved' = [saved EXCEPT ![w] = pending[t]]
  /\ pending' = [pending EXCEPT ![t] = IF w \in Aparts THEN None ELSE w]

(* A fetch that fails is an error, and the body does not run. *)
Fetch(t, w) ==
  /\ Runs(t, w) /\ at[w] = "fetching"
  /\ \/ /\ at' = [at EXCEPT ![w] = "body"]
        /\ Pend(t, w) /\ UNCHANGED faults
     \/ /\ at' = [at EXCEPT ![w] = "failing"]
        /\ Fault /\ UNCHANGED <<saved, pending>>
  /\ UNCHANGED <<parent, staged, outcome, stack, life, log>>

Joins_Whatever(t, w) == pending[t]

(* _become_pending: a pending write of the same OGM and named graph.       *)
Joins(t, w) ==
  IF pending[t] # None /\ SameStore(pending[t], w)
  THEN pending[t] ELSE None

OpenCreation(t, w) ==
  /\ w \in Creations /\ Open(t, w)
  /\ at' = [at EXCEPT ![w] = "body"]
  /\ parent' = [parent EXCEPT ![w] = Joins(t, w)]
  /\ Pend(t, w)
  /\ UNCHANGED <<staged, outcome, life, log, faults>>

OpenApart(t, w) ==
  /\ w \in Aparts /\ Open(t, w)
  /\ at' = [at EXCEPT ![w] = "body"]
  /\ Pend(t, w)
  /\ UNCHANGED <<parent, staged, outcome, life, log, faults>>

-----------------------------------------------------------------------------
(* The body.                                                               *)

(* transition.update in the body of the commit or in one nested in it: of  *)
(* the commit's instance, of one that a creation makes, or of the shared.  *)
Update(t, w, x, p) ==
  /\ w \in Commits /\ InCode(t) /\ w \in ToSet(stack[t])
  /\ x \in {w, Shared} \/ (x \in Creations /\ at[x] # "new" /\ parent[x] = w)
  /\ Len(SelectSeq(staged[w], LAMBDA c : ~c.new)) < MaxUpdates
  /\ staged' = [staged EXCEPT ![w] = Append(@, Change(x, FALSE, [q \in {p} |-> "set"]))]
  /\ UNCHANGED <<at, parent, saved, outcome, stack, pending, life, log, faults>>

Spawn(t, u) ==
  /\ InCode(t) /\ stack[t] # <<>> /\ life[u].on = "new"
  /\ life' = [life EXCEPT ![u] = [on |-> "running", of |-> Top(t), base |-> pending[t]]]
  /\ pending' = [pending EXCEPT ![u] = pending[t]]
  /\ UNCHANGED <<at, parent, saved, staged, outcome, stack, log, faults>>

Finish(t) ==
  /\ life[t].on = "running" /\ stack[t] = <<>>
  /\ life' = [life EXCEPT ![t].on = "over"]
  /\ UNCHANGED <<at, parent, saved, staged, outcome, stack, pending, log, faults>>

(* A body in a task group ends after the tasks that were started in it. *)
ChildrenOver(w) == MayOutlive \/ \A u \in Tasks : life[u].of = w => life[u].on = "over"

Restored_Kept(w) == w
Restored(w) == saved[w]

(* The body ends: cleanly, with an error or a cancellation, or with an     *)
(* interrupt, which writes nothing.                                        *)
Leave(t, w, how) ==
  /\ Runs(t, w) /\ at[w] = "body" /\ ChildrenOver(w)
  /\ pending' = [pending EXCEPT ![t] = Restored(w)]
  /\ saved' = [saved EXCEPT ![w] = None]
  /\ \/ /\ how = "clean" /\ w \notin Aparts
        /\ at' = [at EXCEPT ![w] = "exiting"]
        /\ UNCHANGED <<staged, outcome, stack>>
     \/ /\ how = "error" /\ w \in Commits
        /\ at' = [at EXCEPT ![w] = "failing"]
        /\ staged' = [staged EXCEPT ![w] = <<>>]
        /\ UNCHANGED <<outcome, stack>>
     \/ /\ how = "interrupt" /\ w \in Commits
        /\ Ends(t, w, "interrupted") /\ UNCHANGED staged
     \/ /\ how = "error" /\ w \in Creations
        /\ staged' = [staged EXCEPT ![w] = <<>>]
        /\ Ends(t, w, "failed")
     \/ /\ w \in Aparts /\ Ends(t, w, "plain") /\ UNCHANGED staged
  /\ UNCHANGED <<parent, life, log, faults>>

-----------------------------------------------------------------------------
(* The exit of a commit, and its error transition.                         *)

ExitCommit(t, w) ==
  /\ w \in Commits /\ Runs(t, w) /\ at[w] = "exiting"
  /\ Admit(w, "exit", Merged(Given(w)))
  /\ Ends(t, w, "committed")
  /\ UNCHANGED <<parent, saved, staged, pending, life, faults>>

RefuseExit(t, w) ==
  /\ w \in Commits /\ Runs(t, w) /\ at[w] = "exiting"
  /\ Refuse(w, Merged(Given(w)))
  /\ at' = [at EXCEPT ![w] = "failing"]
  /\ staged' = [staged EXCEPT ![w] = <<>>]
  /\ UNCHANGED <<parent, saved, outcome, stack, pending, life>>

(* A refused error transition is only noted on the error. *)
WriteError(t, w) ==
  /\ Runs(t, w) /\ at[w] = "failing"
  /\ \/ Admit(w, "error", ErrorChanges(w)) /\ UNCHANGED faults
     \/ Refuse(w, ErrorChanges(w))
  /\ Ends(t, w, "failed")
  /\ UNCHANGED <<parent, saved, staged, pending, life>>

(* The exit of a creation: it joins the write it found at its entry, or    *)
(* commits alone.  Its scope reads the store first, which may fail.        *)
Join(t, w) ==
  /\ w \in Creations /\ Runs(t, w) /\ at[w] = "exiting" /\ parent[w] # None
  /\ staged' = [staged EXCEPT ![parent[w]] = @ \o Given(w), ![w] = <<>>]
  /\ Ends(t, w, "joined")
  /\ UNCHANGED <<parent, saved, pending, life, log, faults>>

CreateAlone(t, w) ==
  /\ w \in Creations /\ Runs(t, w) /\ at[w] = "exiting" /\ parent[w] = None
  /\ Admit(w, "exit", Merged(Given(w)))
  /\ Ends(t, w, "committed")
  /\ staged' = [staged EXCEPT ![w] = <<>>]
  /\ UNCHANGED <<parent, saved, pending, life, faults>>

RefuseCreation(t, w) ==
  /\ w \in Creations /\ Runs(t, w) /\ at[w] = "exiting"
  /\ IF parent[w] = None THEN Refuse(w, Merged(Given(w))) ELSE Fault /\ UNCHANGED log
  /\ Ends(t, w, "refused")
  /\ staged' = [staged EXCEPT ![w] = <<>>]
  /\ UNCHANGED <<parent, saved, pending, life>>

-----------------------------------------------------------------------------
Ongoing(t, w) ==
  \/ Enter(t, w) \/ RefuseEntry(t, w) \/ Fetch(t, w)
  \/ ExitCommit(t, w) \/ RefuseExit(t, w) \/ WriteError(t, w)
  \/ Join(t, w) \/ CreateAlone(t, w) \/ RefuseCreation(t, w)

WriteNext ==
  \/ \E t \in Tasks, w \in Writes :
       \/ OpenCommit(t, w) \/ OpenCreation(t, w) \/ OpenApart(t, w)
       \/ \E x \in Writes \cup {Shared}, p \in {"status", "result"} : Update(t, w, x, p)
       \/ \E how \in {"clean", "error", "interrupt"} : Leave(t, w, how)
       \/ Ongoing(t, w)
  \/ \E t \in Tasks : Finish(t) \/ \E u \in Tasks : Spawn(t, u)

WriteSpec == WriteInit /\ [][WriteNext]_writeVars

-----------------------------------------------------------------------------
(* Properties.                                                             *)

(* In the changes given, v is the value that p of x is set to last.        *)
SetLast(given, x, p, v) ==
  \E n \in DOMAIN given :
    /\ given[n].inst = x /\ p \in DOMAIN given[n].data /\ given[n].data[p] = v
    /\ \A m \in n + 1 .. Len(given) : given[m].inst = x => p \notin DOMAIN given[m].data

LastOfEach(sent, given) ==
  /\ Once(sent)
  /\ {c.inst : c \in ToSet(sent)} = {c.inst : c \in ToSet(given)}
  /\ \A c \in ToSet(sent) :
       /\ c.new <=> Makes(given, c.inst)
       /\ \A p \in Props, v \in Values :
            (p \in DOMAIN c.data /\ c.data[p] = v) <=> SetLast(given, c.inst, p, v)

(* An instance is changed by an Update, and created again after that.      *)
Recreated(given) ==
  \E m, n \in DOMAIN given : \E k \in 1..n :
    /\ m < n /\ given[m].new /\ given[n].new /\ ~given[k].new
    /\ given[m].inst = given[n].inst /\ given[k].inst = given[n].inst

(* "All changes to one instance merged into one": over every sequence that *)
(* bodies and nested creations stage, what the fold of an exit sends holds *)
(* each instance once, each property with the value that was set last, and *)
(* a Create wherever there is one.  Excepted are equal Creates of one      *)
(* instance with an Update before the later one: they do not become one,   *)
(* and the store refuses the exit.                                         *)
SendsLastOfEach ==
  \A w \in Writes : at[w] = "exiting" =>
    LET given == Given(w)
        sent  == Merged(given)
    IN IF Once(sent) THEN LastOfEach(sent, given) ELSE Recreated(given)

(* "A body that sets a property that the exit transition also sets, on the *)
(* same instance, wins: its value is committed and the exit transition is  *)
(* skipped as a whole", and it is not skipped when nothing in the body     *)
(* meets it.                                                               *)
ExitWholeOrSkipped ==
  \A n \in DOMAIN log : log[n].part = "exit" /\ log[n].write \in Commits =>
    LET data == [p \in Props |->
          {c.data[p] : c \in {d \in ToSet(log[n].changes) :
                                d.inst = log[n].write /\ p \in DOMAIN d.data}}] IN
    \/ data["status"] = {"done"} /\ data["end"] = {"now"}
    \/ data["status"] = {"set"} /\ data["end"] = {}

Made(w) == {n \in DOMAIN log : Makes(log[n].changes, w)}

(* "Inside the body of a commit or of another creation whose write is      *)
(* still to come, the same changes join that write instead: they are       *)
(* admitted or refused together with it, and an error in its body drops    *)
(* them."                                                                  *)
JoinedTogether ==
  \A w \in Creations : outcome[w] = "joined" =>
    LET p == parent[w] IN
    CASE outcome[p] = "committed" -> \E n \in Made(w) : log[n].write = p /\ log[n].part = "exit"
      [] outcome[p] = "joined"    -> Made(w) = Made(p)
      [] OTHER                    -> Made(w) = {}

(* The other writes are not touched by it: a creation that joins nothing   *)
(* is written by its own commit or not at all, also inside a marked body   *)
(* and inside a write of another middleware, and no write crosses stores.  *)
AloneOrJoined ==
  \A w \in Creations : \A n \in Made(w) :
    /\ Cardinality(Made(w)) = 1
    /\ log[n].write = w <=> parent[w] = None
    /\ SameStore(log[n].write, w)
=============================================================================
