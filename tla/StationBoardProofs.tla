-------------------------- MODULE StationBoardProofs --------------------------
(***************************************************************************)
(* Proofs about the control station's rebuilds of its view, for any units, *)
(* any number of requests and all bounds.                                  *)
(***************************************************************************)
EXTENDS StationBoard, SequenceTheorems, TLAPS

USE StationAssumption DEF StationAssumption

-----------------------------------------------------------------------------
(* The invariant.                                                          *)

Pcs == {"idle", "waiting", "unwiring", "dropping", "wiring", "loading", "failed"}
Record == [pc : Pcs, joiners : SUBSET Units, leavers : SUBSET Units, at : Units \cup {None}]

(* A call that works, rather than being over or waiting for its turn.      *)
Active(r) == rebuild[r].pc \notin {"idle", "waiting"}

(* Only the head of the lock works, and no request before the bulk load.   *)
OneWorks ==
  /\ \A r \in Requests : Active(r) => Locked /\ Head(lock) = r
  /\ \A r \in Requests : rebuild[r].pc # "idle" => Serving

(* While nothing failed, what is wired is loaded or about to be.           *)
Covered ==
  faults = 0 =>
    \A u \in Units : wired[u] > 0 =>
      u \in units \/ \E r \in Rebuilds : rebuild[r].pc = "loading" /\ u \in rebuild[r].joiners

(* A unit whose connectors are being disconnected is wired no more.        *)
Unwired ==
  \A r \in Rebuilds : rebuild[r].pc = "dropping" => rebuild[r].at \in Units /\ wired[rebuild[r].at] = 0

IInv == TypeOK /\ OneWorks /\ Covered /\ Unwired

-----------------------------------------------------------------------------
(* Records, and the step of a call.                                        *)

LEMMA RebuildIs == TypeOK => rebuild \in [Rebuilds -> Record]
BY DEF TypeOK, Record, Pcs

LEMMA CountsAre ==
  TypeOK => /\ wired \in [Units -> 0..MaxWired]
            /\ changes \in 0..MaxChanges /\ faults \in 0..MaxFaults
            /\ reacted \in {"no", "too few", "observed"}
            /\ live \subseteq Units /\ beating \subseteq Units
BY Zenon DEF TypeOK, Entries

LEMMA ChangeCounts ==
  ASSUME changes \in 0..MaxChanges, Change PROVE changes' \in 0..MaxChanges
BY DEF Change

LEMMA FaultCounts ==
  ASSUME faults \in 0..MaxFaults, Fault PROVE faults' \in 0..MaxFaults /\ faults' # 0
BY DEF Fault

LEMMA NoRebuildIs == NoRebuild \in Record /\ NoRebuild.pc = "idle"
BY DEF NoRebuild, Record, Pcs

LEMMA StageIs ==
  ASSUME NEW b \in Record
  PROVE  /\ Stage(b) \in Record
         /\ Stage(b).pc \in {"unwiring", "wiring", "idle"}
BY DEF Stage, Record, Pcs

LEMMA OneActive ==
  ASSUME OneWorks, NEW r \in Rebuilds, NEW s \in Rebuilds, Active(r), Active(s)
  PROVE  r = s
BY DEF OneWorks, Rebuilds, Active, Serving

LEMMA StepIs ==
  ASSUME TypeOK, NEW r \in Rebuilds, Holds(r), NEW b \in Record, Step(r, b)
  PROVE  /\ rebuild' \in [Rebuilds -> Record]
         /\ lock' \in Seq(Requests)
         /\ rebuild'[r].pc = b.pc
         /\ b.pc # "idle" => rebuild'[r] = b /\ lock' = lock
         /\ \A s \in Rebuilds : s # r => rebuild'[s] = rebuild[s]
<1>1. rebuild \in [Rebuilds -> Record] /\ lock \in Seq(Requests)
  BY RebuildIs DEF TypeOK
<1>2. CASE b.pc # "idle"
  BY <1>1, <1>2 DEF Step
<1>3. CASE b.pc = "idle"
  <2>1. rebuild' = [rebuild EXCEPT ![r] = NoRebuild]
    BY <1>3 DEF Step
  <2>2. lock' \in Seq(Requests)
    <3>1. CASE r = Startup
      BY <1>1, <1>3, <3>1 DEF Step
    <3>2. CASE r # Startup
      <4>1. lock # <<>>
        BY <3>2 DEF Holds, Locked
      <4>2. lock' = Tail(lock)
        BY <1>3, <3>2 DEF Step
      <4> QED BY <1>1, <4>1, <4>2
    <3> QED BY <3>1, <3>2
  <2> QED BY <1>1, <1>3, <2>1, <2>2, NoRebuildIs
<1> QED BY <1>2, <1>3

LEMMA StepKeepsOneWorks ==
  ASSUME TypeOK, OneWorks, NEW r \in Rebuilds, Holds(r), rebuild[r].pc # "idle",
         NEW b \in Record, Step(r, b)
  PROVE  OneWorks'
<1>1. /\ rebuild'[r].pc = b.pc
      /\ b.pc # "idle" => lock' = lock
      /\ \A s \in Rebuilds : s # r => rebuild'[s] = rebuild[s]
  BY StepIs
<1>2. CASE r = Startup
  <2>1. \A s \in Requests : rebuild[s].pc = "idle"
    BY <1>2 DEF OneWorks, Serving
  <2>2. \A s \in Requests : rebuild'[s].pc = "idle"
    BY <1>1, <1>2, <2>1 DEF Rebuilds
  <2> QED BY <2>2 DEF OneWorks, Active
<1>3. CASE r \in Requests
  <2>1. Head(lock) = r /\ Locked
    BY <1>3 DEF Holds
  <2>2. Serving /\ Serving'
    BY <1>1, <1>3 DEF OneWorks, Serving, Rebuilds
  <2>3. ASSUME NEW s \in Requests, Active(s)' PROVE Locked' /\ Head(lock)' = s
    <3>1. CASE s = r
      BY <1>1, <2>1, <2>3, <3>1 DEF Active, Locked
    <3>2. CASE s # r
      BY <1>1, <2>1, <2>3, <3>2 DEF Active, OneWorks, Rebuilds
    <3> QED BY <3>1, <3>2
  <2> QED BY <2>2, <2>3 DEF OneWorks
<1> QED BY <1>2, <1>3 DEF Rebuilds

(* The step of a call that was working, or now works, seen from the others. *)
LEMMA OthersDoNotWork ==
  ASSUME OneWorks, NEW r \in Rebuilds, Active(r), NEW s \in Rebuilds, s # r
  PROVE  rebuild[s].pc \in {"idle", "waiting"}
BY OneActive DEF Active

-----------------------------------------------------------------------------
LEMMA InitIInv == Init => IInv
<1> SUFFICES ASSUME Init PROVE IInv
  OBVIOUS
<1>1. rebuild \in [Rebuilds -> Record]
  BY NoRebuildIs DEF Init, NoRebuild, Record, Pcs
<1>2. TypeOK
  <2>1. Empty \in [{} -> BOOLEAN]
    BY DEF Empty
  <2>2. Empty \in UNION {[S -> BOOLEAN] : S \in SUBSET Units}
    BY <2>1
  <2>3. reading \in [Units -> BOOLEAN] /\ paused \in BOOLEAN
    BY Zenon DEF Init
  <2>4. wired \in Entries
    BY DEF Init, Entries
  <2> QED BY <1>1, <2>2, <2>3, <2>4 DEF Init, TypeOK, Record, Pcs, Queries
<1>3. \A r \in Requests : rebuild[r].pc = "idle"
  BY NoRebuildIs DEF Init, Rebuilds
<1>4. OneWorks
  BY <1>3 DEF OneWorks, Active
<1>5. rebuild[Startup].pc = "loading" /\ rebuild[Startup].joiners = live
  BY DEF Init, Rebuilds, NoRebuild
<1>6. Covered
  BY <1>5 DEF Covered, Init, Rebuilds
<1>7. Unwired
  BY <1>3, <1>5 DEF Unwired, Rebuilds
<1> QED BY <1>2, <1>4, <1>6, <1>7 DEF IInv

-----------------------------------------------------------------------------
(* The calls.                                                              *)

LEMMA DifferenceIs ==
  ASSUME TypeOK, NEW q
  PROVE  Difference(q) \in Record /\ Difference(q).pc = "waiting"
<1>1. Hits(q) \subseteq Units /\ units \subseteq Units
  BY DEF TypeOK, Hits
<1> QED BY <1>1 DEF Difference, Record, Pcs

LEMMA StartKeeps ==
  ASSUME IInv, NEW r \in Requests, NEW q, StartRebuild(r, q)
  PROVE  /\ rebuild' \in [Rebuilds -> Record] /\ lock' \in Seq(Requests)
         /\ OneWorks' /\ Covered' /\ Unwired'
<1> USE DEF IInv
<1>1. rebuild \in [Rebuilds -> Record] /\ lock \in Seq(Requests) /\ r \in Rebuilds /\ r # Startup
  BY RebuildIs DEF TypeOK, Rebuilds
<1>2. /\ Serving /\ rebuild[r].pc = "idle"
      /\ units' = units /\ wired' = wired /\ faults' = faults
  BY DEF StartRebuild
<1>3. CASE UNCHANGED <<rebuild, lock>>
  BY <1>1, <1>2, <1>3 DEF OneWorks, Active, Locked, Serving, Covered, Unwired
<1>4. ASSUME NEW b \in Record, rebuild' = [rebuild EXCEPT ![r] = b], b.pc \notin {"dropping", "idle"},
             lock' = Append(lock, r), Locked => b.pc = "waiting"
      PROVE  OneWorks' /\ Covered' /\ Unwired'
  <2>1. /\ rebuild'[r] = b
        /\ \A s \in Rebuilds : s # r => rebuild'[s] = rebuild[s]
    BY <1>1, <1>4
  <2>2. Serving'
    BY <1>1, <1>2, <2>1 DEF Serving, Rebuilds
  <2>3. ASSUME NEW s \in Requests, Active(s)' PROVE Locked' /\ Head(lock)' = s
    <3>1. lock' # <<>>
      BY <1>1, <1>4
    <3>2. CASE s = r
      <4>1. lock = <<>>
        BY <1>4, <2>1, <2>3, <3>2 DEF Active, Locked
      <4> QED BY <1>1, <1>4, <3>1, <3>2, <4>1 DEF Locked
    <3>3. CASE s # r
      <4>1. Locked /\ Head(lock) = s
        BY <2>1, <2>3, <3>3 DEF Active, OneWorks, Rebuilds
      <4>2. Head(Append(lock, r)) = Head(lock)
        BY <1>1, <4>1 DEF Locked
      <4> QED BY <1>4, <3>1, <4>1, <4>2 DEF Locked
    <3> QED BY <3>2, <3>3
  <2>4. OneWorks'
    BY <2>2, <2>3 DEF OneWorks
  <2>5. \A s \in Rebuilds : rebuild[s].pc = "loading" => rebuild'[s] = rebuild[s]
    BY <1>2, <2>1
  <2>6. Covered'
    BY <1>2, <2>5 DEF Covered
  <2>7. Unwired'
    BY <1>2, <1>4, <2>1 DEF Unwired
  <2> QED BY <2>4, <2>6, <2>7
<1>5. DEFINE b == IF Locked THEN Difference(q) ELSE Stage(Difference(q))
<1>6. b \in Record /\ b.pc # "dropping" /\ (Locked => b.pc = "waiting")
  BY DifferenceIs, StageIs
<1>7. CASE q # "malformed"
  <2>1. /\ rebuild' = [rebuild EXCEPT ![r] = IF b.pc = "idle" THEN NoRebuild ELSE b]
        /\ lock' = IF b.pc = "idle" THEN lock ELSE Append(lock, r)
    BY <1>7 DEF StartRebuild
  <2> HIDE DEF b
  <2>2. CASE b.pc = "idle"
    <3>1. rebuild' \in [Rebuilds -> Record] /\ lock' = lock
      BY <1>1, <2>1, <2>2, NoRebuildIs
    <3>2. \A s \in Rebuilds : s # r => rebuild'[s] = rebuild[s]
      BY <1>1, <2>1
    <3>3. rebuild'[r].pc = "idle"
      BY <1>1, <2>1, <2>2, NoRebuildIs
    <3>4. OneWorks'
      BY <1>1, <1>2, <3>1, <3>2, <3>3 DEF OneWorks, Active, Locked, Serving, Rebuilds
    <3>5. \A s \in Rebuilds : rebuild[s].pc = "loading" => rebuild'[s] = rebuild[s]
      BY <1>2, <3>2
    <3>6. Covered'
      BY <1>2, <3>5 DEF Covered
    <3>7. Unwired'
      BY <1>2, <3>2, <3>3 DEF Unwired
    <3> QED BY <1>1, <3>1, <3>4, <3>6, <3>7
  <2>3. CASE b.pc # "idle"
    <3>1. rebuild' = [rebuild EXCEPT ![r] = b] /\ lock' = Append(lock, r)
      BY <2>1, <2>3
    <3>2. OneWorks' /\ Covered' /\ Unwired'
      BY <1>4, <1>6, <2>3, <3>1
    <3>3. rebuild' \in [Rebuilds -> Record] /\ lock' \in Seq(Requests)
      BY <1>1, <1>6, <3>1
    <3> QED BY <3>2, <3>3
  <2> QED BY <2>2, <2>3
<1> QED BY <1>1, <1>3, <1>7 DEF StartRebuild

(* The part of the type that rebuild_view itself changes.                  *)
LEMMA TypeFollows ==
  ASSUME TypeOK, UNCHANGED <<world, reading, algo>>,
         rebuild' \in [Rebuilds -> Record], lock' \in Seq(Requests),
         units' \subseteq Units, wired' \in Entries, query' \in Queries,
         changes' \in 0..MaxChanges, faults' \in 0..MaxFaults
  PROVE  TypeOK'
BY DEF TypeOK, world, algo, Record, Pcs

LEMMA PollKeeps ==
  ASSUME IInv, NEW r \in Requests, Poll(r) \/ RunView(r)
  PROVE  IInv'
<1>1. PICK q \in Queries : StartRebuild(r, q) /\ query' \in Queries /\ changes' \in 0..MaxChanges
  <2>1. query \in Queries /\ changes \in 0..MaxChanges
    BY DEF IInv, TypeOK
  <2>2. CASE Poll(r)
    BY <2>1, <2>2, Zenon DEF Poll
  <2>3. CASE RunView(r)
    <3>1. changes' \in 0..MaxChanges
      BY <2>1, <2>3 DEF RunView, Change
    <3>2. \E q \in Queries : query' = q /\ StartRebuild(r, q)
      BY <2>3, Zenon DEF RunView
    <3> QED BY <3>1, <3>2, Zenon
  <2> QED BY <2>2, <2>3
<1>2. /\ rebuild' \in [Rebuilds -> Record] /\ lock' \in Seq(Requests)
      /\ OneWorks' /\ Covered' /\ Unwired'
  BY <1>1, StartKeeps
<1>3. UNCHANGED <<world, reading, algo, units, wired, faults>>
  BY <1>1 DEF StartRebuild
<1>4. TypeOK'
  BY <1>1, <1>2, <1>3, TypeFollows DEF IInv, TypeOK
<1> QED BY <1>2, <1>4 DEF IInv

-----------------------------------------------------------------------------
(* The steps under the lock.                                               *)

LEMMA AcquireKeeps ==
  ASSUME IInv, NEW r \in Rebuilds, Acquire(r) PROVE IInv'
<1> USE DEF IInv
<1> DEFINE b == Stage(rebuild[r])
<1>1. rebuild[r] \in Record /\ rebuild[r].pc = "waiting" /\ Holds(r) /\ Step(r, b)
  BY RebuildIs DEF Acquire
<1>2. b \in Record /\ b.pc \in {"unwiring", "wiring", "idle"}
  BY <1>1, StageIs
<1> HIDE DEF b
<1>3. /\ rebuild' \in [Rebuilds -> Record] /\ lock' \in Seq(Requests)
      /\ rebuild'[r].pc = b.pc
      /\ \A s \in Rebuilds : s # r => rebuild'[s] = rebuild[s]
  BY <1>1, <1>2, StepIs
<1>4. OneWorks'
  BY <1>1, <1>2, StepKeepsOneWorks
<1>5. UNCHANGED <<world, reading, query, units, wired, algo, changes, faults>>
  BY DEF Acquire, bounds
<1>6. TypeOK'
  BY <1>3, <1>5, TypeFollows DEF TypeOK
<1>7. \A s \in Rebuilds : rebuild[s].pc = "loading" => rebuild'[s] = rebuild[s]
  BY <1>1, <1>3
<1>8. Covered'
  BY <1>5, <1>7 DEF Covered
<1>9. Unwired'
  BY <1>2, <1>3, <1>5 DEF Unwired
<1> QED BY <1>4, <1>6, <1>8, <1>9

LEMMA UnwireKeeps ==
  ASSUME IInv, NEW r \in Rebuilds, Unwire(r) PROVE IInv'
<1> USE DEF IInv
<1>1. PICK u \in rebuild[r].leavers :
        /\ wired' = [wired EXCEPT ![u] = 0]
        /\ rebuild' = [rebuild EXCEPT ![r].pc = "dropping", ![r].at = u]
  BY DEF Unwire
<1>2. /\ rebuild \in [Rebuilds -> Record] /\ rebuild[r] \in Record /\ u \in Units
      /\ rebuild[r].pc = "unwiring"
  BY <1>1, RebuildIs DEF Record, Unwire
<1>3. /\ rebuild' \in [Rebuilds -> Record]
      /\ rebuild'[r].pc = "dropping" /\ rebuild'[r].at = u
      /\ \A s \in Rebuilds : s # r => rebuild'[s] = rebuild[s]
  BY <1>1, <1>2 DEF Record, Pcs
<1>4. UNCHANGED <<world, reading, query, units, lock, algo, changes, faults>>
  BY DEF Unwire, bounds
<1>5. /\ wired' \in Entries /\ wired'[u] = 0
      /\ \A v \in Units : wired'[v] > 0 => wired[v] > 0
  <2>1. wired \in [Units -> 0..MaxWired]
    BY CountsAre
  <2>2. wired' \in [Units -> 0..MaxWired]
    <3>1. 0 \in 0..MaxWired
      OBVIOUS
    <3> QED BY <1>1, <2>1, <3>1
  <2>3. wired'[u] = 0 /\ \A v \in Units : v # u => wired'[v] = wired[v]
    BY <1>1, <1>2, <2>1
  <2> QED BY <2>2, <2>3 DEF Entries
<1>6. TypeOK'
  BY <1>3, <1>4, <1>5, TypeFollows DEF TypeOK
<1>7. \A s \in Rebuilds : s # r => rebuild[s].pc \in {"idle", "waiting"}
  BY <1>2, OthersDoNotWork DEF Active
<1>8. OneWorks'
  BY <1>2, <1>3, <1>4 DEF OneWorks, Active, Locked, Serving, Rebuilds
<1>9. Covered'
  BY <1>2, <1>3, <1>4, <1>5 DEF Covered
<1>10. Unwired'
  BY <1>2, <1>3, <1>5, <1>7 DEF Unwired
<1> QED BY <1>6, <1>8, <1>9, <1>10

LEMMA DropKeeps ==
  ASSUME IInv, NEW r \in Rebuilds, Drop(r) PROVE IInv'
<1> USE DEF IInv
<1> DEFINE u == rebuild[r].at
           left == [rebuild[r] EXCEPT !.leavers = @ \ {u}, !.at = None]
           b == Stage(left)
<1>1. /\ rebuild[r] \in Record /\ rebuild[r].pc = "dropping" /\ Holds(r)
      /\ Step(r, b) /\ units' = units \ {u}
  BY RebuildIs DEF Drop
<1>2. left \in Record
  BY <1>1 DEF Record
<1>3. b \in Record /\ b.pc \in {"unwiring", "wiring", "idle"}
  BY <1>2, StageIs
<1> HIDE DEF b
<1>4. /\ rebuild' \in [Rebuilds -> Record] /\ lock' \in Seq(Requests)
      /\ rebuild'[r].pc = b.pc
      /\ \A s \in Rebuilds : s # r => rebuild'[s] = rebuild[s]
  BY <1>1, <1>3, StepIs
<1>5. OneWorks'
  BY <1>1, <1>3, StepKeepsOneWorks
<1>6. UNCHANGED <<world, reading, query, wired, algo, changes, faults>>
  BY DEF Drop, bounds
<1>7. TypeOK'
  BY <1>1, <1>4, <1>6, TypeFollows DEF TypeOK
<1>8. \A s \in Rebuilds : rebuild[s].pc = "loading" => rebuild'[s] = rebuild[s]
  BY <1>1, <1>4
<1>9. wired[u] = 0
  BY <1>1 DEF Unwired
<1>10. Covered'
  BY <1>1, <1>6, <1>8, <1>9 DEF Covered
<1>11. Unwired'
  BY <1>3, <1>4, <1>6 DEF Unwired
<1> QED BY <1>5, <1>7, <1>10, <1>11

LEMMA RegistersIs ==
  ASSUME TypeOK, NEW joiners, Registers(joiners)
  PROVE  /\ wired' \in Entries
         /\ \A u \in Units : u \notin joiners => wired'[u] = wired[u]
<1>1. wired \in [Units -> 0..MaxWired]
  BY CountsAre
<1>2. ASSUME NEW u \in Units PROVE wired[u] < MaxWired => wired[u] + 1 \in 0..MaxWired
  BY <1>1
<1>3. wired' \in [Units -> 0..MaxWired]
  BY <1>1, <1>2 DEF Registers
<1>4. \A u \in Units : u \notin joiners => wired'[u] = wired[u]
  BY DEF Registers
<1> QED BY <1>3, <1>4 DEF Entries

LEMMA WireKeeps ==
  ASSUME IInv, NEW r \in Rebuilds, Wire(r) PROVE IInv'
<1> USE DEF IInv
<1> DEFINE loads == rebuild[r].joiners \ units
           b == [rebuild[r] EXCEPT !.joiners = loads,
                                   !.pc = IF loads = {} THEN "idle" ELSE "loading"]
<1>1. /\ rebuild[r] \in Record /\ rebuild[r].pc = "wiring" /\ Holds(r) /\ Step(r, b)
      /\ Registers(rebuild[r].joiners)
  BY RebuildIs DEF Wire
<1>2. /\ b \in Record /\ b.joiners = loads
      /\ b.pc = IF loads = {} THEN "idle" ELSE "loading"
  BY <1>1 DEF Record, Pcs
<1> HIDE DEF b
<1>3. /\ rebuild' \in [Rebuilds -> Record] /\ lock' \in Seq(Requests)
      /\ rebuild'[r].pc = b.pc
      /\ b.pc # "idle" => rebuild'[r] = b
      /\ \A s \in Rebuilds : s # r => rebuild'[s] = rebuild[s]
  BY <1>1, <1>2, StepIs
<1>4. OneWorks'
  BY <1>1, <1>2, StepKeepsOneWorks
<1>5. UNCHANGED <<world, reading, query, units, algo, changes, faults>>
  BY DEF Wire, bounds
<1>6. /\ wired' \in Entries
      /\ \A u \in Units : wired'[u] > 0 => wired[u] > 0 \/ u \in rebuild[r].joiners
  BY <1>1, RegistersIs
<1>7. TypeOK'
  BY <1>3, <1>5, <1>6, TypeFollows DEF TypeOK
<1>8. \A s \in Rebuilds : s # r => rebuild[s].pc \in {"idle", "waiting"}
  BY <1>1, OthersDoNotWork DEF Active
<1>9. ASSUME faults = 0, NEW u \in Units, wired'[u] > 0
      PROVE  u \in units \/ (rebuild'[r].pc = "loading" /\ u \in rebuild'[r].joiners)
  <2>1. u \in units \/ u \in rebuild[r].joiners
    BY <1>1, <1>6, <1>8, <1>9 DEF Covered
  <2> QED BY <1>2, <1>3, <2>1
<1>10. Covered'
  BY <1>5, <1>9 DEF Covered
<1>11. Unwired'
  BY <1>2, <1>3, <1>8 DEF Unwired
<1> QED BY <1>4, <1>7, <1>10, <1>11

LEMMA WireRaisesKeeps ==
  ASSUME IInv, NEW r \in Rebuilds, WireRaises(r) PROVE IInv'
<1> USE DEF IInv
<1>1. rebuild[r].pc = "wiring" /\ Holds(r) /\ Step(r, NoRebuild)
  BY DEF WireRaises
<1>2. /\ rebuild' \in [Rebuilds -> Record] /\ lock' \in Seq(Requests)
      /\ rebuild'[r].pc = "idle"
      /\ \A s \in Rebuilds : s # r => rebuild'[s] = rebuild[s]
  BY <1>1, NoRebuildIs, StepIs
<1>3. OneWorks'
  BY <1>1, NoRebuildIs, StepKeepsOneWorks
<1>4. /\ UNCHANGED <<world, reading, query, units, algo, changes>>
      /\ faults' \in 0..MaxFaults /\ faults' # 0
  BY FaultCounts, CountsAre DEF WireRaises
<1>5. PICK before \in SUBSET rebuild[r].joiners : Registers(before)
  BY DEF WireRaises
<1>6. wired' \in Entries
  BY <1>5, RegistersIs
<1>7. TypeOK'
  BY <1>2, <1>4, <1>6, TypeFollows DEF TypeOK
<1>8. \A s \in Rebuilds : s # r => rebuild[s].pc \in {"idle", "waiting"}
  BY <1>1, OthersDoNotWork DEF Active
<1>9. Unwired'
  BY <1>2, <1>8 DEF Unwired
<1> QED BY <1>3, <1>4, <1>7, <1>9 DEF Covered

LEMMA LoadKeeps ==
  ASSUME IInv, NEW r \in Rebuilds, Load(r) PROVE IInv'
<1> USE DEF IInv
<1>1. rebuild[r] \in Record /\ rebuild[r].pc = "loading" /\ Holds(r)
  BY RebuildIs DEF Load
<1>2. UNCHANGED <<world, reading, query, wired, algo, changes>>
  BY DEF Load
<1>3. \A s \in Rebuilds : s # r => rebuild[s].pc \in {"idle", "waiting"}
  BY <1>1, OthersDoNotWork DEF Active
<1>4. PICK b \in Record :
        /\ Step(r, b) /\ b.pc \in {"idle", "loading"}
        /\ faults' \in 0..MaxFaults /\ units' \subseteq Units
        /\ faults' = 0 =>
             /\ faults = 0 /\ units \subseteq units'
             /\ rebuild[r].joiners \subseteq units' \cup b.joiners
             /\ b.pc = "idle" => rebuild[r].joiners \subseteq units'
  <2>1. CASE rebuild[r].joiners = {}
    BY <2>1, NoRebuildIs DEF Load, TypeOK
  <2>2. CASE rebuild[r].joiners # {}
    <3>1. PICK u \in rebuild[r].joiners :
            /\ Step(r, [rebuild[r] EXCEPT !.joiners = rebuild[r].joiners \ {u},
                          !.pc = IF rebuild[r].joiners \ {u} = {} THEN "idle" ELSE @])
            /\ \/ units' = units \cup {u} /\ UNCHANGED faults
               \/ Fault /\ UNCHANGED units
      BY <2>2 DEF Load
    <3> DEFINE rest == rebuild[r].joiners \ {u}
               b == [rebuild[r] EXCEPT !.joiners = rest, !.pc = IF rest = {} THEN "idle" ELSE @]
    <3>2. /\ b \in Record /\ b.joiners = rest
          /\ b.pc = IF rest = {} THEN "idle" ELSE "loading"
      BY <1>1 DEF Record, Pcs
    <3>3. Step(r, b)
      BY <3>1
    <3> HIDE DEF b
    <3>4. u \in Units /\ units \subseteq Units /\ faults \in 0..MaxFaults
      BY <1>1 DEF Record, TypeOK
    <3>5. CASE units' = units \cup {u} /\ UNCHANGED faults
      BY <3>2, <3>3, <3>4, <3>5
    <3>6. CASE Fault /\ UNCHANGED units
      <4>1. faults' \in 0..MaxFaults /\ faults' # 0
        BY <3>4, <3>6 DEF Fault
      <4> QED BY <3>2, <3>3, <3>4, <3>6, <4>1
    <3> QED BY <3>1, <3>5, <3>6
  <2> QED BY <2>1, <2>2
<1>5. /\ rebuild' \in [Rebuilds -> Record] /\ lock' \in Seq(Requests)
      /\ rebuild'[r].pc = b.pc
      /\ b.pc # "idle" => rebuild'[r] = b
      /\ \A s \in Rebuilds : s # r => rebuild'[s] = rebuild[s]
  BY <1>1, <1>4, StepIs
<1>6. OneWorks'
  BY <1>1, <1>4, StepKeepsOneWorks
<1>7. TypeOK'
  BY <1>2, <1>4, <1>5, TypeFollows DEF TypeOK
<1>8. ASSUME faults' = 0, NEW u \in Units, wired[u] > 0
      PROVE  u \in units' \/ (rebuild'[r].pc = "loading" /\ u \in rebuild'[r].joiners)
  <2>1. u \in units \/ u \in rebuild[r].joiners
    BY <1>3, <1>4, <1>8 DEF Covered
  <2> QED BY <1>4, <1>5, <1>8, <2>1
<1>9. Covered'
  BY <1>2, <1>8 DEF Covered
<1>10. Unwired'
  BY <1>3, <1>4, <1>5 DEF Unwired
<1> QED BY <1>6, <1>7, <1>9, <1>10

LEMMA PersistRaisesKeeps ==
  ASSUME IInv, NEW r \in Rebuilds, PersistRaises(r) PROVE IInv'
<1> USE DEF IInv
<1> DEFINE b == IF r = Startup THEN [NoRebuild EXCEPT !.pc = "failed"] ELSE NoRebuild
<1>1. rebuild[r].pc = "loading" /\ Holds(r) /\ Step(r, b)
  BY DEF PersistRaises
<1>2. b \in Record /\ b.pc \in {"idle", "failed"}
  BY NoRebuildIs DEF Record, Pcs
<1> HIDE DEF b
<1>3. /\ rebuild' \in [Rebuilds -> Record] /\ lock' \in Seq(Requests)
      /\ rebuild'[r].pc \in {"idle", "failed"}
      /\ \A s \in Rebuilds : s # r => rebuild'[s] = rebuild[s]
  BY <1>1, <1>2, StepIs
<1>4. OneWorks'
  BY <1>1, <1>2, StepKeepsOneWorks
<1>5. /\ UNCHANGED <<world, reading, query, units, wired, algo, changes>>
      /\ faults' \in 0..MaxFaults /\ faults' # 0
  BY FaultCounts, CountsAre DEF PersistRaises
<1>6. TypeOK'
  BY <1>3, <1>5, TypeFollows DEF TypeOK
<1>7. Unwired'
  BY <1>3, <1>5 DEF Unwired
<1> QED BY <1>4, <1>5, <1>6, <1>7 DEF Covered

-----------------------------------------------------------------------------
(* What leaves the view alone.                                             *)

LEMMA ViewStays ==
  ASSUME IInv, UNCHANGED <<view, faults>> PROVE (OneWorks /\ Covered /\ Unwired)'
BY DEF IInv, view, OneWorks, Covered, Unwired, Active, Locked, Serving

LEMMA WorldKeeps ==
  ASSUME IInv, NEW u \in Units, ComeOrGo(u) \/ HeartbeatAges(u) \/ PassBarrier(u)
  PROVE  IInv'
<1>1. UNCHANGED <<view, faults>>
  BY DEF ComeOrGo, HeartbeatAges, PassBarrier
<1>2. changes' \in 0..MaxChanges /\ live' \subseteq Units /\ beating' \subseteq Units
  <2>1. changes \in 0..MaxChanges /\ live \subseteq Units /\ beating \subseteq Units
    BY CountsAre DEF IInv
  <2>2. Change
    BY DEF ComeOrGo, HeartbeatAges, PassBarrier
  <2>3. changes' \in 0..MaxChanges
    BY <2>1, <2>2, ChangeCounts
  <2>4. /\ live' = live \/ live' = live \cup {u} \/ live' = live \ {u}
        /\ beating' = beating \/ beating' = beating \cup {u} \/ beating' = beating \ {u}
    BY DEF ComeOrGo, HeartbeatAges, PassBarrier, world
  <2> QED BY <2>1, <2>3, <2>4
<1>3. reading' \in [Units -> BOOLEAN]
  <2>1. reading \in [Units -> BOOLEAN]
    BY DEF IInv, TypeOK
  <2>2. CASE reading' = reading
    BY <2>1, <2>2, Zenon
  <2>3. CASE reading' = [reading EXCEPT ![u] = ~reading[u]]
    <3>1. (~reading[u]) \in BOOLEAN
      OBVIOUS
    <3> QED BY <2>1, <2>3, <3>1
  <2> QED BY <2>2, <2>3 DEF ComeOrGo, HeartbeatAges, PassBarrier
<1>4. UNCHANGED <<query, algo>>
  BY DEF ComeOrGo, HeartbeatAges, PassBarrier
<1>5. TypeOK'
  BY <1>1, <1>2, <1>3, <1>4 DEF IInv, TypeOK, view, algo
<1> QED BY <1>1, <1>5, ViewStays DEF IInv

LEMMA AlgorithmKeeps ==
  ASSUME IInv, Pause \/ Tick PROVE IInv'
<1>1. UNCHANGED <<view, faults, world, reading, query>>
  BY DEF Pause, Tick, bounds
<1>2. /\ changes' \in 0..MaxChanges
      /\ reacted' \in {"no", "too few", "observed"}
  <2>1. changes \in 0..MaxChanges /\ reacted \in {"no", "too few", "observed"}
    BY CountsAre DEF IInv
  <2>2. Change \/ changes' = changes
    BY Zenon DEF Pause, Tick, bounds
  <2>3. reacted' = reacted \/ reacted' = "no" \/ reacted' = Reaction
    BY Zenon DEF Pause, Tick
  <2>4. changes' \in 0..MaxChanges
    <3>1. CASE Change
      BY <2>1, <3>1, ChangeCounts
    <3>2. CASE changes' = changes
      BY <2>1, <3>2
    <3> QED BY <2>2, <3>1, <3>2
  <2>5. Reaction \in {"too few", "observed"}
    BY DEF Reaction
  <2> QED BY <2>1, <2>3, <2>4, <2>5
<1>3. paused' \in BOOLEAN
  <2>1. paused \in BOOLEAN
    BY DEF IInv, TypeOK
  <2> QED BY <2>1, Zenon DEF Pause, Tick
<1>4. sample' \in UNION {[S -> BOOLEAN] : S \in SUBSET Units}
  <2>1. CASE sample' = sample
    BY <2>1 DEF IInv, TypeOK
  <2>2. CASE sample' = Snapshot
    <3>1. units \subseteq Units /\ reading \in [Units -> BOOLEAN]
      BY DEF IInv, TypeOK
    <3>2. Snapshot \in [units -> BOOLEAN]
      BY <3>1 DEF Snapshot
    <3> QED BY <2>2, <3>1, <3>2
  <2> QED BY <2>1, <2>2 DEF Pause, Tick
<1>5. TypeOK'
  BY <1>1, <1>2, <1>3, <1>4 DEF IInv, TypeOK, view, world
<1> QED BY <1>1, <1>5, ViewStays DEF IInv

LEMMA StepIInv == IInv /\ [Next]_vars => IInv'
<1> SUFFICES ASSUME IInv, [Next]_vars PROVE IInv'
  OBVIOUS
<1>1. ASSUME NEW u \in Units, ComeOrGo(u) \/ HeartbeatAges(u) \/ PassBarrier(u) PROVE IInv'
  BY <1>1, WorldKeeps
<1>2. ASSUME NEW r \in Rebuilds, RebuildStep(r) PROVE IInv'
  BY <1>2, AcquireKeeps, UnwireKeeps, DropKeeps, WireKeeps, WireRaisesKeeps, LoadKeeps,
     PersistRaisesKeeps
     DEF RebuildStep
<1>3. ASSUME NEW r \in Requests, Poll(r) \/ RunView(r) PROVE IInv'
  BY <1>3, PollKeeps
<1>4. CASE Pause \/ Tick
  BY <1>4, AlgorithmKeeps
<1>5. CASE UNCHANGED vars
  <2>1. TypeOK'
    BY <1>5 DEF IInv, TypeOK, vars, world, view, algo, bounds
  <2> QED BY <1>5, <2>1, ViewStays DEF IInv, vars, bounds
<1> QED BY <1>1, <1>2, <1>3, <1>4, <1>5 DEF Next

LEMMA Invariance == Spec => []IInv
BY InitIInv, StepIInv, PTL DEF Spec

(* Every variable of the station keeps its type, whatever polls, run       *)
(* requests, failing fetches and the plant do.                             *)
THEOREM TypeCorrect == Spec => []TypeOK
BY Invariance, PTL DEF IInv

(* However rebuild_view calls overlap and whatever differences they took   *)
(* before they had rebuild_lock: while nothing fails, a unit that has left *)
(* the view leaves no wiring behind.                                       *)
THEOREM NothingLeftWired == Spec => []LeftIsGone
<1>1. IInv => LeftIsGone
  <2> SUFFICES ASSUME IInv, Serving, ~Held, faults = 0, NEW u \in Units, wired[u] > 0,
                      NEW r \in Rebuilds, rebuild[r].pc = "loading"
               PROVE  FALSE
    BY DEF LeftIsGone, IInv, Covered
  <2>1. r \in Requests
    BY DEF Rebuilds, Serving
  <2>2. Locked /\ Head(lock) = r
    BY <2>1 DEF IInv, OneWorks, Active
  <2> QED BY <2>2 DEF Held
<1> QED BY <1>1, Invariance, PTL

=============================================================================
