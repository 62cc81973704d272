---------------------------- MODULE LauncherProofs ----------------------------
(***************************************************************************)
(* Proofs about the order in which the launcher of the factory stops its   *)
(* children, for any number of units, stop requests and faults.            *)
(***************************************************************************)
EXTENDS Launcher, SequenceTheorems, TLAPS

-----------------------------------------------------------------------------
(* The children, and the order in which they are spawned.                  *)

LEMMA Kinds ==
  /\ GraphSide \cap PLCs = {} /\ Children = GraphSide \cup PLCs
  /\ \A c \in PLCs : Mw(c) \in Middlewares /\ Mw(c) \in GraphSide /\ Mw(c)[2] = c[2]
<1>1. GraphSide \cap PLCs = {}
  BY DEF GraphSide, Registered, Middlewares, PLCs, Control, Watchdog
<1>2. Children = GraphSide \cup PLCs
  BY DEF GraphSide, Registered, Children
<1>3. ASSUME NEW c \in PLCs
      PROVE  Mw(c) \in Middlewares /\ Mw(c) \in GraphSide /\ Mw(c)[2] = c[2]
  BY DEF GraphSide, Registered, Middlewares, PLCs, Mw
<1> QED BY <1>1, <1>2, <1>3

LEMMA Halves ==
  ASSUME NEW i \in 1..2*N
  PROVE  \/ \E u \in Units : i = 2*u - 1 /\ i % 2 = 1 /\ (i + 1) \div 2 = u
         \/ \E u \in Units : i = 2*u /\ i % 2 = 0 /\ i \div 2 = u
<1>1. N \in Nat
  BY LauncherAssumption DEF LauncherAssumption
<1>2. CASE i % 2 = 1
  <2>1. (i + 1) \div 2 \in Units /\ i = 2 * ((i + 1) \div 2) - 1
    BY <1>1, <1>2 DEF Units
  <2> QED BY <1>2, <2>1
<1>3. CASE i % 2 = 0
  <2>1. i \div 2 \in Units /\ i = 2 * (i \div 2)
    BY <1>1, <1>3 DEF Units
  <2> QED BY <1>3, <2>1
<1> QED BY <1>1, <1>2, <1>3

(* Whose turn it is to be spawned, and the middleware right before its PLC. *)
LEMMA OrderOfSpawns ==
  /\ SpawnOrder \in Seq(Children)
  /\ \A m, n \in DOMAIN SpawnOrder : SpawnOrder[m] = SpawnOrder[n] => m = n
  /\ \A n \in DOMAIN SpawnOrder : SpawnOrder[n] \in PLCs =>
       n - 1 \in DOMAIN SpawnOrder /\ SpawnOrder[n - 1] = Mw(SpawnOrder[n])
<1> DEFINE pairs == [i \in 1..2*N |-> IF i % 2 = 1 THEN <<"middleware", (i + 1) \div 2>>
                                                   ELSE <<"plc", i \div 2>>]
           tail == <<Control, Watchdog>>
<1>1. N \in Nat /\ 2*N \in Nat
  BY LauncherAssumption DEF LauncherAssumption
<1>2. \A i \in 1..2*N : \E u \in Units :
        \/ i = 2*u - 1 /\ pairs[i] = <<"middleware", u>>
        \/ i = 2*u /\ pairs[i] = <<"plc", u>>
  <2> SUFFICES ASSUME NEW i \in 1..2*N
               PROVE  \E u \in Units : \/ i = 2*u - 1 /\ pairs[i] = <<"middleware", u>>
                                       \/ i = 2*u /\ pairs[i] = <<"plc", u>>
    OBVIOUS
  <2>1. pairs[i] = IF i % 2 = 1 THEN <<"middleware", (i + 1) \div 2>> ELSE <<"plc", i \div 2>>
    OBVIOUS
  <2> HIDE DEF pairs
  <2>2. CASE \E u \in Units : i = 2*u - 1 /\ i % 2 = 1 /\ (i + 1) \div 2 = u
    BY <2>1, <2>2
  <2>3. CASE \E u \in Units : i = 2*u /\ i % 2 = 0 /\ i \div 2 = u
    BY <2>1, <2>3
  <2> QED BY <2>2, <2>3, Halves
<1>3. \A i \in 1..2*N : pairs[i] \in Children
  <2> HIDE DEF pairs
  <2> QED BY <1>2 DEF Children, Middlewares, PLCs
<1>4. pairs \in Seq(Children) /\ Len(pairs) = 2*N
  <2>1. pairs \in [1..2*N -> Children]
    BY <1>3
  <2> QED BY <1>1, <2>1
<1>5. tail \in Seq(Children) /\ Len(tail) = 2 /\ tail[1] = Control /\ tail[2] = Watchdog
  BY DEF Children
<1>6. SpawnOrder = pairs \o tail
  BY DEF SpawnOrder
<1> HIDE DEF pairs, tail
<1>7. /\ SpawnOrder \in Seq(Children) /\ DOMAIN SpawnOrder = 1..(2*N + 2)
      /\ \A n \in 1..2*N : SpawnOrder[n] = pairs[n]
      /\ SpawnOrder[2*N + 1] = Control /\ SpawnOrder[2*N + 2] = Watchdog
  <2>0. /\ SpawnOrder \in Seq(Children) /\ Len(SpawnOrder) = Len(pairs) + Len(tail)
        /\ \A n \in 1..Len(pairs) + Len(tail) :
             SpawnOrder[n] = IF n <= Len(pairs) THEN pairs[n] ELSE tail[n - Len(pairs)]
    BY <1>4, <1>5, <1>6, ConcatProperties
  <2>1. SpawnOrder \in Seq(Children) /\ Len(SpawnOrder) = 2*N + 2
    BY <1>4, <1>5, <2>0
  <2>2. \A n \in 1..2*N : SpawnOrder[n] = pairs[n]
    BY <1>1, <1>4, <1>5, <2>0
  <2>3. SpawnOrder[2*N + 1] = tail[1] /\ SpawnOrder[2*N + 2] = tail[2]
    <3>1. 2*N + 1 \in 1..(2*N + 2) /\ 2*N + 2 \in 1..(2*N + 2)
      BY <1>1
    <3>2. (2*N + 1) - 2*N = 1 /\ (2*N + 2) - 2*N = 2 /\ ~(2*N + 1 <= 2*N) /\ ~(2*N + 2 <= 2*N)
      BY <1>1
    <3> QED BY <1>4, <1>5, <2>0, <3>1, <3>2
  <2> QED BY <1>1, <1>5, <2>1, <2>2, <2>3
<1>8. ASSUME NEW n \in 1..(2*N + 2)
      PROVE  \/ \E u \in Units : n = 2*u - 1 /\ SpawnOrder[n] = <<"middleware", u>>
             \/ \E u \in Units : n = 2*u /\ SpawnOrder[n] = <<"plc", u>>
             \/ n = 2*N + 1 /\ SpawnOrder[n] = Control
             \/ n = 2*N + 2 /\ SpawnOrder[n] = Watchdog
  <2>1. CASE n \in 1..2*N
    BY <1>2, <1>7, <2>1
  <2>2. n \in 1..2*N \/ n = 2*N + 1 \/ n = 2*N + 2
    BY <1>1
  <2> QED BY <1>7, <2>1, <2>2
<1>9. ASSUME NEW m \in 1..(2*N + 2), NEW n \in 1..(2*N + 2), SpawnOrder[m] = SpawnOrder[n]
      PROVE  m = n
  BY <1>8, <1>9 DEF Control, Watchdog
<1>10. ASSUME NEW n \in 1..(2*N + 2), SpawnOrder[n] \in PLCs
       PROVE  n - 1 \in 1..(2*N + 2) /\ SpawnOrder[n - 1] = Mw(SpawnOrder[n])
  <2>1. PICK u \in Units : n = 2*u /\ SpawnOrder[n] = <<"plc", u>>
    BY <1>8, <1>10 DEF PLCs, Control, Watchdog
  <2>2. n - 1 \in 1..2*N /\ n - 1 = 2*u - 1
    BY <1>1, <2>1 DEF Units
  <2>3. SpawnOrder[n - 1] = <<"middleware", u>>
    <3>1. PICK v \in Units : \/ n - 1 = 2*v - 1 /\ SpawnOrder[n - 1] = <<"middleware", v>>
                             \/ n - 1 = 2*v /\ SpawnOrder[n - 1] = <<"plc", v>>
      BY <1>2, <1>7, <2>2
    <3>2. u \in Nat /\ v \in Nat
      BY DEF Units
    <3> QED BY <2>2, <3>1, <3>2
  <2> QED BY <1>1, <2>1, <2>2, <2>3 DEF Mw
<1> QED BY <1>7, <1>9, <1>10

-----------------------------------------------------------------------------
(* The invariant.                                                          *)

(* What is still to be spawned is listed nowhere, and the middleware of a  *)
(* PLC is either right before it or in the list.                           *)
TodoInOrder ==
  /\ \A m, n \in DOMAIN todo : todo[m] = todo[n] => m = n
  /\ \A n \in DOMAIN todo : todo[n] \notin listed
  /\ \A n \in DOMAIN todo : todo[n] \in PLCs =>
       \/ Mw(todo[n]) \in listed
       \/ n - 1 \in DOMAIN todo /\ todo[n - 1] = Mw(todo[n])

Waiting == {"waitpanel", "failwait"}
WaitedIsBetween ==
  pc \in Waiting =>
    /\ waited \in PLCs /\ waited \notin listed /\ Mw(waited) \in listed
    /\ \A n \in DOMAIN todo : todo[n] # waited

Paired == \A c \in PLCs \cap listed : Mw(c) \in listed

(* Whoever is asked to stop is in the list, unless the main thread is      *)
(* where it spawns nothing any more: the PLC of a failed wait is not.      *)
Ending == {"failwait", "stopping", "exited"}
AskedIsListed == pc \notin Ending => asked \subseteq listed

Stopping(s) == stopper[s].pc \in {"graph", "plcs"}
ScopesPaired ==
  \A s \in Stoppers : Stopping(s) =>
    /\ stopper[s].scope \subseteq listed
    /\ \A c \in PLCs \cap stopper[s].scope : Mw(c) \in stopper[s].scope

(* A PLC in the list is asked to stop, and is in the scope of a stop that  *)
(* has come to the PLCs, only when its middleware has ended.               *)
PlcStopsLast == \A c \in PLCs \cap listed : c \in asked => ~Running(Mw(c))
ScopesLast ==
  \A s \in Stoppers : stopper[s].pc = "plcs" =>
    \A c \in PLCs \cap stopper[s].scope : ~Running(Mw(c))

CtrlCInTerminal == ctrlc # {} => Terminal

IInv ==
  /\ TypeOK /\ TodoInOrder /\ WaitedIsBetween /\ Paired /\ AskedIsListed /\ ScopesPaired
  /\ PlcStopsLast /\ ScopesLast /\ CtrlCInTerminal

-----------------------------------------------------------------------------
(* What a step leaves alone.                                               *)

LEMMA TodoKept == TodoInOrder /\ UNCHANGED <<todo, listed>> => TodoInOrder'
BY DEF TodoInOrder

LEMMA WaitKept ==
  /\ WaitedIsBetween /\ UNCHANGED <<todo, listed, waited, pc>> => WaitedIsBetween'
  /\ pc' \notin Waiting => WaitedIsBetween'
BY DEF WaitedIsBetween

LEMMA AskedKept ==
  ASSUME AskedIsListed, UNCHANGED listed, asked' \subseteq asked,
         pc \notin Ending \/ UNCHANGED pc \/ pc' \in Ending
  PROVE  AskedIsListed'
BY DEF AskedIsListed

LEMMA ScopesKept == ScopesPaired /\ UNCHANGED <<listed, stopper>> => ScopesPaired'
BY DEF ScopesPaired, Stopping

LEMMA LastKept ==
  ASSUME PlcStopsLast, Paired, UNCHANGED listed, asked' \subseteq asked,
         \A c \in Middlewares \cap listed : Running(c)' => Running(c)
  PROVE  PlcStopsLast'
BY Kinds DEF PlcStopsLast, Paired

LEMMA OverKept ==
  ASSUME ScopesLast, ScopesPaired,
         \A s \in Stoppers : stopper'[s].pc = "plcs" => stopper'[s] = stopper[s],
         \A c \in Middlewares \cap listed : Running(c)' => Running(c)
  PROVE  ScopesLast'
<1> SUFFICES ASSUME NEW s \in Stoppers, stopper'[s].pc = "plcs",
                    NEW c \in PLCs, c \in stopper'[s].scope
             PROVE  ~Running(Mw(c))'
  BY DEF ScopesLast
<1>1. stopper[s].pc = "plcs" /\ c \in stopper[s].scope
  OBVIOUS
<1>2. Mw(c) \in Middlewares \cap listed
  BY <1>1, Kinds DEF ScopesPaired, Stopping
<1> QED BY <1>1, <1>2 DEF ScopesLast

LEMMA CtrlCKept == CtrlCInTerminal /\ (ctrlc' \subseteq ctrlc \/ CtrlC) => CtrlCInTerminal'
BY DEF CtrlCInTerminal, CtrlC

(* A step that concerns neither the list nor the stops.                    *)
LEMMA Aside ==
  ASSUME IInv, TypeOK', UNCHANGED <<pc, todo, listed, waited, stopper>>, asked' \subseteq asked,
         ctrlc' \subseteq ctrlc,
         \A c \in Middlewares \cap listed : Running(c)' => Running(c)
  PROVE  IInv'
<1>1. Paired'
  BY DEF IInv, Paired
<1> QED BY <1>1, TodoKept, WaitKept, AskedKept, ScopesKept, LastKept, OverKept, CtrlCKept DEF IInv

LEMMA FaultCounts ==
  ASSUME TypeOK, Fault PROVE faults' \in 0..MaxFaults
<1>1. faults \in Nat /\ MaxFaults \in Nat
  BY LauncherAssumption DEF TypeOK, LauncherAssumption
<1>2. faults < MaxFaults /\ faults' = faults + 1
  BY DEF Fault
<1> QED BY <1>1, <1>2

LEMMA GoneKeeps ==
  ASSUME TypeOK, NEW c, Gone(c)
  PROVE  /\ proc' \in [Children -> {"none", "running", "ready", "ended"}]
         /\ asked' \subseteq asked /\ ctrlc' \subseteq ctrlc
         /\ \A d \in Children : Running(d)' => Running(d)
BY DEF TypeOK, Gone, Running

-----------------------------------------------------------------------------
LEMMA InitIInv == Init => IInv
<1> SUFFICES ASSUME Init PROVE IInv
  OBVIOUS
<1>1. TypeOK
  <2>1. Resting \in [pc : {"idle", "graph", "plcs", "done"}, scope : SUBSET Children]
    BY DEF Resting
  <2>2. Looking \in [child : Children \cup {None}, address : BOOLEAN]
    BY DEF Looking
  <2>3. address \subseteq Registered
    BY DEF Init
  <2>4. state \in [Children -> ChildStates]
    BY DEF Init, ChildStates
  <2>5. faults \in 0..MaxFaults
    BY LauncherAssumption DEF Init, LauncherAssumption
  <2> QED BY <2>1, <2>2, <2>3, <2>4, <2>5, OrderOfSpawns DEF Init, TypeOK
<1>2. TodoInOrder
  BY OrderOfSpawns DEF Init, TodoInOrder
<1>3. WaitedIsBetween /\ Paired /\ AskedIsListed /\ PlcStopsLast
  BY DEF Init, WaitedIsBetween, Waiting, Paired, AskedIsListed, PlcStopsLast
<1>4. ScopesPaired /\ ScopesLast /\ CtrlCInTerminal
  BY DEF Init, ScopesPaired, ScopesLast, CtrlCInTerminal, Stopping, Resting
<1> QED BY <1>1, <1>2, <1>3, <1>4 DEF IInv

-----------------------------------------------------------------------------
(* The processes and the watch.                                            *)

Procs == {"none", "running", "ready", "ended"}

LEMMA ProcessKeeps ==
  ASSUME IInv, NEW c \in Children, ComesUp(c) \/ Register(c) \/ Exit(c) \/ Die(c)
  PROVE  IInv'
<1> USE DEF IInv
<1>1. proc \in [Children -> Procs]
  BY DEF TypeOK, Procs
<1>2. CASE ComesUp(c)
  <2>1. proc' = [proc EXCEPT ![c] = "ready"] /\ proc[c] = "running"
    BY <1>2 DEF ComesUp
  <2>2. proc' \in [Children -> Procs] /\ \A d \in Children : Running(d)' => Running(d)
    BY <1>1, <2>1 DEF Procs, Running
  <2>3. TypeOK'
    BY <1>2, <2>2 DEF ComesUp, TypeOK, Procs, children
  <2> QED BY <1>2, <2>2, <2>3, Aside DEF ComesUp, children, Children
<1>3. CASE Register(c)
  <2>1. TypeOK'
    BY <1>3 DEF Register, TypeOK, children
  <2> QED BY <1>3, <2>1, Aside DEF Register, children, Running
<1>4. CASE Exit(c)
  <2>1. Gone(c)
    BY <1>4 DEF Exit
  <2>2. TypeOK'
    BY <1>4, <2>1, GoneKeeps DEF Exit, TypeOK, children
  <2> QED BY <1>4, <2>1, <2>2, GoneKeeps, Aside DEF Exit, children, Children
<1>5. CASE Die(c)
  <2>1. Gone(c) /\ faults' \in 0..MaxFaults
    BY <1>5, FaultCounts DEF Die
  <2>2. TypeOK'
    BY <1>5, <2>1, GoneKeeps DEF Die, TypeOK, children
  <2> QED BY <1>5, <2>1, <2>2, GoneKeeps, Aside DEF Die, children, Children
<1> QED BY <1>2, <1>3, <1>4, <1>5

LEMMA WatchKeeps ==
  ASSUME IInv, Watch PROVE IInv'
<1> USE DEF IInv
<1>1. /\ UNCHANGED <<pc, todo, waited, listed, stopping, system, stopper, faults>>
      /\ drained' \in BOOLEAN
  BY DEF Watch, DrainWatchdog, Promote, Look, TypeOK
<1>2. state' \in [Children -> ChildStates] /\ watch' \in [child : Children \cup {None}, address : BOOLEAN]
  <2>1. /\ state \in [Children -> ChildStates]
        /\ watch \in [child : Children \cup {None}, address : BOOLEAN]
    BY DEF TypeOK
  <2>2. CASE DrainWatchdog
    BY <2>1, <2>2 DEF DrainWatchdog, ChildStates
  <2>3. CASE Promote
    <3>1. PICK new \in IF watch.address THEN {"live"} ELSE {"slow", state[watch.child]} :
            state' = [state EXCEPT ![watch.child] = new]
      BY <2>3 DEF Promote
    <3>2. watch.child \in Children /\ watch' = Looking
      BY <2>1, <2>3 DEF Promote
    <3>3. new \in ChildStates
      BY <2>1, <3>1, <3>2 DEF ChildStates
    <3> QED BY <2>1, <3>1, <3>2, <3>3 DEF Looking
  <2>4. ASSUME NEW c \in Children, Look(c)
        PROVE  /\ state' \in [Children -> ChildStates]
               /\ watch' \in [child : Children \cup {None}, address : BOOLEAN]
    <3>1. CASE proc[c] = "ended"
      BY <2>1, <2>4, <3>1 DEF Look, ChildStates
    <3>2. CASE proc[c] # "ended"
      <4>1. HasAddress(c) \in BOOLEAN
        BY DEF HasAddress
      <4> QED BY <2>1, <2>4, <3>2, <4>1 DEF Look
    <3> QED BY <3>1, <3>2
  <2> QED BY <2>2, <2>3, <2>4 DEF Watch
<1>3. TypeOK'
  BY <1>1, <1>2 DEF TypeOK, system
<1> QED BY <1>1, <1>3, Aside DEF system, Running

-----------------------------------------------------------------------------
(* The main thread.                                                        *)

LEMMA MainGoesOn ==
  ASSUME IInv, Seed \/ RefuseSeed \/ Serve \/ Interrupt \/ InterruptAgain PROVE IInv'
<1> USE DEF IInv
<1>1. /\ UNCHANGED <<todo, children, proc, asked>>
      /\ pc' \notin Waiting /\ (pc \notin Ending \/ pc' \in Ending)
      /\ ctrlc' = ctrlc \/ CtrlC
  BY DEF Seed, RefuseSeed, Serve, Interrupt, InterruptAgain, Waiting, Ending, system
<1>2. stopper' = stopper \/ stopper' = [stopper EXCEPT !["main"] = Done]
  BY DEF Seed, RefuseSeed, Serve, Interrupt, InterruptAgain
<1>3. /\ \A s \in Stoppers : Stopping(s)' => stopper'[s] = stopper[s]
      /\ \A s \in Stoppers : stopper'[s].pc = "plcs" => stopper'[s] = stopper[s]
      /\ stopper' \in [Stoppers -> [pc : {"idle", "graph", "plcs", "done"}, scope : SUBSET Children]]
  BY <1>2 DEF TypeOK, Stopping, Done, Stoppers
<1>4. TypeOK'
  <2>1. ctrlc' \subseteq Children
    BY <1>1 DEF TypeOK, CtrlC
  <2> QED BY <1>3, <2>1
      DEF Seed, RefuseSeed, Serve, Interrupt, InterruptAgain, TypeOK, system, children
<1>5. Paired'
  BY <1>1 DEF Paired, children
<1>6. ScopesPaired'
  BY <1>1, <1>3 DEF ScopesPaired, Stopping, children
<1>7. ScopesLast'
  BY <1>1, <1>3, OverKept DEF children, Running
<1> QED BY <1>1, <1>4, <1>5, <1>6, <1>7, TodoKept, WaitKept, AskedKept, LastKept, CtrlCKept
    DEF children, Running

LEMMA UpcomingIs ==
  ASSUME IInv, NEW c \in Children, Upcoming(c)
  PROVE  /\ c \notin listed
         /\ c \in PLCs => Mw(c) \in listed
         /\ todo' \in Seq(Children)
         /\ \A n \in DOMAIN todo' : n + 1 \in DOMAIN todo /\ todo'[n] = todo[n + 1] /\ todo'[n] # c
<1>1. todo \in Seq(Children) /\ todo # <<>> /\ todo[1] = c /\ 1 \in DOMAIN todo /\ todo' = Tail(todo)
  BY DEF IInv, TypeOK, Upcoming
<1>2. todo' \in Seq(Children) /\ \A n \in DOMAIN todo' : n + 1 \in DOMAIN todo /\ todo'[n] = todo[n + 1]
  BY <1>1
<1>3. c \notin listed
  BY <1>1 DEF IInv, TodoInOrder
<1>4. c \in PLCs => Mw(c) \in listed
  <2>1. 0 \notin DOMAIN todo
    BY <1>1
  <2> QED BY <1>1, <2>1 DEF IInv, TodoInOrder
<1>5. \A n \in DOMAIN todo' : n \in Nat \ {0}
  BY <1>2
<1>6. \A n \in DOMAIN todo' : todo'[n] # c
  <2> SUFFICES ASSUME NEW n \in DOMAIN todo', todo'[n] = c PROVE FALSE
    OBVIOUS
  <2>1. n + 1 = 1
    BY <1>1, <1>2 DEF IInv, TodoInOrder
  <2> QED BY <1>5, <2>1
<1> QED BY <1>2, <1>3, <1>4, <1>6

LEMMA TailInOrder ==
  ASSUME IInv, NEW c \in Children, Upcoming(c), listed' = listed \/ listed' = listed \cup {c},
         c \in GraphSide => c \in listed'
  PROVE  TodoInOrder'
<1>1. \A n \in DOMAIN todo' : n + 1 \in DOMAIN todo /\ todo'[n] = todo[n + 1] /\ todo'[n] # c
  BY UpcomingIs
<1>2. todo \in Seq(Children) /\ todo' \in Seq(Children) /\ todo[1] = c /\ Len(todo') = Len(todo) - 1
  BY DEF IInv, TypeOK, Upcoming
<1>3. ASSUME NEW m \in DOMAIN todo', NEW n \in DOMAIN todo', todo'[m] = todo'[n] PROVE m = n
  <2>1. m + 1 = n + 1
    BY <1>1, <1>3 DEF IInv, TodoInOrder
  <2> QED BY <1>2, <2>1
<1>4. \A n \in DOMAIN todo' : todo'[n] \notin listed'
  BY <1>1 DEF IInv, TodoInOrder
<1>5. ASSUME NEW n \in DOMAIN todo', todo'[n] \in PLCs
      PROVE  \/ Mw(todo'[n]) \in listed'
             \/ n - 1 \in DOMAIN todo' /\ todo'[n - 1] = Mw(todo'[n])
  <2>1. \/ Mw(todo'[n]) \in listed
        \/ (n + 1) - 1 \in DOMAIN todo /\ todo[(n + 1) - 1] = Mw(todo'[n])
    BY <1>1, <1>5 DEF IInv, TodoInOrder
  <2>2. CASE Mw(todo'[n]) \in listed
    BY <2>2
  <2>3. CASE n = 1 /\ todo[1] = Mw(todo'[n])
    <3>1. c \in GraphSide
      BY <1>2, <1>5, <2>3, Kinds
    <3> QED BY <1>2, <2>3, <3>1
  <2>4. CASE n # 1 /\ todo[n] = Mw(todo'[n])
    <3>1. n - 1 \in DOMAIN todo' /\ (n - 1) + 1 = n
      BY <1>2, <2>4
    <3>2. todo'[n - 1] = todo[n]
      BY <1>1, <3>1
    <3> QED BY <2>4, <3>1, <3>2
  <2>5. (n + 1) - 1 = n
    BY <1>2
  <2> QED BY <2>1, <2>2, <2>3, <2>4, <2>5
<1> QED BY <1>3, <1>4, <1>5 DEF TodoInOrder

LEMMA SpawnKeeps ==
  ASSUME IInv, NEW c \in Children, Spawn(c) PROVE IInv'
<1> USE DEF IInv
<1>1. /\ Upcoming(c) /\ c \in GraphSide /\ c \notin PLCs /\ pc = "spawn"
      /\ proc' = [proc EXCEPT ![c] = "running"] /\ listed' = listed \cup {c}
      /\ UNCHANGED <<pc, waited, state, stopping, drained, asked, ctrlc, address, watch, stopper,
                     faults>>
  BY Kinds DEF Spawn
<1>2. /\ c \notin listed /\ todo' \in Seq(Children)
  BY <1>1, UpcomingIs
<1>3. TypeOK'
  BY <1>1, <1>2 DEF TypeOK
<1>4. TodoInOrder'
  BY <1>1, TailInOrder
<1>5. WaitedIsBetween'
  BY <1>1, WaitKept DEF Waiting
<1>6. Paired' /\ AskedIsListed'
  BY <1>1 DEF Paired, AskedIsListed, Ending
<1>7. ScopesPaired'
  BY <1>1 DEF ScopesPaired, Stopping
<1>8. PlcStopsLast'
  <2> SUFFICES ASSUME NEW d \in PLCs, d \in listed', d \in asked', Running(Mw(d))'
               PROVE  FALSE
    BY DEF PlcStopsLast
  <2>1. d \in listed /\ d \in asked /\ Mw(d) \in listed
    BY <1>1 DEF Paired
  <2>2. Mw(d) # c /\ Mw(d) \in Children
    BY <1>2, <2>1 DEF TypeOK
  <2>3. Running(Mw(d))
    BY <1>1, <2>2 DEF Running, TypeOK
  <2> QED BY <2>1, <2>3 DEF PlcStopsLast
<1>9. ScopesLast' /\ CtrlCInTerminal'
  <2>1. \A d \in Middlewares \cap listed : Running(d)' => Running(d)
    BY <1>1, <1>2 DEF Running, TypeOK
  <2> QED BY <1>1, <2>1, OverKept, CtrlCKept
<1> QED BY <1>3, <1>4, <1>5, <1>6, <1>7, <1>8, <1>9

LEMMA SpawnPlcKeeps ==
  ASSUME IInv, NEW c \in Children, SpawnPlc(c) PROVE IInv'
<1> USE DEF IInv
<1>1. /\ Upcoming(c) /\ c \in PLCs /\ pc = "spawn" /\ pc' = "waitpanel" /\ waited' = c
      /\ proc' = [proc EXCEPT ![c] = "running"]
      /\ UNCHANGED <<listed, state, stopping, drained, asked, ctrlc, address, watch, stopper, faults>>
  BY DEF SpawnPlc, children
<1>2. /\ c \notin listed /\ Mw(c) \in listed /\ todo' \in Seq(Children)
      /\ \A n \in DOMAIN todo' : todo'[n] # c
  BY <1>1, UpcomingIs
<1>3. TypeOK'
  BY <1>1, <1>2 DEF TypeOK
<1>4. TodoInOrder'
  BY <1>1, Kinds, TailInOrder
<1>5. WaitedIsBetween'
  BY <1>1, <1>2 DEF WaitedIsBetween
<1>6. Paired' /\ AskedIsListed'
  BY <1>1 DEF Paired, AskedIsListed, Ending
<1>7. \A d \in Middlewares \cap listed : Running(d)' => Running(d)
  BY <1>1, <1>2 DEF Running, TypeOK
<1> QED BY <1>1, <1>3, <1>4, <1>5, <1>6, <1>7, ScopesKept, LastKept, OverKept, CtrlCKept

(* The panel line has come, or the PLC has ended without: it is listed.    *)
LEMMA PanelKeeps ==
  ASSUME IInv, PanelSeen \/ PanelMissed PROVE IInv'
<1> USE DEF IInv
<1>1. /\ pc = "waitpanel" /\ pc' = "spawn" /\ listed' = listed \cup {waited} /\ waited' = None
      /\ UNCHANGED <<todo, stopping, drained, system, watch, stopper, faults>>
      /\ state' \in [Children -> ChildStates]
  <2>1. state \in [Children -> ChildStates]
    BY DEF TypeOK
  <2> QED BY <2>1 DEF PanelSeen, PanelMissed, ChildStates
<1>2. /\ waited \in PLCs /\ waited \notin listed /\ Mw(waited) \in listed
      /\ \A n \in DOMAIN todo : todo[n] # waited
  BY <1>1 DEF WaitedIsBetween, Waiting
<1>3. waited \notin asked
  BY <1>1, <1>2 DEF AskedIsListed, Ending
<1>4. TypeOK'
  BY <1>1, <1>2, Kinds DEF TypeOK, system
<1>5. TodoInOrder'
  BY <1>1, <1>2 DEF TodoInOrder
<1>6. WaitedIsBetween'
  BY <1>1, WaitKept DEF Waiting
<1>7. Paired'
  BY <1>1, <1>2 DEF Paired
<1>8. AskedIsListed'
  BY <1>1 DEF AskedIsListed, Ending, system
<1>9. ScopesPaired'
  BY <1>1 DEF ScopesPaired, Stopping
<1>10. PlcStopsLast'
  BY <1>1, <1>3 DEF PlcStopsLast, Running, system
<1>11. ScopesLast' /\ CtrlCInTerminal'
  BY <1>1 DEF ScopesLast, CtrlCInTerminal, Running, system
<1> QED BY <1>4, <1>5, <1>6, <1>7, <1>8, <1>9, <1>10, <1>11

LEMMA FailWaitKeeps ==
  ASSUME IInv, FailWait PROVE IInv'
<1> USE DEF IInv
<1>1. /\ pc = "waitpanel" /\ pc' = "failwait" /\ asked' = asked \cup {waited}
      /\ stopping' = stopping \cup {waited}
      /\ UNCHANGED <<todo, waited, listed, state, drained, proc, ctrlc, address, watch, stopper>>
  BY DEF FailWait
<1>2. faults' \in 0..MaxFaults
  BY FaultCounts DEF FailWait, TypeOK
<1>3. /\ waited \in PLCs /\ waited \notin listed /\ Mw(waited) \in listed
      /\ \A n \in DOMAIN todo : todo[n] # waited
  BY <1>1 DEF WaitedIsBetween, Waiting
<1>4. TypeOK'
  BY <1>1, <1>2, <1>3, Kinds DEF TypeOK
<1>5. WaitedIsBetween' /\ Paired'
  BY <1>1, <1>3 DEF WaitedIsBetween, Paired
<1>6. AskedIsListed'
  BY <1>1 DEF AskedIsListed, Ending
<1>7. PlcStopsLast'
  BY <1>1, <1>3 DEF PlcStopsLast, Running
<1>8. ScopesLast' /\ CtrlCInTerminal'
  BY <1>1 DEF ScopesLast, CtrlCInTerminal, Running
<1> QED BY <1>1, <1>4, <1>5, <1>6, <1>7, <1>8, TodoKept, ScopesKept

LEMMA RaiseKeeps ==
  ASSUME IInv, RaiseFailedWait PROVE IInv'
<1> USE DEF IInv
<1>1. /\ pc = "failwait" /\ pc' = "stopping" /\ Gone(waited) /\ waited' = None
      /\ state' = [state EXCEPT ![waited] = "failed"]
      /\ UNCHANGED <<todo, listed, stopping, drained, address, watch, stopper, faults>>
  BY DEF RaiseFailedWait
<1>2. /\ proc' \in [Children -> Procs] /\ ctrlc' \subseteq ctrlc
      /\ asked' = asked \ {waited}
      /\ \A d \in Children : Running(d)' => Running(d)
  BY <1>1, GoneKeeps DEF Procs, Gone
<1>3. state' \in [Children -> ChildStates]
  <2>1. state \in [Children -> ChildStates] /\ "failed" \in ChildStates
    BY DEF TypeOK, ChildStates
  <2> QED BY <1>1, <2>1
<1>4. TypeOK'
  BY <1>1, <1>2, <1>3 DEF TypeOK, Procs
<1>5. Paired'
  BY <1>1 DEF Paired
<1>6. AskedIsListed'
  BY <1>1 DEF AskedIsListed, Ending
<1>7. PlcStopsLast' /\ ScopesLast' /\ CtrlCInTerminal'
  BY <1>1, <1>2, LastKept, OverKept, CtrlCKept DEF Children
<1> QED BY <1>1, <1>4, <1>5, <1>6, <1>7, TodoKept, WaitKept, ScopesKept DEF Waiting

-----------------------------------------------------------------------------
(* The stops.                                                              *)

(* What a stop takes into its scope holds the middleware of each PLC.      *)
LEMMA ScopeIsPaired ==
  ASSUME IInv, NEW scope,
         scope = listed \/ \E u \in Units : scope = UnitChildren(u)
  PROVE  /\ scope \subseteq listed
         /\ \A c \in PLCs \cap scope : Mw(c) \in scope
BY Kinds DEF IInv, Paired, UnitChildren

LEMMA StopBeginsKeeps ==
  ASSUME IInv, NEW s \in Stoppers, NEW scope, StopBegins(s, scope),
         scope \subseteq listed, \A c \in PLCs \cap scope : Mw(c) \in scope
  PROVE  IInv'
<1> USE DEF IInv
<1>1. /\ stopping' = stopping \cup scope
      /\ asked' = asked \cup {c \in scope \cap GraphSide : Running(c)}
      /\ stopper' = [stopper EXCEPT ![s] = [pc |-> "graph", scope |-> scope]]
      /\ UNCHANGED <<pc, todo, waited, listed, state, drained, proc, ctrlc, address,
                     watch, faults>>
  BY DEF StopBegins
<1>2. TypeOK'
  <2>1. scope \in SUBSET Children
    BY DEF TypeOK
  <2>2. stopper' \in [Stoppers -> [pc : {"idle", "graph", "plcs", "done"}, scope : SUBSET Children]]
    BY <1>1, <2>1 DEF TypeOK
  <2>3. asked' \subseteq Children /\ stopping' \subseteq Children
    BY <1>1, <2>1 DEF TypeOK
  <2> QED BY <1>1, <2>2, <2>3 DEF TypeOK
<1>3. Paired'
  BY <1>1 DEF Paired
<1>4. AskedIsListed'
  BY <1>1 DEF AskedIsListed
<1>5. ScopesPaired'
  <2> SUFFICES ASSUME NEW t \in Stoppers, Stopping(t)'
               PROVE  /\ stopper'[t].scope \subseteq listed
                      /\ \A c \in PLCs \cap stopper'[t].scope : Mw(c) \in stopper'[t].scope
    BY <1>1 DEF ScopesPaired
  <2>1. CASE t = s
    <3>1. stopper'[t].scope = scope
      BY <1>1, <2>1 DEF TypeOK
    <3> QED BY <3>1
  <2>2. CASE t # s
    <3>1. stopper'[t] = stopper[t]
      BY <1>1, <2>2 DEF TypeOK
    <3> QED BY <3>1 DEF ScopesPaired, Stopping
  <2> QED BY <2>1, <2>2
<1>6. PlcStopsLast'
  <2>1. \A c \in PLCs : c \in asked' => c \in asked
    BY <1>1, Kinds
  <2> QED BY <1>1, <2>1 DEF PlcStopsLast, Running
<1>7. ScopesLast' /\ CtrlCInTerminal'
  <2>1. \A t \in Stoppers : stopper'[t].pc = "plcs" => stopper'[t] = stopper[t]
    BY <1>1 DEF TypeOK
  <2> QED BY <1>1, <2>1, OverKept, CtrlCKept DEF Running
<1> QED BY <1>1, <1>2, <1>3, <1>4, <1>5, <1>6, <1>7, TodoKept, WaitKept

(* The PLCs of a scope are asked when all its graph side has ended.        *)
LEMMA StopPlcsKeeps ==
  ASSUME IInv, NEW s \in Stoppers, StopPlcs(s) PROVE IInv'
<1> USE DEF IInv
<1>1. /\ stopper[s].pc = "graph" /\ Ended(stopper[s].scope \cap GraphSide)
      /\ asked' = asked \cup {c \in stopper[s].scope \cap PLCs : Running(c)}
      /\ stopper' = [stopper EXCEPT ![s].pc = "plcs"]
      /\ UNCHANGED <<pc, todo, waited, listed, state, stopping, drained, proc, ctrlc, address,
                     watch, faults>>
  BY DEF StopPlcs, children
<1>2. /\ stopper[s].scope \subseteq listed
      /\ \A c \in PLCs \cap stopper[s].scope : Mw(c) \in stopper[s].scope
  BY <1>1 DEF ScopesPaired, Stopping
<1>3. TypeOK'
  <2>1. stopper' \in [Stoppers -> [pc : {"idle", "graph", "plcs", "done"}, scope : SUBSET Children]]
    BY <1>1 DEF TypeOK
  <2>2. asked' \subseteq Children
    BY <1>1, Kinds DEF TypeOK
  <2> QED BY <1>1, <2>1, <2>2 DEF TypeOK
<1>4. Paired'
  BY <1>1 DEF Paired
<1>5. AskedIsListed'
  BY <1>1, <1>2 DEF AskedIsListed
<1>6. ScopesPaired'
  <2>1. \A t \in Stoppers : stopper'[t].scope = stopper[t].scope /\ (Stopping(t)' => Stopping(t))
    BY <1>1 DEF TypeOK, Stopping
  <2> QED BY <1>1, <2>1 DEF ScopesPaired
<1>7. PlcStopsLast'
  <2> SUFFICES ASSUME NEW c \in PLCs, c \in listed, c \in asked', Running(Mw(c))
               PROVE  FALSE
    BY <1>1 DEF PlcStopsLast, Running
  <2>1. c \notin asked
    BY DEF PlcStopsLast
  <2>2. Mw(c) \in stopper[s].scope \cap GraphSide
    BY <1>1, <1>2, <2>1, Kinds
  <2> QED BY <1>1, <2>2 DEF Ended
<1>8. ScopesLast'
  <2> SUFFICES ASSUME NEW t \in Stoppers, stopper'[t].pc = "plcs",
                      NEW c \in PLCs, c \in stopper'[t].scope, Running(Mw(c))
               PROVE  FALSE
    BY <1>1 DEF ScopesLast, Running
  <2>1. CASE t = s
    <3>1. c \in stopper[s].scope
      BY <1>1, <2>1 DEF TypeOK
    <3>2. Mw(c) \in stopper[s].scope \cap GraphSide
      BY <1>2, <3>1, Kinds
    <3> QED BY <1>1, <3>2 DEF Ended
  <2>2. CASE t # s
    <3>1. stopper[t].pc = "plcs" /\ c \in stopper[t].scope
      BY <1>1, <2>2 DEF TypeOK
    <3> QED BY <3>1 DEF ScopesLast
  <2> QED BY <2>1, <2>2
<1>9. CtrlCInTerminal'
  BY <1>1, CtrlCKept
<1> QED BY <1>1, <1>3, <1>4, <1>5, <1>6, <1>7, <1>8, <1>9, TodoKept, WaitKept

LEMMA MarkStoppedKeeps ==
  ASSUME IInv, NEW s \in Stoppers, MarkStopped(s) PROVE IInv'
<1> USE DEF IInv
<1>1. /\ state' = [c \in Children |-> IF c \in stopper[s].scope THEN "stopped" ELSE state[c]]
      /\ stopper' = [stopper EXCEPT ![s] = Done]
      /\ pc' = pc \/ pc' = "exited"
      /\ UNCHANGED <<todo, waited, listed, stopping, drained, system, watch, faults>>
  BY DEF MarkStopped
<1>2. state' \in [Children -> ChildStates]
  <2>1. state \in [Children -> ChildStates] /\ "stopped" \in ChildStates
    BY DEF TypeOK, ChildStates
  <2> QED BY <1>1, <2>1
<1>3. stopper' \in [Stoppers -> [pc : {"idle", "graph", "plcs", "done"}, scope : SUBSET Children]]
  BY <1>1 DEF TypeOK, Done
<1>4. TypeOK'
  BY <1>1, <1>2, <1>3 DEF TypeOK, system
<1>5. WaitedIsBetween' /\ Paired'
  BY <1>1, WaitKept DEF Waiting, Paired
<1>6. AskedIsListed'
  BY <1>1 DEF AskedIsListed, Ending, system
<1>7. ScopesPaired'
  <2>1. \A t \in Stoppers : Stopping(t)' => t # s /\ stopper'[t] = stopper[t]
    BY <1>1 DEF TypeOK, Stopping, Done
  <2> QED BY <1>1, <2>1 DEF ScopesPaired, Stopping
<1>8. PlcStopsLast'
  BY <1>1 DEF PlcStopsLast, Running, system
<1>9. ScopesLast' /\ CtrlCInTerminal'
  <2>1. \A t \in Stoppers : stopper'[t].pc = "plcs" => stopper'[t] = stopper[t]
    BY <1>1 DEF TypeOK, Done
  <2> QED BY <1>1, <2>1, OverKept DEF Running, system, CtrlCInTerminal
<1> QED BY <1>1, <1>4, <1>5, <1>6, <1>7, <1>8, <1>9, TodoKept

LEMMA KillKeeps ==
  ASSUME IInv, NEW s \in Stoppers, Kill(s) PROVE IInv'
<1> USE DEF IInv
<1>1. /\ Fault
      /\ \E c \in stopper[s].scope : Gone(c)
      /\ UNCHANGED <<pc, todo, waited, children, address, watch, stopper>>
  BY DEF Kill
<1>2. /\ proc' \in [Children -> {"none", "running", "ready", "ended"}]
      /\ asked' \subseteq asked /\ ctrlc' \subseteq ctrlc
      /\ \A d \in Children : Running(d)' => Running(d)
  BY <1>1, GoneKeeps
<1>3. faults' \in 0..MaxFaults
  BY <1>1, FaultCounts
<1>4. TypeOK'
  BY <1>1, <1>2, <1>3 DEF TypeOK, children
<1> QED BY <1>1, <1>2, <1>4, Aside DEF children, Children

-----------------------------------------------------------------------------
LEMMA StepIInv == IInv /\ [Next]_vars => IInv'
<1> SUFFICES ASSUME IInv, [Next]_vars PROVE IInv'
  OBVIOUS
<1>1. CASE Main
  BY <1>1, MainGoesOn, SpawnKeeps, SpawnPlcKeeps, PanelKeeps, FailWaitKeeps, RaiseKeeps DEF Main
<1>2. CASE Interrupt \/ InterruptAgain
  BY <1>2, MainGoesOn
<1>3. CASE Watch
  BY <1>3, WatchKeeps
<1>4. CASE Live
  <2>1. Control \in Children /\ Watchdog \in Children
    BY DEF Children
  <2> QED BY <1>4, <2>1, ProcessKeeps
      DEF Live, BringUpBroker, AnnouncePanel, StationComesUp, PrintReady
<1>5. CASE \E c \in Children : Exit(c) \/ Die(c)
  BY <1>5, ProcessKeeps
<1>6. ASSUME NEW s \in Stoppers, StopAll(s) PROVE IInv'
  <2>1. StopBegins(s, listed)
    BY <1>6 DEF StopAll
  <2> QED BY <2>1, ScopeIsPaired, StopBeginsKeeps
<1>7. ASSUME NEW s \in Stoppers, NEW u \in Units, StopUnit(s, u) PROVE IInv'
  <2>1. StopBegins(s, UnitChildren(u))
    BY <1>7 DEF StopUnit
  <2> QED BY <2>1, ScopeIsPaired, StopBeginsKeeps
<1>8. CASE \E s \in Stoppers : Stop(s) \/ Kill(s)
  BY <1>6, <1>8, StopPlcsKeeps, MarkStoppedKeeps, KillKeeps DEF Stop
<1>9. CASE \E s \in Requests : StopAll(s) \/ \E u \in Units : StopUnit(s, u)
  BY <1>6, <1>7, <1>9 DEF Stoppers
<1>10. CASE UNCHANGED vars
  <2>1. UNCHANGED <<pc, todo, listed, waited, stopper, asked, ctrlc, proc>>
    BY <1>10 DEF vars, children, system
  <2>2. TypeOK'
    BY <1>10 DEF IInv, TypeOK, vars, children, system
  <2> QED BY <2>1, <2>2, Aside DEF Running
<1> QED BY <1>1, <1>2, <1>3, <1>4, <1>5, <1>8, <1>9, <1>10 DEF Next

(* The invariant holds of every state of the launcher.                     *)
THEOREM Inductive == Spec => []IInv
BY InitIInv, StepIInv, PTL DEF Spec

(* The threads, the list, the processes and the stops keep their shape.    *)
THEOREM TypeCorrect == Spec => []TypeOK
<1>1. IInv => TypeOK
  BY DEF IInv
<1> QED BY <1>1, Inductive, PTL

-----------------------------------------------------------------------------
(* How a PLC ends.                                                         *)

LEMMA HandsLast ==
  ASSUME IInv, NEW c \in PLCs, c \in listed, Running(Mw(c)) PROVE ~InItsHands(c)
BY DEF IInv, PlcStopsLast, ScopesLast, InItsHands

(* A step that ends a PLC of the list which nobody stops is its own.       *)
LEMMA EndsByItself ==
  ASSUME IInv, Next, NEW c \in PLCs, c \in listed, Running(c), ~Running(c)', ~InItsHands(c)
  PROVE  Die(c) \/ (Terminal /\ c \in ctrlc)
<1> USE DEF IInv
<1>1. c \in Children /\ proc \in [Children -> Procs]
  BY Kinds DEF TypeOK, Procs
<1>2. proc' # proc
  BY DEF Running
<1>3. ASSUME NEW d \in Children, Gone(d) PROVE d = c
  BY <1>1, <1>3 DEF Gone, Running
<1>4. ASSUME NEW d \in Children, proc' = [proc EXCEPT ![d] = "running"] \/ proc' = [proc EXCEPT ![d] = "ready"]
      PROVE  FALSE
  BY <1>1, <1>4 DEF Running
<1>5. CASE Main
  <2>1. CASE RaiseFailedWait
    <3>1. waited \in PLCs /\ waited \notin listed /\ Gone(waited)
      BY <2>1 DEF RaiseFailedWait, WaitedIsBetween, Waiting
    <3> QED BY <1>3, <3>1, Kinds
  <2>2. CASE \E d \in Children : Spawn(d) \/ SpawnPlc(d)
    BY <1>4, <2>2 DEF Spawn, SpawnPlc
  <2>3. CASE Seed \/ RefuseSeed \/ PanelSeen \/ PanelMissed \/ FailWait \/ Serve
    BY <1>2, <2>3 DEF Seed, RefuseSeed, PanelSeen, PanelMissed, FailWait, Serve, system
  <2> QED BY <1>5, <2>1, <2>2, <2>3 DEF Main
<1>6. CASE Interrupt \/ InterruptAgain \/ Watch
  BY <1>2, <1>6 DEF Interrupt, InterruptAgain, Watch, DrainWatchdog, Promote, Look, system
<1>7. CASE Live
  <2>1. Control \in Children /\ Watchdog \in Children
    BY DEF Children
  <2>2. ASSUME NEW d \in Children, ComesUp(d) PROVE FALSE
    BY <1>4, <2>2 DEF ComesUp
  <2>3. ASSUME NEW d \in Children, Register(d) PROVE FALSE
    BY <1>2, <2>3 DEF Register
  <2> QED BY <1>7, <2>1, <2>2, <2>3
      DEF Live, BringUpBroker, AnnouncePanel, StationComesUp, PrintReady
<1>8. ASSUME NEW d \in Children, Exit(d) PROVE Terminal /\ c \in ctrlc
  <2>1. d = c
    BY <1>3, <1>8 DEF Exit
  <2>2. c \in ctrlc
    BY <1>8, <2>1 DEF Exit, InItsHands
  <2> QED BY <2>2 DEF CtrlCInTerminal
<1>9. ASSUME NEW d \in Children, Die(d) PROVE Die(c)
  <2>1. d = c
    BY <1>3, <1>9 DEF Die
  <2> QED BY <1>9, <2>1
<1>10. ASSUME NEW s \in Stoppers, Kill(s) PROVE FALSE
  <2>1. CASE stopper[s].pc = "graph"
    <3>1. \E d \in stopper[s].scope \cap GraphSide : Gone(d)
      BY <1>10, <2>1 DEF Kill
    <3> QED BY <1>3, <3>1, Kinds
  <2>2. CASE stopper[s].pc = "plcs"
    <3>1. \E d \in stopper[s].scope \cap PLCs : Gone(d)
      BY <1>10, <2>2 DEF Kill
    <3>2. c \in stopper[s].scope
      BY <1>3, <3>1, Kinds
    <3> QED BY <2>2, <3>2 DEF InItsHands
  <2> QED BY <1>10, <2>1, <2>2 DEF Kill
<1>11. ASSUME NEW s \in Stoppers, Stop(s) \/ StopAll(s) \/ \E u \in Units : StopUnit(s, u) PROVE FALSE
  BY <1>2, <1>11 DEF Stop, StopPlcs, MarkStopped, StopAll, StopUnit, StopBegins, system
<1> QED BY <1>5, <1>6, <1>7, <1>8, <1>9, <1>10, <1>11 DEF Next, Stoppers

(* Whoever stops the children, and with whatever of them has failed, been  *)
(* killed or been spawned in the meantime: a PLC of the list that ends     *)
(* while its middleware runs was neither told to stop nor killed; it has   *)
(* died by itself, or a terminal's Ctrl+C has reached it.                  *)
THEOREM MiddlewareFirst == Spec => PlcEndsLast
<1>1. ASSUME IInv, [Next]_vars
      PROVE  [\A c \in PLCs \cap listed :
                Running(c) /\ Running(Mw(c)) /\ ~Running(c)' =>
                  /\ ~InItsHands(c)
                  /\ Die(c) \/ (Terminal /\ c \in ctrlc)]_vars
  BY <1>1, HandsLast, EndsByItself
<1> QED BY <1>1, Inductive, PTL DEF Spec, PlcEndsLast

(* Started without a terminal, that order holds of a Ctrl+C as well.       *)
THEOREM InOrderWithoutTerminal ==
  ASSUME ~Terminal
  PROVE  Spec => [][\A c \in PLCs \cap listed :
                      Running(c) /\ Running(Mw(c)) /\ ~Running(c)' => Die(c)]_vars
<1>1. ASSUME IInv, [Next]_vars
      PROVE  [\A c \in PLCs \cap listed :
                Running(c) /\ Running(Mw(c)) /\ ~Running(c)' => Die(c)]_vars
  BY <1>1, HandsLast, EndsByItself
<1> QED BY <1>1, Inductive, PTL DEF Spec
=============================================================================
