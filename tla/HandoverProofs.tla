---------------------------- MODULE HandoverProofs ----------------------------
(***************************************************************************)
(* Proofs about possession, for any Resources, Workpieces and number of    *)
(* calls at once.                                                          *)
(***************************************************************************)
EXTENDS Handover, FiniteSetTheorems, TLAPS

USE HandoverAssumption DEF HandoverAssumption

-----------------------------------------------------------------------------
(* The inductive invariant.                                                *)

(* A Resource has no state, the one it was seeded with, or the minted one. *)
OneState == \A r \in Resources : states[r] \in {{}, {Minted(r)}, {Seeded(r)}}

(* A Workpiece points at the whole of what one Resource has, if it exists. *)
OneLink ==
  \A w \in Workpieces : Exists(w) => \E r \in Resources : states[r] = link[w]

(* What a call has read and found still holds when it needs it. *)
Pending(k) == k.pc \in {"find", "compare", "write"}

Good(k) ==
  k.pc # "idle" =>
    /\ k.workpiece \in Workpieces /\ k.to \in Resources
    /\ k.kind # "create" => Exists(k.workpiece)
    /\ k.pc \in {"check", "again", "recheck", "body"} => k.kind = "handover"
    /\ k.kind = "create" /\ Pending(k) => ~Exists(k.workpiece)
    /\ k.pc \in {"compare", "write", "recheck"} =>
         /\ k.creates => k.state = {Minted(k.to)} /\ states[k.to] \subseteq {Minted(k.to)}
         /\ ~k.creates => k.state = states[k.to] /\ k.state # {}
    /\ k.pc = "write" =>
         /\ k.kind = "create" => k.old = {}
         /\ k.kind # "create" => \E s \in States : k.old = {s}

OneCreator ==
  \A c, d \in Calls :
    c # d /\ call[c].kind = "create" /\ call[d].kind = "create"
      => call[c].workpiece # call[d].workpiece

WroteOnce ==
  \A c \in Calls :
    /\ call[c].pc \in {"idle", "check", "find", "compare", "write", "again", "recheck"}
         => wrote[c] = 0
    /\ call[c].pc \in {"body", "done"} => wrote[c] = 1
    /\ wrote[c] \in {0, 1}

IdleIsIdle == \A c \in Calls : call[c].pc = "idle" => call[c].kind = "switch"

IInv ==
  /\ TypeOK
  /\ OneState
  /\ OneLink
  /\ \A c \in Calls : Good(call[c])
  /\ OneCreator
  /\ WroteOnce
  /\ IdleIsIdle

LEMMA IdleIs == Idle \in CallState /\ Idle.pc = "idle" /\ Idle.kind = "switch"
<1>1. FALSE \in BOOLEAN
  OBVIOUS
<1> QED BY <1>1 DEF Idle, CallState, Pcs, Kinds

LEMMA StatesAre ==
  ASSUME NEW r \in Resources
  PROVE  /\ Minted(r) \in States /\ Seeded(r) \in States
         /\ Minted(r) # Seeded(r)
         /\ \A q \in Resources : Minted(r) # Seeded(q)
         /\ \A q \in Resources : q # r => Minted(r) # Minted(q) /\ Seeded(r) # Seeded(q)
BY DEF Minted, Seeded, States

LEMMA InitIInv == Init => IInv
<1> SUFFICES ASSUME Init PROVE IInv
  OBVIOUS
<1>1. TypeOK
  BY IdleIs DEF Init, TypeOK
<1>2. OneState
  BY DEF Init, OneState
<1>3. OneLink
  BY DEF Init, OneLink, Exists
<1>4. \A c \in Calls : call[c] = Idle /\ wrote[c] = 0
  BY DEF Init
<1> QED
  BY <1>1, <1>2, <1>3, <1>4, IdleIs DEF IInv, Good, OneCreator, WroteOnce, IdleIsIdle

-----------------------------------------------------------------------------
(* A step of a call that writes nothing.                                   *)

LEMMA CallOnlyKeeps ==
  ASSUME IInv, NEW c \in Calls, NEW k \in CallState, Good(k),
         call' = [call EXCEPT ![c] = k],
         UNCHANGED <<states, link, wrote>>, faults' \in Nat,
         call[c].pc # "idle", k.pc # "idle", k.kind = call[c].kind,
         k.workpiece = call[c].workpiece,
         k.pc # "raised" => wrote[c] = (IF k.pc \in {"body", "done"} THEN 1 ELSE 0)
  PROVE  IInv'
<1>1. TypeOK'
  BY DEF IInv, TypeOK
<1>2. \A d \in Calls : call'[d] = IF d = c THEN k ELSE call[d]
  BY DEF IInv, TypeOK
<1>3. OneState' /\ OneLink'
  BY DEF IInv, OneState, OneLink, Exists
<1>4. \A d \in Calls : Good(call[d])'
  BY <1>2 DEF IInv, Good, Exists, Pending
<1>5. OneCreator' /\ IdleIsIdle'
  BY <1>2 DEF IInv, OneCreator, IdleIsIdle
<1>6. WroteOnce'
  BY <1>2 DEF IInv, WroteOnce
<1> QED BY <1>1, <1>3, <1>4, <1>5, <1>6 DEF IInv
LEMMA CallIs ==
  ASSUME IInv, NEW c \in Calls
  PROVE  /\ call[c] \in CallState /\ Good(call[c]) /\ faults \in Nat
         /\ call[c].pc \in {"check", "find", "compare", "write", "again", "recheck"}
              => wrote[c] = 0
         /\ call[c].pc = "body" => wrote[c] = 1
BY DEF IInv, TypeOK, WroteOnce

(* A change of the program counter alone. *)
LEMMA PcIs ==
  ASSUME NEW k \in CallState, NEW p \in Pcs
  PROVE  LET j == [k EXCEPT !.pc = p] IN
           /\ j \in CallState /\ j.pc = p /\ j.kind = k.kind
           /\ j.workpiece = k.workpiece /\ j.to = k.to /\ j.creates = k.creates
           /\ j.state = k.state /\ j.old = k.old
BY DEF CallState

Same(j, k) ==
  /\ j.pc = k.pc /\ j.kind = k.kind /\ j.workpiece = k.workpiece /\ j.to = k.to
  /\ j.state = k.state

LEMMA CreatesIs ==
  ASSUME NEW k \in CallState, NEW b \in BOOLEAN
  PROVE  LET j == [k EXCEPT !.creates = b] IN
           j \in CallState /\ j.creates = b /\ Same(j, k)
<1> DEFINE j == [k EXCEPT !.creates = b]
<1>1. j \in CallState
  BY ZenonT(60) DEF CallState
<1>2. j.creates = b
  BY Zenon DEF CallState
<1>3. Same(j, k)
  BY DEF CallState, Same
<1> QED BY <1>1, <1>2, <1>3

LEMMA FirstIs ==
  ASSUME NEW k \in CallState, NEW b \in BOOLEAN
  PROVE  LET j == [k EXCEPT !.first = b] IN
           j \in CallState /\ j.creates = k.creates /\ Same(j, k)
<1> DEFINE j == [k EXCEPT !.first = b]
<1>1. j \in CallState
  BY ZenonT(60) DEF CallState
<1>2. j.creates = k.creates
  BY Zenon DEF CallState
<1>3. Same(j, k)
  BY DEF CallState, Same
<1> QED BY <1>1, <1>2, <1>3

LEMMA TriesIs ==
  ASSUME NEW k \in CallState, NEW n \in 0..2
  PROVE  LET j == [k EXCEPT !.tries = n] IN
           j \in CallState /\ j.creates = k.creates /\ Same(j, k)
<1> DEFINE j == [k EXCEPT !.tries = n]
<1>1. j \in CallState /\ Same(j, k)
  BY DEF CallState, Same
<1>2. j.creates = k.creates
  BY DEF CallState
<1> QED BY <1>1, <1>2

LEMMA RaiseKeeps ==
  ASSUME IInv, NEW c \in Calls, call[c].pc # "idle", Raise(c),
         UNCHANGED <<states, link, wrote, faults>>
  PROVE  IInv'
<1> DEFINE k == [call[c] EXCEPT !.pc = "raised"]
<1>1. call[c] \in CallState /\ Good(call[c]) /\ faults' \in Nat
  BY CallIs
<1>2. /\ k \in CallState /\ k.pc = "raised" /\ k.kind = call[c].kind
      /\ k.workpiece = call[c].workpiece /\ k.to = call[c].to
  BY <1>1, PcIs DEF Pcs
<1>3. call' = [call EXCEPT ![c] = k]
  BY DEF Raise, IInv, TypeOK
<1> HIDE DEF k
<1>4. Good(k)
  BY <1>1, <1>2 DEF Good, Pending
<1> QED BY <1>1, <1>2, <1>3, <1>4, CallOnlyKeeps

LEMMA CheckKeeps == ASSUME NEW c \in Calls PROVE IInv /\ Check(c) => IInv'
<1> SUFFICES ASSUME IInv, Check(c) PROVE IInv'
  OBVIOUS
<1>1. CASE Preconditions(c)
  <2> DEFINE k == [call[c] EXCEPT !.pc = "find"]
  <2>1. /\ call[c] \in CallState /\ Good(call[c]) /\ faults' \in Nat /\ wrote[c] = 0
        /\ call[c].pc = "check"
    BY CallIs DEF Check
  <2>3. /\ k \in CallState /\ k.pc = "find" /\ k.kind = call[c].kind
        /\ k.workpiece = call[c].workpiece /\ k.to = call[c].to
    BY <2>1, PcIs DEF Pcs
  <2>4. call' = [call EXCEPT ![c] = k]
    BY <1>1 DEF Check, IInv, TypeOK
  <2>5. UNCHANGED <<states, link, wrote>>
    BY DEF Check
  <2> HIDE DEF k
  <2>6. Good(k)
    BY <2>1, <2>3 DEF Good, Pending
  <2> QED BY <2>1, <2>3, <2>4, <2>5, <2>6, CallOnlyKeeps
<1>2. CASE ~Preconditions(c)
  BY <1>2, RaiseKeeps DEF Check
<1> QED BY <1>1, <1>2

LEMMA FindKeeps == ASSUME NEW c \in Calls PROVE IInv /\ Find(c) => IInv'
<1> SUFFICES ASSUME IInv, Find(c) PROVE IInv'
  OBVIOUS
<1> DEFINE r == call[c].to
<1>1. CASE Cardinality(states[r]) > 1
  BY <1>1, RaiseKeeps DEF Find
<1>2. CASE ~(Cardinality(states[r]) > 1)
  <2> DEFINE e == (states[r] = {})
             k == [call[c] EXCEPT !.pc = "compare", !.state = FoundState(r),
                                  !.creates = e, !.first = e, !.tries = 1]
  <2>1. /\ call[c] \in CallState /\ Good(call[c]) /\ faults' \in Nat /\ wrote[c] = 0
        /\ call[c].pc = "find"
    BY CallIs DEF Find
  <2>2. r \in Resources
    BY <2>1 DEF Good
  <2>3. FoundState(r) \in SUBSET States
        /\ (e => FoundState(r) = {Minted(r)}) /\ (~e => FoundState(r) = states[r])
    BY <2>2, StatesAre DEF FoundState, IInv, TypeOK
  <2>4. e \in BOOLEAN
    OBVIOUS
  <2>5. call' = [call EXCEPT ![c] = k]
    BY <1>2 DEF Find, IInv, TypeOK
  <2>6. UNCHANGED <<states, link, wrote>>
    BY DEF Find
  <2>7. (e => states[r] = {}) /\ (~e => states[r] # {})
    OBVIOUS
  <2> HIDE DEF e
  <2>8. /\ k \in CallState /\ k.pc = "compare" /\ k.kind = call[c].kind
        /\ k.workpiece = call[c].workpiece /\ k.to = r /\ k.state = FoundState(r)
        /\ k.creates = e
    <3> DEFINE k1 == [call[c] EXCEPT !.pc = "compare", !.state = FoundState(r)]
               k2 == [k1 EXCEPT !.creates = e]
               k3 == [k2 EXCEPT !.first = e]
    <3>1. /\ k1 \in CallState /\ k1.pc = "compare" /\ k1.kind = call[c].kind
          /\ k1.workpiece = call[c].workpiece /\ k1.to = r /\ k1.state = FoundState(r)
      BY <2>1, <2>3 DEF CallState, Pcs
    <3>2. k = [k3 EXCEPT !.tries = 1]
      OBVIOUS
    <3> HIDE DEF k1
    <3>3. k2 \in CallState /\ k2.creates = e /\ Same(k2, k1)
      BY <2>4, <3>1, CreatesIs
    <3> HIDE DEF k2
    <3>4. k3 \in CallState /\ k3.creates = e /\ Same(k3, k2)
      BY <2>4, <3>3, FirstIs
    <3> HIDE DEF k3, k
    <3>5. 1 \in 0..2
      OBVIOUS
    <3>6. k \in CallState /\ k.creates = e /\ Same(k, k3)
      BY <3>2, <3>4, <3>5, TriesIs, Zenon
    <3> QED BY <3>1, <3>3, <3>4, <3>6 DEF Same
  <2> HIDE DEF k
  <2>9. Good(k)
    BY <2>1, <2>3, <2>7, <2>8 DEF Good, Pending
  <2> QED BY <2>1, <2>5, <2>6, <2>8, <2>9, CallOnlyKeeps
<1> QED BY <1>1, <1>2

LEMMA CompareKeeps == ASSUME NEW c \in Calls PROVE IInv /\ Compare(c) => IInv'
<1> SUFFICES ASSUME IInv, Compare(c) PROVE IInv'
  OBVIOUS
<1> DEFINE w == call[c].workpiece
           a == (states[call[c].to] = {})
           k == [call[c] EXCEPT !.pc = "write", !.old = link[w], !.absent = a]
<1>1. /\ call[c] \in CallState /\ Good(call[c]) /\ faults' \in Nat /\ wrote[c] = 0
      /\ call[c].pc = "compare"
  BY CallIs DEF Compare
<1>2. link[w] \in SUBSET States /\ w \in Workpieces
  BY <1>1 DEF Good, IInv, TypeOK
<1>3. a \in BOOLEAN
  OBVIOUS
<1>4. call' = [call EXCEPT ![c] = k] /\ UNCHANGED <<states, link, wrote>>
  BY DEF Compare, IInv, TypeOK
<1> HIDE DEF a
<1>5. /\ k \in CallState /\ k.pc = "write" /\ k.kind = call[c].kind
      /\ k.workpiece = w /\ k.to = call[c].to /\ k.state = call[c].state
      /\ k.creates = call[c].creates /\ k.old = link[w]
  BY <1>1, <1>2, <1>3 DEF CallState, Pcs
<1>6. Exists(w) => \E s \in States : link[w] = {s}
  BY <1>2, StatesAre DEF IInv, OneLink, OneState, Exists
<1> HIDE DEF k
<1>7. Good(k)
  BY <1>1, <1>5, <1>6 DEF Good, Pending, Exists
<1> QED BY <1>1, <1>4, <1>5, <1>7, CallOnlyKeeps

LEMMA RefuseKeeps == ASSUME NEW c \in Calls PROVE IInv /\ Refuse(c) => IInv'
<1> SUFFICES ASSUME IInv, Refuse(c) PROVE IInv'
  OBVIOUS
<1>1. CASE call[c].kind = "handover" /\ call[c].creates /\ call[c].tries = 1
  <2> DEFINE k == [call[c] EXCEPT !.pc = "again"]
  <2>1. /\ call[c] \in CallState /\ Good(call[c]) /\ faults' \in Nat /\ wrote[c] = 0
        /\ call[c].pc = "write"
    BY CallIs DEF Refuse
  <2>2. /\ k \in CallState /\ k.pc = "again" /\ k.kind = call[c].kind
        /\ k.workpiece = call[c].workpiece /\ k.to = call[c].to
    BY <2>1, PcIs DEF Pcs
  <2>3. call' = [call EXCEPT ![c] = k] /\ UNCHANGED <<states, link, wrote>>
    BY <1>1 DEF Refuse, IInv, TypeOK
  <2> HIDE DEF k
  <2>4. Good(k)
    BY <1>1, <2>1, <2>2 DEF Good, Pending
  <2> QED BY <2>1, <2>2, <2>3, <2>4, CallOnlyKeeps
<1>2. CASE ~(call[c].kind = "handover" /\ call[c].creates /\ call[c].tries = 1)
  BY <1>2, RaiseKeeps DEF Refuse
<1> QED BY <1>1, <1>2

LEMMA FindAgainKeeps == ASSUME NEW c \in Calls PROVE IInv /\ FindAgain(c) => IInv'
<1> SUFFICES ASSUME IInv, FindAgain(c) PROVE IInv'
  OBVIOUS
<1> DEFINE r == call[c].to
<1>1. CASE Cardinality(states[r]) = 1
  <2> DEFINE k == [call[c] EXCEPT !.pc = "recheck", !.state = FoundState(r),
                                  !.creates = FALSE, !.tries = 2]
  <2>1. /\ call[c] \in CallState /\ Good(call[c]) /\ faults' \in Nat /\ wrote[c] = 0
        /\ call[c].pc = "again"
    BY CallIs DEF FindAgain
  <2>2. r \in Resources
    BY <2>1 DEF Good
  <2>3. states[r] # {}
    BY <1>1, FS_EmptySet
  <2>4. FoundState(r) = states[r] /\ states[r] \in SUBSET States
    BY <2>2, <2>3 DEF FoundState, IInv, TypeOK
  <2>5. FALSE \in BOOLEAN
    OBVIOUS
  <2>6. call' = [call EXCEPT ![c] = k] /\ UNCHANGED <<states, link, wrote>>
    BY <1>1 DEF FindAgain, IInv, TypeOK
  <2>7. /\ k \in CallState /\ k.pc = "recheck" /\ k.kind = call[c].kind
        /\ k.workpiece = call[c].workpiece /\ k.to = r /\ k.state = states[r]
        /\ k.creates = FALSE
    <3> DEFINE k1 == [call[c] EXCEPT !.pc = "recheck", !.state = FoundState(r)]
               k2 == [k1 EXCEPT !.creates = FALSE]
    <3>1. /\ k1 \in CallState /\ k1.pc = "recheck" /\ k1.kind = call[c].kind
          /\ k1.workpiece = call[c].workpiece /\ k1.to = r /\ k1.state = states[r]
      BY <2>1, <2>4 DEF CallState, Pcs
    <3>2. k = [k2 EXCEPT !.tries = 2]
      OBVIOUS
    <3> HIDE DEF k1
    <3>3. k2 \in CallState /\ k2.creates = FALSE /\ Same(k2, k1)
      BY <2>5, <3>1, CreatesIs
    <3> HIDE DEF k2, k
    <3>4. 2 \in 0..2
      OBVIOUS
    <3>5. k \in CallState /\ k.creates = FALSE /\ Same(k, k2)
      BY <3>2, <3>3, <3>4, TriesIs, Zenon
    <3> QED BY <3>1, <3>3, <3>5 DEF Same
  <2> HIDE DEF k
  <2>8. Good(k)
    BY <2>1, <2>3, <2>7 DEF Good, Pending
  <2> QED BY <2>1, <2>6, <2>7, <2>8, CallOnlyKeeps
<1>2. CASE ~(Cardinality(states[r]) = 1)
  BY <1>2, RaiseKeeps DEF FindAgain
<1> QED BY <1>1, <1>2

LEMMA RecheckKeeps == ASSUME NEW c \in Calls PROVE IInv /\ Recheck(c) => IInv'
<1> SUFFICES ASSUME IInv, Recheck(c) PROVE IInv'
  OBVIOUS
<1>1. CASE RecheckHolds(c)
  <2> DEFINE k == [call[c] EXCEPT !.pc = "compare"]
  <2>1. /\ call[c] \in CallState /\ Good(call[c]) /\ faults' \in Nat /\ wrote[c] = 0
        /\ call[c].pc = "recheck"
    BY CallIs DEF Recheck
  <2>2. /\ k \in CallState /\ k.pc = "compare" /\ k.kind = call[c].kind
        /\ k.workpiece = call[c].workpiece /\ k.to = call[c].to
        /\ k.creates = call[c].creates /\ k.state = call[c].state
    BY <2>1, PcIs DEF Pcs
  <2>3. call' = [call EXCEPT ![c] = k] /\ UNCHANGED <<states, link, wrote>>
    BY <1>1 DEF Recheck, IInv, TypeOK
  <2> HIDE DEF k
  <2>4. Good(k)
    BY <2>1, <2>2 DEF Good, Pending
  <2> QED BY <2>1, <2>2, <2>3, <2>4, CallOnlyKeeps
<1>2. CASE ~RecheckHolds(c)
  BY <1>2, RaiseKeeps DEF Recheck
<1> QED BY <1>1, <1>2

LEMMA EndBodyKeeps == ASSUME NEW c \in Calls PROVE IInv /\ EndBody(c) => IInv'
<1> SUFFICES ASSUME IInv, EndBody(c) PROVE IInv'
  OBVIOUS
<1>1. PICK outcome \in {"done", "raised"} : call' = [call EXCEPT ![c].pc = outcome]
  BY DEF EndBody
<1> DEFINE k == [call[c] EXCEPT !.pc = outcome]
<1>2. /\ call[c] \in CallState /\ Good(call[c]) /\ faults' \in Nat /\ wrote[c] = 1
      /\ call[c].pc = "body"
  BY CallIs DEF EndBody
<1>a. outcome \in Pcs
  BY DEF Pcs
<1>3. /\ k \in CallState /\ k.pc = outcome /\ k.kind = call[c].kind
      /\ k.workpiece = call[c].workpiece /\ k.to = call[c].to
  BY <1>2, <1>a, PcIs
<1>4. call' = [call EXCEPT ![c] = k] /\ UNCHANGED <<states, link, wrote>>
  BY <1>1 DEF EndBody, IInv, TypeOK
<1> HIDE DEF k
<1>5. Good(k)
  BY <1>2, <1>3 DEF Good, Pending
<1> QED BY <1>2, <1>3, <1>4, <1>5, CallOnlyKeeps
-----------------------------------------------------------------------------
(* The start of a call.                                                    *)

LEMMA StartKeeps == ASSUME NEW c \in Calls PROVE IInv /\ Start(c) => IInv'
<1> SUFFICES ASSUME IInv, Start(c) PROVE IInv'
  OBVIOUS
<1>1. PICK kind \in Kinds, w \in Workpieces, giver, to \in Resources :
        /\ IF kind = "create" THEN ~Exists(w) /\ ~Claimed(w) ELSE Exists(w)
        /\ call' = [call EXCEPT ![c] =
             [Idle EXCEPT !.pc = IF kind = "handover" THEN "check" ELSE "find",
                          !.kind = kind, !.workpiece = w, !.to = to,
                          !.giver = IF kind = "handover" THEN giver ELSE None]]
  BY DEF Start
<1> DEFINE k == [Idle EXCEPT !.pc = IF kind = "handover" THEN "check" ELSE "find",
                             !.kind = kind, !.workpiece = w, !.to = to,
                             !.giver = IF kind = "handover" THEN giver ELSE None]
<1>2. /\ k \in CallState /\ k.pc = (IF kind = "handover" THEN "check" ELSE "find")
      /\ k.kind = kind /\ k.workpiece = w /\ k.to = to
  <2>1. Idle \in CallState
    BY IdleIs
  <2> QED BY <2>1 DEF CallState, Pcs
<1>3. call' = [call EXCEPT ![c] = k]
  BY <1>1
<1>4. call[c].pc = "idle" /\ UNCHANGED <<states, link, wrote, faults>>
  BY DEF Start
<1> HIDE DEF k
<1>5. \A d \in Calls : call'[d] = IF d = c THEN k ELSE call[d]
  BY <1>3 DEF IInv, TypeOK
<1>6. TypeOK'
  BY <1>2, <1>3, <1>4 DEF IInv, TypeOK
<1>7. Good(k)
  BY <1>1, <1>2 DEF Good, Pending
<1>8. \A d \in Calls : Good(call[d])'
  BY <1>4, <1>5, <1>7 DEF IInv, Good, Exists, Pending
<1>9. OneState' /\ OneLink'
  BY <1>4 DEF IInv, OneState, OneLink, Exists
<1>10. OneCreator'
  BY <1>1, <1>2, <1>5 DEF IInv, OneCreator, Claimed
<1>11. WroteOnce' /\ IdleIsIdle'
  BY <1>2, <1>4, <1>5 DEF IInv, WroteOnce, IdleIsIdle
<1> QED BY <1>6, <1>8, <1>9, <1>10, <1>11 DEF IInv
-----------------------------------------------------------------------------
(* The commit.                                                             *)

LEMMA ApplyKeeps ==
  ASSUME IInv, NEW c \in Calls, call[c].pc = "write", Current(c), Creatable(c), Apply(c),
         NEW p \in {"body", "done", "raised"}, p = "body" => call[c].kind = "handover",
         call' = [call EXCEPT ![c].pc = p], faults' \in Nat
  PROVE  IInv'
<1> DEFINE w == call[c].workpiece
           t == call[c].to
           k == [call[c] EXCEPT !.pc = p]
<1>1. /\ call[c] \in CallState /\ Good(call[c]) /\ wrote[c] = 0
      /\ w \in Workpieces /\ t \in Resources
      /\ link \in [Workpieces -> SUBSET States] /\ states \in [Resources -> SUBSET States]
      /\ wrote \in [Calls -> Nat]
      /\ call \in [Calls -> CallState]
  BY CallIs DEF Good, IInv, TypeOK
<1>2. \A d \in Calls : /\ call'[d] = IF d = c THEN k ELSE call[d]
                       /\ wrote'[d] = IF d = c THEN 1 ELSE wrote[d]
  BY <1>1 DEF Apply
<1>3. /\ k \in CallState /\ k.pc = p /\ k.kind = call[c].kind
      /\ k.workpiece = w /\ k.to = t
  <2>1. p \in Pcs
    BY DEF Pcs
  <2> QED BY <1>1, <2>1, PcIs
<1> HIDE DEF k
<1>4. PICK s \in States : call[c].state = {s} /\ (call[c].creates => s = Minted(t))
                          /\ (~call[c].creates => states[t] = {s})
  BY <1>1, StatesAre DEF Good, IInv, OneState
<1>5. \A r \in Resources :
        states'[r] = IF r = t /\ call[c].creates THEN states[r] \cup {s} ELSE states[r]
  BY <1>1, <1>4 DEF Apply
<1>6. states'[t] = {s}
  BY <1>1, <1>4, <1>5 DEF Good
<1>7. /\ \A r \in Resources : states[r] # {} => states'[r] = states[r]
      /\ \A r \in Resources : states[r] = {} => states'[r] \subseteq {Minted(r)}
  <2>1. /\ states[t] # {} => states[t] = {s}
        /\ states[t] = {} => s = Minted(t)
    <3>1. CASE call[c].creates
      BY <1>1, <1>4, <3>1 DEF Good
    <3>2. CASE ~call[c].creates
      BY <1>4, <3>2
    <3> QED BY <3>1, <3>2
  <2>2. \A r \in Resources : r # t => states'[r] = states[r]
    BY <1>5
  <2> QED BY <1>1, <1>6, <2>1, <2>2
<1>8. /\ link'[w] = {s} \/ (link'[w] = link[w] /\ Exists(w))
      /\ \A v \in Workpieces : v # w => link'[v] = link[v]
  <2>1. link' = [link EXCEPT ![w] = (@ \ Removed(c)) \cup Added(c)]
    BY DEF Apply
  <2>2. link'[w] = (link[w] \ (call[c].old \ {s})) \cup ({s} \ call[c].old)
    BY <1>1, <1>4, <2>1 DEF Removed, Added
  <2>a. \A v \in Workpieces : v # w => link'[v] = link[v]
    BY <1>1, <2>1
  <2>3. CASE call[c].kind = "create"
    <3>1. call[c].old = {} /\ link[w] = {}
      BY <1>1, <2>3 DEF Good, Pending, Exists
    <3>2. link'[w] = {s}
      BY <2>2, <3>1
    <3> QED BY <2>a, <3>2
  <2>4. CASE call[c].kind # "create"
    <3>1. PICK o \in States : call[c].old = {o}
      BY <1>1, <2>4 DEF Good
    <3>2. Exists(w)
      BY <1>1, <2>4 DEF Good
    <3>3. PICK r \in Resources : link[w] = states[r]
      BY <1>1, <3>2 DEF IInv, OneLink
    <3>4. PICK u \in States : link[w] = {u}
      BY <3>2, <3>3, StatesAre DEF IInv, OneState, Exists
    <3>5. CASE o = s
      <4>1. link'[w] = link[w]
        BY <2>2, <3>1, <3>5
      <4> QED BY <2>a, <3>2, <4>1
    <3>6. CASE o # s
      <4>1. o = u
        BY <1>4, <3>1, <3>4, <3>6 DEF Current, Removed
      <4>2. link'[w] = {s}
        BY <2>2, <3>1, <3>4, <3>6, <4>1
      <4> QED BY <2>a, <4>2
    <3> QED BY <3>5, <3>6
  <2> QED BY <2>3, <2>4
<1>9. /\ \A v \in Workpieces : Exists(v) => Exists(v)'
      /\ \A v \in Workpieces : v # w => (Exists(v)' <=> Exists(v))
  BY <1>8 DEF Exists
<1>10. OneState'
  BY <1>7 DEF IInv, OneState
<1>11. OneLink'
  <2>1. ASSUME NEW v \in Workpieces, Exists(v)'
        PROVE  \E r \in Resources : states'[r] = link'[v]
    <3>1. CASE link'[v] = link[v]
      <4>1. PICK r \in Resources : states[r] = link[v] /\ states[r] # {}
        BY <2>1, <3>1 DEF IInv, OneLink, Exists
      <4> QED BY <1>7, <3>1, <4>1
    <3>2. CASE v = w /\ link'[w] = {s}
      BY <1>1, <1>6, <3>2
    <3> QED BY <1>8, <3>1, <3>2
  <2> QED BY <2>1 DEF OneLink, Exists
<1>12. ASSUME NEW d \in Calls PROVE Good(call[d])'
  <2>1. CASE d = c
    <3>1. call'[d] = k
      BY <1>2, <2>1
    <3>2. Exists(w)'
      BY <1>8 DEF Exists
    <3> QED BY <1>1, <1>3, <3>1, <3>2 DEF Good, Pending, Exists
  <2>2. CASE d # c
    <3>1. call'[d] = call[d] /\ Good(call[d])
      BY <1>2, <2>2 DEF IInv
    <3>2. call[d].kind = "create" /\ Pending(call[d]) => call[d].workpiece # w
      BY <1>1, <2>2, <3>1 DEF IInv, OneCreator, Good, Pending
    <3>3. call[d].pc # "idle" => call[d].workpiece \in Workpieces /\ call[d].to \in Resources
      BY <3>1 DEF Good
    <3>4. (Pending(call[d]))' <=> Pending(call[d])
      BY <3>1 DEF Pending
    <3> QED
      BY <1>7, <1>9, <3>1, <3>2, <3>3, <3>4 DEF Good, Exists
  <2> QED BY <2>1, <2>2
<1>13. OneCreator' /\ IdleIsIdle'
  BY <1>2, <1>3 DEF IInv, OneCreator, IdleIsIdle
<1>14. WroteOnce'
  BY <1>2, <1>3 DEF IInv, WroteOnce
<1>15. TypeOK'
  <2>1. link' \in [Workpieces -> SUBSET States]
    BY <1>1, <1>8 DEF Apply
  <2>2. states' \in [Resources -> SUBSET States]
    BY <1>1, <1>4 DEF Apply
  <2>3. wrote' \in [Calls -> Nat]
    BY <1>1 DEF Apply
  <2>4. call' \in [Calls -> CallState]
    BY <1>1, <1>2, <1>3
  <2> QED BY <2>1, <2>2, <2>3, <2>4 DEF TypeOK
<1> QED BY <1>10, <1>11, <1>12, <1>13, <1>14, <1>15 DEF IInv

LEMMA WriteKeeps == ASSUME NEW c \in Calls PROVE IInv /\ Write(c) => IInv'
<1> SUFFICES ASSUME IInv, Write(c) PROVE IInv'
  OBVIOUS
<1> DEFINE p == IF call[c].kind = "handover" THEN "body" ELSE "done"
<1>1. /\ p \in {"body", "done", "raised"} /\ (p = "body" => call[c].kind = "handover")
      /\ call' = [call EXCEPT ![c].pc = p] /\ faults' \in Nat
  BY CallIs DEF Write
<1> HIDE DEF p
<1> QED BY <1>1, ApplyKeeps DEF Write

LEMMA LoseAnswerKeeps == ASSUME NEW c \in Calls PROVE IInv /\ LoseAnswer(c) => IInv'
<1> SUFFICES ASSUME IInv, LoseAnswer(c) PROVE IInv'
  OBVIOUS
<1>1. call' = [call EXCEPT ![c].pc = "raised"] /\ faults' \in Nat
  BY CallIs DEF LoseAnswer, AfterLostAnswer, Raise
<1> QED BY <1>1, ApplyKeeps DEF LoseAnswer

-----------------------------------------------------------------------------
(* The theorems.                                                           *)

LEMMA StepIInv == IInv /\ [Next]_vars => IInv'
<1> SUFFICES ASSUME IInv, [Next]_vars PROVE IInv'
  OBVIOUS
<1>1. CASE UNCHANGED vars
  BY <1>1 DEF vars, IInv, TypeOK, OneState, OneLink, Good, Exists, Pending, OneCreator,
       WroteOnce, IdleIsIdle
<1>2. ASSUME NEW c \in Calls, Start(c) \/ Step(c) PROVE IInv'
  <2>1. CASE RefuseByShape(c)
    BY <2>1, RaiseKeeps DEF RefuseByShape
  <2> QED
    BY <1>2, <2>1, StartKeeps, CheckKeeps, FindKeeps, CompareKeeps, WriteKeeps, RefuseKeeps,
       LoseAnswerKeeps, FindAgainKeeps, RecheckKeeps, EndBodyKeeps DEF Step
<1> QED BY <1>1, <1>2 DEF Next

LEMMA Invariance == Spec => []IInv
BY InitIInv, StepIInv, PTL DEF Spec

(* Every variable of the possession keeps its type, whatever calls of      *)
(* handover(), switch_possession() and create() overlap.                   *)
THEOREM TypeCorrect == Spec => []TypeOK
BY Invariance, PTL DEF IInv

(* The mechanism's rule, one possession state per Resource and one         *)
(* possessor per Workpiece, survives every race of handover(),             *)
(* switch_possession() and create().                                       *)
LEMMA OneOfEach == IInv => OnePossessor
<1> SUFFICES ASSUME IInv PROVE OnePossessor
  OBVIOUS
<1>1. ASSUME NEW r \in Resources PROVE Cardinality(states[r]) <= 1
  <2>1. \A s : Cardinality({s}) = 1
    BY FS_Singleton
  <2>2. CASE states[r] = {}
    BY <2>2, FS_EmptySet
  <2>3. CASE states[r] # {}
    <3>1. Cardinality(states[r]) = 1
      BY <2>1, <2>3 DEF IInv, OneState
    <3> QED BY <3>1
  <2> QED BY <2>2, <2>3
<1>2. ASSUME NEW w \in Workpieces, Exists(w)
      PROVE  /\ Cardinality(link[w]) = 1
             /\ Cardinality({r \in Resources : Possesses(r, w)}) = 1
  <2>1. PICK r \in Resources : states[r] = link[w] /\ states[r] # {}
    BY <1>2 DEF IInv, OneLink, Exists
  <2>2. PICK s : states[r] = {s}
    BY <2>1 DEF IInv, OneState
  <2>3. ASSUME NEW q \in Resources, Possesses(q, w) PROVE q = r
    BY <2>1, <2>3, StatesAre DEF IInv, OneState, Possesses
  <2>4. {q \in Resources : Possesses(q, w)} = {r}
    BY <2>1, <2>2, <2>3 DEF Possesses
  <2> QED BY <2>1, <2>2, <2>4, FS_Singleton
<1> QED BY <1>1, <1>2 DEF OnePossessor

(* However handovers, switches and creations of possession.py overlap, no  *)
(* Resource gets a second possession state and no Workpiece a second       *)
(* possessor.                                                              *)
THEOREM PossessorIsOne == Spec => []OnePossessor
BY Invariance, OneOfEach, PTL

(* A call writes its change at most once, also when handover() makes its   *)
(* commit again or the answer is lost, and no body runs without it.        *)
THEOREM NeverTwice == Spec => []ChangedOnce
<1>1. IInv => ChangedOnce
  BY DEF IInv, WroteOnce, ChangedOnce
<1> QED BY <1>1, Invariance, PTL

-----------------------------------------------------------------------------
(* Two first handovers of one Workpiece.  Rivals says where each of two     *)
(* calls can be that nobody else interferes with, before and after one of  *)
(* them has written.                                                       *)

(* A call knows its Workpiece and its Resources from its start, and has    *)
(* set out to create the state from its first read of it.                  *)
Given ==
  \A c \in Calls :
    /\ call[c].pc = "idle" => call[c].to = None /\ call[c].workpiece = None
    /\ call[c].pc \in {"idle", "check", "find"} => ~call[c].first
    /\ call[c].pc # "idle" /\ call[c].kind = "handover" =>
         call[c].giver \in Resources /\ call[c].giver # call[c].to

(* Who has written has left its counterpart with a state.                  *)
LeavesState == \A c \in Calls : wrote[c] = 1 => states[call[c].to] # {}

(* The two calls that hand w to t, when they do, and nobody else did.      *)
Only(w, t, c, d) ==
  /\ \A e \in {c, d} : \/ call[e].pc = "idle"
                       \/ call[e].kind = "handover" /\ call[e].workpiece = w /\ call[e].to = t
  /\ \A e \in Calls \ {c, d} : wrote[e] = 1 => call[e].to # t /\ call[e].workpiece # w

(* Before either has written, what the call has read is how things are.    *)
Fresh(w, t, k) ==
  /\ k.pc \in {"find", "compare", "write"} => states[k.giver] \cap link[w] # {}
  /\ k.first =>
       /\ states[t] = {} /\ k.pc \in {"compare", "write", "raised"}
       /\ k.pc \in {"compare", "write"} => k.creates
       /\ k.pc = "write" => k.old = link[w]

(* After the other one has written, the call gets no further than to its   *)
(* second check.                                                           *)
Stuck(w, t, k) ==
  /\ link[w] = {Minted(t)} /\ states[t] = {Minted(t)}
  /\ k.pc \in {"compare", "write", "again", "recheck", "raised"}
  /\ k.pc \in {"compare", "write"} => k.creates
  /\ k.pc = "write" => ~k.absent \/ ~(k.old \ k.state \subseteq link[w])

Rivals ==
  \A w \in Workpieces, t \in Resources, c, d \in Calls :
    c # d /\ Only(w, t, c, d) =>
      /\ wrote[c] = 0 /\ wrote[d] = 0 => Fresh(w, t, call[c])
      /\ wrote[c] = 1 /\ call[c].first /\ call[d].first =>
           wrote[d] = 0 /\ Stuck(w, t, call[d])

(* What a step changes of a call.                                          *)
Keeps(j, k) ==
  j.kind = k.kind /\ j.workpiece = k.workpiece /\ j.to = k.to /\ j.giver = k.giver
KeepsFirst(j, k) == Keeps(j, k) /\ j.first = k.first
KeepsRead(j, k) ==
  KeepsFirst(j, k) /\ j.creates = k.creates /\ j.absent = k.absent /\ j.old = k.old
  /\ j.state = k.state

LEMMA PcKeeps ==
  ASSUME NEW k \in CallState, NEW p \in Pcs
  PROVE  LET j == [k EXCEPT !.pc = p] IN j.pc = p /\ KeepsRead(j, k)
<1> DEFINE j == [k EXCEPT !.pc = p]
<1>1. j.pc = p /\ Keeps(j, k) /\ j.old = k.old /\ j.state = k.state
  BY DEF CallState, Keeps
<1>2. j.first = k.first
  BY Zenon DEF CallState
<1>3. j.creates = k.creates
  BY Zenon DEF CallState
<1>4. j.absent = k.absent
  BY Zenon DEF CallState
<1> QED BY <1>1, <1>2, <1>3, <1>4 DEF KeepsRead, KeepsFirst

Found(k, s, b) ==
  [k EXCEPT !.pc = "compare", !.state = s, !.creates = b, !.first = b, !.tries = 1]
FoundAgain(k, s) ==
  [k EXCEPT !.pc = "recheck", !.state = s, !.creates = FALSE, !.tries = 2]
Compared(k, o, b) == [k EXCEPT !.pc = "write", !.old = o, !.absent = b]

LEMMA FoundKeeps ==
  ASSUME NEW k \in CallState, NEW s, NEW b \in BOOLEAN
  PROVE  /\ Found(k, s, b).pc = "compare" /\ Keeps(Found(k, s, b), k)
         /\ Found(k, s, b).creates = b /\ Found(k, s, b).first = b
<1> DEFINE j == Found(k, s, b)
<1>1. j.pc = "compare" /\ Keeps(j, k)
  BY Zenon DEF CallState, Keeps, Found
<1>2. j.creates = b
  BY Zenon DEF CallState, Found
<1>3. j.first = b
  BY Zenon DEF CallState, Found
<1> QED BY <1>1, <1>2, <1>3

LEMMA FoundAgainKeeps ==
  ASSUME NEW k \in CallState, NEW s
  PROVE  FoundAgain(k, s).pc = "recheck" /\ KeepsFirst(FoundAgain(k, s), k)
<1> DEFINE j == FoundAgain(k, s)
<1>1. j.pc = "recheck" /\ Keeps(j, k)
  BY Zenon DEF CallState, Keeps, FoundAgain
<1>2. j.first = k.first
  BY Zenon DEF CallState, FoundAgain
<1> QED BY <1>1, <1>2 DEF KeepsFirst

LEMMA ComparedKeeps ==
  ASSUME NEW k \in CallState, NEW o, NEW b \in BOOLEAN
  PROVE  LET j == Compared(k, o, b)
         IN  /\ j.pc = "write" /\ KeepsFirst(j, k) /\ j.old = o /\ j.absent = b
             /\ j.creates = k.creates /\ j.state = k.state
<1> DEFINE j == Compared(k, o, b)
<1>1. j.pc = "write" /\ Keeps(j, k) /\ j.old = o /\ j.state = k.state
  BY Zenon DEF CallState, Keeps, Compared
<1>2. j.first = k.first
  BY Zenon DEF CallState, Compared
<1>3. j.creates = k.creates
  BY Zenon DEF CallState, Compared
<1>4. j.absent = b
  BY Zenon DEF CallState, Compared
<1> QED BY <1>1, <1>2, <1>3, <1>4 DEF KeepsFirst

Others(c) == \A d \in Calls : d # c => call'[d] = call[d] /\ wrote'[d] = wrote[d]
Reads(c)  == Others(c) /\ UNCHANGED <<states, link, wrote>>

LEMMA Becomes ==
  ASSUME IInv, NEW c \in Calls, NEW k, call' = [call EXCEPT ![c] = k]
  PROVE  call'[c] = k /\ \A d \in Calls : d # c => call'[d] = call[d]
BY DEF IInv, TypeOK

LEMMA PcBecomes ==
  ASSUME IInv, NEW c \in Calls, NEW p \in Pcs, call' = [call EXCEPT ![c].pc = p]
  PROVE  /\ call'[c].pc = p /\ KeepsRead(call'[c], call[c])
         /\ \A d \in Calls : d # c => call'[d] = call[d]
<1> DEFINE k == [call[c] EXCEPT !.pc = p]
<1>1. call[c] \in CallState /\ call' = [call EXCEPT ![c] = k]
  BY DEF IInv, TypeOK
<1>2. k.pc = p /\ KeepsRead(k, call[c])
  BY <1>1, PcKeeps
<1> HIDE DEF k
<1> QED BY <1>1, <1>2, Becomes

LEMMA StartDoes ==
  ASSUME IInv, NEW c \in Calls, Start(c)
  PROVE  /\ Reads(c) /\ call[c].pc = "idle" /\ ~call'[c].first
         /\ call'[c].pc = IF call'[c].kind = "handover" THEN "check" ELSE "find"
         /\ call'[c].kind = "handover" =>
              call'[c].giver \in Resources /\ call'[c].giver # call'[c].to
<1>1. PICK kind \in Kinds, w \in Workpieces, giver, to \in Resources :
        /\ giver # to
        /\ call' = [call EXCEPT ![c] =
             [Idle EXCEPT !.pc = IF kind = "handover" THEN "check" ELSE "find",
                          !.kind = kind, !.workpiece = w, !.to = to,
                          !.giver = IF kind = "handover" THEN giver ELSE None]]
  BY DEF Start
<1> DEFINE k == [Idle EXCEPT !.pc = IF kind = "handover" THEN "check" ELSE "find",
                             !.kind = kind, !.workpiece = w, !.to = to,
                             !.giver = IF kind = "handover" THEN giver ELSE None]
<1>2. /\ k.pc = (IF kind = "handover" THEN "check" ELSE "find")
      /\ k.kind = kind /\ k.to = to /\ (kind = "handover" => k.giver = giver)
  BY DEF Idle
<1>3. ~k.first
  BY DEF Idle
<1>4. giver \in Resources
  BY <1>1
<1> HIDE DEF k
<1>5. call'[c] = k /\ \A d \in Calls : d # c => call'[d] = call[d]
  BY <1>1, Becomes DEF k
<1> QED BY <1>1, <1>2, <1>3, <1>4, <1>5 DEF Start, Reads, Others

(* What comes after a read, or after a refusal.                            *)
LEMMA RaiseDoes ==
  ASSUME IInv, NEW c \in Calls, Raise(c), UNCHANGED <<states, link, wrote>>
  PROVE  Reads(c) /\ call'[c].pc = "raised" /\ KeepsRead(call'[c], call[c])
<1>1. "raised" \in Pcs
  BY DEF Pcs
<1> QED BY <1>1, PcBecomes DEF Raise, Reads, Others

LEMMA CheckDoes ==
  ASSUME IInv, NEW c \in Calls, Check(c) \/ Recheck(c)
  PROVE  /\ Reads(c) /\ KeepsRead(call'[c], call[c])
         /\ \/ call'[c].pc = "raised"
            \/ Preconditions(c) /\ call[c].pc = "check" /\ call'[c].pc = "find"
            \/ Preconditions(c) /\ call[c].pc = "recheck" /\ call'[c].pc = "compare"
<1>1. UNCHANGED <<states, link, wrote>>
  BY DEF Check, Recheck
<1>2. CASE Raise(c)
  BY <1>1, <1>2, RaiseDoes
<1>3. CASE /\ Preconditions(c) /\ call[c].pc = "check"
           /\ call' = [call EXCEPT ![c].pc = "find"]
  <2>1. "find" \in Pcs
    BY DEF Pcs
  <2> QED BY <1>1, <1>3, <2>1, PcBecomes DEF Reads, Others
<1>4. CASE /\ Preconditions(c) /\ call[c].pc = "recheck"
           /\ call' = [call EXCEPT ![c].pc = "compare"]
  <2>1. "compare" \in Pcs
    BY DEF Pcs
  <2> QED BY <1>1, <1>4, <2>1, PcBecomes DEF Reads, Others
<1> QED BY <1>2, <1>3, <1>4 DEF Check, Recheck, RecheckHolds

LEMMA FindDoes ==
  ASSUME IInv, NEW c \in Calls, Find(c)
  PROVE  /\ Reads(c) /\ Keeps(call'[c], call[c]) /\ call[c].pc = "find"
         /\ \/ call'[c].pc = "raised" /\ call'[c].first = call[c].first
            \/ /\ call'[c].pc = "compare"
               /\ call'[c].first => states[call[c].to] = {} /\ call'[c].creates
<1> DEFINE r == call[c].to
           e == (states[r] = {})
           k == Found(call[c], FoundState(r), e)
<1>1. UNCHANGED <<states, link, wrote>> /\ call[c].pc = "find" /\ call[c] \in CallState
  BY DEF Find, IInv, TypeOK
<1>2. CASE Raise(c)
  BY <1>1, <1>2, RaiseDoes DEF KeepsRead, KeepsFirst
<1>3. CASE call' = [call EXCEPT ![c] = k]
  <2>1. e \in BOOLEAN /\ (e => states[r] = {})
    OBVIOUS
  <2> HIDE DEF e
  <2>2. k.pc = "compare" /\ Keeps(k, call[c]) /\ k.creates = e /\ k.first = e
    BY <1>1, <2>1, FoundKeeps
  <2> HIDE DEF k
  <2>3. call'[c] = k /\ \A d \in Calls : d # c => call'[d] = call[d]
    BY <1>3, Becomes
  <2> QED BY <1>1, <2>1, <2>2, <2>3 DEF Reads, Others
<1>4. Raise(c) \/ call' = [call EXCEPT ![c] = k]
  BY DEF Find, Found, IInv, TypeOK
<1> QED BY <1>2, <1>3, <1>4

LEMMA CompareDoes ==
  ASSUME IInv, NEW c \in Calls, Compare(c)
  PROVE  /\ Reads(c) /\ KeepsFirst(call'[c], call[c])
         /\ call[c].pc = "compare" /\ call'[c].pc = "write"
         /\ call'[c].old = link[call[c].workpiece]
         /\ call'[c].absent => states[call[c].to] = {}
         /\ call'[c].creates = call[c].creates
<1> DEFINE o == link[call[c].workpiece]
           b == (states[call[c].to] = {})
           k == Compared(call[c], o, b)
<1>1. /\ UNCHANGED <<states, link, wrote>> /\ call[c].pc = "compare" /\ call[c] \in CallState
      /\ call' = [call EXCEPT ![c] = k]
  BY DEF Compare, Compared, IInv, TypeOK
<1>2. b \in BOOLEAN /\ (b => states[call[c].to] = {})
  OBVIOUS
<1> HIDE DEF b
<1>3. k.pc = "write" /\ KeepsFirst(k, call[c]) /\ k.old = o /\ k.absent = b /\ k.creates = call[c].creates
  BY <1>1, <1>2, ComparedKeeps
<1> HIDE DEF k
<1>4. call'[c] = k /\ \A d \in Calls : d # c => call'[d] = call[d]
  BY <1>1, Becomes
<1> QED BY <1>1, <1>2, <1>3, <1>4 DEF Reads, Others

LEMMA RefuseDoes ==
  ASSUME IInv, NEW c \in Calls, Refuse(c) \/ RefuseByShape(c)
  PROVE  /\ Reads(c) /\ KeepsRead(call'[c], call[c]) /\ call[c].pc = "write"
         /\ \/ call'[c].pc = "raised"
            \/ Refusable(c) /\ call'[c].pc = "again"
<1>1. UNCHANGED <<states, link, wrote>> /\ call[c].pc = "write"
  BY DEF Refuse, RefuseByShape
<1>2. CASE Raise(c)
  BY <1>1, <1>2, RaiseDoes
<1>3. CASE Refusable(c) /\ call' = [call EXCEPT ![c].pc = "again"]
  <2>1. "again" \in Pcs
    BY DEF Pcs
  <2> QED BY <1>1, <1>3, <2>1, PcBecomes DEF Reads, Others
<1> QED BY <1>2, <1>3 DEF Refuse, RefuseByShape

LEMMA FindAgainDoes ==
  ASSUME IInv, NEW c \in Calls, FindAgain(c)
  PROVE  /\ Reads(c) /\ KeepsFirst(call'[c], call[c]) /\ call[c].pc = "again"
         /\ call'[c].pc \in {"recheck", "raised"}
<1> DEFINE s == FoundState(call[c].to)
           k == FoundAgain(call[c], s)
<1>1. UNCHANGED <<states, link, wrote>> /\ call[c].pc = "again" /\ call[c] \in CallState
  BY DEF FindAgain, IInv, TypeOK
<1>2. CASE Raise(c)
  BY <1>1, <1>2, RaiseDoes DEF KeepsRead
<1>3. CASE call' = [call EXCEPT ![c] = k]
  <2>2. k.pc = "recheck" /\ KeepsFirst(k, call[c])
    BY <1>1, FoundAgainKeeps
  <2> HIDE DEF k
  <2>3. call'[c] = k /\ \A d \in Calls : d # c => call'[d] = call[d]
    BY <1>3, Becomes
  <2> QED BY <1>1, <2>2, <2>3 DEF Reads, Others
<1>4. Raise(c) \/ call' = [call EXCEPT ![c] = k]
  BY DEF FindAgain, FoundAgain, IInv, TypeOK
<1> QED BY <1>2, <1>3, <1>4

LEMMA EndBodyDoes ==
  ASSUME IInv, NEW c \in Calls, EndBody(c)
  PROVE  /\ Reads(c) /\ KeepsRead(call'[c], call[c]) /\ call[c].pc = "body"
         /\ call'[c].pc \in {"done", "raised"}
<1>1. PICK p \in {"done", "raised"} : call' = [call EXCEPT ![c].pc = p]
  BY DEF EndBody
<1>2. p \in Pcs
  BY DEF Pcs
<1> QED BY <1>1, <1>2, PcBecomes DEF EndBody, Reads, Others

LEMMA WriteDoes ==
  ASSUME IInv, NEW c \in Calls, Write(c) \/ LoseAnswer(c)
  PROVE  /\ Others(c) /\ KeepsRead(call'[c], call[c]) /\ call[c].pc = "write"
         /\ Current(c) /\ Creatable(c) /\ Apply(c) /\ wrote[c] = 0 /\ wrote'[c] = 1
         /\ call'[c].pc \in {"body", "done", "raised"}
<1>1. call[c].pc = "write" /\ Current(c) /\ Creatable(c) /\ Apply(c)
  BY DEF Write, LoseAnswer
<1>2. wrote[c] = 0 /\ wrote \in [Calls -> Nat]
  BY <1>1 DEF IInv, TypeOK, WroteOnce
<1>3. wrote'[c] = 1 /\ \A d \in Calls : d # c => wrote'[d] = wrote[d]
  BY <1>1, <1>2 DEF Apply
<1>4. PICK p \in {"body", "done", "raised"} : call' = [call EXCEPT ![c].pc = p]
  BY DEF Write, LoseAnswer, AfterLostAnswer, Raise
<1>5. p \in Pcs
  BY DEF Pcs
<1> QED BY <1>1, <1>2, <1>3, <1>4, <1>5, PcBecomes DEF Others

(* What another call's step does to what a call relies on.                 *)
LEMMA StoreMoves ==
  ASSUME IInv, NEW c \in Calls, Start(c) \/ Step(c)
  PROVE  /\ \A r \in Resources : states[r] \subseteq states'[r]
         /\ \A r \in Resources, w \in Workpieces :
              \/ states'[r] = states[r] /\ link'[w] = link[w]
              \/ wrote'[c] = 1 /\ call'[c].to = call[c].to
                   /\ call'[c].workpiece = call[c].workpiece
                   /\ (states'[r] = states[r] \/ r = call[c].to)
                   /\ (link'[w] = link[w] \/ w = call[c].workpiece)
<1>1. CASE Write(c) \/ LoseAnswer(c)
  <2>1. Apply(c) /\ wrote'[c] = 1 /\ Keeps(call'[c], call[c])
    BY <1>1, WriteDoes DEF KeepsRead, KeepsFirst
  <2>2. /\ states \in [Resources -> SUBSET States] /\ link \in [Workpieces -> SUBSET States]
    BY DEF IInv, TypeOK
  <2>3. \A r \in Resources : states[r] \subseteq states'[r] /\ (states'[r] = states[r] \/ r = call[c].to)
    BY <2>1, <2>2 DEF Apply
  <2>4. \A w \in Workpieces : link'[w] = link[w] \/ w = call[c].workpiece
    BY <2>1, <2>2 DEF Apply
  <2> QED BY <2>1, <2>3, <2>4 DEF Keeps
<1>2. CASE ~(Write(c) \/ LoseAnswer(c))
  <2>1. UNCHANGED <<states, link>>
    BY <1>2 DEF Step, Start, Check, Find, Compare, Refuse, RefuseByShape, FindAgain, Recheck,
                EndBody
  <2> QED BY <2>1
<1> QED BY <1>1, <1>2

(* What every step of a call keeps of it.                                  *)
LEMMA StepKeeps ==
  ASSUME IInv, NEW c \in Calls, Step(c)
  PROVE  /\ Others(c) /\ Keeps(call'[c], call[c])
         /\ call[c].pc # "idle" /\ call'[c].pc # "idle"
         /\ wrote'[c] = wrote[c] \/ wrote'[c] = 1
<1>1. CASE Check(c) \/ Recheck(c)
  BY <1>1, CheckDoes DEF Reads, KeepsRead, KeepsFirst, Check, Recheck
<1>2. CASE Find(c)
  BY <1>2, FindDoes DEF Reads
<1>3. CASE Compare(c)
  BY <1>3, CompareDoes DEF Reads, KeepsFirst
<1>4. CASE Write(c) \/ LoseAnswer(c)
  BY <1>4, WriteDoes DEF KeepsRead, KeepsFirst
<1>5. CASE Refuse(c) \/ RefuseByShape(c)
  BY <1>5, RefuseDoes DEF Reads, KeepsRead, KeepsFirst
<1>6. CASE FindAgain(c)
  BY <1>6, FindAgainDoes DEF Reads, KeepsFirst
<1>7. CASE EndBody(c)
  BY <1>7, EndBodyDoes DEF Reads, KeepsRead, KeepsFirst
<1> QED BY <1>1, <1>2, <1>3, <1>4, <1>5, <1>6, <1>7 DEF Step

LEMMA GivenStep ==
  ASSUME IInv, Given, NEW c \in Calls, Start(c) \/ Step(c) PROVE Given'
<1>1. CASE Start(c)
  BY <1>1, StartDoes DEF Given, Reads, Others
<1>2. CASE Step(c)
  <2>1. call'[c].pc \in {"check", "find"} => call[c].pc = "check" /\ call'[c].first = call[c].first
    <3>1. CASE Check(c) \/ Recheck(c)
      BY <3>1, CheckDoes DEF KeepsRead, KeepsFirst
    <3>2. CASE ~(Check(c) \/ Recheck(c))
      BY <1>2, <3>2, FindDoes, CompareDoes, WriteDoes, RefuseDoes, FindAgainDoes, EndBodyDoes
         DEF Step
    <3> QED BY <3>1, <3>2
  <2> QED BY <1>2, <2>1, StepKeeps DEF Given, Others, Keeps
<1> QED BY <1>1, <1>2

LEMMA LeavesStateStep ==
  ASSUME IInv, LeavesState, NEW c \in Calls, Start(c) \/ Step(c) PROVE LeavesState'
<1>1. CASE Start(c)
  <2>1. wrote[c] = 0
    BY <1>1, StartDoes DEF IInv, WroteOnce
  <2> QED BY <1>1, <2>1, StartDoes DEF LeavesState, Reads, Others
<1>2. CASE Write(c) \/ LoseAnswer(c)
  <2>1. Apply(c) /\ Others(c) /\ Keeps(call'[c], call[c]) /\ call[c].pc = "write"
    BY <1>2, WriteDoes DEF KeepsRead, KeepsFirst
  <2>2. Good(call[c]) /\ call[c].to \in Resources /\ states \in [Resources -> SUBSET States]
    BY <2>1 DEF IInv, TypeOK, Good
  <2>3. states'[call[c].to] # {}
    <3>1. CASE call[c].creates
      BY <2>1, <2>2, <3>1 DEF Apply, Good
    <3>2. CASE ~call[c].creates
      BY <2>1, <2>2, <3>2 DEF Apply, Good
    <3> QED BY <3>1, <3>2
  <2>4. ASSUME NEW d \in Calls, d # c, wrote[d] = 1 PROVE states'[call[d].to] # {}
    <3>1. states[call[d].to] # {} /\ call[d].to \in Resources
      BY <2>4 DEF LeavesState, IInv, Good, WroteOnce
    <3> QED BY <1>2, <3>1, StoreMoves DEF Step
  <2> QED BY <2>1, <2>3, <2>4 DEF LeavesState, Others, Keeps
<1>3. CASE Step(c) /\ ~(Write(c) \/ LoseAnswer(c))
  <2>1. UNCHANGED <<states, wrote>>
    BY <1>3 DEF Step, Check, Find, Compare, Refuse, RefuseByShape, FindAgain, Recheck, EndBody
  <2> QED BY <1>3, <2>1, StepKeeps DEF LeavesState, Others, Keeps
<1> QED BY <1>1, <1>2, <1>3 DEF Step

Rules(w, t, k) == k.kind = "handover" /\ k.workpiece = w /\ k.to = t

LEMMA OnlyStays ==
  ASSUME IInv, NEW c \in Calls, Start(c) \/ Step(c), NEW w, NEW t,
         NEW a \in Calls, NEW b \in Calls, Only(w, t, a, b)'
  PROVE  Only(w, t, a, b)
<1>1. CASE Start(c)
  <2>1. call[c].pc = "idle" /\ wrote[c] = 0
    BY <1>1, StartDoes DEF IInv, WroteOnce
  <2> QED BY <1>1, <2>1, StartDoes DEF Only, Reads, Others
<1>2. CASE Step(c)
  BY <1>2, StepKeeps DEF Only, Others, Keeps
<1> QED BY <1>1, <1>2

LEMMA Elsewhere ==
  ASSUME IInv, NEW c \in Calls, Start(c) \/ Step(c), NEW w \in Workpieces, NEW t \in Resources,
         NEW a \in Calls, NEW b \in Calls, Only(w, t, a, b)', c # a, c # b
  PROVE  states'[t] = states[t] /\ link'[w] = link[w]
BY StoreMoves DEF Only

(* Before either has written, a call that does not write stays fresh.      *)
LEMMA FreshMoves ==
  ASSUME IInv, Given, NEW c \in Calls, NEW w \in Workpieces, NEW t \in Resources,
         Step(c), Rules(w, t, call[c]), Fresh(w, t, call[c]), wrote'[c] = 0
  PROVE  Fresh(w, t, call[c])'
<1> USE DEF Fresh, Rules
<1>1. UNCHANGED <<states, link>>
  <2>1. ~(Write(c) \/ LoseAnswer(c))
    BY WriteDoes
  <2> QED BY <2>1 DEF Step, Check, Find, Compare, Refuse, RefuseByShape, FindAgain, Recheck,
                      EndBody
<1>2. CASE Check(c) \/ Recheck(c)
  <2>1. call[c].pc = "check" => ~call[c].first
    BY DEF Given
  <2> QED BY <1>1, <1>2, <2>1, CheckDoes
     DEF Preconditions, Possesses, KeepsRead, KeepsFirst, Keeps
<1>3. CASE Find(c)
  <2>1. ~call[c].first
    BY <1>3, FindDoes DEF Given
  <2> QED BY <1>1, <1>3, <2>1, FindDoes DEF Keeps
<1>4. CASE Compare(c)
  BY <1>1, <1>4, CompareDoes DEF KeepsFirst, Keeps
<1>5. CASE Refuse(c) \/ RefuseByShape(c)
  <2>1. call[c].first => ~Refusable(c)
    BY <1>5, RefuseDoes DEF Refusable, Current, Removed
  <2> QED BY <1>1, <1>5, <2>1, RefuseDoes DEF KeepsRead, KeepsFirst, Keeps
<1>6. CASE FindAgain(c)
  BY <1>1, <1>6, FindAgainDoes DEF KeepsFirst
<1>7. CASE EndBody(c)
  BY <1>1, <1>7, EndBodyDoes DEF KeepsRead, KeepsFirst
<1>8. CASE Write(c) \/ LoseAnswer(c)
  BY <1>8, WriteDoes
<1> QED BY <1>2, <1>3, <1>4, <1>5, <1>6, <1>7, <1>8 DEF Step

(* After the other one has written, the call stays stuck.                  *)
LEMMA StuckMoves ==
  ASSUME IInv, Given, NEW c \in Calls, NEW w \in Workpieces, NEW t \in Resources,
         Step(c), Rules(w, t, call[c]), call'[c].first, states[t] # {},
         call[c].first => wrote[c] = 0 /\ Stuck(w, t, call[c])
  PROVE  wrote'[c] = 0 /\ Stuck(w, t, call[c])'
<1> USE DEF Stuck, Rules
<1>1. CASE Find(c)
  <2>1. ~call[c].first
    BY <1>1, FindDoes DEF Given
  <2> QED BY <1>1, <2>1, FindDoes
<1>2. ASSUME ~Find(c) PROVE call[c].first
  BY <1>2, CheckDoes, CompareDoes, WriteDoes, RefuseDoes, FindAgainDoes, EndBodyDoes
     DEF Step, KeepsRead, KeepsFirst
<1>3. CASE call[c].first
  <2>0. wrote[c] = 0 /\ Stuck(w, t, call[c])
    BY <1>3
  <2>1. Good(call[c])
    BY DEF IInv
  <2>2. CASE Check(c) \/ Recheck(c)
    <3>1. call[c].giver \in Resources /\ call[c].giver # t
      BY <2>2 DEF Given, Check, Recheck
    <3>2. ~Preconditions(c)
      <4>1. states[call[c].giver] \in {{}, {Minted(call[c].giver)}, {Seeded(call[c].giver)}}
        BY <3>1 DEF IInv, OneState
      <4> QED BY <2>0, <3>1, <4>1, StatesAre DEF Preconditions, Possesses
    <3> QED BY <2>0, <2>2, <3>2, CheckDoes DEF Reads
  <2>3. CASE Compare(c)
    BY <2>0, <2>3, CompareDoes DEF Reads
  <2>4. CASE Write(c) \/ LoseAnswer(c)
    <3>1. call[c].creates /\ call[c].state = {Minted(t)}
      BY <2>0, <2>1, <2>4, WriteDoes DEF Good
    <3>2. call[c].absent /\ call[c].old \ call[c].state \subseteq link[w]
      BY <2>0, <2>4, <3>1, WriteDoes DEF Creatable, Current, Removed
    <3> QED BY <2>0, <2>4, <3>2, WriteDoes
  <2>5. CASE Refuse(c) \/ RefuseByShape(c)
    BY <2>0, <2>5, RefuseDoes DEF Reads
  <2>6. CASE FindAgain(c)
    BY <2>0, <2>6, FindAgainDoes DEF Reads
  <2>7. CASE EndBody(c)
    BY <2>0, <2>7, EndBodyDoes
  <2> QED BY <1>1, <2>2, <2>3, <2>4, <2>5, <2>6, <2>7 DEF Step
<1> QED BY <1>1, <1>2, <1>3

(* The first one to write takes the Workpiece from the giver and creates   *)
(* the state, so that the other one is stuck.                              *)
LEMMA WriteSticks ==
  ASSUME IInv, Given, NEW c \in Calls, NEW d \in Calls, c # d,
         NEW w \in Workpieces, NEW t \in Resources, Write(c) \/ LoseAnswer(c),
         Rules(w, t, call[c]), Rules(w, t, call[d]), call[d].pc # "idle",
         call[c].first, call[d].first,
         wrote[d] = 0, Fresh(w, t, call[c]), Fresh(w, t, call[d])
  PROVE  wrote'[d] = 0 /\ Stuck(w, t, call[d])'
<1> USE DEF Rules
<1>1. /\ call[c].pc = "write" /\ Apply(c) /\ Others(c)
      /\ call[c].creates /\ call[c].old = link[w] /\ states[t] = {}
      /\ states[call[c].giver] \cap link[w] # {}
  BY WriteDoes DEF Fresh
<1>2. call[c].state = {Minted(t)}
  BY <1>1 DEF IInv, Good
<1>3. call[c].giver \in Resources /\ call[c].giver # t
  BY <1>1 DEF Given
<1>4. PICK u : link[w] = {u} /\ u # Minted(t)
  <2>1. PICK r \in Resources : states[r] = link[w]
    BY <1>1 DEF IInv, OneLink, Exists
  <2>2. \A q \in Resources : states[q] \in {{}, {Minted(q)}, {Seeded(q)}}
    BY DEF IInv, OneState
  <2>3. r # t
    BY <1>1, <2>1
  <2> QED BY <1>1, <2>1, <2>2, <2>3, StatesAre
<1>5. states \in [Resources -> SUBSET States] /\ link \in [Workpieces -> SUBSET States]
  BY DEF IInv, TypeOK
<1>6. states'[t] = {Minted(t)}
  BY <1>1, <1>2, <1>5 DEF Apply
<1>7. link'[w] = {Minted(t)}
  <2>1. Removed(c) = {u} /\ Added(c) = {Minted(t)}
    BY <1>1, <1>2, <1>4 DEF Removed, Added
  <2> QED BY <1>1, <1>4, <1>5, <2>1 DEF Apply
<1>8. call'[d] = call[d] /\ wrote'[d] = 0
  BY <1>1 DEF Others
<1>9. /\ call[d].pc \in {"compare", "write", "raised"}
      /\ call[d].pc \in {"compare", "write"} => call[d].creates
      /\ call[d].pc = "write" => call[d].old = link[w]
  BY DEF Fresh
<1>10. call[d].pc = "write" => call[d].state = {Minted(t)}
  BY <1>9 DEF IInv, Good
<1> QED BY <1>4, <1>6, <1>7, <1>8, <1>9, <1>10 DEF Stuck

LEMMA RivalsStep ==
  ASSUME IInv, Given, LeavesState, Rivals, NEW c \in Calls, Start(c) \/ Step(c)
  PROVE  Rivals'
<1> SUFFICES ASSUME NEW w \in Workpieces, NEW t \in Resources, NEW a \in Calls, NEW b \in Calls,
                    a # b, Only(w, t, a, b)'
             PROVE  /\ wrote'[a] = 0 /\ wrote'[b] = 0 => Fresh(w, t, call[a])'
                    /\ wrote'[a] = 1 /\ call'[a].first /\ call'[b].first =>
                         wrote'[b] = 0 /\ Stuck(w, t, call[b])'
  BY DEF Rivals
<1>1. Only(w, t, a, b) /\ Only(w, t, b, a)
  BY OnlyStays DEF Only
<1>2. /\ wrote[a] = 0 /\ wrote[b] = 0 => Fresh(w, t, call[a]) /\ Fresh(w, t, call[b])
      /\ wrote[a] = 1 /\ call[a].first /\ call[b].first => wrote[b] = 0 /\ Stuck(w, t, call[b])
      /\ wrote[b] = 1 /\ call[b].first /\ call[a].first => wrote[a] = 0 /\ Stuck(w, t, call[a])
  BY <1>1 DEF Rivals
<1>3. /\ wrote[a] \in {0, 1} /\ wrote[b] \in {0, 1}
      /\ call[a].pc # "idle" => Rules(w, t, call[a])
      /\ call[b].pc # "idle" => Rules(w, t, call[b])
      /\ call[a].first => call[a].pc # "idle"
      /\ call[b].first => call[b].pc # "idle"
  BY <1>1 DEF IInv, WroteOnce, Only, Rules, Given
<1>4. CASE c # a /\ c # b
  <2>1. states'[t] = states[t] /\ link'[w] = link[w]
    BY <1>4, Elsewhere
  <2>2. /\ call'[a] = call[a] /\ call'[b] = call[b] /\ wrote'[a] = wrote[a] /\ wrote'[b] = wrote[b]
    BY <1>4, StartDoes, StepKeeps DEF Reads, Others
  <2>3. call[a].pc \in {"find", "compare", "write"} => states[call[a].giver] \subseteq states'[call[a].giver]
    BY <1>3, StoreMoves DEF Given, Rules
  <2>4. wrote'[a] = 0 /\ wrote'[b] = 0 => Fresh(w, t, call[a])'
    BY <1>2, <2>1, <2>2, <2>3 DEF Fresh
  <2> QED BY <1>2, <2>1, <2>2, <2>4 DEF Stuck
<1>5. CASE c = a
  <2>1. call'[b] = call[b] /\ wrote'[b] = wrote[b]
    BY <1>5, StartDoes, StepKeeps DEF Reads, Others
  <2>2. CASE Start(c)
    <3>1. call'[c].pc = "check" /\ ~call'[c].first
      BY <1>5, <2>2, StartDoes DEF Only
    <3> QED BY <1>5, <3>1 DEF Fresh
  <2>3. CASE Step(c)
    <3>0. Rules(w, t, call[c])
      BY <1>3, <1>5, <2>3, StepKeeps
    <3>1. wrote'[a] = 0 /\ wrote'[b] = 0 => Fresh(w, t, call[a])'
      <4>1. wrote'[a] = 0 => wrote[a] = 0
        BY <1>3, <1>5, <2>3, StepKeeps
      <4> QED BY <1>2, <1>5, <2>1, <2>3, <3>0, <4>1, FreshMoves
    <3>2. ASSUME wrote'[a] = 1, call'[a].first, call'[b].first
          PROVE  wrote'[b] = 0 /\ Stuck(w, t, call[b])'
      <4>1. CASE wrote[b] = 0 /\ wrote[a] = 0
        <5>1. Write(c) \/ LoseAnswer(c)
          <6>1. ~(Write(c) \/ LoseAnswer(c)) => wrote' = wrote
            BY <2>3
               DEF Step, Check, Find, Compare, Refuse, RefuseByShape, FindAgain, Recheck, EndBody
          <6> QED BY <3>2, <4>1, <6>1
        <5>2. call[c].first
          BY <1>5, <3>2, <5>1, WriteDoes DEF KeepsRead, KeepsFirst
        <5> QED BY <1>2, <1>3, <1>5, <2>1, <3>0, <3>2, <4>1, <5>1, <5>2, WriteSticks
      <4>2. CASE wrote[b] = 1
        <5>1. states[t] # {}
          BY <1>3, <4>2 DEF LeavesState, Rules, IInv, WroteOnce
        <5>2. call[c].first => wrote[c] = 0 /\ Stuck(w, t, call[c])
          BY <1>2, <1>5, <2>1, <3>2, <4>2
        <5>3. wrote'[c] = 0
          BY <1>5, <2>3, <3>0, <3>2, <5>1, <5>2, StuckMoves
        <5> QED BY <1>5, <3>2, <5>3
      <4>3. CASE wrote[b] = 0 /\ wrote[a] = 1
        <5>1. call[c].pc \notin {"check", "find", "compare", "write", "again", "recheck"}
          BY <1>5, <4>3 DEF IInv, WroteOnce
        <5>2. EndBody(c)
          BY <2>3, <5>1 DEF Step, Check, Find, Compare, Write, Refuse, RefuseByShape, LoseAnswer,
             FindAgain, Recheck
        <5>3. call[a].first /\ UNCHANGED <<states, link>>
          BY <1>5, <3>2, <5>2, EndBodyDoes DEF KeepsRead, KeepsFirst, Reads
        <5> QED BY <1>2, <2>1, <3>2, <4>3, <5>3 DEF Stuck
      <4> QED BY <1>3, <4>1, <4>2, <4>3
    <3> QED BY <3>1, <3>2
  <2> QED BY <2>2, <2>3
<1>6. CASE c = b
  <2>1. call'[a] = call[a] /\ wrote'[a] = wrote[a]
    BY <1>6, StartDoes, StepKeeps DEF Reads, Others
  <2>2. CASE Start(c)
    <3>1. Reads(c) /\ ~call'[b].first
      BY <1>6, <2>2, StartDoes
    <3> QED BY <1>2, <1>6, <2>1, <3>1 DEF Fresh, Reads
  <2>3. CASE Step(c)
    <3>0. Rules(w, t, call[c])
      BY <1>3, <1>6, <2>3, StepKeeps
    <3>1. ASSUME wrote'[a] = 0, wrote'[b] = 0 PROVE Fresh(w, t, call[a])'
      <4>1. wrote[b] = 0 /\ ~(Write(c) \/ LoseAnswer(c))
        BY <1>3, <1>6, <2>3, <3>1, StepKeeps, WriteDoes
      <4>2. UNCHANGED <<states, link>>
        BY <2>3, <4>1 DEF Step, Check, Find, Compare, Refuse, RefuseByShape, FindAgain, Recheck,
                          EndBody
      <4> QED BY <1>2, <2>1, <3>1, <4>1, <4>2 DEF Fresh
    <3>2. ASSUME wrote'[a] = 1, call'[a].first, call'[b].first
          PROVE  wrote'[b] = 0 /\ Stuck(w, t, call[b])'
      <4>1. states[t] # {}
        BY <1>3, <2>1, <3>2 DEF LeavesState, Rules, IInv, WroteOnce
      <4>2. call[c].first => wrote[c] = 0 /\ Stuck(w, t, call[c])
        BY <1>2, <1>6, <2>1, <3>2
      <4> QED BY <1>6, <2>3, <3>0, <3>2, <4>1, <4>2, StuckMoves
    <3> QED BY <3>1, <3>2
  <2> QED BY <2>2, <2>3
<1> QED BY <1>4, <1>5, <1>6

(* Two first handovers of one Workpiece to one Resource are admitted once, *)
(* whatever other calls do elsewhere: the second one is refused, and its   *)
(* second check refuses it for good.                                       *)
THEOREM AdmittedOnce == Spec => []FirstGoesOnce
<1> DEFINE Inv == IInv /\ Given /\ LeavesState /\ Rivals
<1>1. Init => Inv
  <2> SUFFICES ASSUME Init PROVE Given /\ LeavesState /\ Rivals
    BY InitIInv
  <2>1. /\ \A c \in Calls : call[c] = Idle /\ wrote[c] = 0
        /\ Idle.pc = "idle" /\ Idle.to = None /\ Idle.workpiece = None
    BY DEF Init, Idle
  <2>2. ~Idle.first
    BY DEF Idle
  <2> QED BY <2>1, <2>2 DEF Given, LeavesState, Rivals, Fresh
<1>2. Inv /\ [Next]_vars => Inv'
  <2>1. ASSUME Inv, UNCHANGED vars PROVE Inv'
    BY <2>1, StepIInv DEF vars, Given, LeavesState, Rivals, Only, Fresh, Stuck
  <2>2. ASSUME Inv, NEW c \in Calls, Start(c) \/ Step(c) PROVE Inv'
    <3>1. IInv'
      BY <2>2, StepIInv DEF Next
    <3> QED BY <2>2, <3>1, GivenStep, LeavesStateStep, RivalsStep
  <2> QED BY <2>1, <2>2 DEF Next
<1>3. Inv => FirstGoesOnce
  <2> SUFFICES ASSUME Inv, NEW c \in Calls, NEW d \in Calls, c # d,
                      call[c].kind = "handover", call[d].kind = "handover",
                      call[c].workpiece = call[d].workpiece, call[c].to = call[d].to,
                      call[c].first, call[d].first,
                      \A e \in Calls \ {c, d} : wrote[e] = 1 =>
                        call[e].to # call[c].to /\ call[e].workpiece # call[c].workpiece
               PROVE  wrote[c] + wrote[d] <= 1
    BY DEF FirstGoesOnce
  <2>1. wrote[c] \in {0, 1} /\ wrote[d] \in {0, 1}
    BY DEF IInv, WroteOnce
  <2>2. call[c].workpiece \in Workpieces /\ call[c].to \in Resources
    BY DEF Given, IInv, Good
  <2>3. Only(call[c].workpiece, call[c].to, c, d)
    BY DEF Only
  <2>4. wrote[c] = 1 => wrote[d] = 0
    BY <2>2, <2>3 DEF Rivals
  <2> QED BY <2>1, <2>4
<1> QED BY <1>1, <1>2, <1>3, PTL DEF Spec
===============================================================================
