------------------------------- MODULE Handover -------------------------------
(***************************************************************************)
(* Possession: a Resource has one possession state, a Workpiece points at  *)
(* the state of its one possessor, and handover(), switch_possession() and *)
(* the creation of a Workpiece write that link.                            *)
(*                                                                         *)
(* A call reads the graph in several queries and writes it in one commit,  *)
(* so other calls come between any two of them.  Inside the commit,        *)
(* kapps_ogm reads the Workpiece afresh and the store then admits the      *)
(* write only if what it removes is still there and what it creates is     *)
(* not.  A Workpiece always has a possessor: it starts in its creator's.   *)
(***************************************************************************)
EXTENDS Naturals, FiniteSets

CONSTANTS
  Resources,   \* the Resources that may possess Workpieces
  Able,        \* those with the ability complementary to the handover's mode
  Workpieces,  \* the Workpieces that exist, or that a call creates
  Calls,       \* the calls that change a possession
  None,        \* no Workpiece, no Resource
  MaxFaults    \* bound on commits whose answer is lost

ASSUME HandoverAssumption ==
  /\ IsFiniteSet(Resources) /\ Able \subseteq Resources
  /\ None \notin Resources \cup Workpieces
  /\ MaxFaults \in Nat

VARIABLES
  states,      \* the possession states of each Resource
  link,        \* the states a Workpiece points at; none before it exists
  call,        \* what each call does
  wrote,       \* how many commits of each call the store has admitted
  faults

vars == <<states, link, call, wrote, faults>>

(* mint_possession_state_iri gives a Resource one IRI; a seed may have     *)
(* given its state another one.                                            *)
Minted(r) == <<r, "minted">>
Seeded(r) == <<r, "seeded">>
States == {Minted(r) : r \in Resources} \cup {Seeded(r) : r \in Resources}

Kinds == {"handover", "switch", "create"}
Pcs   == {"idle", "check", "find", "compare", "write", "again", "recheck",
          "body", "done", "raised"}

CallState ==
  [pc : Pcs, kind : Kinds, workpiece : Workpieces \cup {None},
   giver : Resources \cup {None}, to : Resources \cup {None},
   state : SUBSET States,    \* the possessor's state, once it is read
   creates : BOOLEAN,        \* the commit creates it
   old : SUBSET States,      \* what the commit's own read of the Workpiece saw
   absent : BOOLEAN,         \* and that the state was not there
   first : BOOLEAN,          \* the first commit was to create the state
   tries : 0..2]

Idle == [pc |-> "idle", kind |-> "switch", workpiece |-> None, giver |-> None,
         to |-> None, state |-> {}, creates |-> FALSE, old |-> {},
         absent |-> FALSE, first |-> FALSE, tries |-> 0]

TypeOK ==
  /\ states \in [Resources -> SUBSET States]
  /\ link \in [Workpieces -> SUBSET States]
  /\ call \in [Calls -> CallState]
  /\ wrote \in [Calls -> Nat]
  /\ faults \in Nat

(* A seed has given some Resources their state, under an IRI of its own,   *)
(* and some Workpieces to them.                                            *)
Init ==
  /\ states \in [Resources -> SUBSET States]
  /\ \A r \in Resources : states[r] \in {{}, {Seeded(r)}}
  /\ link \in [Workpieces -> SUBSET States]
  /\ \A w \in Workpieces : link[w] = {} \/ \E r \in Resources : states[r] = link[w]
  /\ call = [c \in Calls |-> Idle]
  /\ wrote = [c \in Calls |-> 0]
  /\ faults = 0

-----------------------------------------------------------------------------
(* find_possession_state: the Resource is the Workpiece's possessor.       *)
Possesses(r, w) == states[r] \cap link[w] # {}

(* The two preconditions of a handover.                                    *)
Preconditions(c) ==
  /\ Possesses(call[c].giver, call[c].workpiece)
  /\ call[c].to \in Able

Exists(w) == link[w] # {}

(* The creation of an instance is of one call alone: its IRI is its own.   *)
Claimed(w) == \E c \in Calls : call[c].kind = "create" /\ call[c].workpiece = w

Start(c) ==
  /\ call[c].pc = "idle"
  /\ \E kind \in Kinds, w \in Workpieces, giver, to \in Resources :
       /\ giver # to
       /\ IF kind = "create" THEN ~Exists(w) /\ ~Claimed(w) ELSE Exists(w)
       /\ call' = [call EXCEPT ![c] =
            [Idle EXCEPT !.pc = IF kind = "handover" THEN "check" ELSE "find",
                         !.kind = kind, !.workpiece = w, !.to = to,
                         !.giver = IF kind = "handover" THEN giver ELSE None]]
  /\ UNCHANGED <<states, link, wrote, faults>>

Raise(c) == call' = [call EXCEPT ![c].pc = "raised"]

(* _check_handover_preconditions, before anything is written. *)
Check(c) ==
  /\ call[c].pc = "check"
  /\ IF Preconditions(c)
     THEN call' = [call EXCEPT ![c].pc = "find"]
     ELSE Raise(c)
  /\ UNCHANGED <<states, link, wrote, faults>>

FoundState_ByName(r) == {Minted(r)}

(* possession_state: the one state of the Resource, or the minted IRI.     *)
FoundState(r) == IF states[r] = {} THEN {Minted(r)} ELSE states[r]

(* A Resource with several states is DeploymentValueError. *)
Find(c) ==
  /\ call[c].pc = "find"
  /\ LET r == call[c].to IN
       IF Cardinality(states[r]) > 1 THEN Raise(c)
       ELSE call' = [call EXCEPT ![c].pc = "compare", ![c].state = FoundState(r),
                       ![c].creates = states[r] = {}, ![c].first = states[r] = {},
                       ![c].tries = 1]
  /\ UNCHANGED <<states, link, wrote, faults>>

(* kapps_ogm compares the instances of the commit with a fresh read. *)
Compare(c) ==
  /\ call[c].pc = "compare"
  /\ call' = [call EXCEPT ![c].pc = "write", ![c].old = link[call[c].workpiece],
                          ![c].absent = states[call[c].to] = {}]
  /\ UNCHANGED <<states, link, wrote, faults>>

(* The commit sends the difference; what it removes must still be there. *)
Removed(c) == call[c].old \ call[c].state
Added(c)   == call[c].state \ call[c].old
Current(c) == Removed(c) \subseteq link[call[c].workpiece]

(* What it creates is not there, or came at the very same moment. *)
Creatable(c) ==
  call[c].creates => call[c].state \cap states[call[c].to] = {} \/ call[c].absent

Refusable(c) ==
  ~Current(c) \/ (call[c].creates /\ call[c].state \cap states[call[c].to] # {})

(* The whole change, in one commit: the link of the Workpiece, and the     *)
(* state with the Resource's link to it when it is new.                    *)
Apply(c) ==
  LET w == call[c].workpiece IN
    /\ link' = [link EXCEPT ![w] = (@ \ Removed(c)) \cup Added(c)]
    /\ states' = IF call[c].creates
                 THEN [states EXCEPT ![call[c].to] = @ \cup call[c].state]
                 ELSE states
    /\ wrote' = [wrote EXCEPT ![c] = @ + 1]

(* The store admits the commit; of a handover, the body runs now. *)
Write(c) ==
  /\ call[c].pc = "write" /\ Current(c) /\ Creatable(c)
  /\ Apply(c)
  /\ call' = [call EXCEPT ![c].pc = IF call[c].kind = "handover" THEN "body" ELSE "done"]
  /\ UNCHANGED faults

(* PreconditionFailedError: a handover that was to create the state reads  *)
(* it again; every other call raises, and so does a second refusal.        *)
Refuse(c) ==
  /\ call[c].pc = "write" /\ Refusable(c)
  /\ IF call[c].kind = "handover" /\ call[c].creates /\ call[c].tries = 1
     THEN call' = [call EXCEPT ![c].pc = "again"]
     ELSE Raise(c)
  /\ UNCHANGED <<states, link, wrote, faults>>

(* A shape of the domain refuses the change; nothing of it is written. *)
RefuseByShape(c) ==
  /\ call[c].pc = "write" /\ Raise(c)
  /\ UNCHANGED <<states, link, wrote, faults>>

AfterLostAnswer_Retry(c) ==
  call' = [call EXCEPT ![c].pc =
             IF call[c].kind = "handover" /\ call[c].tries = 1 THEN "again" ELSE "raised"]

AfterLostAnswer(c) == Raise(c)

(* The store writes, and its answer does not arrive. *)
LoseAnswer(c) ==
  /\ call[c].pc = "write" /\ Current(c) /\ Creatable(c)
  /\ faults < MaxFaults /\ faults' = faults + 1
  /\ Apply(c)
  /\ AfterLostAnswer(c)

(* The second read of the counterpart's state; it must exist by now. *)
FindAgain(c) ==
  /\ call[c].pc = "again"
  /\ LET r == call[c].to IN
       IF Cardinality(states[r]) = 1
       THEN call' = [call EXCEPT ![c].pc = "recheck", ![c].state = FoundState(r),
                                 ![c].creates = FALSE, ![c].tries = 2]
       ELSE Raise(c)
  /\ UNCHANGED <<states, link, wrote, faults>>

RecheckHolds_Skipped(c) == TRUE
RecheckHolds(c) == Preconditions(c)

Recheck(c) ==
  /\ call[c].pc = "recheck"
  /\ IF RecheckHolds(c)
     THEN call' = [call EXCEPT ![c].pc = "compare"]
     ELSE Raise(c)
  /\ UNCHANGED <<states, link, wrote, faults>>

(* The move, which may raise: the possession has changed all the same. *)
EndBody(c) ==
  /\ call[c].pc = "body"
  /\ \E outcome \in {"done", "raised"} : call' = [call EXCEPT ![c].pc = outcome]
  /\ UNCHANGED <<states, link, wrote, faults>>

Over(c) == call[c].pc \in {"done", "raised"}

Step(c) ==
  \/ Check(c) \/ Find(c) \/ Compare(c)
  \/ Write(c) \/ Refuse(c) \/ RefuseByShape(c) \/ LoseAnswer(c)
  \/ FindAgain(c) \/ Recheck(c) \/ EndBody(c)

Next == \E c \in Calls : Start(c) \/ Step(c)

Spec == Init /\ [][Next]_vars /\ \A c \in Calls : WF_vars(Step(c))

-----------------------------------------------------------------------------
(* Properties.                                                             *)

(* "One possession state per Resource, which the Workpieces it possesses   *)
(* point at": whatever calls race for a first possession, no Resource gets *)
(* a second state, and a Workpiece that exists points at exactly one state *)
(* of exactly one Resource.                                                *)
OnePossessor ==
  /\ \A r \in Resources : Cardinality(states[r]) <= 1
  /\ \A w \in Workpieces : Exists(w) =>
       /\ Cardinality(link[w]) = 1
       /\ Cardinality({r \in Resources : Possesses(r, w)}) = 1

(* A call changes the possession at most once, also when a handover makes  *)
(* its commit again or the answer to the commit is lost, and the body of a *)
(* handover runs only after that one change.                               *)
ChangedOnce ==
  \A c \in Calls :
    /\ wrote[c] <= 1
    /\ call[c].pc \in {"body", "done"} => wrote[c] = 1

(* One Workpiece handed twice at once to a counterpart without a state "is *)
(* admitted once": of two handovers that both set out to create the state, *)
(* the second is refused, reads again and sees that the giver no longer    *)
(* possesses the Workpiece.  With a state that exists both may run (the    *)
(* known limit of handover()); so they may when a third call creates it    *)
(* for both, or hands the Workpiece back.                                  *)
FirstGoesOnce ==
  \A c, d \in Calls :
    /\ c # d /\ call[c].kind = "handover" /\ call[d].kind = "handover"
    /\ call[c].workpiece = call[d].workpiece /\ call[c].to = call[d].to
    /\ call[c].first /\ call[d].first
    /\ \A e \in Calls \ {c, d} : wrote[e] = 1 =>
         call[e].to # call[c].to /\ call[e].workpiece # call[c].workpiece
    => wrote[c] + wrote[d] <= 1

=============================================================================
