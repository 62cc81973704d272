------------------------------ MODULE IssuedWait ------------------------------
(***************************************************************************)
(* The waits of an IssuedOperation: the issuer's coroutines (_until) and   *)
(* blocking threads (_wait) on the handle, the notifications that          *)
(* claimers, enders and watchdogs post to the issuer's event trigger, and  *)
(* the wake-up (_wake) that an arrival gives.  Reads of the status run in  *)
(* threads, the rest of a coroutine on its event loop.                     *)
(***************************************************************************)
EXTENDS Naturals, FiniteSets

CONSTANTS
  Blocking,    \* the waits in a thread: wait_claimed, wait_ended
  Coroutines,  \* the waits in a coroutine: claimed, ended
  Wanted,      \* for each wait the statuses that end it: _CLAIMED or _ENDED
  MayLose,     \* BOOLEAN: a notification can fail or be dropped at a stop
  MaxStray     \* bound on notifications that tell of no move (notify, a repeat)

Waits    == Blocking \cup Coroutines
Claimed  == {"running", "done", "failed"}
EndedSet == {"done", "failed"}

ASSUME IssuedWaitAssumption ==
  /\ Blocking \cap Coroutines = {}
  /\ Wanted \in [Waits -> {Claimed, EndedSet}]
  /\ MayLose \in BOOLEAN /\ MaxStray \in Nat

VARIABLES
  status,    \* the Operation's status in the graph; "absent" before the commit
  known,     \* whether the handle is in _issued_handles: the block has ended
  notes,     \* the moves whose notification is under way
  lost,      \* the moves whose notification was lost
  strays,    \* how many stray notifications there were
  arrivals,  \* _arrivals
  wait       \* what each wait does

waitVars == <<status, known, notes, lost, strays, arrivals, wait>>

Pcs   == {"idle", "clear", "read", "check", "waiting", "last", "returned"}
Fresh == [pc |-> "idle", seen |-> 0, flag |-> FALSE, calls |-> 0,
          due |-> FALSE, met |-> FALSE, result |-> "none"]

WaitTypeOK ==
  /\ status \in {"absent", "queued"} \cup Claimed
  /\ known \in BOOLEAN
  /\ notes \subseteq Claimed /\ lost \subseteq Claimed
  /\ strays \in Nat /\ arrivals \in Nat
  /\ wait \in [Waits -> [pc : Pcs, seen : Nat, flag : BOOLEAN, calls : Nat,
                         due : BOOLEAN, met : BOOLEAN, result : {"none"} \cup Claimed]]

WaitInit ==
  /\ status = "absent" /\ known = FALSE
  /\ notes = {} /\ lost = {} /\ strays = 0 /\ arrivals = 0
  /\ wait = [w \in Waits |-> Fresh]

-----------------------------------------------------------------------------
(* issue_operation at the end of its block: the commit, then the handle.   *)
(* The receiver may take the Operation up between the two, at its startup. *)

Create == status = "absent" /\ status' = "queued" /\ UNCHANGED <<known, notes, lost, strays, arrivals, wait>>

Register ==
  /\ status # "absent" /\ ~known /\ known' = TRUE
  /\ UNCHANGED <<status, notes, lost, strays, arrivals, wait>>

(* A commit that moves the Operation, and the notification of its issuer.  *)
Move(to) ==
  /\ \/ status = "queued" /\ to \in {"running", "failed"}
     \/ status = "running" /\ to \in EndedSet
  /\ status' = to
  /\ notes' = notes \cup {to}
  /\ UNCHANGED <<known, lost, strays, arrivals, wait>>

Lose(n) ==
  /\ MayLose /\ n \in notes
  /\ notes' = notes \ {n} /\ lost' = lost \cup {n}
  /\ UNCHANGED <<status, known, strays, arrivals, wait>>

-----------------------------------------------------------------------------
(* _wake: the count and notify_all for the threads, an event for each      *)
(* coroutine among the waiters, set on its loop by call_soon_threadsafe.   *)

WokenWait_Coroutines(w) ==
  IF w \in Coroutines /\ wait[w].pc \notin {"idle", "returned"}
  THEN [wait[w] EXCEPT !.calls = @ + 1] ELSE wait[w]

WokenWait(w) ==
  CASE w \in Blocking /\ wait[w].pc = "waiting" -> [wait[w] EXCEPT !.pc = "check"]
    [] w \in Coroutines /\ wait[w].pc \notin {"idle", "returned"} ->
         [wait[w] EXCEPT !.calls = @ + 1]
    [] OTHER -> wait[w]

Wake ==
  IF known
  THEN arrivals' = arrivals + 1 /\ wait' = [w \in Waits |-> WokenWait(w)]
  ELSE UNCHANGED <<arrivals, wait>>

Arrive(n) ==
  /\ n \in notes /\ notes' = notes \ {n}
  /\ Wake
  /\ UNCHANGED <<status, known, lost, strays>>

ArriveStray ==
  /\ strays < MaxStray /\ status # "absent"
  /\ strays' = strays + 1
  /\ Wake
  /\ UNCHANGED <<status, known, notes, lost>>

SetEvent(w) ==
  /\ wait[w].calls > 0
  /\ wait' = [wait EXCEPT ![w].calls = @ - 1, ![w].flag = TRUE]
  /\ UNCHANGED <<status, known, notes, lost, strays, arrivals>>

-----------------------------------------------------------------------------
(* The waits.  A wait begins after the block, as the handle's docs ask.    *)

Only(w, record) ==
  /\ wait' = [wait EXCEPT ![w] = record]
  /\ UNCHANGED <<status, known, notes, lost, strays, arrivals>>

BeginWait(w) ==
  /\ known /\ wait[w].pc = "idle"
  /\ Only(w, [wait[w] EXCEPT !.pc = IF w \in Blocking THEN "read" ELSE "clear",
                             !.seen = IF w \in Blocking THEN arrivals ELSE 0])

(* The deadline passes; met records whether the wait could have ended then. *)
Expire(w) ==
  /\ wait[w].pc \notin {"idle", "returned"} /\ ~wait[w].due
  /\ Only(w, [wait[w] EXCEPT !.due = TRUE, !.met = status \in Wanted[w]])

ClearEvent(w) ==
  /\ wait[w].pc = "clear"
  /\ Only(w, [wait[w] EXCEPT !.pc = "read", !.flag = FALSE])

(* _read, whose result a coroutine sees only back on its loop, in Check.   *)
Read(w) ==
  /\ wait[w].pc = "read"
  /\ Only(w, IF status \in Wanted[w]
             THEN [wait[w] EXCEPT !.pc = "returned", !.result = status]
             ELSE [wait[w] EXCEPT !.pc = "check"])

(* A thread, under the condition: an arrival since the last look means a   *)
(* new read, then the deadline, then the wait for the next arrival.        *)
CheckBlocking(w) ==
  /\ w \in Blocking /\ wait[w].pc = "check"
  /\ \/ arrivals # wait[w].seen
        /\ Only(w, [wait[w] EXCEPT !.pc = "read", !.seen = arrivals])
     \/ arrivals = wait[w].seen /\ wait[w].due
        /\ Only(w, [wait[w] EXCEPT !.pc = "last"])
     \/ arrivals = wait[w].seen /\ ~wait[w].due
        /\ Only(w, [wait[w] EXCEPT !.pc = "waiting"])

CheckCoroutine_Clears(w) ==
  /\ w \in Coroutines /\ wait[w].pc = "check"
  /\ Only(w, [wait[w] EXCEPT !.pc = IF wait[w].due THEN "returned" ELSE "waiting",
                             !.flag = FALSE])

(* A coroutine gives up when the deadline has passed by the end of a read. *)
CheckCoroutine(w) ==
  /\ w \in Coroutines /\ wait[w].pc = "check"
  /\ Only(w, [wait[w] EXCEPT !.pc = IF wait[w].due THEN "returned" ELSE "waiting"])

(* The end of the wait for the next arrival. *)
Resume(w) ==
  /\ wait[w].pc = "waiting"
  /\ \/ w \in Blocking /\ wait[w].due /\ Only(w, [wait[w] EXCEPT !.pc = "check"])
     \/ w \in Coroutines /\ wait[w].flag /\ Only(w, [wait[w] EXCEPT !.pc = "clear"])
     \/ w \in Coroutines /\ wait[w].due /\ Only(w, [wait[w] EXCEPT !.pc = "last"])

LastRead_Skipped(w) == "none"
LastRead(w) == IF status \in Wanted[w] THEN status ELSE "none"

Last(w) ==
  /\ wait[w].pc = "last"
  /\ Only(w, [wait[w] EXCEPT !.pc = "returned", !.result = LastRead(w)])

Step(w) ==
  \/ ClearEvent(w) \/ Read(w) \/ CheckBlocking(w) \/ CheckCoroutine(w)
  \/ Resume(w) \/ Last(w)

WaitNext ==
  \/ Create \/ Register \/ ArriveStray
  \/ \E n \in Claimed : Move(n) \/ Lose(n) \/ Arrive(n)
  \/ \E w \in Waits : BeginWait(w) \/ Expire(w) \/ SetEvent(w) \/ Step(w)

WaitSpec == WaitInit /\ [][WaitNext]_waitVars

(* A wait that began goes on, its loop runs the calls it was given, and a  *)
(* notification that is not lost arrives.  No deadline is assumed to pass. *)
FairWaits ==
  /\ WaitSpec
  /\ \A w \in Waits : WF_waitVars(Step(w)) /\ WF_waitVars(SetEvent(w))
  /\ \A n \in Claimed : WF_waitVars(Arrive(n))

-----------------------------------------------------------------------------
(* Properties.                                                             *)

(* No wake-up is lost between the read of the status and the wait for the  *)
(* next arrival, in a thread or in a coroutine: a wait that sleeps on      *)
(* while it could end is about to be woken, or the notification of the     *)
(* move was lost on its way.                                               *)
NoLostWakeUp ==
  \A w \in Waits :
    /\ wait[w].pc = "waiting" /\ ~wait[w].due
    /\ status \in Wanted[w]
    => wait[w].flag \/ wait[w].calls > 0 \/ status \in notes \cup lost

GivesUp(w) == wait[w].pc = "returned" /\ wait[w].result = "none"

(* "When the timeout passes, the wait reads the status once more": no wait *)
(* gives up on an Operation that was already claimed, or ended, when its   *)
(* timeout passed.  That holds of the waits in a thread; a wait in a       *)
(* coroutine whose timeout passes during a read returns what it has read.  *)
ReadsOnceMore == \A w \in Blocking : GivesUp(w) => wait[w].due /\ ~wait[w].met

(* A wait ends, timeout or not, once its Operation is where it waits for,  *)
(* unless a notification was lost.                                         *)
WaitEnds ==
  \A w \in Waits :
    (wait[w].pc # "idle" /\ status \in Wanted[w]) ~> wait[w].pc = "returned" \/ lost # {}
=============================================================================
