------------------------------- MODULE Notifier -------------------------------
(***************************************************************************)
(* The background worker that sends an instance's notifications of issuers *)
(* (_Notifier).  Every block under the condition is one atomic step, and a *)
(* wait on the condition ends one step and begins another.  The threads    *)
(* are the workers, and the callers of flush and of stop: a test, the stop *)
(* of the instance and the exit handler of the process.                    *)
(***************************************************************************)
EXTENDS Naturals, Sequences

CONSTANTS
  Workers,     \* the worker threads that can be alive at a time
  Callers,     \* the threads that call flush and stop
  None,        \* no thread
  MayNotStart, \* BOOLEAN: Thread.start() can raise
  MaxJobs      \* bound on the jobs handed over

ASSUME NotifierAssumption ==
  None \notin Workers /\ MayNotStart \in BOOLEAN /\ MaxJobs \in Nat

VARIABLES
  jobs,     \* _jobs; a job is its number in the order of the hand-overs
  running,  \* _running
  thread,   \* _thread
  worker,   \* what each worker thread does, and the job that it runs
  caller,   \* what each caller does, and how far it wants the jobs to be done
  handed,   \* how many jobs were handed over
  done,     \* the jobs that ran
  dropped   \* the jobs that a stop dropped

vars == <<jobs, running, thread, worker, caller, handed, done, dropped>>

Ended     == [at |-> "ended", job |-> 0]
WorkerPcs == {"ended", "unstarted", "top", "waiting", "woken", "job", "settle", "dying", "final"}
CallerPcs == {"idle", "checking", "waiting", "clearing"}

TypeOK ==
  /\ jobs \in Seq(Nat)
  /\ running \in BOOLEAN
  /\ thread \in Workers \cup {None}
  /\ worker \in [Workers -> [at : WorkerPcs, job : Nat]]
  /\ caller \in [Callers -> [at : CallerPcs, mark : Nat, stop : BOOLEAN, all : BOOLEAN]]
  /\ handed \in Nat
  /\ done \subseteq Nat /\ dropped \subseteq Nat

Init ==
  /\ jobs = <<>> /\ running = FALSE /\ thread = None
  /\ worker = [w \in Workers |-> Ended]
  /\ caller = [c \in Callers |-> [at |-> "idle", mark |-> 0, stop |-> FALSE, all |-> FALSE]]
  /\ handed = 0 /\ done = {} /\ dropped = {}

Range1(s) == {s[n] : n \in DOMAIN s}

(* notify_all: whoever waits on the condition goes on. *)
WakeWorkers_None(ws) == ws
WakeWorkers(ws) ==
  [w \in Workers |-> IF ws[w].at = "waiting" THEN [ws[w] EXCEPT !.at = "woken"] ELSE ws[w]]

WakeCallers_None == caller
WakeCallers ==
  [c \in Callers |-> IF caller[c].at = "waiting"
                     THEN [caller[c] EXCEPT !.at = "checking"] ELSE caller[c]]

Begin_Unnamed(w) == worker[w].at = "ended" /\ UNCHANGED thread

(* _start, in a thread that has ended or was never started. *)
Begin(w) == worker[w].at = "ended" /\ thread' = w

-----------------------------------------------------------------------------
Submit ==
  /\ handed < MaxJobs
  /\ handed' = handed + 1
  /\ jobs' = Append(jobs, handed + 1)
  /\ \/ thread # None /\ UNCHANGED thread /\ worker' = WakeWorkers(worker)
     \/ /\ thread = None
        /\ \E w \in Workers :
             /\ Begin(w)
             /\ worker' = WakeWorkers([worker EXCEPT ![w].at = "top"])
  /\ caller' = WakeCallers
  /\ UNCHANGED <<running, done, dropped>>

(* start() raises: _thread already names the thread, and the error leaves  *)
(* submit before its notify_all.                                           *)
SubmitRaises ==
  /\ MayNotStart /\ handed < MaxJobs /\ thread = None
  /\ handed' = handed + 1
  /\ jobs' = Append(jobs, handed + 1)
  /\ \E w \in Workers :
       Begin(w) /\ worker' = [worker EXCEPT ![w].at = "unstarted"]
  /\ UNCHANGED <<running, caller, done, dropped>>

-----------------------------------------------------------------------------
(* _work, one action per stretch under the condition or outside it.        *)

Pop_Last == [job |-> jobs[Len(jobs)], rest |-> SubSeq(jobs, 1, Len(jobs) - 1)]
Pop == [job |-> Head(jobs), rest |-> Tail(jobs)]

Take(w) ==
  /\ worker[w].at \in {"top", "woken"} /\ jobs # <<>>
  /\ jobs' = Pop.rest
  /\ worker' = [worker EXCEPT ![w] = [at |-> "job", job |-> Pop.job]]
  /\ running' = TRUE
  /\ UNCHANGED <<thread, caller, handed, done, dropped>>

Wait(w) ==
  /\ worker[w].at = "top" /\ jobs = <<>>
  /\ worker' = [worker EXCEPT ![w].at = "waiting"]
  /\ UNCHANGED <<jobs, running, thread, caller, handed, done, dropped>>

IdleLongEnough(w) ==
  /\ worker[w].at = "waiting"
  /\ worker' = [worker EXCEPT ![w].at = "woken"]
  /\ UNCHANGED <<jobs, running, thread, caller, handed, done, dropped>>

(* Decided under the condition, so a job that comes now starts a new one.  *)
Retire(w) ==
  /\ worker[w].at = "woken" /\ jobs = <<>>
  /\ worker' = [worker EXCEPT ![w].at = "final"]
  /\ thread' = None
  /\ UNCHANGED <<jobs, running, caller, handed, done, dropped>>

(* The job returns or raises an Exception, or what is no Exception. *)
JobEnds(w) ==
  /\ worker[w].at = "job"
  /\ done' = done \cup {worker[w].job}
  /\ \E at \in {"settle", "dying"} :
       worker' = [worker EXCEPT ![w] = [at |-> at, job |-> 0]]
  /\ UNCHANGED <<jobs, running, thread, caller, handed, dropped>>

Settle(w) ==
  /\ worker[w].at \in {"settle", "dying"}
  /\ running' = FALSE
  /\ worker' = WakeWorkers([worker EXCEPT ![w].at =
                              IF @ = "settle" THEN "top" ELSE "final"])
  /\ caller' = WakeCallers
  /\ UNCHANGED <<jobs, thread, handed, done, dropped>>

Mine_Never(w) == FALSE
Mine(w) == thread = w

(* The outer finally: a thread that an error ends hands over to a new one. *)
Leave(w) ==
  /\ worker[w].at = "final"
  /\ \/ ~Mine(w) /\ UNCHANGED thread
        /\ worker' = WakeWorkers([worker EXCEPT ![w] = Ended])
     \/ /\ Mine(w) /\ jobs = <<>> /\ thread' = None
        /\ worker' = WakeWorkers([worker EXCEPT ![w] = Ended])
     \/ /\ Mine(w) /\ jobs # <<>>
        /\ \E v \in Workers :
             /\ Begin(v)
             /\ worker' = WakeWorkers([worker EXCEPT ![w] = Ended, ![v].at = "top"])
  /\ caller' = WakeCallers
  /\ UNCHANGED <<jobs, running, handed, done, dropped>>

(* The start of the new one raises in the finally: no notify_all either.   *)
LeaveRaises(w) ==
  /\ MayNotStart /\ worker[w].at = "final" /\ Mine(w) /\ jobs # <<>>
  /\ \E v \in Workers :
       Begin(v) /\ worker' = [worker EXCEPT ![w] = Ended, ![v].at = "unstarted"]
  /\ UNCHANGED <<jobs, running, caller, handed, done, dropped>>

-----------------------------------------------------------------------------
(* flush and stop.                                                         *)

Flush(c, stop) ==
  /\ caller[c].at = "idle"
  /\ caller' = [caller EXCEPT ![c] =
                  [at |-> "checking", mark |-> handed, stop |-> stop, all |-> FALSE]]
  /\ UNCHANGED <<jobs, running, thread, worker, handed, done, dropped>>

AllDone_NoneWaits == jobs = <<>>
AllDone == jobs = <<>> /\ ~running

(* All done, or the deadline has passed: a stop goes on to clear the jobs. *)
Return(c) ==
  /\ caller[c].at = "checking"
  /\ caller' = [caller EXCEPT ![c].at = IF caller[c].stop THEN "clearing" ELSE "idle",
                              ![c].all = AllDone]
  /\ UNCHANGED <<jobs, running, thread, worker, handed, done, dropped>>

WaitOn(c) ==
  /\ caller[c].at = "checking" /\ ~AllDone
  /\ caller' = [caller EXCEPT ![c].at = "waiting"]
  /\ UNCHANGED <<jobs, running, thread, worker, handed, done, dropped>>

Deadline(c) ==
  /\ caller[c].at = "waiting"
  /\ caller' = [caller EXCEPT ![c].at = "checking"]
  /\ UNCHANGED <<jobs, running, thread, worker, handed, done, dropped>>

Clear(c) ==
  /\ caller[c].at = "clearing"
  /\ dropped' = dropped \cup Range1(jobs)
  /\ jobs' = <<>>
  /\ worker' = WakeWorkers(worker)
  /\ caller' = [WakeCallers EXCEPT ![c].at = "idle"]
  /\ UNCHANGED <<running, thread, handed, done>>

-----------------------------------------------------------------------------
Work(w) ==
  \/ Take(w) \/ Wait(w) \/ Retire(w)
  \/ JobEnds(w) \/ Settle(w) \/ Leave(w) \/ LeaveRaises(w)

Next ==
  \/ Submit \/ SubmitRaises
  \/ \E w \in Workers : Work(w) \/ IdleLongEnough(w)
  \/ \E c \in Callers :
       \/ \E stop \in BOOLEAN : Flush(c, stop)
       \/ Return(c) \/ WaitOn(c) \/ Deadline(c) \/ Clear(c)

Spec == Init /\ [][Next]_vars

(* A runnable thread goes on, and a job ends: httpx has a timeout.  Nobody *)
(* is assumed to hand over a job, to idle out or to reach a deadline.      *)
FairSpec ==
  /\ Spec
  /\ \A w \in Workers : WF_vars(Work(w))
  /\ \A c \in Callers : WF_vars(Return(c) \/ WaitOn(c)) /\ WF_vars(Clear(c))

-----------------------------------------------------------------------------
(* Properties.                                                             *)

AtWork(w) == worker[w].at \in {"job", "settle", "dying"}

(* "At most one worker thread runs at a time": no two of them are between  *)
(* popleft and the reset of _running, and _running says whether one is.    *)
OneAtATime ==
  /\ running <=> \E w \in Workers : AtWork(w)
  /\ \A v, w \in Workers : AtWork(v) /\ AtWork(w) => v = w

(* No job is stranded: while jobs wait, _thread is a worker that will look *)
(* at them again without another hand-over, or that is about to start its  *)
(* successor.  A wake-up that is lost, or a thread that ends while a job   *)
(* comes, would leave the jobs to the next claim of the instance.  A       *)
(* thread whose start() raised does strand them, and stays in _thread.     *)
NoneStranded ==
  jobs # <<>> => /\ thread # None
                 /\ worker[thread].at \notin {"ended", "waiting"}

(* Every job that was handed over waits in its order, runs, ran or was     *)
(* dropped by a stop; none twice.                                          *)
Accounted ==
  /\ \A n \in DOMAIN jobs : jobs[n] = handed - Len(jobs) + n
  /\ done \cup dropped \cup {worker[w].job : w \in {v \in Workers : worker[v].at = "job"}}
       = 1 .. handed - Len(jobs)
  /\ done \cap dropped = {}

(* flush: True means that every job handed over before the call is done,   *)
(* unless a stop dropped it.                                               *)
FlushTellsTrue ==
  \A c \in Callers : caller[c].all => 1 .. caller[c].mark \subseteq done \cup dropped

(* The threads do what the class comment promises. *)
Queue == INSTANCE NotificationQueue
  WITH pending <- jobs,
       sending <- {worker[w].job : w \in {v \in Workers : worker[v].at = "job"}}

(* The threads of _Notifier._work, submit, flush and stop implement the    *)
(* FIFO with one sender that the class comment describes.                  *)
IsNotificationQueue == Queue!Spec

StartRaised == \E w \in Workers : worker[w].at = "unstarted"

(* Every job runs or is dropped, unless a start() raised.                  *)
EveryJobEnds ==
  \A n \in 1 .. MaxJobs : handed >= n ~> n \in done \cup dropped \/ StartRaised

(* A flush without a deadline returns, unless a start() raised.            *)
FlushReturns ==
  \A c \in Callers :
    caller[c].at = "waiting" ~> caller[c].at \in {"idle", "clearing"} \/ StartRaised
=============================================================================
