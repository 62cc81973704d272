---------------------------- MODULE ActivityFeed ----------------------------
(***************************************************************************)
(* The activity feed of an instance: log records in a bounded ring,        *)
(* numbered under a lock, and the event stream by which a browser page     *)
(* follows them.  A stream ends after its lifetime, and the page opens the *)
(* next one with the id of the last event it read.                         *)
(*                                                                         *)
(* A record is its number.  Threads append while the stream is between its *)
(* two looks at the ring: oldest_seq and since() each take the lock.       *)
(***************************************************************************)
EXTENDS Naturals, Sequences, SequencesExt

CONSTANTS
  Capacity,    \* of the ring
  Rounds,      \* polls of the feed within a stream's lifetime
  NoToken,     \* no token
  MaxSeq,      \* bound on the records of one process
  MaxStarts,   \* bound on processes
  MaxDrops     \* bound on lost connections and reloaded pages

ASSUME FeedAssumption ==
  /\ Capacity \in Nat \ {0} /\ Rounds \in Nat \ {0}
  /\ MaxSeq \in Nat /\ MaxStarts \in Nat \ {0} /\ MaxDrops \in Nat
  /\ NoToken \notin Nat

VARIABLES
  server,  \* up, stopping (open responses are waited for) or down
  token,   \* feed_token: the number of the process
  seq,     \* _seq
  stream,  \* the response to the page that is under way
  wire,    \* the events of it that the page has not read
  page,    \* Last-Event-ID, and what the page was shown since it was opened
  drops

feedVars == <<server, token, seq, stream, wire, page, drops>>

-----------------------------------------------------------------------------
(* ActivityFeed: the ring holds the last Capacity records.                 *)
Oldest == IF seq = 0 THEN 0 ELSE IF seq < Capacity THEN 1 ELSE seq - Capacity + 1

(* since: the buffered records behind the n-th, in their order.            *)
Since(n) ==
  LET first == IF Oldest > n THEN Oldest ELSE n + 1
  IN [i \in 1..(seq + 1 - first) |-> first + i - 1]

NoStream == [pc |-> "none", client |-> 0, start |-> 0, round |-> 0, raced |-> 0]
NewPage  == [token |-> NoToken, seq |-> 0, base |-> 0, got |-> 0, told |-> 0, raced |-> 0]

(* An event: its id, how many records it tells were dropped, and how many  *)
(* left the ring between the two looks before it.                          *)
Event(n, told, raced) == [seq |-> n, told |-> told, raced |-> raced]

FeedTypeOK ==
  /\ server \in {"up", "stopping", "down"}
  /\ token \in 1..MaxStarts /\ seq \in 0..MaxSeq
  /\ stream \in [pc : {"none", "look", "read", "pause"}, client : 0..MaxSeq,
                 start : 0..MaxSeq, round : 0..Rounds, raced : 0..MaxSeq]
  /\ wire \in Seq([seq : 0..MaxSeq, told : 0..MaxSeq, raced : 0..MaxSeq])
  /\ page \in [token : (1..MaxStarts) \cup {NoToken}, seq : 0..MaxSeq, base : 0..MaxSeq,
               got : 0..MaxSeq, told : 0..MaxSeq, raced : 0..MaxSeq]
  /\ drops \in 0..MaxDrops

FeedInit ==
  /\ server = "up" /\ token = 1 /\ seq = 0
  /\ stream = NoStream /\ wire = <<>> /\ page = NewPage
  /\ drops = 0

(* append: a record that is evicted between the two looks is no longer     *)
(* found by the second, and was still there at the first.                  *)
Appended ==
  /\ server # "down" /\ seq < MaxSeq
  /\ seq' = seq + 1
  /\ stream' = IF stream.pc = "read" /\ Oldest' > Oldest /\ Oldest > stream.client
               THEN [stream EXCEPT !.raced = @ + 1] ELSE stream
  /\ UNCHANGED <<server, token, wire, page, drops>>

-----------------------------------------------------------------------------
(* get_activity_stream                                                     *)

(* Where a stream starts: behind the event that the page read last, if it  *)
(* is of this feed, and else with everything that is buffered.             *)
Fresh == IF Oldest = 0 THEN 0 ELSE Oldest - 1
Resume_AnyToken == IF page.token # NoToken THEN page.seq ELSE Fresh
Resume_Never    == Fresh
Resume == IF page.token = token THEN page.seq ELSE Fresh

Open ==
  /\ server = "up" /\ stream.pc = "none" /\ wire = <<>>
  /\ stream' = [NoStream EXCEPT !.pc = "look", !.client = Resume, !.start = Resume]
  /\ UNCHANGED <<server, token, seq, wire, page, drops>>

(* What left the ring before the page was handed it.                       *)
Missed_OffByOne == IF Oldest > stream.client + 2 THEN Oldest - stream.client - 1 ELSE 0
Missed == IF Oldest > stream.client + 1 THEN Oldest - stream.client - 1 ELSE 0

(* The first look: the loss is told in an event of its own.                *)
Look ==
  /\ stream.pc = "look"
  /\ IF Missed > 0
     THEN /\ wire' = Append(wire, Event(Oldest - 1, Missed, 0))
          /\ stream' = [stream EXCEPT !.pc = "read", !.client = Oldest - 1]
     ELSE /\ stream' = [stream EXCEPT !.pc = "read"]
          /\ UNCHANGED wire
  /\ UNCHANGED <<server, token, seq, page, drops>>

(* The second look: every record behind the last one that was sent.        *)
Read ==
  /\ stream.pc = "read"
  /\ LET records == Since(stream.client)
         raced(i) == IF i = 1 THEN stream.raced ELSE 0
     IN /\ wire' = wire \o [i \in DOMAIN records |-> Event(records[i], 0, raced(i))]
        /\ stream' = [stream EXCEPT !.pc = "pause", !.raced = 0,
                        !.client = IF records = <<>> THEN @ ELSE Last(records)]
  /\ UNCHANGED <<server, token, seq, page, drops>>

(* The end of the lifetime, or the next poll.                              *)
Ended_Never == FALSE
Ended == stream.round + 1 = Rounds

Pause ==
  /\ stream.pc = "pause"
  /\ stream' = IF Ended THEN [NoStream EXCEPT !.start = stream.start]
               ELSE [stream EXCEPT !.pc = "look", !.round = IF @ + 1 < Rounds THEN @ + 1 ELSE @]
  /\ UNCHANGED <<server, token, seq, wire, page, drops>>

-----------------------------------------------------------------------------
(* The page and the network.                                               *)

(* The browser shows an event and keeps its id; the first event of another *)
(* feed starts a new account.                                              *)
Deliver ==
  /\ wire # <<>>
  /\ LET e    == Head(wire)
         seen == IF page.token = token THEN page
                 ELSE [NewPage EXCEPT !.token = token, !.base = stream.start]
     IN page' = [seen EXCEPT !.seq = e.seq, !.told = @ + e.told, !.raced = @ + e.raced,
                             !.got = IF e.told = 0 THEN @ + 1 ELSE @]
  /\ wire' = Tail(wire)
  /\ UNCHANGED <<server, token, seq, stream, drops>>

(* A lost connection takes the events that were under way with it; a       *)
(* reloaded page is a new one.                                             *)
Disconnect ==
  /\ stream.pc # "none" /\ drops < MaxDrops /\ drops' = drops + 1
  /\ stream' = NoStream /\ wire' = <<>>
  /\ page' \in {page, NewPage}
  /\ UNCHANGED <<server, token, seq>>

-----------------------------------------------------------------------------
(* The server's process.                                                   *)

Stop ==
  /\ server = "up" /\ token < MaxStarts
  /\ server' = "stopping"
  /\ UNCHANGED <<token, seq, stream, wire, page, drops>>

(* The lifespan ends, and the instance deregisters, once every open        *)
(* response is over.                                                       *)
Stopped ==
  /\ server = "stopping" /\ stream.pc = "none"
  /\ server' = "down" /\ seq' = 0
  /\ UNCHANGED <<token, stream, wire, page, drops>>

Crash ==
  /\ server = "up" /\ token < MaxStarts
  /\ server' = "down" /\ seq' = 0
  /\ stream' = NoStream /\ wire' = <<>>
  /\ UNCHANGED <<token, page, drops>>

(* A new process on the same address numbers its records from 1 again.     *)
Start ==
  /\ server = "down" /\ wire = <<>>
  /\ server' = "up" /\ token' = token + 1
  /\ UNCHANGED <<seq, stream, wire, page, drops>>

(* What goes on by itself: the server runs its stream, the network         *)
(* delivers, the browser opens the next stream, and a process that ended   *)
(* is started again.                                                       *)
FeedStep == Open \/ Look \/ Read \/ Pause \/ Deliver \/ Stopped \/ Start

-----------------------------------------------------------------------------
(* "A client loses nothing and receives nothing twice": what a page is     *)
(* shown of one feed has ever higher numbers, over streams that end, lost  *)
(* connections and events lost with them.                                  *)
NothingTwice ==
  [][page'.token = page.token /\ page' # page => page'.seq > page.seq]_feedVars

(* "Nothing is lost or repeated", and what the ring dropped is reported:   *)
(* up to the last event it read, a page was shown every record or told how *)
(* many it missed.  The stream looks at the ring twice, so this fails.     *)
LossIsTold == page.token # NoToken => page.seq = page.base + page.got + page.told

(* What a page is neither shown nor told of has left the ring between the  *)
(* two looks of one poll, and nothing else has: over streams that end,     *)
(* lost connections, reloads, crashes and restarts the account is exact.   *)
UntoldWasRaced ==
  page.token # NoToken => page.seq = page.base + page.got + page.told + page.raced

(* A page that stays open is brought up to the newest record, also of a    *)
(* process that restarted behind it.                                       *)
CatchesUp == []<>(seq = 0 \/ (page.token = token /\ page.seq = seq))

(* An open page never keeps a stopping server from its deregistration.     *)
StopEnds == server = "stopping" ~> server = "down"
=============================================================================
