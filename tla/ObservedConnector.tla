-------------------------- MODULE ObservedConnector --------------------------
(***************************************************************************)
(* A connector that an instance wired, behind the wrapper that observes    *)
(* it: the framework connects it, runs its receive loop and its writes,    *)
(* and ends them; the formatter puts every change of the value on the log, *)
(* which the activity feed of ActivityFeed.tla shows.                      *)
(*                                                                         *)
(* A step is what the event loop does between two awaits.  Times are left  *)
(* out: a stamp is whether there is one.                                   *)
(***************************************************************************)
EXTENDS ActivityFeed

CONSTANTS
  Kinds,      \* "mqtt" and "rest"
  Values,     \* what a peer or a device may send
  Unset       \* no value yet

ASSUME ConnectorAssumption == Unset \notin Values

VARIABLES
  kind,       \* which connector this is
  life,       \* the framework's use of it: never, connecting, connected, failed, closing, closed
  receiving,  \* the receive loop: off, waiting, or the value that it yielded
  sending,    \* a consume() is under way
  polled,     \* last_value of a REST receive loop
  formatted,  \* _last_value of the formatter
  seen        \* the observation: connected, stamps, error

connVars == <<kind, life, receiving, sending, polled, formatted, seen>>
observedVars     == <<feedVars, connVars>>

Unseen == [connected |-> "unknown", stamps |-> {}, error |-> FALSE]

ObservedTypeOK ==
  /\ FeedTypeOK
  /\ kind \in Kinds
  /\ life \in {"never", "connecting", "connected", "failed", "closing", "closed"}
  /\ receiving.pc \in {"off", "waiting", "yielded"} /\ receiving.value \in Values \cup {Unset}
  /\ sending \in BOOLEAN
  /\ {polled, formatted} \subseteq Values \cup {Unset}
  /\ seen \in [connected : {"unknown", "yes", "no"}, stamps : SUBSET {"receive", "consume"},
               error : BOOLEAN]

Off     == [pc |-> "off", value |-> Unset]
Waiting == [pc |-> "waiting", value |-> Unset]

ObservedInit ==
  /\ FeedInit
  /\ kind \in Kinds
  /\ life = "never" /\ receiving = Off /\ sending = FALSE
  /\ polled = Unset /\ formatted = Unset
  /\ seen = Unseen

-----------------------------------------------------------------------------
(* What the wrapper records.                                               *)

Stamp(leg)       == seen' = [seen EXCEPT !.stamps = @ \cup {leg}]
Failed           == seen' = [seen EXCEPT !.error = TRUE]
FailedToConnect  == seen' = [seen EXCEPT !.error = TRUE, !.connected = "no"]
Connected(state) == seen' = [seen EXCEPT !.connected = state]

(* _is_a_change, and the record of it in the log.                          *)
Change(v, previous) == v # previous
Logged(v) == IF Change(v, formatted) THEN Appended ELSE UNCHANGED feedVars

-----------------------------------------------------------------------------
(* connect() and disconnect() of the lifespan.                             *)

BeginConnect ==
  /\ server = "up" /\ life = "never"
  /\ life' = "connecting"
  /\ UNCHANGED <<feedVars, kind, receiving, sending, polled, formatted, seen>>

ConnectReturns ==
  /\ life = "connecting"
  /\ life' = "connected" /\ receiving' = Waiting
  /\ Connected("yes")
  /\ UNCHANGED <<feedVars, kind, sending, polled, formatted>>

ConnectRaises ==
  /\ life = "connecting"
  /\ life' = "failed"
  /\ FailedToConnect
  /\ UNCHANGED <<feedVars, kind, receiving, sending, polled, formatted>>

(* Once every open response is over, the tasks of the receive loop and of  *)
(* a write are cancelled, which is no error.                               *)
BeginDisconnect ==
  /\ server = "stopping" /\ stream.pc = "none" /\ life \in {"connecting", "connected"}
  /\ life' = "closing" /\ receiving' = Off /\ sending' = FALSE
  /\ UNCHANGED <<feedVars, kind, polled, formatted, seen>>

DisconnectReturns ==
  /\ life = "closing"
  /\ life' = "closed"
  /\ Connected("no")
  /\ UNCHANGED <<feedVars, kind, receiving, sending, polled, formatted>>

DisconnectRaises ==
  /\ life = "closing"
  /\ life' = "closed"
  /\ Failed
  /\ UNCHANGED <<feedVars, kind, receiving, sending, polled, formatted>>

-----------------------------------------------------------------------------
(* The receive loop.                                                       *)

Yield_BeforeStamp(v) == receiving' = [pc |-> "yielded", value |-> v] /\ UNCHANGED seen
Yield(v) == receiving' = [pc |-> "yielded", value |-> v] /\ Stamp("receive")

(* A message of the device, whatever it says.                              *)
Message(v) ==
  /\ kind = "mqtt" /\ receiving = Waiting
  /\ Yield(v)
  /\ UNCHANGED <<feedVars, kind, life, sending, polled, formatted>>

(* A poll of the peer: only a value that changed is yielded.               *)
Poll(v) ==
  /\ kind = "rest" /\ receiving = Waiting
  /\ Change(v, polled)
  /\ polled' = v
  /\ Yield(v)
  /\ UNCHANGED <<feedVars, kind, life, sending, formatted>>

(* A poll that fails is logged by the loop, which goes on; the wrapper     *)
(* does not see it.                                                        *)
PollFails ==
  /\ kind = "rest" /\ receiving = Waiting
  /\ Appended
  /\ UNCHANGED connVars

(* deserialize: the framework takes the value, and a change is logged.     *)
Deserialize ==
  /\ receiving.pc = "yielded"
  /\ Logged(receiving.value)
  /\ formatted' = receiving.value
  /\ receiving' = Waiting
  /\ UNCHANGED <<kind, life, sending, polled, seen>>

(* The loop ends with an error, which the wrapper records.                 *)
ReceiveRaises ==
  /\ kind = "mqtt" /\ receiving = Waiting
  /\ receiving' = Off
  /\ Failed
  /\ UNCHANGED <<feedVars, kind, life, sending, polled, formatted>>

-----------------------------------------------------------------------------
(* A write: serialize logs what is sent, received before or not.           *)

BeginConsume ==
  /\ kind = "mqtt" /\ life = "connected" /\ ~sending
  /\ Appended
  /\ sending' = TRUE
  /\ UNCHANGED <<kind, life, receiving, polled, formatted, seen>>

ConsumeReturns ==
  /\ sending
  /\ sending' = FALSE /\ Stamp("consume")
  /\ UNCHANGED <<feedVars, kind, life, receiving, polled, formatted>>

ConsumeRaises ==
  /\ sending
  /\ sending' = FALSE /\ Failed
  /\ UNCHANGED <<feedVars, kind, life, receiving, polled, formatted>>

(* Before anything is sent or logged, a REST connector refuses every write *)
(* and an MQTT one a write of no value.                                    *)
RefuseConsume ==
  /\ life = "connected" /\ ~sending
  /\ Failed
  /\ UNCHANGED <<feedVars, kind, life, receiving, sending, polled, formatted>>

-----------------------------------------------------------------------------
(* The feed goes on beside it; a process that is down has no connector.    *)

Quiet == life \in {"never", "failed", "closed"}

FeedAlone ==
  /\ Open \/ Look \/ Read \/ Pause \/ Deliver \/ Disconnect \/ Stop \/ Start
  /\ UNCHANGED connVars

(* "The records live as long as the process. A restart empties them."      *)
ProcessEnds ==
  /\ Crash \/ (Stopped /\ Quiet)
  /\ life' = "never" /\ receiving' = Off /\ sending' = FALSE
  /\ polled' = Unset /\ formatted' = Unset /\ seen' = Unseen
  /\ UNCHANGED kind

Lifespan ==
  \/ BeginConnect \/ ConnectReturns \/ ConnectRaises
  \/ BeginDisconnect \/ DisconnectReturns \/ DisconnectRaises

ConnectorStep == Lifespan \/ Deserialize \/ ConsumeReturns \/ ConsumeRaises

Environment ==
  \/ PollFails \/ ReceiveRaises \/ BeginConsume \/ RefuseConsume
  \/ \E v \in Values : Message(v) \/ Poll(v)

ObservedNext == FeedAlone \/ ProcessEnds \/ ConnectorStep \/ Environment

(* The feed's steps go on, and a stream's also while others keep the       *)
(* network busy; a connect and a disconnect of the transport return or     *)
(* raise.                                                                  *)
ObservedFairness ==
  /\ WF_observedVars(FeedStep /\ (FeedAlone \/ ProcessEnds))
  /\ WF_observedVars((Look \/ Read \/ Pause) /\ FeedAlone)
  /\ WF_observedVars(Lifespan)

ObservedSpec == ObservedInit /\ [][ObservedNext]_observedVars /\ ObservedFairness

-----------------------------------------------------------------------------
(* What connections shows of it.                                           *)
Record == [connected    |-> seen.connected,
           last_receive |-> "receive" \in seen.stamps,
           last_consume |-> "consume" \in seen.stamps,
           last_error   |-> seen.error]

(* The framework never works with a received value, and the log never      *)
(* shows one, that the connection's record does not tell of: the wrapper   *)
(* stamps a receive before it yields.  What is sent is logged before       *)
(* consume's stamp, which comes when the write has returned.               *)
ShownIsStamped == formatted # Unset => Record.last_receive
=============================================================================
