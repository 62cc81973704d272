---------------------------- MODULE ConnectorProofs ----------------------------
(***************************************************************************)
(* Proofs about the wiring of an instance, for any ontology, graph and     *)
(* installation, and about a connector that is observed and the activity   *)
(* feed that shows it, for any ring, values and bounds.                    *)
(***************************************************************************)
EXTENDS Wiring, ObservedConnector, SequenceTheorems, TLAPS

USE WiringAssumption DEF WiringAssumption

-----------------------------------------------------------------------------
(* The transport hook.                                                     *)

(* The brokers that the hook was called with are a sequence of something.  *)
CalledIsSeq == \E S : called \in Seq(S)

LEMMA AppendKeepsInjective ==
  ASSUME NEW S, NEW s \in Seq(S), NEW e, IsInjective(s), e \notin Range(s)
  PROVE  /\ IsInjective(Append(s, e))
         /\ Range(Append(s, e)) = Range(s) \cup {e}
         /\ Append(s, e) \in Seq(S \cup {e})
<1>1. s \in Seq(S \cup {e})
  BY SMT
<1>2. /\ Len(Append(s, e)) = Len(s) + 1
      /\ \A i \in 1..Len(s) : Append(s, e)[i] = s[i]
      /\ Append(s, e)[Len(s) + 1] = e
      /\ Append(s, e) \in Seq(S \cup {e})
  BY <1>1
<1>3. DOMAIN Append(s, e) = 1..(Len(s) + 1) /\ DOMAIN s = 1..Len(s) /\ Len(s) \in Nat
  BY <1>1, <1>2
<1>4. IsInjective(Append(s, e))
  BY <1>2, <1>3 DEF IsInjective, Range
<1>5. Range(Append(s, e)) = Range(s) \cup {e}
  BY <1>2, <1>3 DEF Range
<1> QED BY <1>2, <1>4, <1>5

LEMMA EnsureKeeps ==
  ASSUME CalledIsSeq, IsInjective(called), NEW target, Ensure(target)
  PROVE  /\ CalledIsSeq' /\ IsInjective(called')
         /\ Range(called) \subseteq Range(called')
         /\ install.hook => target \in Range(called')
<1>1. CASE called' = called /\ (install.hook => target \in Range(called))
  BY <1>1 DEF CalledIsSeq, IsInjective, Range
<1>2. CASE target \notin Range(called) /\ called' = Append(called, target)
  <2>1. PICK S : called \in Seq(S)
    BY DEF CalledIsSeq
  <2>2. /\ IsInjective(Append(called, target))
        /\ Range(Append(called, target)) = Range(called) \cup {target}
        /\ Append(called, target) \in Seq(S \cup {target})
    BY <1>2, <2>1, AppendKeepsInjective
  <2> QED BY <1>2, <2>2 DEF CalledIsSeq
<1> QED BY <1>1, <1>2 DEF Ensure

(* What the hook was called with is what the connectors of MQTT need. *)
HookCalled ==
  \A b \in building : b.by = "mqtt" /\ (install.hook => Broker(b) \in Range(called))

TransportsUp == CalledIsSeq /\ TransportFirst /\ HookCalled

LEMMA TransportsInit == Init => TransportsUp
<1> SUFFICES ASSUME Init PROVE TransportsUp
  OBVIOUS
<1>1. called = <<>> /\ connectors = {} /\ building = {}
  BY DEF Init
<1>2. called \in Seq({}) /\ DOMAIN called = {}
  BY <1>1
<1> QED BY <1>1, <1>2 DEF TransportsUp, CalledIsSeq, TransportFirst, IsInjective, HookCalled

(* The broker of a binding follows from what was read of it alone.         *)
LEMMA CallsKept ==
  ASSUME HookCalled, UNCHANGED <<building, install>>, Range(called) \subseteq Range(called')
  PROVE  HookCalled'
BY DEF HookCalled, Broker, Value

LEMMA TransportsStep == TransportsUp /\ [Next]_vars => TransportsUp'
<1> SUFFICES ASSUME TransportsUp, [Next]_vars PROVE TransportsUp'
  OBVIOUS
<1> USE DEF TransportsUp
<1>1. CASE UNCHANGED <<called, connectors, building, install>>
  BY <1>1, CallsKept DEF CalledIsSeq, TransportFirst, IsInjective, Range
<1>2. ASSUME NEW b \in bindings, EnsureTransport(b) PROVE TransportsUp'
  <2>1. CASE ~Complete(b)
    BY <1>1, <1>2, <2>1 DEF EnsureTransport, given
  <2>2. CASE Complete(b)
    <3>1. /\ CalledIsSeq' /\ IsInjective(called')
          /\ Range(called) \subseteq Range(called')
          /\ install.hook => Broker(b) \in Range(called')
      BY <1>2, <2>2, EnsureKeeps DEF EnsureTransport, TransportFirst
    <3>2. /\ connectors' = connectors /\ install' = install
          /\ b.by = "mqtt" /\ building' = {b}
      BY <1>2, <2>2 DEF EnsureTransport, given
    <3>3. HookCalled'
      BY <3>1, <3>2 DEF HookCalled, Broker, Value
    <3> QED BY <3>1, <3>2, <3>3 DEF TransportFirst
  <2> QED BY <2>1, <2>2
<1>3. ASSUME NEW b \in bindings, HookRaises(b) PROVE TransportsUp'
  <2>1. Ensure(Broker(b))
    BY <1>3 DEF HookRaises, Ensure
  <2>2. /\ CalledIsSeq' /\ IsInjective(called') /\ Range(called) \subseteq Range(called')
    BY <2>1, EnsureKeeps DEF TransportFirst
  <2>3. UNCHANGED <<connectors, building, install>>
    BY <1>3 DEF HookRaises, given
  <2> QED BY <2>2, <2>3, CallsKept DEF TransportFirst
<1>4. ASSUME NEW b \in bindings, BuildREST(b) PROVE TransportsUp'
  <2>1. UNCHANGED <<called, building, install>>
    BY <1>4 DEF BuildREST, given
  <2>2. ASSUME NEW c \in connectors', c.binding.by = "mqtt" PROVE c \in connectors
    BY <1>4, <2>2 DEF BuildREST, Connector, InterfaceRoot
  <2>3. HookCalled'
    BY <2>1, CallsKept
  <2> QED BY <2>1, <2>2, <2>3 DEF TransportFirst, CalledIsSeq, IsInjective, Range
<1>9. ASSUME NEW b \in bindings, BuildMQTT(b) PROVE TransportsUp'
  <2>1. /\ connectors' = connectors \cup {Connector(b, leg, Broker(b)) : leg \in Legs(b)}
        /\ b \in building /\ building' = {} /\ UNCHANGED <<called, install>>
    BY <1>9 DEF BuildMQTT, given
  <2>2. ASSUME NEW c \in connectors', c.binding.by = "mqtt", install.hook
        PROVE  c.target \in Range(called)
    <3>1. CASE c \in connectors
      BY <2>2, <3>1 DEF TransportFirst
    <3>2. CASE c.target = Broker(b)
      BY <2>1, <2>2, <3>2 DEF HookCalled
    <3> QED BY <2>1, <2>2, <3>1, <3>2 DEF Connector
  <2>3. HookCalled'
    BY <2>1 DEF HookCalled
  <2> QED BY <2>1, <2>2, <2>3 DEF TransportFirst, CalledIsSeq, IsInjective, Range
<1>5. CASE UNCHANGED vars
  BY <1>1, <1>5 DEF vars, given
<1>6. CASE AddressChanges \/ Project \/ RefuseProjection \/ Recognise \/ Built
             \/ Connect \/ Load \/ LoadFails
  BY <1>1, <1>6 DEF AddressChanges, Project, RefuseProjection, Recognise, Built, Connect, Load,
     LoadFails, given
<1>7. ASSUME NEW b \in bindings, RefuseREST(b) \/ BuildOther(b) PROVE TransportsUp'
  BY <1>1, <1>7 DEF RefuseREST, BuildOther, given
<1>8. ASSUME NEW c \in connectors, Receive(c) PROVE TransportsUp'
  BY <1>1, <1>8 DEF Receive, given
<1> QED BY <1>2, <1>3, <1>4, <1>5, <1>6, <1>7, <1>8, <1>9 DEF Next

(* The hook of _dedupe_by_address is called once per (host, port), and     *)
(* before any connector of that address is built, however many parameters  *)
(* share a broker and wherever the construction fails.                     *)
THEOREM TransportIsFirst == Spec => []TransportFirst
<1>1. TransportsUp => TransportFirst
  BY DEF TransportsUp
<1> QED BY <1>1, TransportsInit, TransportsStep, PTL DEF Spec

-----------------------------------------------------------------------------
(* What is served, and where.                                              *)

(* The places of the bindings are places of the spec, and after the load   *)
(* each of them that a way reaches is mounted.                             *)
BoundPlaces == \A b \in bindings : ParameterPath(b) \in Occurrences
LoadMounts  == phase = "serving" => Mounted \subseteq routes

(* What the projection hides stays what the ontology declares.             *)
Pruned ==
  phase \in {"recognise", "build", "ensured", "wired", "connected", "serving"}
    => \A p \in Params : hidden[p] = Southbound(p)

ServingInv == BoundPlaces /\ LoadMounts /\ Pruned

LEMMA ServingInit == Init => ServingInv
BY DEF Init, ServingInv, BoundPlaces, LoadMounts, Pruned

(* The places follow from the graph alone.                                 *)
LEMMA SamePlaces ==
  ASSUME UNCHANGED graph PROVE Occurrences' = Occurrences
<1>1. Walks' = Walks
  BY DEF Walks
<1> QED BY <1>1 DEF Occurrences

LEMMA SameBindings ==
  ASSUME BoundPlaces, UNCHANGED <<graph, bindings>> PROVE BoundPlaces'
BY SamePlaces DEF BoundPlaces, ParameterPath

LEMMA ServingStep == ServingInv /\ [Next]_vars => ServingInv'
<1> SUFFICES ASSUME ServingInv, [Next]_vars PROVE ServingInv'
  OBVIOUS
<1> USE DEF ServingInv
<1>1. ASSUME UNCHANGED <<given, hidden, bindings, routes>>,
             phase' # "serving" \/ phase' = phase,
             phase' \in {"raised", "bare"} \/ phase = phase' \/ phase \in {"build", "ensured", "wired"}
      PROVE  ServingInv'
  <2>1. BoundPlaces'
    BY <1>1, SameBindings DEF given
  <2>2. LoadMounts'
    <3>1. Mounted' = Mounted
      BY <1>1, SamePlaces DEF Mounted, given
    <3> QED BY <1>1, <3>1 DEF LoadMounts
  <2>3. Pruned'
    BY <1>1 DEF Pruned, Southbound, Declared, ProtocolMarkers, given
  <2> QED BY <2>1, <2>2, <2>3
<1>2. CASE Project
  <2>1. bindings' = bindings /\ ontology' = ontology /\ graph' = graph
    BY <1>2 DEF Project, given
  <2>2. BoundPlaces'
    BY <2>1, SameBindings
  <2>3. phase' = "recognise" /\ hidden' = [p \in Params |-> Southbound(p)]
    BY <1>2 DEF Project
  <2> QED
    BY <2>1, <2>2, <2>3 DEF LoadMounts, Pruned, Southbound, Declared, ProtocolMarkers
<1>3. CASE Recognise
  <2>1. hidden' = hidden /\ ontology' = ontology /\ graph' = graph /\ phase = "recognise"
    BY <1>3 DEF Recognise, given
  <2>2. ASSUME NEW b \in bindings' PROVE ParameterPath(b) \in Occurrences
    <3>1. PICK x \in Parameters : b.walk = x.walk /\ b.param = x.param
      BY <1>3 DEF Recognise
    <3> QED BY <3>1 DEF Parameters, Occurrences, ParameterPath
  <2>3. BoundPlaces'
    <3> QED BY <2>1, <2>2, SamePlaces DEF BoundPlaces, ParameterPath
  <2>4. phase' \in {"build", "wired"}
    BY <1>3 DEF Recognise
  <2> QED
    BY <2>1, <2>3, <2>4 DEF LoadMounts, Pruned, Southbound, Declared, ProtocolMarkers
<1>4. CASE Load
  <2>1. /\ hidden' = hidden /\ ontology' = ontology /\ graph' = graph /\ bindings' = bindings
        /\ phase = "connected" /\ phase' = "serving" /\ routes' = Mounted
    BY <1>4 DEF Load, given
  <2>2. BoundPlaces'
    BY <2>1, SameBindings
  <2>3. LoadMounts'
    <3>1. Mounted' = Mounted
      BY <2>1, SamePlaces DEF Mounted
    <3> QED BY <2>1, <3>1 DEF LoadMounts
  <2> QED
    BY <2>1, <2>2, <2>3 DEF Pruned, Southbound, Declared, ProtocolMarkers
<1>5. CASE AddressChanges \/ RefuseProjection \/ Built \/ LoadFails
  BY <1>1, <1>5 DEF AddressChanges, RefuseProjection, Built, LoadFails, given
<1>6. CASE Connect
  <2>1. /\ hidden' = hidden /\ ontology' = ontology /\ graph' = graph /\ bindings' = bindings
        /\ phase = "wired" /\ phase' = "connected"
    BY <1>6 DEF Connect, given
  <2>2. BoundPlaces'
    BY <2>1, SameBindings
  <2> QED
    BY <2>1, <2>2 DEF LoadMounts, Pruned, Southbound, Declared, ProtocolMarkers
<1>7. ASSUME NEW b \in bindings,
             \/ EnsureTransport(b) \/ HookRaises(b) \/ BuildMQTT(b)
             \/ BuildREST(b) \/ RefuseREST(b) \/ BuildOther(b)
      PROVE  ServingInv'
  BY <1>1, <1>7 DEF EnsureTransport, BuildMQTT, HookRaises, BuildREST, RefuseREST, BuildOther, given
<1>8. ASSUME NEW c \in connectors, Receive(c) PROVE ServingInv'
  BY <1>1, <1>8 DEF Receive, given
<1>9. CASE UNCHANGED vars
  BY <1>1, <1>9 DEF vars, given
<1> QED BY <1>2, <1>3, <1>4, <1>5, <1>6, <1>7, <1>8, <1>9 DEF Next

(* Every path that recognition derives of a way without a cycle is one     *)
(* that _accumulate_routes mounts, whatever the graph and the spec.        *)
THEOREM PathsAreMounted == Spec => []PathsMeet
<1>1. ServingInv => PathsMeet
  BY DEF ServingInv, BoundPlaces, LoadMounts, PathsMeet, Mounted, ParameterPath
<1> QED BY <1>1, ServingInit, ServingStep, PTL DEF Spec

(* prune_southbound goes by the ontology alone: where the datamodel        *)
(* declares a parameter, no field of any protocol of it is served, for     *)
(* every registry, binding and received value.  A parameter must not be an *)
(* interface property itself.                                              *)
THEOREM ServedIsNorthbound ==
  ASSUME Params \cap Markers = {}
  PROVE  Spec => []NothingSouthboundServed
<1>1. ServingInv => NothingSouthboundServed
  <2> SUFFICES ASSUME ServingInv, phase = "serving", NEW x \in Parameters,
                      NEW m \in ontology.above[x.param] \cap Markers,
                      NEW f \in Served(x) \cap ontology.declares[m]
               PROVE  FALSE
    BY DEF NothingSouthboundServed
  <2>1. x.param \in Params /\ Typed(x)
    BY DEF Parameters, Occurrences, Typed
  <2>2. m \in ProtocolMarkers(x.param)
    BY <2>1 DEF ProtocolMarkers
  <2>3. f \in hidden[x.param]
    BY <2>1, <2>2 DEF ServingInv, Pruned, Southbound, Declared
  <2> QED BY <2>1, <2>3 DEF Served, Northbound
<1> QED BY <1>1, ServingInit, ServingStep, PTL DEF Spec

-----------------------------------------------------------------------------
(* The types of the wiring.                                                *)

(* Nothing is built before the bindings are recognised, so that what is    *)
(* registered is of one of them.                                           *)
RegisteredAfter == phase \in {"spec", "recognise"} => connectors = {} /\ building = {}

WiringType ==
  /\ TypeOK /\ RegisteredAfter
  /\ DOMAIN hidden = Params /\ DOMAIN held = Individuals \X Params

LEMMA ShapeHolds ==
  ASSUME NEW p
  PROVE  Southbound(p) \subseteq Shape(p) /\ Northbound(p) \subseteq Shape(p) /\ "value" \in Shape(p)
BY DEF Southbound, Shape, Northbound

LEMMA SameParameters ==
  ASSUME UNCHANGED given
  PROVE  /\ Parameters' = Parameters /\ Occurrences' = Occurrences
         /\ \A p : Shape(p)' = Shape(p)
<1>1. Occurrences' = Occurrences
  BY SamePlaces DEF given
<1>2. Parameters' = Parameters
  BY <1>1 DEF Parameters
<1>3. \A p : Shape(p)' = Shape(p)
  BY DEF given, Shape, Declared, ProtocolMarkers
<1> QED BY <1>1, <1>2, <1>3

LEMMA WiringTypeInit == Init => WiringType
BY DEF Init, WiringType, TypeOK, RegisteredAfter, Phases

(* What a step builds is of a binding and has one of the two legs.         *)
LEMMA BuiltIsBound ==
  ASSUME WiringType, NEW b \in bindings, BuildMQTT(b) \/ BuildREST(b), NEW c \in connectors'
  PROVE  c.binding \in bindings /\ c.leg \in {"read", "write"}
<1>1. CASE c \in connectors
  BY <1>1 DEF WiringType, TypeOK
<1>2. ASSUME NEW leg \in Legs(b), NEW target, c = Connector(b, leg, target)
      PROVE  c.binding \in bindings /\ c.leg \in {"read", "write"}
  BY <1>2 DEF Connector, Legs
<1>3. ASSUME NEW target, c = Connector(b, "read", target)
      PROVE  c.binding \in bindings /\ c.leg \in {"read", "write"}
  BY <1>3 DEF Connector
<1> QED BY <1>1, <1>2, <1>3 DEF BuildMQTT, BuildREST

LEMMA WiringTypeStep == WiringType /\ [Next]_vars => WiringType'
<1> SUFFICES ASSUME WiringType, [Next]_vars PROVE WiringType'
  OBVIOUS
<1>0. TypeOK /\ RegisteredAfter /\ DOMAIN hidden = Params /\ DOMAIN held = Individuals \X Params
  BY DEF WiringType
<1>1. ASSUME UNCHANGED <<given, hidden, bindings, connectors, routes, held>>, phase' \in Phases,
             building' = building \/ (building' \subseteq bindings /\ phase' = "ensured"),
             phase' \in {"spec", "recognise"} => phase \in {"spec", "recognise"},
             {address', looked'} \subseteq Addresses \cup {None}, moves' \in 0..MaxMoves
      PROVE  WiringType'
  <2>1. ontology' \in Ontologies /\ graph' \in Graphs /\ install' \in Installs
    BY <1>0, <1>1 DEF TypeOK, given
  <2>2. \A p \in DOMAIN hidden' : hidden'[p] \subseteq Shape(p)'
    BY <1>0, <1>1, SameParameters DEF TypeOK
  <2>3. {ParameterPath(b) : b \in bindings'} \subseteq Parameters'
    BY <1>0, <1>1, SameParameters DEF TypeOK
  <2>4. routes' \subseteq Occurrences' /\ \A x \in Individuals \X Params : held'[x] \subseteq Shape(x[2])'
    BY <1>0, <1>1, SameParameters DEF TypeOK
  <2>5. \A c \in connectors' : c.binding \in bindings' /\ c.leg \in {"read", "write"}
    BY <1>0, <1>1 DEF TypeOK
  <2>6. RegisteredAfter' /\ DOMAIN hidden' = Params /\ DOMAIN held' = Individuals \X Params
    BY <1>0, <1>1 DEF RegisteredAfter
  <2>7. building' \subseteq bindings'
    BY <1>0, <1>1 DEF TypeOK
  <2>8. TypeOK'
    BY <1>1, <2>1, <2>2, <2>3, <2>4, <2>5, <2>7 DEF TypeOK, ParameterPath
  <2> QED BY <2>6, <2>8 DEF WiringType
<1>2. CASE AddressChanges \/ RefuseProjection \/ Built \/ Connect \/ LoadFails
  BY <1>0, <1>1, <1>2 DEF AddressChanges, RefuseProjection, Built, Connect, LoadFails, TypeOK, Phases
<1>3. ASSUME NEW b \in bindings,
             EnsureTransport(b) \/ HookRaises(b) \/ RefuseREST(b) \/ BuildOther(b)
      PROVE  WiringType'
  BY <1>0, <1>1, <1>3 DEF EnsureTransport, HookRaises, RefuseREST, BuildOther, TypeOK, Phases
<1>4. CASE Project
  <2>1. UNCHANGED <<given, building, bindings, connectors, routes, held>> /\ moves' = moves
    BY <1>4 DEF Project
  <2>2. \A p \in DOMAIN hidden' : hidden'[p] \subseteq Shape(p)'
    BY <1>4, <2>1, SameParameters, ShapeHolds DEF Project
  <2>3. routes' \subseteq Occurrences' /\ \A x \in Individuals \X Params : held'[x] \subseteq Shape(x[2])'
    BY <1>0, <2>1, SameParameters DEF TypeOK
  <2>4. {ParameterPath(b) : b \in bindings'} \subseteq Parameters'
    BY <1>0, <2>1, SameParameters DEF TypeOK
  <2>5. phase' = "recognise" /\ phase = "spec" /\ DOMAIN hidden' = Params /\ {address', looked'} \subseteq Addresses \cup {None}
    BY <1>0, <1>4 DEF Project, TypeOK
  <2>6. TypeOK'
    BY <1>0, <2>1, <2>2, <2>3, <2>4, <2>5 DEF TypeOK, Phases, ParameterPath, given
  <2> QED BY <1>0, <2>1, <2>5, <2>6 DEF WiringType, RegisteredAfter
<1>5. CASE Recognise
  <2>1. UNCHANGED <<given, hidden, connectors, routes, held>> /\ UNCHANGED <<address, looked, moves>>
        /\ connectors = {} /\ building' = {} /\ phase' \in {"build", "wired"}
    BY <1>0, <1>5 DEF Recognise, RegisteredAfter
  <2>2. \A p \in DOMAIN hidden' : hidden'[p] \subseteq Shape(p)'
    BY <1>0, <2>1, SameParameters DEF TypeOK
  <2>3. routes' \subseteq Occurrences' /\ \A x \in Individuals \X Params : held'[x] \subseteq Shape(x[2])'
    BY <1>0, <2>1, SameParameters DEF TypeOK
  <2>4. ASSUME NEW b \in bindings' PROVE ParameterPath(b) \in Parameters'
    <3>1. PICK x \in Parameters : b.walk = x.walk /\ b.param = x.param
      BY <1>5, <2>4 DEF Recognise
    <3>2. x = [walk |-> x.walk, param |-> x.param]
      BY <3>1 DEF Parameters, Occurrences
    <3> QED BY <2>1, <3>1, <3>2, SameParameters DEF ParameterPath
  <2>5. TypeOK'
    BY <1>0, <2>1, <2>2, <2>3, <2>4 DEF TypeOK, Phases, ParameterPath, given
  <2> QED BY <1>0, <2>1, <2>5 DEF WiringType, RegisteredAfter
<1>6. ASSUME NEW b \in bindings, BuildMQTT(b) \/ BuildREST(b) PROVE WiringType'
  <2>1. /\ UNCHANGED <<given, hidden, bindings, routes, held>> /\ UNCHANGED <<address, looked, moves>>
        /\ phase \in {"build", "ensured"} /\ phase' = "build"
        /\ building' \subseteq building
    BY <1>6 DEF BuildMQTT, BuildREST
  <2>2. \A p \in DOMAIN hidden' : hidden'[p] \subseteq Shape(p)'
    BY <1>0, <2>1, SameParameters DEF TypeOK
  <2>3. routes' \subseteq Occurrences' /\ \A x \in Individuals \X Params : held'[x] \subseteq Shape(x[2])'
    BY <1>0, <2>1, SameParameters DEF TypeOK
  <2>4. {ParameterPath(c) : c \in bindings'} \subseteq Parameters'
    BY <1>0, <2>1, SameParameters DEF TypeOK
  <2>5. \A c \in connectors' : c.binding \in bindings' /\ c.leg \in {"read", "write"}
    BY <1>6, <2>1, BuiltIsBound
  <2>6. TypeOK'
    BY <1>0, <2>1, <2>2, <2>3, <2>4, <2>5 DEF TypeOK, ParameterPath, Phases, given
  <2> QED BY <1>0, <2>1, <2>6 DEF WiringType, RegisteredAfter
<1>7. CASE Load
  <2>1. /\ UNCHANGED <<given, hidden, building, bindings, connectors>>
        /\ UNCHANGED <<address, looked, moves>>
        /\ phase' = "serving"
    BY <1>7 DEF Load
  <2>2. \A p \in DOMAIN hidden' : hidden'[p] \subseteq Shape(p)'
    BY <1>0, <2>1, SameParameters DEF TypeOK
  <2>3. routes' \subseteq Occurrences'
    BY <1>7, <2>1, SameParameters DEF Load, Mounted
  <2>4. DOMAIN held' = Individuals \X Params
        /\ \A x \in Individuals \X Params : held'[x] \subseteq Shape(x[2])'
    BY <1>7, <2>1, SameParameters, ShapeHolds DEF Load
  <2>5. {ParameterPath(b) : b \in bindings'} \subseteq Parameters'
    BY <1>0, <2>1, SameParameters DEF TypeOK
  <2>6. TypeOK'
    BY <1>0, <2>1, <2>2, <2>3, <2>4, <2>5 DEF TypeOK, Phases, ParameterPath, given
  <2> QED BY <1>0, <2>1, <2>4, <2>6 DEF WiringType, RegisteredAfter
<1>8. ASSUME NEW c \in connectors, Receive(c) PROVE WiringType'
  <2>1. /\ UNCHANGED <<given, hidden, building, bindings, connectors, routes>>
        /\ UNCHANGED <<address, looked, moves, phase>>
    BY <1>8 DEF Receive
  <2>2. \A p \in DOMAIN hidden' : hidden'[p] \subseteq Shape(p)'
    BY <1>0, <2>1, SameParameters DEF TypeOK
  <2>3. routes' \subseteq Occurrences' /\ {ParameterPath(b) : b \in bindings'} \subseteq Parameters'
    BY <1>0, <2>1, SameParameters DEF TypeOK
  <2>4. PICK fields : /\ held' = [held EXCEPT ![<<Holder(c.binding.walk), c.binding.param>>] = fields]
                      /\ fields \subseteq Shape(c.binding.param)
    BY <1>8, ShapeHolds DEF Receive, Facets
  <2>5. ASSUME NEW x \in Individuals \X Params PROVE held'[x] \subseteq Shape(x[2])
    BY <1>0, <2>4, <2>5 DEF TypeOK
  <2>6. DOMAIN held' = Individuals \X Params
    BY <1>0, <2>4
  <2>7. TypeOK'
    BY <1>0, <2>1, <2>2, <2>3, <2>5, SameParameters DEF TypeOK, ParameterPath, given
  <2> QED BY <1>0, <2>1, <2>6, <2>7 DEF WiringType, RegisteredAfter
<1>9. CASE UNCHANGED vars
  BY <1>0, <1>1, <1>9 DEF vars, TypeOK
<1> QED BY <1>2, <1>3, <1>4, <1>5, <1>6, <1>7, <1>8, <1>9 DEF Next

(* Whatever the ontology, the graph and the installation: what is recognised *)
(* is a parameter that the spec declares at its depth, a registration is of  *)
(* a recognised binding, and a node holds no field that its shape lacks.     *)
THEOREM WiringTypeCorrect == Spec => []TypeOK
<1>1. WiringType => TypeOK
  BY DEF WiringType
<1> QED BY <1>1, WiringTypeInit, WiringTypeStep, PTL DEF Spec

HIDE WiringAssumption DEF WiringAssumption
USE FeedAssumption DEF FeedAssumption

-----------------------------------------------------------------------------
(* The activity feed: what an event accounts for, and chains of events.    *)

Events  == [seq : 0..MaxSeq, told : 0..MaxSeq, raced : 0..MaxSeq]

(* How many records an event accounts for. *)
Counts(e) == e.raced + (IF e.told = 0 THEN 1 ELSE e.told)

(* Every event on the wire accounts for the records since the one before. *)
Chain(w, from) ==
  \A i \in DOMAIN w : w[i].seq = (IF i = 1 THEN from ELSE w[i-1].seq) + Counts(w[i])
EndOf(w, from) == IF w = <<>> THEN from ELSE w[Len(w)].seq

LEMMA EventIs ==
  ASSUME NEW n \in 0..MaxSeq, NEW told \in 0..MaxSeq, NEW raced \in 0..MaxSeq
  PROVE  /\ Event(n, told, raced) \in Events /\ Event(n, told, raced).seq = n
         /\ Counts(Event(n, told, raced)) = raced + (IF told = 0 THEN 1 ELSE told)
BY DEF Event, Events, Counts

LEMMA ChainAppend ==
  ASSUME NEW w \in Seq(Events), NEW from, NEW e \in Events, Chain(w, from),
         e.seq = EndOf(w, from) + Counts(e)
  PROVE  Append(w, e) \in Seq(Events) /\ Chain(Append(w, e), from) /\ EndOf(Append(w, e), from) = e.seq
<1> DEFINE v == Append(w, e)
<1>1. /\ v \in Seq(Events) /\ Len(v) = Len(w) + 1 /\ DOMAIN v = 1..Len(w) + 1 /\ DOMAIN w = 1..Len(w)
      /\ Len(w) \in Nat /\ \A i \in 1..Len(w) : v[i] = w[i]
      /\ v[Len(w) + 1] = e /\ v # <<>> /\ (w = <<>> <=> Len(w) = 0)
  OBVIOUS
<1> HIDE DEF v
<1>2. EndOf(v, from) = e.seq
  BY <1>1 DEF EndOf
<1>3. ASSUME NEW i \in DOMAIN v
      PROVE  v[i].seq = (IF i = 1 THEN from ELSE v[i-1].seq) + Counts(v[i])
  <2>1. CASE i \in 1..Len(w)
    <3>1. v[i] = w[i] /\ (i # 1 => v[i-1] = w[i-1])
      BY <1>1, <2>1
    <3> QED BY <1>1, <2>1, <3>1 DEF Chain
  <2>2. CASE i = Len(w) + 1
    BY <1>1, <2>2 DEF EndOf
  <2> QED BY <1>1, <1>3, <2>1, <2>2
<1> QED BY <1>1, <1>2, <1>3 DEF Chain, v

LEMMA ChainConcat ==
  ASSUME NEW w \in Seq(Events), NEW from, NEW x \in Seq(Events), Chain(w, from),
         Chain(x, EndOf(w, from))
  PROVE  /\ w \o x \in Seq(Events) /\ Chain(w \o x, from)
         /\ EndOf(w \o x, from) = EndOf(x, EndOf(w, from))
<1> DEFINE v == w \o x
<1>1. /\ v \in Seq(Events) /\ Len(v) = Len(w) + Len(x) /\ DOMAIN v = 1..Len(w) + Len(x)
      /\ DOMAIN w = 1..Len(w) /\ DOMAIN x = 1..Len(x)
      /\ Len(w) \in Nat /\ Len(x) \in Nat
      /\ \A i \in 1..Len(w) : v[i] = w[i]
      /\ \A i \in 1..Len(x) : v[Len(w) + i] = x[i]
      /\ (w = <<>> <=> Len(w) = 0) /\ (x = <<>> <=> Len(x) = 0) /\ (v = <<>> <=> Len(v) = 0)
  OBVIOUS
<1> HIDE DEF v
<1>2. EndOf(v, from) = EndOf(x, EndOf(w, from))
  <2>1. CASE Len(x) = 0
    BY <1>1, <2>1 DEF EndOf
  <2>2. CASE Len(x) # 0
    BY <1>1, <2>2 DEF EndOf
  <2> QED BY <2>1, <2>2
<1>3. ASSUME NEW i \in DOMAIN v
      PROVE  v[i].seq = (IF i = 1 THEN from ELSE v[i-1].seq) + Counts(v[i])
  <2>1. CASE i \in 1..Len(w)
    <3>1. v[i] = w[i] /\ (i # 1 => v[i-1] = w[i-1])
      BY <1>1, <2>1
    <3> QED BY <1>1, <2>1, <3>1 DEF Chain
  <2>2. CASE i \notin 1..Len(w)
    <3>1. PICK j \in 1..Len(x) : i = Len(w) + j /\ v[i] = x[j]
      <4>1. i - Len(w) \in 1..Len(x) /\ i = Len(w) + (i - Len(w))
        BY <1>1, <1>3, <2>2
      <4> QED BY <1>1, <4>1
    <3>2. x[j].seq = (IF j = 1 THEN EndOf(w, from) ELSE x[j-1].seq) + Counts(x[j])
      BY <1>1, <3>1 DEF Chain
    <3>3. CASE j = 1
      <4>1. (IF i = 1 THEN from ELSE v[i-1].seq) = EndOf(w, from)
        BY <1>1, <3>1, <3>3 DEF EndOf
      <4> QED BY <3>1, <3>2, <3>3, <4>1
    <3>4. CASE j # 1
      <4>1. j - 1 \in 1..Len(x) /\ i - 1 = Len(w) + (j - 1) /\ i # 1
        BY <1>1, <3>1, <3>4
      <4>2. v[i-1] = x[j-1]
        BY <1>1, <4>1
      <4> QED BY <3>1, <3>2, <3>4, <4>1, <4>2
    <3> QED BY <3>3, <3>4
  <2> QED BY <2>1, <2>2
<1> QED BY <1>1, <1>2, <1>3 DEF Chain, v

LEMMA ChainTail ==
  ASSUME NEW w \in Seq(Events), NEW from, w # <<>>, Chain(w, from)
  PROVE  /\ Head(w) \in Events /\ Tail(w) \in Seq(Events)
         /\ Head(w).seq = from + Counts(Head(w))
         /\ Chain(Tail(w), Head(w).seq)
         /\ EndOf(Tail(w), Head(w).seq) = EndOf(w, from)
<1> DEFINE v == Tail(w)
<1>0. /\ Len(w) \in Nat \ {0} /\ DOMAIN w = 1..Len(w) /\ Head(w) = w[1] /\ w[1] \in Events
  OBVIOUS
<1>1. /\ v \in Seq(Events) /\ Len(v) = Len(w) - 1 /\ \A i \in 1..Len(w) - 1 : v[i] = w[i+1]
  BY <1>0
<1>t. DOMAIN v = 1..Len(v) /\ (v = <<>> <=> Len(v) = 0)
  <2> HIDE DEF v
  <2> QED BY <1>1
<1> HIDE DEF v
<1>2. Head(w).seq = from + Counts(Head(w))
  BY <1>0, <1>t, <1>1 DEF Chain
<1>3. EndOf(v, Head(w).seq) = EndOf(w, from)
  <2>1. CASE Len(w) = 1
    BY <1>0, <1>t, <1>1, <2>1 DEF EndOf
  <2>2. CASE Len(w) # 1
    <3>1. v[Len(v)] = w[Len(w)]
      BY <1>0, <1>t, <1>1, <2>2
    <3> QED BY <1>0, <1>t, <1>1, <2>2, <3>1 DEF EndOf
  <2> QED BY <2>1, <2>2
<1>4. ASSUME NEW i \in DOMAIN v
      PROVE  v[i].seq = (IF i = 1 THEN Head(w).seq ELSE v[i-1].seq) + Counts(v[i])
  <2>1. i + 1 \in DOMAIN w /\ i + 1 # 1 /\ (i + 1) - 1 = i /\ v[i] = w[i+1]
    BY <1>0, <1>t, <1>1, <1>4
  <2>2. w[i+1].seq = w[i].seq + Counts(w[i+1])
    BY <2>1 DEF Chain
  <2>3. w[i] = IF i = 1 THEN Head(w) ELSE v[i-1]
    BY <1>0, <1>t, <1>1, <1>4
  <2> QED BY <2>1, <2>2, <2>3
<1> QED BY <1>0, <1>t, <1>1, <1>2, <1>3, <1>4 DEF Chain, v

-----------------------------------------------------------------------------
(* The account of a page, and what leaves the ring between two looks.      *)

(* The record up to which the page knows, when what is on the wire is read. *)
From == IF page.token = token THEN page.seq ELSE stream.start
At   == EndOf(wire, From)

(* What is shown of the feed of the process, or will be when it is read. *)
Streams ==
  /\ Chain(wire, From)
  /\ stream.pc # "none" => stream.client = At
  /\ stream.raced = IF stream.pc = "read" THEN Missed ELSE 0
  /\ server = "down" => stream.pc = "none" /\ seq = 0
  /\ server # "up" => token < MaxStarts

(* Nobody has read, or is sent, a record that is yet to come.              *)
Behind ==
  server # "down" =>
    /\ page.token = token => page.seq <= seq
    /\ stream.pc # "none" => stream.client <= seq
    /\ \A i \in DOMAIN wire : wire[i].seq <= seq

(* A page that has read nothing has no account, and no page knows of a     *)
(* process to come.                                                        *)
Pages ==
  /\ page.token = NoToken => page = NewPage
  /\ page.token \in (1..token) \cup {NoToken}

(* The inductive invariant of the feed.                                    *)
FeedInv == FeedTypeOK /\ Streams /\ Behind /\ Pages /\ UntoldWasRaced

LEMMA OldestIs ==
  ASSUME FeedTypeOK
  PROVE  /\ seq \in Nat /\ Oldest \in 0..seq /\ (Oldest = 0 <=> seq = 0)
         /\ Fresh \in 0..seq
         /\ \A n \in Nat : Oldest <= n + 1 <=> ~(Oldest > n + 1)
BY DEF FeedTypeOK, Oldest, Fresh

LEMMA MissedIs ==
  ASSUME FeedTypeOK
  PROVE  /\ Missed = (IF Oldest > stream.client + 1 THEN Oldest - stream.client - 1 ELSE 0)
         /\ Missed \in 0..MaxSeq /\ stream.client \in 0..MaxSeq /\ stream.start \in 0..MaxSeq
         /\ Missed > 0 => Missed + stream.client + 1 = Oldest
<1>1. stream.client \in 0..MaxSeq /\ stream.start \in 0..MaxSeq /\ seq \in 0..MaxSeq
  BY DEF FeedTypeOK
<1> QED BY <1>1, OldestIs DEF Missed

LEMMA FeedInitInv == FeedInit => FeedInv
<1> SUFFICES ASSUME FeedInit PROVE FeedInv
  OBVIOUS
<1>1. FeedTypeOK
  BY DEF FeedInit, FeedTypeOK, NoStream, NewPage
<1>2. Streams
  BY DEF FeedInit, Streams, Chain, From, EndOf, At, NoStream, NewPage
<1>3. Behind /\ Pages /\ UntoldWasRaced
  BY DEF FeedInit, Behind, Pages, UntoldWasRaced, NoStream, NewPage
<1> QED BY <1>1, <1>2, <1>3 DEF FeedInv

(* Appended: what leaves the ring between the two looks is counted.        *)
LEMMA AppendedKeeps ==
  ASSUME FeedInv, Appended
  PROVE  FeedInv'
<1>0. /\ FeedTypeOK /\ Streams /\ Behind /\ Pages /\ UntoldWasRaced
      /\ seq \in 0..MaxSeq /\ seq' = seq + 1 /\ seq' \in 0..MaxSeq /\ MaxSeq \in Nat
      /\ server' = server /\ token' = token /\ wire' = wire /\ page' = page /\ drops' = drops
      /\ server # "down"
  BY DEF FeedInv, FeedTypeOK, Appended
<1>1. /\ stream'.pc = stream.pc /\ stream'.client = stream.client /\ stream'.start = stream.start
      /\ stream'.round = stream.round
      /\ stream'.raced = IF stream.pc = "read" /\ Oldest' > Oldest /\ Oldest > stream.client
                         THEN stream.raced + 1 ELSE stream.raced
      /\ stream' = [pc |-> stream'.pc, client |-> stream'.client, start |-> stream'.start,
                    round |-> stream'.round, raced |-> stream'.raced]
  <2>1. stream = [pc |-> stream.pc, client |-> stream.client, start |-> stream.start,
                  round |-> stream.round, raced |-> stream.raced]
        /\ stream.raced \in 0..MaxSeq
    BY <1>0 DEF FeedTypeOK
  <2>2. stream' = IF stream.pc = "read" /\ Oldest' > Oldest /\ Oldest > stream.client
                  THEN [stream EXCEPT !.raced = @ + 1] ELSE stream
    BY DEF Appended
  <2> QED BY <2>1, <2>2
<1>2. /\ stream.pc = "read" => stream.raced = Missed
      /\ stream.pc # "read" => stream.raced = 0
      /\ stream.client \in 0..MaxSeq
  BY <1>0 DEF Streams, FeedTypeOK
<1>3. Oldest' = (IF seq + 1 < Capacity THEN 1 ELSE seq + 1 - Capacity + 1)
  BY <1>0 DEF Oldest
<1>4. stream'.raced = IF stream'.pc = "read" THEN Missed' ELSE 0
  <2>1. Missed' = IF Oldest' > stream.client + 1 THEN Oldest' - stream.client - 1 ELSE 0
    BY <1>1 DEF Missed
  <2>2. Oldest = IF seq = 0 THEN 0 ELSE IF seq < Capacity THEN 1 ELSE seq - Capacity + 1
    BY DEF Oldest
  <2>3. stream.pc = "read" => stream.raced = IF Oldest > stream.client + 1 THEN Oldest - stream.client - 1 ELSE 0
    BY <1>2 DEF Missed
  <2>4. Capacity \in Nat \ {0}
    OBVIOUS
  <2> QED BY <1>0, <1>1, <1>2, <1>3, <2>1, <2>2, <2>3, <2>4
<1>5. stream'.raced \in 0..MaxSeq
  <2>1. Missed' = IF Oldest' > stream.client + 1 THEN Oldest' - stream.client - 1 ELSE 0
    BY <1>1 DEF Missed
  <2> QED BY <1>0, <1>2, <1>3, <1>4, <2>1
<1>6. FeedTypeOK'
  <2>1. stream' \in [pc : {"none", "look", "read", "pause"}, client : 0..MaxSeq,
                     start : 0..MaxSeq, round : 0..Rounds, raced : 0..MaxSeq]
    BY <1>0, <1>1, <1>5 DEF FeedTypeOK
  <2> QED BY <1>0, <2>1 DEF FeedTypeOK
<1>7. From' = From /\ At' = At
  BY <1>0, <1>1 DEF From, At, EndOf
<1>8. Streams'
  BY <1>0, <1>1, <1>4, <1>7 DEF Streams, Chain
<1>9. Behind'
  <2>1. \A i \in DOMAIN wire : wire[i].seq \in Nat
    <3>1. wire \in Seq(Events)
      BY <1>0 DEF FeedTypeOK, Events
    <3>2. \A i \in DOMAIN wire : wire[i] \in Events
      BY <3>1
    <3> QED BY <3>2 DEF Events
  <2>2. page.seq \in Nat
    BY <1>0 DEF FeedTypeOK
  <2> QED BY <1>0, <1>1, <1>2, <2>1, <2>2 DEF Behind
<1>10. Pages' /\ UntoldWasRaced'
  BY <1>0 DEF Pages, UntoldWasRaced, NewPage
<1> QED BY <1>6, <1>8, <1>9, <1>10 DEF FeedInv

-----------------------------------------------------------------------------
(* The steps of the stream.                                                *)

StreamType == [pc : {"none", "look", "read", "pause"}, client : 0..MaxSeq,
               start : 0..MaxSeq, round : 0..Rounds, raced : 0..MaxSeq]

(* A step of the stream keeps the invariant when it extends the chain.   *)
LEMMA StreamStep ==
  ASSUME FeedInv, UNCHANGED <<server, token, seq, page>>,
         server # "down", drops' \in 0..MaxDrops, stream' \in StreamType, wire' \in Seq(Events),
         stream'.start = stream.start \/ wire = <<>>,
         Chain(wire', IF page.token = token THEN page.seq ELSE stream'.start),
         stream'.pc # "none" =>
            /\ stream'.client <= seq
            /\ stream'.client = EndOf(wire', IF page.token = token THEN page.seq ELSE stream'.start),
         stream'.raced = IF stream'.pc = "read" /\ Oldest > stream'.client + 1
                         THEN Oldest - stream'.client - 1 ELSE 0,
         \A i \in DOMAIN wire' : wire'[i].seq <= seq
  PROVE  FeedInv'
<1>1. FeedTypeOK'
  BY DEF FeedInv, FeedTypeOK, StreamType, Events
<1>2. From' = IF page.token = token THEN page.seq ELSE stream'.start
  BY DEF From
<1>3. Oldest' = Oldest
  BY DEF Oldest
<1>4. Missed' = IF Oldest > stream'.client + 1 THEN Oldest - stream'.client - 1 ELSE 0
  BY <1>3 DEF Missed
<1>5. At' = EndOf(wire', From')
  BY DEF At, EndOf
<1>6. Chain(wire, From)' = Chain(wire', From')
  BY DEF Chain
<1>7. Streams'
  <2>1. stream'.raced = IF stream'.pc = "read" THEN Missed' ELSE 0
    BY <1>4
  <2>2. stream'.pc # "none" => stream'.client = At'
    BY <1>2, <1>5
  <2>3. Chain(wire, From)'
    BY <1>2, <1>6
  <2> QED BY <2>1, <2>2, <2>3 DEF FeedInv, Streams
<1>8. Behind'
  BY DEF FeedInv, Behind
<1>9. Pages' /\ UntoldWasRaced'
  BY DEF FeedInv, Pages, UntoldWasRaced, NewPage
<1> QED BY <1>1, <1>7, <1>8, <1>9 DEF FeedInv

LEMMA OpenKeeps ==
  ASSUME FeedInv, Open
  PROVE  FeedInv'
<1>0. /\ FeedTypeOK /\ Streams /\ Behind
      /\ server = "up" /\ stream.pc = "none" /\ wire = <<>>
      /\ UNCHANGED <<server, token, seq, wire, page, drops>>
  BY DEF FeedInv, Open
<1>1. Resume \in 0..seq /\ seq \in 0..MaxSeq
  <2>1. page.seq \in 0..MaxSeq /\ seq \in 0..MaxSeq
    BY <1>0 DEF FeedTypeOK
  <2> QED BY <1>0, <2>1, OldestIs DEF Resume, Behind
<1>2. stream' = [pc |-> "look", client |-> Resume, start |-> Resume, round |-> 0, raced |-> 0]
  BY DEF Open, NoStream
<1>3. stream' \in StreamType
  BY <1>1, <1>2 DEF StreamType
<1>4. (IF page.token = token THEN page.seq ELSE stream'.start) = Resume
  BY <1>2 DEF Resume
<1>5. wire' = <<>> /\ wire' \in Seq(Events) /\ drops' \in 0..MaxDrops
  BY <1>0 DEF FeedTypeOK
<1>6. \A f : Chain(wire', f) /\ EndOf(wire', f) = f
  BY <1>5 DEF Chain, EndOf
<1> HIDE DEF Resume
<1>7. stream'.client = Resume /\ stream'.pc = "look" /\ stream'.raced = 0
  BY <1>2
<1>8. Resume <= seq
  BY <1>1
<1> QED BY <1>0, <1>3, <1>4, <1>5, <1>6, <1>7, <1>8, StreamStep

LEMMA LookKeeps ==
  ASSUME FeedInv, Look
  PROVE  FeedInv'
<1>0. /\ FeedTypeOK /\ Streams /\ Behind /\ stream.pc = "look" /\ server # "down"
      /\ UNCHANGED <<server, token, seq, page, drops>>
      /\ stream \in StreamType /\ wire \in Seq(Events) /\ drops' \in 0..MaxDrops
      /\ seq \in 0..MaxSeq
  BY DEF FeedInv, Look, FeedTypeOK, StreamType, Events, Streams
<1>1. /\ Chain(wire, From) /\ stream.client = EndOf(wire, From) /\ stream.raced = 0
      /\ stream.client <= seq /\ \A i \in DOMAIN wire : wire[i].seq <= seq
  BY <1>0 DEF Streams, Behind, At
<1>2. CASE Missed > 0
  <2> DEFINE e == Event(Oldest - 1, Missed, 0)
  <2>1. /\ Missed \in 0..MaxSeq /\ Missed + stream.client + 1 = Oldest /\ Oldest \in 0..seq
        /\ stream.client \in 0..MaxSeq
    BY <1>0, <1>2, MissedIs, OldestIs
  <2>2. e \in Events /\ e.seq = Oldest - 1 /\ Counts(e) = Missed
    <3>1. Oldest - 1 \in 0..MaxSeq /\ 0 \in 0..MaxSeq
      BY <1>0, <2>1
    <3> QED BY <1>2, <2>1, <3>1, EventIs
  <2>3. wire' = Append(wire, e) /\ stream' = [stream EXCEPT !.pc = "read", !.client = Oldest - 1]
    BY <1>2 DEF Look
  <2> HIDE DEF e
  <2>4. e.seq = EndOf(wire, From) + Counts(e)
    BY <1>1, <2>1, <2>2
  <2>5. /\ wire' \in Seq(Events) /\ Chain(wire', From) /\ EndOf(wire', From) = Oldest - 1
    BY <1>0, <1>1, <2>2, <2>3, <2>4, ChainAppend
  <2>6. /\ stream'.pc = "read" /\ stream'.client = Oldest - 1 /\ stream'.start = stream.start
        /\ stream'.raced = 0 /\ stream' \in StreamType
    <3>1. Oldest - 1 \in 0..MaxSeq
      BY <1>0, <2>1
    <3> HIDE DEF Oldest
    <3> QED BY <1>0, <1>1, <2>3, <3>1 DEF StreamType
  <2>7. \A i \in DOMAIN wire' : wire'[i].seq <= seq
    BY <1>0, <1>1, <2>1, <2>2, <2>3
  <2>8. From = IF page.token = token THEN page.seq ELSE stream'.start
    BY <2>6 DEF From
  <2>9. ~(Oldest > stream'.client + 1) /\ stream'.client <= seq
    BY <1>0, <2>1, <2>6
  <2> QED BY <1>0, <2>5, <2>6, <2>7, <2>8, <2>9, StreamStep
<1>3. CASE ~(Missed > 0)
  <2>1. wire' = wire /\ stream' = [stream EXCEPT !.pc = "read"]
    BY <1>3 DEF Look
  <2>2. ~(Oldest > stream.client + 1)
    BY <1>0, <1>3, MissedIs, OldestIs
  <2>3. /\ stream'.pc = "read" /\ stream'.client = stream.client /\ stream'.start = stream.start
        /\ stream'.raced = 0 /\ stream' \in StreamType
    BY <1>0, <1>1, <2>1 DEF StreamType
  <2>4. From = IF page.token = token THEN page.seq ELSE stream'.start
    BY <2>3 DEF From
  <2> QED BY <1>0, <1>1, <2>1, <2>2, <2>3, <2>4, StreamStep
<1> QED BY <1>2, <1>3

(* The records behind the last one that was sent. *)
LEMMA SinceIs ==
  ASSUME FeedInv, server # "down", stream.pc = "read"
  PROVE  LET r == Since(stream.client)
             k == IF seq > stream.client THEN seq - stream.client - stream.raced ELSE 0
         IN /\ k \in 0..MaxSeq /\ r \in Seq(0..seq) /\ Len(r) = k
            /\ \A i \in 1..k : r[i] = stream.client + stream.raced + i
            /\ seq = stream.client + (IF k = 0 THEN 0 ELSE stream.raced + k)
            /\ k = 0 => stream.raced = 0
<1> DEFINE r == Since(stream.client)
           k == IF seq > stream.client THEN seq - stream.client - stream.raced ELSE 0
           first == IF Oldest > stream.client THEN Oldest ELSE stream.client + 1
<1>1. /\ seq \in 0..MaxSeq /\ stream.client \in 0..MaxSeq /\ Oldest \in 0..seq
      /\ (Oldest = 0 <=> seq = 0) /\ stream.client <= seq
      /\ stream.raced = IF Oldest > stream.client + 1 THEN Oldest - stream.client - 1 ELSE 0
  BY OldestIs, MissedIs DEF FeedInv, FeedTypeOK, Streams, Behind, Missed
<1>2. first = stream.client + stream.raced + 1
  BY <1>1
<1>3. k = seq + 1 - first /\ k \in 0..MaxSeq
  BY <1>1, <1>2
<1>4. r = [i \in 1..(seq + 1 - first) |-> first + i - 1]
  BY DEF Since
<1> HIDE DEF r, first
<1>5. r = [i \in 1..k |-> first + i - 1]
  BY <1>3, <1>4, Zenon
<1>6. \A i \in 1..k : r[i] = stream.client + stream.raced + i /\ r[i] \in 0..seq
  <2> TAKE i \in 1..k
  <2>1. r[i] = first + i - 1
    BY <1>5
  <2> QED BY <1>1, <1>2, <1>3, <2>1
<1>7. k \in Nat
  BY <1>3
<1> HIDE DEF k
<1>8. r \in Seq(0..seq) /\ Len(r) = k
  <2>1. DOMAIN r = 1..k /\ r = [i \in 1..k |-> r[i]]
    BY <1>5
  <2>2. r \in [1..k -> 0..seq]
    BY <1>6, <2>1
  <2> QED BY <1>7, <2>1, <2>2
<1>9. seq = stream.client + (IF k = 0 THEN 0 ELSE stream.raced + k) /\ (k = 0 => stream.raced = 0)
  BY <1>1 DEF k
<1> QED BY <1>3, <1>6, <1>8, <1>9 DEF r, k

LEMMA ReadKeeps ==
  ASSUME FeedInv, Read
  PROVE  FeedInv'
<1>0. /\ FeedTypeOK /\ Streams /\ Behind /\ stream.pc = "read" /\ server # "down"
      /\ UNCHANGED <<server, token, seq, page, drops>>
      /\ stream \in StreamType /\ wire \in Seq(Events) /\ drops' \in 0..MaxDrops
      /\ seq \in 0..MaxSeq
  BY DEF FeedInv, Read, FeedTypeOK, StreamType, Events, Streams
<1>1. /\ Chain(wire, From) /\ stream.client = EndOf(wire, From)
      /\ stream.client <= seq /\ \A i \in DOMAIN wire : wire[i].seq <= seq
      /\ stream.client \in 0..MaxSeq /\ stream.raced \in 0..MaxSeq
  BY <1>0 DEF Streams, Behind, At, StreamType
<1>2. PICK r : r = Since(stream.client)
  OBVIOUS
<1>3. PICK k \in 0..MaxSeq :
        /\ r \in Seq(0..seq) /\ Len(r) = k
        /\ \A i \in 1..k : r[i] = stream.client + stream.raced + i
        /\ seq = stream.client + (IF k = 0 THEN 0 ELSE stream.raced + k)
        /\ k = 0 => stream.raced = 0
  BY <1>0, <1>2, SinceIs
<1>4. /\ wire' = wire \o [i \in DOMAIN r |-> Event(r[i], 0, IF i = 1 THEN stream.raced ELSE 0)]
      /\ stream' = [stream EXCEPT !.pc = "pause", !.raced = 0,
                                  !.client = IF r = <<>> THEN @ ELSE Last(r)]
  BY <1>2 DEF Read
<1>5. PICK x : x = [i \in 1..k |-> Event(r[i], 0, IF i = 1 THEN stream.raced ELSE 0)]
  OBVIOUS
<1>6. DOMAIN r = 1..k /\ wire' = wire \o x
  <2>1. DOMAIN r = 1..k
    BY <1>3
  <2> QED BY <1>4, <1>5, <2>1, Zenon
<1>7. \A i \in 1..k : /\ x[i] \in Events /\ x[i].seq = stream.client + stream.raced + i
                      /\ Counts(x[i]) = (IF i = 1 THEN stream.raced ELSE 0) + 1
  <2> TAKE i \in 1..k
  <2> DEFINE raced == IF i = 1 THEN stream.raced ELSE 0
  <2>1. x[i] = Event(r[i], 0, raced)
    BY <1>5
  <2>2. r[i] \in 0..MaxSeq /\ 0 \in 0..MaxSeq /\ raced \in 0..MaxSeq
    BY <1>0, <1>1, <1>3
  <2> HIDE DEF raced
  <2>3. /\ Event(r[i], 0, raced) \in Events /\ Event(r[i], 0, raced).seq = r[i]
        /\ Counts(Event(r[i], 0, raced)) = raced + 1
    BY <2>2, EventIs
  <2> QED BY <1>3, <2>1, <2>3 DEF raced
<1>8. x \in Seq(Events) /\ Len(x) = k /\ DOMAIN x = 1..k /\ (x = <<>> <=> k = 0) /\ (r = <<>> <=> k = 0)
  <2>1. x \in Seq(Events) /\ Len(x) = k
    BY <1>5, <1>7
  <2> QED BY <1>3, <2>1
<1>9. Chain(x, EndOf(wire, From)) /\ EndOf(x, EndOf(wire, From)) = seq
  <2>1. \A i \in 1..k : i # 1 => i - 1 \in 1..k /\ x[i-1].seq = stream.client + stream.raced + (i - 1)
    BY <1>7
  <2>2. Chain(x, stream.client)
    <3>1. ASSUME NEW i \in 1..k
          PROVE  x[i].seq = (IF i = 1 THEN stream.client ELSE x[i-1].seq) + Counts(x[i])
      <4>1. CASE i = 1
        BY <1>1, <1>7, <4>1
      <4>2. CASE i # 1
        BY <1>1, <1>7, <2>1, <4>2
      <4> QED BY <4>1, <4>2
    <3> QED BY <1>8, <3>1 DEF Chain
  <2>3. EndOf(x, stream.client) = seq
    BY <1>1, <1>3, <1>7, <1>8 DEF EndOf
  <2> QED BY <1>1, <2>2, <2>3
<1>10. wire' \in Seq(Events) /\ Chain(wire', From) /\ EndOf(wire', From) = seq
  BY <1>0, <1>1, <1>6, <1>8, <1>9, ChainConcat
<1>11. stream' = [stream EXCEPT !.pc = "pause", !.raced = 0, !.client = seq]
  <2>1. (IF r = <<>> THEN stream.client ELSE Last(r)) = seq
    <3>1. Last(r) = r[k]
      BY <1>3 DEF Last
    <3> QED BY <1>1, <1>3, <1>8, <3>1
  <2> QED BY <1>4, <2>1
<1>12. /\ stream'.pc = "pause" /\ stream'.client = seq /\ stream'.start = stream.start
       /\ stream'.raced = 0 /\ stream' \in StreamType
  <2>1. stream' = [pc |-> "pause", client |-> seq, start |-> stream.start,
                   round |-> stream.round, raced |-> 0]
    BY <1>0, <1>11 DEF StreamType
  <2>2. stream.start \in 0..MaxSeq /\ stream.round \in 0..Rounds /\ 0 \in 0..MaxSeq
    BY <1>0 DEF StreamType
  <2> QED BY <1>0, <2>1, <2>2 DEF StreamType
<1>13. \A i \in DOMAIN wire' : wire'[i].seq <= seq
  <2>1. /\ Len(wire) \in Nat /\ DOMAIN wire = 1..Len(wire) /\ DOMAIN wire' = 1..Len(wire) + k
        /\ \A i \in 1..Len(wire) : wire'[i] = wire[i]
        /\ \A i \in 1..k : wire'[Len(wire) + i] = x[i]
    <3>1. /\ Len(wire) \in Nat /\ DOMAIN wire = 1..Len(wire) /\ DOMAIN (wire \o x) = 1..Len(wire) + k
          /\ \A i \in 1..Len(wire) : (wire \o x)[i] = wire[i]
          /\ \A i \in 1..k : (wire \o x)[Len(wire) + i] = x[i]
      BY <1>0, <1>8
    <3> QED BY <1>6, <3>1
  <2>2. ASSUME NEW i \in DOMAIN wire' PROVE wire'[i].seq <= seq
    <3>1. CASE i \in 1..Len(wire)
      BY <1>1, <2>1, <3>1
    <3>2. CASE i \notin 1..Len(wire)
      <4>1. i - Len(wire) \in 1..k /\ Len(wire) + (i - Len(wire)) = i
        BY <2>1, <2>2, <3>2
      <4>2. wire'[i] = x[i - Len(wire)]
        BY <2>1, <4>1
      <4>3. x[i - Len(wire)].seq <= seq
        BY <1>1, <1>3, <1>7, <4>1
      <4> QED BY <4>2, <4>3
    <3> QED BY <3>1, <3>2
  <2> QED BY <2>2
<1>14. From = IF page.token = token THEN page.seq ELSE stream'.start
  BY <1>12 DEF From
<1>15. Oldest <= seq /\ seq \in Nat /\ Oldest \in Nat
  BY <1>0, OldestIs
<1> QED BY <1>0, <1>10, <1>12, <1>13, <1>14, <1>15, StreamStep

LEMMA PauseKeeps ==
  ASSUME FeedInv, Pause
  PROVE  FeedInv'
<1>0. /\ FeedTypeOK /\ Streams /\ Behind /\ stream.pc = "pause" /\ server # "down"
      /\ UNCHANGED <<server, token, seq, page, drops, wire>>
      /\ stream \in StreamType /\ wire' \in Seq(Events) /\ drops' \in 0..MaxDrops
  BY DEF FeedInv, Pause, FeedTypeOK, StreamType, Events, Streams
<1>1. /\ Chain(wire, From) /\ stream.client = EndOf(wire, From) /\ stream.raced = 0
      /\ stream.client <= seq /\ \A i \in DOMAIN wire : wire[i].seq <= seq
  BY <1>0 DEF Streams, Behind, At
<1>2. /\ stream'.pc \in {"none", "look"} /\ stream'.start = stream.start /\ stream'.raced = 0
      /\ stream'.pc # "none" => stream'.client = stream.client
      /\ stream' \in StreamType
  <2>1. CASE Ended
    <3>1. stream' = [NoStream EXCEPT !.start = stream.start]
      BY <2>1 DEF Pause
    <3> QED BY <1>0, <3>1 DEF NoStream, StreamType
  <2>2. CASE ~Ended
    <3>1. PICK n : n = IF stream.round + 1 < Rounds THEN stream.round + 1 ELSE stream.round
      OBVIOUS
    <3>2. stream' = [stream EXCEPT !.pc = "look", !.round = n]
      BY <2>2, <3>1 DEF Pause
    <3>3. n \in 0..Rounds
      BY <1>0, <3>1 DEF StreamType
    <3> QED BY <1>0, <1>1, <3>2, <3>3 DEF StreamType
  <2> QED BY <2>1, <2>2
<1>3. From = IF page.token = token THEN page.seq ELSE stream'.start
  BY <1>2 DEF From
<1> QED BY <1>0, <1>1, <1>2, <1>3, StreamStep

LEMMA DisconnectKeeps ==
  ASSUME FeedInv, Disconnect
  PROVE  FeedInv'
<1>0. /\ FeedTypeOK /\ Streams /\ Behind /\ Pages /\ UntoldWasRaced /\ stream.pc # "none" /\ server # "down"
      /\ UNCHANGED <<server, token, seq>> /\ stream' = NoStream /\ wire' = <<>>
      /\ page' \in {page, NewPage} /\ drops < MaxDrops /\ drops' = drops + 1
  BY DEF FeedInv, Disconnect, Streams
<1>1. FeedTypeOK'
  <2>1. NewPage \in [token : (1..MaxStarts) \cup {NoToken}, seq : 0..MaxSeq, base : 0..MaxSeq,
                     got : 0..MaxSeq, told : 0..MaxSeq, raced : 0..MaxSeq]
    BY DEF NewPage
  <2>2. NoStream \in StreamType
    BY DEF NoStream, StreamType
  <2> QED BY <1>0, <2>1, <2>2 DEF FeedTypeOK, StreamType
<1>2. Streams'
  BY <1>0 DEF Streams, Chain, NoStream
<1>3. NewPage.token = NoToken /\ NoToken # token
  BY <1>0 DEF NewPage, FeedTypeOK
<1>4. Behind'
  BY <1>0, <1>3 DEF Behind, NoStream
<1>5. Pages' /\ UntoldWasRaced'
  BY <1>0, <1>3 DEF Pages, UntoldWasRaced, NewPage
<1> QED BY <1>1, <1>2, <1>4, <1>5 DEF FeedInv

-----------------------------------------------------------------------------
(* The page and the process.                                               *)

(* What an event that is read adds to the account of the page. *)
Shown(p, e) ==
  [p EXCEPT !.seq = e.seq, !.told = @ + e.told, !.raced = @ + e.raced,
            !.got = IF e.told = 0 THEN @ + 1 ELSE @]

PageType == [token : (1..MaxStarts) \cup {NoToken}, seq : 0..MaxSeq, base : 0..MaxSeq,
             got : 0..MaxSeq, told : 0..MaxSeq, raced : 0..MaxSeq]

Account(t, n, base, got, told, raced) ==
  [token |-> t, seq |-> n, base |-> base, got |-> got, told |-> told, raced |-> raced]

LEMMA ShownFields ==
  ASSUME NEW t, NEW n, NEW base, NEW got, NEW told, NEW raced, NEW e
  PROVE  Shown(Account(t, n, base, got, told, raced), e) =
           Account(t, e.seq, base, IF e.told = 0 THEN got + 1 ELSE got, told + e.told, raced + e.raced)
<1>1. PICK more : more = IF e.told = 0 THEN got + 1 ELSE got
  OBVIOUS
<1>2. Shown(Account(t, n, base, got, told, raced), e) =
        [Account(t, n, base, got, told, raced) EXCEPT
           !.seq = e.seq, !.told = told + e.told, !.raced = raced + e.raced, !.got = more]
  BY <1>1 DEF Shown, Account
<1> QED BY <1>1, <1>2 DEF Account

LEMMA ShownIs ==
  ASSUME NEW p \in PageType, NEW e \in Events,
         p.seq = p.base + p.got + p.told + p.raced, e.seq = p.seq + Counts(e)
  PROVE  /\ Shown(p, e) \in PageType
         /\ Shown(p, e).seq = e.seq /\ Shown(p, e).token = p.token
         /\ Shown(p, e).seq = Shown(p, e).base + Shown(p, e).got + Shown(p, e).told + Shown(p, e).raced
<1>1. PICK got : got = IF e.told = 0 THEN p.got + 1 ELSE p.got
  OBVIOUS
<1>2. Shown(p, e) = [token |-> p.token, seq |-> e.seq, base |-> p.base, got |-> got,
                     told |-> p.told + e.told, raced |-> p.raced + e.raced]
  <2>1. p = Account(p.token, p.seq, p.base, p.got, p.told, p.raced)
    BY DEF Account, PageType
  <2>2. Shown(p, e) = Account(p.token, e.seq, p.base, got, p.told + e.told, p.raced + e.raced)
    BY <1>1, <2>1, ShownFields
  <2> QED BY <2>2 DEF Account
<1>3. /\ e.seq \in 0..MaxSeq /\ e.told \in Nat /\ e.raced \in Nat
      /\ p.seq \in Nat /\ p.base \in 0..MaxSeq /\ p.got \in Nat /\ p.told \in Nat /\ p.raced \in Nat
      /\ p.token \in (1..MaxStarts) \cup {NoToken}
  BY DEF PageType, Events
<1>4. e.seq = p.base + got + (p.told + e.told) + (p.raced + e.raced) /\ got \in Nat
  BY <1>1, <1>3 DEF Counts
<1>5. got \in 0..MaxSeq /\ p.told + e.told \in 0..MaxSeq /\ p.raced + e.raced \in 0..MaxSeq
  BY <1>3, <1>4
<1> QED BY <1>2, <1>3, <1>4, <1>5 DEF PageType

LEMMA DeliverKeeps ==
  ASSUME FeedInv, Deliver
  PROVE  FeedInv'
<1>0. /\ FeedTypeOK /\ Streams /\ Behind /\ Pages /\ UntoldWasRaced
      /\ UNCHANGED <<server, token, seq, stream, drops>> /\ wire # <<>> /\ wire' = Tail(wire)
      /\ wire \in Seq(Events) /\ page \in PageType /\ token \in 1..MaxStarts
      /\ stream.start \in 0..MaxSeq /\ Chain(wire, From)
  BY DEF FeedInv, Deliver, FeedTypeOK, PageType, Events, Streams
<1>1. PICK e : e = Head(wire)
  OBVIOUS
<1>2. /\ e \in Events /\ Tail(wire) \in Seq(Events) /\ e.seq = From + Counts(e)
      /\ Chain(Tail(wire), e.seq) /\ EndOf(Tail(wire), e.seq) = EndOf(wire, From)
  BY <1>0, <1>1, ChainTail
<1>3. PICK p : p = IF page.token = token THEN page
                   ELSE [NewPage EXCEPT !.token = token, !.base = stream.start]
  OBVIOUS
<1>4. page' = Shown(p, e)
  <2>1. page' = [p EXCEPT !.seq = e.seq, !.told = @ + e.told, !.raced = @ + e.raced,
                          !.got = IF e.told = 0 THEN @ + 1 ELSE @]
    BY <1>1, <1>3 DEF Deliver
  <2> QED BY <2>1 DEF Shown
<1>7. /\ page' \in PageType /\ page'.seq = e.seq /\ page'.token = token
      /\ page'.seq = page'.base + page'.got + page'.told + page'.raced
  <2>1. PICK q : q = IF page.token = token THEN page
                     ELSE Account(token, stream.start, stream.start, 0, 0, 0)
    OBVIOUS
  <2>2. /\ q \in PageType /\ q.seq = From /\ q.token = token
        /\ q.seq = q.base + q.got + q.told + q.raced
    <3>1. CASE page.token = token
      BY <1>0, <2>1, <3>1 DEF UntoldWasRaced, From
    <3>2. CASE page.token # token
      BY <1>0, <2>1, <3>2 DEF Account, PageType, From
    <3> QED BY <3>1, <3>2
  <2>3. Shown(p, e) = Shown(q, e)
    <3>1. CASE page.token = token
      BY <1>3, <2>1, <3>1
    <3>2. CASE page.token # token
      <4>1. p = Account(token, 0, stream.start, 0, 0, 0)
        BY <1>3, <3>2 DEF NewPage, Account
      <4>2. q = Account(token, stream.start, stream.start, 0, 0, 0)
        BY <2>1, <3>2
      <4> QED BY <4>1, <4>2, ShownFields
    <3> QED BY <3>1, <3>2
  <2> QED BY <1>2, <1>4, <2>2, <2>3, ShownIs
<1>8. FeedTypeOK'
  BY <1>0, <1>2, <1>7 DEF FeedTypeOK, PageType, Events
<1>9. From' = e.seq /\ Chain(wire, From)' /\ At' = At
  BY <1>0, <1>2, <1>7 DEF From, Chain, At, EndOf
<1>10. Streams'
  BY <1>0, <1>9 DEF Streams, Missed, Oldest
<1>11. Behind'
  <2>1. /\ \A i \in DOMAIN Tail(wire) : i + 1 \in DOMAIN wire /\ Tail(wire)[i] = wire[i+1]
        /\ 1 \in DOMAIN wire /\ e = wire[1]
    BY <1>0, <1>1
  <2> QED BY <1>0, <1>7, <2>1 DEF Behind
<1>12. Pages' /\ UntoldWasRaced'
  BY <1>0, <1>7 DEF Pages, UntoldWasRaced
<1> QED BY <1>8, <1>10, <1>11, <1>12 DEF FeedInv

LEMMA ServerKeeps ==
  ASSUME FeedInv, Stop \/ Stopped \/ Crash \/ Start
  PROVE  FeedInv'
<1>0. FeedTypeOK /\ Streams /\ Behind /\ Pages /\ UntoldWasRaced
  BY DEF FeedInv
<1>1. CASE Stop
  <2>1. FeedTypeOK' /\ Behind' /\ Pages' /\ UntoldWasRaced'
    BY <1>0, <1>1 DEF Stop, FeedTypeOK, Behind, Pages, UntoldWasRaced, NewPage
  <2>2. Streams'
    BY <1>0, <1>1 DEF Stop, Streams, Chain, From, At, EndOf, Missed, Oldest
  <2> QED BY <2>1, <2>2 DEF FeedInv
<1>2. CASE Stopped
  <2>1. FeedTypeOK' /\ Behind' /\ Pages' /\ UntoldWasRaced'
    BY <1>0, <1>2 DEF Stopped, FeedTypeOK, Behind, Pages, UntoldWasRaced, NewPage
  <2>2. Streams'
    BY <1>0, <1>2 DEF Stopped, Streams, Chain, From, At, EndOf
  <2> QED BY <2>1, <2>2 DEF FeedInv
<1>3. CASE Crash
  <2>1. FeedTypeOK' /\ Behind' /\ Pages' /\ UntoldWasRaced'
    <3>1. NoStream \in StreamType /\ <<>> \in Seq(Events)
      BY DEF NoStream, StreamType
    <3> QED BY <1>0, <1>3, <3>1 DEF Crash, FeedTypeOK, StreamType, Events, Behind, Pages, UntoldWasRaced, NewPage
  <2>2. Streams'
    BY <1>0, <1>3 DEF Crash, Streams, Chain, NoStream
  <2> QED BY <2>1, <2>2 DEF FeedInv
<1>4. CASE Start
  <2>1. FeedTypeOK' /\ Pages' /\ UntoldWasRaced'
    BY <1>0, <1>4 DEF Start, Streams, FeedTypeOK, Pages, UntoldWasRaced, NewPage
  <2>2. page.token # token + 1
    BY <1>0 DEF Pages, FeedTypeOK
  <2>3. Behind' /\ Streams'
    BY <1>0, <1>4, <2>2 DEF Start, Behind, Streams, Chain
  <2> QED BY <2>1, <2>3 DEF FeedInv
<1> QED BY <1>1, <1>2, <1>3, <1>4

-----------------------------------------------------------------------------
(* The steps of the instance, and the theorems about the feed.             *)

(* A step of the instance, as the feed sees it. *)
LEMMA FeedMoves ==
  ASSUME [ObservedNext]_observedVars
  PROVE  \/ Appended \/ Open \/ Look \/ Read \/ Pause \/ Deliver \/ Disconnect
         \/ Stop \/ Stopped \/ Crash \/ Start \/ UNCHANGED feedVars
<1>1. CASE UNCHANGED observedVars
  BY <1>1, Zenon DEF observedVars
<1>2. CASE FeedAlone \/ ProcessEnds
  BY <1>2, Zenon DEF FeedAlone, ProcessEnds
<1>3. CASE ConnectorStep
  BY <1>3, Zenon DEF ConnectorStep, Lifespan, BeginConnect, ConnectReturns, ConnectRaises,
     BeginDisconnect, DisconnectReturns, DisconnectRaises, Deserialize, Logged, ConsumeReturns,
     ConsumeRaises
<1>4. CASE Environment
  BY <1>4, Zenon DEF Environment, PollFails, ReceiveRaises, BeginConsume, RefuseConsume, Message, Poll
<1> QED BY <1>1, <1>2, <1>3, <1>4, Zenon DEF ObservedNext

LEMMA FeedStepInv ==
  ASSUME FeedInv, [ObservedNext]_observedVars
  PROVE  FeedInv'
<1>1. CASE UNCHANGED feedVars
  BY <1>1 DEF feedVars, FeedInv, FeedTypeOK, Streams, Chain, From, At, EndOf, Missed, Oldest,
     Behind, Pages, UntoldWasRaced
<1> QED BY <1>1, FeedMoves, AppendedKeeps, OpenKeeps, LookKeeps, ReadKeeps, PauseKeeps, DeliverKeeps,
           DisconnectKeeps, ServerKeeps

LEMMA FeedInvariance == ObservedSpec => []FeedInv
<1>1. ObservedInit => FeedInv
  BY FeedInitInv DEF ObservedInit
<1>2. FeedInv /\ [ObservedNext]_observedVars => FeedInv'
  BY FeedStepInv
<1> QED BY <1>1, <1>2, PTL DEF ObservedSpec

(* A page is shown every record up to the last event it read, or told how  *)
(* many it missed, but for exactly what left the ring between the two      *)
(* looks of one poll: for any size of the ring, and over streams that end, *)
(* lost connections, reloads, crashes and restarts.                        *)
THEOREM UntoldOnlyInRaces == ObservedSpec => []UntoldWasRaced
<1>1. FeedInv => UntoldWasRaced
  BY DEF FeedInv
<1> QED BY <1>1, FeedInvariance, PTL

(* A page is shown records of one process with ever higher numbers: the    *)
(* id that it resumes with never makes the stream go back.                 *)
THEOREM NeverShownTwice == ObservedSpec => NothingTwice
<1>1. ASSUME FeedInv, [ObservedNext]_observedVars, page'.token = page.token, page' # page
      PROVE  page'.seq > page.seq
  <2>1. Deliver \/ Disconnect
    BY <1>1, FeedMoves DEF Appended, Open, Look, Read, Pause, Stop, Stopped, Crash, Start, feedVars
  <2>2. CASE Disconnect
    BY <1>1, <2>2 DEF Disconnect, FeedInv, Pages, NewPage
  <2>3. CASE Deliver
    <3>1. /\ wire \in Seq(Events) /\ page \in PageType /\ Chain(wire, From) /\ wire # <<>>
      BY <1>1, <2>3 DEF FeedInv, FeedTypeOK, Streams, Events, PageType, Deliver
    <3>2. PICK e \in Events : e = Head(wire) /\ e.seq = From + Counts(e)
      BY <3>1, ChainTail
    <3>3. page'.seq = e.seq /\ page'.token = token
      <4>1. PICK p : p = IF page.token = token THEN page
                         ELSE [NewPage EXCEPT !.token = token, !.base = stream.start]
        OBVIOUS
      <4>2. page' = Shown(p, e)
        BY <2>3, <3>2, <4>1 DEF Deliver, Shown
      <4>3. p = Account(p.token, p.seq, p.base, p.got, p.told, p.raced) /\ p.token = token
        BY <3>1, <4>1 DEF PageType, Account, NewPage
      <4>4. page' = Account(p.token, e.seq, p.base, IF e.told = 0 THEN p.got + 1 ELSE p.got,
                            p.told + e.told, p.raced + e.raced)
        BY <4>2, <4>3, ShownFields
      <4> QED BY <4>3, <4>4 DEF Account
    <3>4. From = page.seq
      BY <1>1, <3>3 DEF From
    <3>5. Counts(e) \in Nat \ {0} /\ page.seq \in Nat
      BY <3>1 DEF Counts, Events, PageType
    <3> QED BY <3>2, <3>3, <3>4, <3>5
  <2> QED BY <2>1, <2>2, <2>3
<1>2. FeedInv /\ [ObservedNext]_observedVars
        => [page'.token = page.token /\ page' # page => page'.seq > page.seq]_feedVars
  BY <1>1
<1> QED BY <1>2, FeedInvariance, PTL DEF ObservedSpec, NothingTwice

-----------------------------------------------------------------------------
(* What the connector works with was stamped before. *)
Stamped ==
  receiving.pc = "yielded" \/ formatted # Unset => "receive" \in seen.stamps

SeenType == [connected : {"unknown", "yes", "no"}, stamps : SUBSET {"receive", "consume"},
             error : BOOLEAN]

LEMMA SeenMoves ==
  ASSUME seen \in SeenType, Failed \/ FailedToConnect \/ Connected("yes") \/ Connected("no")
                              \/ Stamp("receive") \/ Stamp("consume")
  PROVE  seen' \in SeenType /\ seen.stamps \subseteq seen'.stamps
<1>1. PICK c, s, e : seen = [connected |-> c, stamps |-> s, error |-> e]
                     /\ c \in {"unknown", "yes", "no"} /\ s \in SUBSET {"receive", "consume"}
                     /\ e \in BOOLEAN
  BY DEF SeenType
<1>2. \/ seen' = [connected |-> c, stamps |-> s, error |-> TRUE]
      \/ seen' = [connected |-> "no", stamps |-> s, error |-> TRUE]
      \/ seen' = [connected |-> "yes", stamps |-> s, error |-> e]
      \/ seen' = [connected |-> "no", stamps |-> s, error |-> e]
      \/ seen' = [connected |-> c, stamps |-> s \cup {"receive"}, error |-> e]
      \/ seen' = [connected |-> c, stamps |-> s \cup {"consume"}, error |-> e]
  BY <1>1 DEF Failed, FailedToConnect, Connected, Stamp
<1>3. PICK d, t, f : /\ seen' = [connected |-> d, stamps |-> t, error |-> f]
                     /\ d \in {c, "yes", "no"} /\ t \in {s, s \cup {"receive"}, s \cup {"consume"}}
                     /\ f \in {e, TRUE}
  BY <1>2
<1>4. /\ d \in {"unknown", "yes", "no"} /\ t \in SUBSET {"receive", "consume"} /\ f \in BOOLEAN
      /\ s \subseteq t
  BY <1>1, <1>3
<1>5. seen' \in SeenType
  BY <1>3, <1>4, Zenon DEF SeenType
<1>6. seen.stamps = s /\ seen'.stamps = t
  BY <1>1, <1>3
<1> QED BY <1>4, <1>5, <1>6

ConnectorType ==
  /\ kind \in Kinds
  /\ life \in {"never", "connecting", "connected", "failed", "closing", "closed"}
  /\ receiving.pc \in {"off", "waiting", "yielded"} /\ receiving.value \in Values \cup {Unset}
  /\ sending \in BOOLEAN
  /\ {polled, formatted} \subseteq Values \cup {Unset}
  /\ seen \in SeenType

ConnectorInv == ConnectorType /\ Stamped

LEMMA ConnectorInit ==
  ASSUME ObservedInit
  PROVE  ConnectorInv
BY DEF ObservedInit, Off, Unseen, ConnectorInv, ConnectorType, SeenType, Stamped

LEMMA ConnectorStepInv ==
  ASSUME ConnectorInv, [ObservedNext]_observedVars
  PROVE  ConnectorInv'
<1>0. ConnectorType /\ Stamped
  BY DEF ConnectorInv
<1>1. CASE UNCHANGED connVars
  BY <1>0, <1>1 DEF connVars, ConnectorInv, ConnectorType, Stamped
<1>2. CASE ProcessEnds
  BY <1>0, <1>2 DEF ProcessEnds, Off, Unseen, ConnectorInv, ConnectorType, SeenType, Stamped
<1>3. CASE Lifespan
  <2>1. seen' = seen \/ Failed \/ FailedToConnect \/ Connected("yes") \/ Connected("no")
    BY <1>3 DEF Lifespan, BeginConnect, ConnectReturns, ConnectRaises, BeginDisconnect,
       DisconnectReturns, DisconnectRaises
  <2>2. seen' \in SeenType /\ seen.stamps \subseteq seen'.stamps
    BY <1>0, <2>1, SeenMoves DEF ConnectorType
  <2>3. /\ UNCHANGED <<kind, polled, formatted>>
        /\ receiving' \in {receiving, Waiting, Off} /\ sending' \in {sending, FALSE}
        /\ life' \in {"connecting", "connected", "failed", "closing", "closed"}
    BY <1>3 DEF Lifespan, BeginConnect, ConnectReturns, ConnectRaises, BeginDisconnect,
       DisconnectReturns, DisconnectRaises
  <2>4. /\ receiving'.pc \in {"off", "waiting", "yielded"}
        /\ receiving'.value \in Values \cup {Unset}
        /\ receiving'.pc = "yielded" => receiving.pc = "yielded"
    BY <1>0, <2>3 DEF Waiting, Off, ConnectorType
  <2>5. Stamped'
    BY <1>0, <2>2, <2>3, <2>4 DEF Stamped
  <2>6. ConnectorType'
    BY <1>0, <2>2, <2>3, <2>4 DEF ConnectorType
  <2> QED BY <2>5, <2>6 DEF ConnectorInv
<1>4. CASE Deserialize
  <2>1. /\ UNCHANGED <<kind, life, sending, polled, seen>> /\ formatted' = receiving.value
        /\ receiving' = Waiting /\ receiving.pc = "yielded"
    BY <1>4 DEF Deserialize
  <2>2. ConnectorType'
    BY <1>0, <2>1 DEF Waiting, ConnectorType
  <2>3. Stamped'
    BY <1>0, <2>1 DEF Stamped
  <2> QED BY <2>2, <2>3 DEF ConnectorInv
<1>5. CASE ConsumeReturns \/ ConsumeRaises \/ RefuseConsume
  <2>1. seen' \in SeenType /\ seen.stamps \subseteq seen'.stamps
    BY <1>0, <1>5, SeenMoves DEF ConsumeReturns, ConsumeRaises, RefuseConsume, ConnectorType
  <2>2. UNCHANGED <<kind, life, receiving, polled, formatted>> /\ sending' \in {sending, FALSE}
    BY <1>5 DEF ConsumeReturns, ConsumeRaises, RefuseConsume
  <2> QED BY <1>0, <2>1, <2>2 DEF ConnectorInv, ConnectorType, Stamped
<1>6. CASE PollFails \/ BeginConsume
  BY <1>0, <1>6 DEF PollFails, BeginConsume, connVars, ConnectorInv, ConnectorType, Stamped
<1>7. CASE ReceiveRaises
  <2>1. seen' \in SeenType /\ seen.stamps \subseteq seen'.stamps
    BY <1>0, <1>7, SeenMoves DEF ReceiveRaises, ConnectorType
  <2> QED BY <1>0, <1>7, <2>1 DEF ReceiveRaises, Off, ConnectorInv, ConnectorType, Stamped
<1>8. ASSUME NEW v \in Values, Message(v) \/ Poll(v) PROVE ConnectorInv'
  <2>1. seen' \in SeenType
    BY <1>0, <1>8, SeenMoves DEF Message, Poll, Yield, ConnectorType
  <2>2. "receive" \in seen'.stamps
    BY <1>0, <1>8 DEF Message, Poll, Yield, Stamp, ConnectorType, SeenType
  <2>3. /\ receiving' = [pc |-> "yielded", value |-> v] /\ polled' \in {polled, v}
        /\ UNCHANGED <<kind, life, sending, formatted>>
    BY <1>8 DEF Message, Poll, Yield
  <2> QED BY <1>0, <2>1, <2>2, <2>3 DEF ConnectorInv, ConnectorType, Stamped
<1>9. CASE FeedAlone
  BY <1>1, <1>9 DEF FeedAlone
<1>10. CASE UNCHANGED observedVars
  BY <1>1, <1>10 DEF observedVars
<1> QED
  BY <1>2, <1>3, <1>4, <1>5, <1>6, <1>7, <1>8, <1>9, <1>10 DEF ObservedNext, ConnectorStep, Environment

LEMMA ConnectorInvariance == ObservedSpec => []ConnectorInv
<1>1. ObservedInit => ConnectorInv
  BY ConnectorInit
<1>2. ConnectorInv /\ [ObservedNext]_observedVars => ConnectorInv'
  BY ConnectorStepInv
<1> QED BY <1>1, <1>2, PTL DEF ObservedSpec

(* Every variable of the observed connector and of the feed keeps its      *)
(* type, and no number exceeds those of the records of the process.        *)
THEOREM ObservedTypeCorrect == ObservedSpec => []ObservedTypeOK
<1>1. FeedInv /\ ConnectorInv => ObservedTypeOK
  BY DEF FeedInv, ConnectorInv, ConnectorType, SeenType, ObservedTypeOK
<1> QED BY <1>1, FeedInvariance, ConnectorInvariance, PTL

(* The wrapper's receive stamps the observation before it yields, so the   *)
(* framework never holds a value whose receipt the record does not show,   *)
(* however connects, failures, restarts and cancellations interleave.      *)
THEOREM NeverShownUnstamped == ObservedSpec => []ShownIsStamped
<1>1. ConnectorInv => ShownIsStamped
  BY DEF ConnectorInv, Stamped, ShownIsStamped, Record
<1> QED BY <1>1, ConnectorInvariance, PTL
================================================================================
