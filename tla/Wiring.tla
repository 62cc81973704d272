------------------------------- MODULE Wiring -------------------------------
(***************************************************************************)
(* The construction and the start of an instance with a class_scope: what  *)
(* the ontology declares as protocol metadata is cut from the spec that is *)
(* served, the parameters of the resource are recognised in the graph, the *)
(* connectors are built, and at the start the datamodel is loaded and one  *)
(* route per parameter is mounted.                                         *)
(*                                                                         *)
(* The constructor is one thread; a step is one of its queries or calls.   *)
(* The ontology, the graph and the installation are chosen once; the       *)
(* address of the resource's Service may come and go meanwhile.            *)
(***************************************************************************)
EXTENDS Naturals, Sequences, FiniteSets, Functions, SequencesExt

CONSTANTS
  Resource,    \* the individual that this instance is bound to
  Individuals, \* it and the components it may link to
  Params,      \* the parameter properties
  Markers,     \* the interface properties below the interface root
  Levels,      \* for each depth of the spec, the parameters it declares there
  Ontologies,  \* records: above (interface properties), declares (metadata)
  Graphs,      \* records: link and node (metadata present, with its value)
  Installs,    \* records: registry, direction, autoregister, hook
  Addresses,   \* what a Service may publish
  None,        \* no address
  MaxMoves     \* bound on changes of the address

InterfaceRoot == "parameter"   \* inf:isInterfaceAccessibleParameter
Interfaces    == Markers \cup {InterfaceRoot}

ASSUME WiringAssumption ==
  /\ Resource \in Individuals
  /\ "mqtt" \in Markers /\ InterfaceRoot \notin Markers
  /\ None \notin Addresses
  /\ MaxMoves \in Nat

VARIABLES
  ontology, graph, install,
  phase,      \* spec, recognise, build, ensured, wired, connected, serving, bare, raised
  address,    \* svc:hasAddress of the resource's Service in the graph
  looked,     \* what the one lookup of _recognise found
  hidden,     \* southbound_by_property
  pending,    \* the bindings not yet built
  building,   \* the one whose transport is up and whose connectors are to come
  bindings,   \* the recognised parameters
  called,     \* the (host, port) that the transport hook was called with
  connectors, \* the registrations
  routes,     \* the parameter routes that are mounted
  held,       \* for each individual and parameter, the fields its node holds
  moves

given == <<ontology, graph, install>>
vars  == <<given, phase, address, looked, hidden, pending, building, bindings, called,
           connectors, routes, held, moves>>

-----------------------------------------------------------------------------
(* The ontology.                                                           *)

(* What the interface adds to the node of a parameter.                     *)
Declared(markers) == UNION {ontology.declares[m] : m \in markers}

(* _protocol_markers: strictly between the parameter and the root.         *)
ProtocolMarkers(p) == ontology.above[p] \ {p, InterfaceRoot}

(* The effective shape of a parameter's node, merged over the whole chain. *)
Shape(p) ==
  {"value", "unit"} \cup Declared(ProtocolMarkers(p))
    \cup (IF InterfaceRoot \in ontology.above[p] THEN {"accessMode"} ELSE {})

(* southbound_properties                                                   *)
Unprovable(p) == ProtocolMarkers(p) # {} /\ Declared(ProtocolMarkers(p)) = {}

Reads(descriptor) ==
  IF descriptor = "mqtt" THEN {"topic", "broker", "port", "setTopic", "valuePath"} ELSE {}

Southbound_OfRegistry(p) ==
  Shape(p) \cap UNION {Reads(d) : d \in install.registry}

Southbound(p) == Declared(ProtocolMarkers(p))

(* The fields of the pruned spec, which types what a route answers.        *)
Northbound(p) == Shape(p) \ hidden[p]

-----------------------------------------------------------------------------
(* The resource and its components.                                        *)

(* Every way from the resource down the links, as deep as the spec goes.   *)
Walks ==
  {w \in SeqOf(Individuals, Len(Levels)) :
     /\ w # <<>> /\ w[1] = Resource
     /\ \A k \in 1..(Len(w) - 1) : w[k + 1] \in graph.link[w[k]]}

Holder(w) == Last(w)
Simple(w) == IsInjective(w)

(* _parameter_properties                                                   *)
Occurrences == {[walk |-> w, param |-> p] : w \in Walks, p \in Params}
Parameters  == {x \in Occurrences : x.param \in Levels[Len(x.walk)]}

(* _descriptor_for: the registered interface property that specialises all *)
(* the others which match, or none.                                        *)
Matches(p) == install.registry \cap ontology.above[p]
Specialises(d, other) ==
  d = other \/ (d # InterfaceRoot /\ other \in ontology.above[d])
MostSpecific(p) == {d \in Matches(p) : \A other \in Matches(p) : Specialises(d, other)}

Node(x) == graph.node[<<Holder(x.walk), x.param>>]

(* _parameter_metadata, and the address folded into it.                    *)
Metadata(x) ==
  LET read  == Restrict(Node(x), DOMAIN Node(x) \cap Shape(x.param))
      known == "address" \in DOMAIN read \/ looked = None
  IN IF known THEN read
     ELSE [k \in DOMAIN read \cup {"address"} |-> IF k = "address" THEN looked ELSE read[k]]

Value(b, key, default) == IF key \in DOMAIN b.metadata THEN b.metadata[key] ELSE default

-----------------------------------------------------------------------------
(* The connectors.                                                         *)

(* resolve_direction: an unknown access mode is read.                      *)
Permitted(b) ==
  IF Value(b, "accessMode", "read") = "readwrite"
       /\ install.direction \in {"BIDIRECTIONAL", "FROM_PERSISTENCE"}
  THEN "BIDIRECTIONAL" ELSE "TO_PERSISTENCE"

Broker(b) == <<Value(b, "broker", None), Value(b, "port", 1883)>>

Complete(b) == Value(b, "broker", None) # None /\ Value(b, "topic", None) # None

Legs(b) ==
  IF Permitted(b) = "BIDIRECTIONAL" /\ Value(b, "setTopic", None) # None
  THEN {"read", "write"} ELSE {"read"}

Connector(b, leg, target) == [binding |-> b, leg |-> leg, target |-> target]

(* _formatter_for: the facets that a value is reassembled with, which the  *)
(* model of the full spec keeps as far as it has them.                     *)
Facets(b) == (DOMAIN b.metadata \cap Shape(b.param)) \ (Reads(b.by) \cup {"value"})

-----------------------------------------------------------------------------
(* The routes.                                                             *)

(* _accumulate_routes: every binding of the individual at each of its      *)
(* places, where no way comes past an individual twice.                    *)
Mounted_Once ==
  {[walk |-> CHOOSE w \in Walks : Simple(w) /\ Holder(w) = Holder(b.walk), param |-> b.param] :
     b \in {c \in bindings : Simple(c.walk)}}

Mounted ==
  {x \in Occurrences :
     /\ Simple(x.walk)
     /\ \E b \in bindings : Holder(b.walk) = Holder(x.walk) /\ b.param = x.param}

(* A route is typed by its owner's field at that place, if it is there.    *)
Typed(x) == x.param \in Levels[Len(x.walk)]

Served(x) ==
  LET fields == held[<<Holder(x.walk), x.param>>]
  IN IF Typed(x) THEN fields \cap Northbound(x.param) ELSE fields

(* build_parameter_path: the path a consumer derives from the hops of a way. *)
ParameterPath(b) == [walk |-> b.walk, param |-> b.param]

-----------------------------------------------------------------------------
Phases == {"spec", "recognise", "build", "ensured", "wired", "connected", "serving", "bare",
           "raised"}

TypeOK ==
  /\ ontology \in Ontologies /\ graph \in Graphs /\ install \in Installs
  /\ phase \in Phases
  /\ {address, looked} \subseteq Addresses \cup {None}
  /\ \A p \in DOMAIN hidden : hidden[p] \subseteq Shape(p)
  /\ {ParameterPath(b) : b \in bindings} \subseteq Parameters /\ building \subseteq bindings
  /\ \A c \in connectors : c.binding \in bindings /\ c.leg \in {"read", "write"}
  /\ routes \subseteq Occurrences
  /\ \A x \in Individuals \X Params : held[x] \subseteq Shape(x[2])
  /\ moves \in 0..MaxMoves

Init ==
  /\ ontology \in Ontologies /\ graph \in Graphs /\ install \in Installs
  /\ address \in Addresses \cup {None} /\ looked = None
  /\ phase = "spec"
  /\ hidden = [p \in Params |-> {}]
  /\ pending = {} /\ building = {} /\ bindings = {} /\ called = <<>> /\ connectors = {}
  /\ routes = {} /\ held = [x \in Individuals \X Params |-> {}]
  /\ moves = 0

(* The Service of the resource comes, goes or restarts elsewhere.          *)
AddressChanges ==
  /\ moves < MaxMoves /\ moves' = moves + 1
  /\ address' \in (Addresses \cup {None}) \ {address}
  /\ UNCHANGED <<given, phase, looked, hidden, pending, building, bindings, called, connectors,
                 routes, held>>

(* prune_southbound asks for every parameter of the spec, at any depth and *)
(* whatever the graph holds; then the start of _recognise.                 *)
Nested == UNION Range(Levels)

Project ==
  /\ phase = "spec"
  /\ \A p \in Nested : ~Unprovable(p)
  /\ hidden' = [p \in Params |-> Southbound(p)]
  /\ looked' = address
  /\ phase' = "recognise"
  /\ UNCHANGED <<given, address, pending, building, bindings, called, connectors, routes, held,
                 moves>>

(* What is not provably safe is not served: construction fails.            *)
RefuseProjection ==
  /\ phase = "spec"
  /\ \E p \in Nested : Unprovable(p)
  /\ phase' = "raised"
  /\ UNCHANGED <<given, address, looked, hidden, pending, building, bindings, called,
                 connectors, routes, held, moves>>

(* _recognise: a parameter with a descriptor and a node becomes a binding. *)
Recognise ==
  /\ phase = "recognise"
  /\ bindings' =
       UNION {{[walk |-> x.walk, param |-> x.param, by |-> d, metadata |-> Metadata(x)] :
                 d \in MostSpecific(x.param)} : x \in {y \in Parameters : DOMAIN Node(y) # {}}}
  /\ phase' = IF install.autoregister THEN "build" ELSE "wired"
  /\ pending' = IF install.autoregister THEN bindings' ELSE {}
  /\ UNCHANGED <<given, address, looked, hidden, building, called, connectors, routes, held,
                 moves>>

(* _dedupe_by_address: the hook is called once for each (host, port).      *)
Ensure_PerHost(target) ==
  called' = IF ~install.hook \/ \E k \in DOMAIN called : called[k][1] = target[1]
            THEN called ELSE Append(called, target)

Ensure(target) ==
  called' = IF ~install.hook \/ target \in Range(called) THEN called ELSE Append(called, target)

(* A binding without a broker or a topic is not built.  The hook has to    *)
(* bring up the transport of any other before its connectors are made.     *)
EnsureTransport(b) ==
  /\ phase = "build" /\ b \in pending /\ b.by = "mqtt"
  /\ pending' = pending \ {b}
  /\ IF Complete(b)
     THEN Ensure(Broker(b)) /\ phase' = "ensured" /\ building' = {b}
     ELSE UNCHANGED <<called, phase, building>>
  /\ UNCHANGED <<given, address, looked, hidden, bindings, connectors, routes, held, moves>>

BuildMQTT(b) ==
  /\ phase = "ensured" /\ b \in building
  /\ connectors' = connectors \cup {Connector(b, leg, Broker(b)) : leg \in Legs(b)}
  /\ phase' = "build" /\ building' = {}
  /\ UNCHANGED <<given, address, looked, hidden, pending, bindings, called, routes, held,
                 moves>>

(* The hook of the deployment raises, and with it the construction.        *)
HookRaises(b) ==
  /\ phase = "build" /\ b \in pending /\ b.by = "mqtt" /\ Complete(b)
  /\ install.hook /\ Broker(b) \notin Range(called)
  /\ phase' = "raised"
  /\ called' = Append(called, Broker(b))
  /\ UNCHANGED <<given, address, looked, hidden, pending, building, bindings, connectors,
                 routes, held, moves>>

BuildREST(b) ==
  /\ phase = "build" /\ b \in pending /\ b.by = InterfaceRoot
  /\ Permitted(b) = "TO_PERSISTENCE"
  /\ pending' = pending \ {b}
  /\ connectors' = connectors \cup
       {Connector(b, "read", <<a>>) : a \in {Value(b, "address", None)} \ {None}}
  /\ UNCHANGED <<given, phase, address, looked, hidden, building, bindings, called, routes,
                 held, moves>>

(* A REST binding that would write is refused: construction fails, and the *)
(* transports that were brought up for it so far stay.                     *)
RefuseREST(b) ==
  /\ phase = "build" /\ b \in pending /\ b.by = InterfaceRoot
  /\ Permitted(b) # "TO_PERSISTENCE"
  /\ phase' = "raised"
  /\ UNCHANGED <<given, address, looked, hidden, pending, building, bindings, called,
                 connectors, routes, held, moves>>

(* A descriptor of the deployment, for another protocol: nothing to model.  *)
BuildOther(b) ==
  /\ phase = "build" /\ b \in pending /\ b.by \notin {"mqtt", InterfaceRoot}
  /\ pending' = pending \ {b}
  /\ UNCHANGED <<given, phase, address, looked, hidden, building, bindings, called, connectors,
                 routes, held, moves>>

Built ==
  /\ phase = "build" /\ pending = {}
  /\ phase' = "wired"
  /\ UNCHANGED <<given, address, looked, hidden, pending, building, bindings, called,
                 connectors, routes, held, moves>>

(* The lifespan connects what is registered, before any start-up callback. *)
Connect ==
  /\ phase = "wired"
  /\ phase' = "connected"
  /\ UNCHANGED <<given, address, looked, hidden, pending, building, bindings, called,
                 connectors, routes, held, moves>>

(* _load_resource_datamodel: the northbound view is fetched and mounted.   *)
Load ==
  /\ phase = "connected"
  /\ phase' = "serving"
  /\ routes' = Mounted
  /\ held' = [x \in Individuals \X Params |-> DOMAIN graph.node[x] \cap Northbound(x[2])]
  /\ UNCHANGED <<given, address, looked, hidden, pending, building, bindings, called,
                 connectors, moves>>

(* A fetch that fails is a warning: the instance runs without the routes.  *)
LoadFails ==
  /\ phase = "connected"
  /\ phase' = "bare"
  /\ UNCHANGED <<given, address, looked, hidden, pending, building, bindings, called,
                 connectors, routes, held, moves>>

(* A value arrives: MQTT puts it into its facets, REST has a peer's node.  *)
Receive(c) ==
  /\ phase = "serving" /\ c \in connectors /\ c.leg = "read"
  /\ LET b == c.binding
     IN held' = [held EXCEPT ![<<Holder(b.walk), b.param>>] =
                   IF b.by = "mqtt" THEN Facets(b) \cup {"value"} ELSE Northbound(b.param)]
  /\ UNCHANGED <<given, phase, address, looked, hidden, pending, building, bindings, called,
                 connectors, routes, moves>>

Next ==
  \/ AddressChanges \/ Project \/ RefuseProjection \/ Recognise \/ Built
  \/ Connect \/ Load \/ LoadFails
  \/ \E b \in bindings : \/ EnsureTransport(b) \/ HookRaises(b) \/ BuildMQTT(b)
                         \/ BuildREST(b) \/ RefuseREST(b) \/ BuildOther(b)
  \/ \E c \in connectors : Receive(c)

Spec == Init /\ [][Next]_vars

-----------------------------------------------------------------------------
(* No field that a protocol of the ontology adds to a parameter is ever    *)
(* served where the datamodel declares that parameter: whichever binding   *)
(* is registered for it, or none, or wired at all, and whatever a received *)
(* value was reassembled with (projection.py, "the ontology, not the       *)
(* code").                                                                 *)
NothingSouthboundServed ==
  phase = "serving" =>
    \A x \in Parameters :
      Served(x) \cap UNION {ontology.declares[m] : m \in ontology.above[x.param] \cap Markers} = {}

(* The path that recognition derives for a peer's parameter, from the spec *)
(* and the graph, is one that the peer mounts, from its datamodel tree,    *)
(* also where a component is reached by two ways (build_parameter_path:    *)
(* "mirrors _accumulate_routes exactly"); ways with a cycle excepted.      *)
PathsMeet ==
  phase = "serving" => {ParameterPath(b) : b \in {c \in bindings : Simple(c.walk)}} \subseteq routes

(* The transport hook is called before a connector of its address exists,  *)
(* and never twice for one (host, port), however many parameters share it  *)
(* and whatever fails later in the construction.                           *)
TransportFirst ==
  /\ IsInjective(called)
  /\ \A c \in connectors :
       c.binding.by = "mqtt" /\ install.hook => c.target \in Range(called)
=============================================================================
