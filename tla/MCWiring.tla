------------------------------ MODULE MCWiring ------------------------------
EXTENDS Wiring, TLC

(* A unit whose parameters hang off its belts; q also one level deeper.    *)
MCLevels == <<{}, {"p", "q"}, {"q"}>>

(* p is an MQTT parameter; q has no protocol, another one, or both.        *)
MCOntologies ==
  {[above    |-> ("p" :> {"mqtt", "parameter"} @@ "q" :> kind
                    @@ "mqtt" :> {"parameter"} @@ "opcua" :> {"parameter"}),
    declares |-> ("mqtt" :> extra @@ "opcua" :> endpoint)] :
     kind     \in {{}, {"parameter"}, {"opcua", "parameter"}, {"mqtt", "opcua", "parameter"}},
     extra    \in {{"broker", "port", "topic", "setTopic", "certificate"}},
     endpoint \in {{}, {"endpoint"}}}

Empty == [x \in {} |-> {}]
Speed(port) ==
  "broker" :> "host" @@ "port" :> port @@ "topic" :> "t" @@ "setTopic" :> "s"
    @@ "certificate" :> "c" @@ "accessMode" :> "readwrite" @@ "value" :> "v"
Endpoint == "endpoint" :> "e" @@ "accessMode" :> "read" @@ "unit" :> "u"

MCGraphs ==
  {[link |-> ("unit" :> first @@ "b1" :> second @@ "b2" :> {}),
    node |-> (<<"b1", "p">> :> Speed(1883) @@ <<"b2", "p">> :> other
                @@ <<"b1", "q">> :> Endpoint @@ <<"b2", "q">> :> rest
                @@ <<"unit", "p">> :> Empty @@ <<"unit", "q">> :> Empty)] :
     first  \in {{"b1"}, {"b1", "b2"}},
     second \in {{}, {"b1"}, {"b2"}},
     other  \in {Speed(1884), "topic" :> "t" @@ "value" :> "v"},
     rest   \in {Empty, Endpoint, Speed(1883)}}

MCInstalls ==
  {[registry |-> registry, direction |-> direction, autoregister |-> auto, hook |-> hook] :
     registry  \in {{"mqtt"}, {"parameter"}, {"mqtt", "parameter"}, {"mqtt", "opcua", "parameter"}},
     direction \in {"BIDIRECTIONAL", "TO_PERSISTENCE"},
     auto      \in BOOLEAN,
     hook      \in {TRUE}}
=============================================================================
