--------------------------- MODULE MCTowerTracing ---------------------------
EXTENDS TowerTracing, TLC

NoCarrier == [format |-> None, context |-> NoContext]

XRay(id) == [format |-> "xray", context |-> [trace |-> id, span |-> id, sampled |-> TRUE]]

W3C(id) == [format |-> "w3c", context |-> [trace |-> id, span |-> id, sampled |-> TRUE]]

Ours == <<Part("Root", "a", FALSE), Part("Parent", "b", FALSE), Part("Sampled", "1", FALSE)>>

\* In another order, with a key of its own and without sampling.
Theirs == <<Part("Sampled", "0", FALSE), Part("Lineage", "x", FALSE),
            Part("Parent", "a", FALSE), Part("Root", "b", FALSE)>>

Spaced == <<Part("Root", "a", FALSE), Part("Parent", "b", TRUE)>>

Zero == <<Part("Root", "zero", FALSE), Part("Parent", "b", FALSE)>>

Headers == {<< >>, Ours, Theirs, Spaced, Zero}

Message(carrier, header) == [carrier |-> carrier, header |-> header]

Batches ==
    {<< >>, <<Message(W3C("b"), Ours)>>, <<Message(W3C("zero"), Theirs)>>,
     <<Message(NoCarrier, Ours), Message(XRay("a"), << >>), Message(W3C("b"), << >>)>>}
        \cup {<<Message(NoCarrier, header)>> : header \in Headers}

MessageFields == {"messaging.destination.name", "messaging.message.id"}

MCEvents ==
    [kind : {"v2"}, has : {ApiGatewayV2}, carrier : {NoCarrier, W3C("b"), W3C("zero")},
     env : {<< >>, Theirs, Zero}]
        \cup [kind : {"v1", "v2", "alb", "websocket"}, has : {{}}, carrier : {NoCarrier}, env : {Ours}]
        \cup [kind : {"v1", "alb"}, has : {ApiGatewayV1}, carrier : {W3C("a")}, env : {Spaced}]
        \cup [kind : {"v2"}, has : {{}}, carrier : {XRay("a")}, env : {Theirs}]
        \cup [kind : {"sqs"}, has : {MessageFields}, records : Batches]
        \cup [kind : {"sns"}, has : {{}}, records : {<< >>, <<Message(NoCarrier, Theirs)>>}]

MCConfigs ==
    [tracer : {TRUE}, logger : BOOLEAN, flush : {TRUE}, propagator : {"w3c"}, provisioned : {FALSE}]
        \cup {[tracer |-> FALSE, logger |-> TRUE, flush |-> TRUE, propagator |-> "xray",
               provisioned |-> TRUE],
              [tracer |-> TRUE, logger |-> TRUE, flush |-> FALSE, propagator |-> "w3c",
               provisioned |-> FALSE]}

CallSymmetry == Permutations(Calls)
=============================================================================
