---------------------------- MODULE TowerTracing ----------------------------
(***************************************************************************)
(* The tower middleware (opentelemetry-lambda-tower): OtelTracingService   *)
(* makes a span for an event and calls the handler, OtelTracingFuture      *)
(* closes the span when the handler is done and flushes before it lets the *)
(* response out.  Calls of clones of the service may run at once, on       *)
(* several threads; they share the cold start flag and the two providers.  *)
(*                                                                         *)
(* A span closes when the last holder of it lets go: the future, or a task *)
(* the handler spawned with it.  The processor of the tracer provider, and *)
(* that of the logger provider, keep what is ended until a flush.          *)
(***************************************************************************)
EXTENDS XRayHeader, FiniteSets

CONSTANTS
    Calls,       \* calls of the service
    Events,      \* events: see EventsOK
    Configs,     \* layers: see LayerOK
    MaxTasks     \* bound: tasks that hold the span of a call

HttpKinds == {"v1", "v2", "alb", "websocket"}
MessageKinds == {"sqs", "sns"}

\* has: the optional fields of the event; carrier: the trace headers of the request or
\* the message, of one format; env: the value of _X_AMZN_TRACE_ID at the call, empty if
\* it is not set, which only the HTTP extractors read; header: AWSTraceHeader.
EventsOK ==
    \A event \in Events :
        /\ event.kind \in HttpKinds =>
              DOMAIN event = {"kind", "has", "carrier", "env"} /\ IsHeader(event.env)
        /\ event.kind \in HttpKinds \cup MessageKinds
        /\ event.kind \in MessageKinds => \A i \in DOMAIN event.records :
              /\ DOMAIN event.records[i] = {"carrier", "header"}
              /\ IsHeader(event.records[i].header)

\* OtelTracingLayer and the environment it is in.
LayerOK == Configs \subseteq [tracer : BOOLEAN, logger : BOOLEAN, flush : BOOLEAN,
                              propagator : {"w3c", "xray"}, provisioned : BOOLEAN]

ASSUME TowerAssumption == EventsOK /\ LayerOK /\ MaxTasks \in Nat

VARIABLES
    config,  \* the layer and its environment
    cold,    \* IS_COLD_START
    call,    \* per call: the service's and the future's state
    span,    \* per call: "none", "open", "ended", "exported" or "lost"
    logs     \* per call: its log records: "none", "buffered", "exported" or "lost"

towerVars == <<config, cold, call, span, logs>>

Places == {"idle", "running", "tracer", "logger", "returned", "dropped"}

NoCall == [at |-> "idle", event |-> [kind |-> None], coldStart |-> FALSE,
           parent |-> NoContext, links |-> << >>, fields |-> {}, tasks |-> 0,
           spawned |-> FALSE]

TowerInit ==
    /\ config \in Configs
    /\ cold = TRUE
    /\ call = [c \in Calls |-> NoCall]
    /\ span = [c \in Calls |-> "none"] /\ logs = [c \in Calls |-> "none"]

-----------------------------------------------------------------------------
(* Extractors: trace context. *)

\* The global propagator finds the headers of its own format, if they are valid.
Propagated(carrier) ==
    IF carrier.format = config.propagator /\ IsValid(carrier.context)
    THEN carrier.context
    ELSE NoContext

\* XRayEnvExtractor offers the environment's header as a traceparent.
FromEnvironment(event) ==
    Propagated([format |-> "w3c", context |-> HttpContext(event.env)])

\* The environment before the request.
EnvironmentFirst(event) ==
    IF FromEnvironment(event) # NoContext THEN FromEnvironment(event) ELSE Propagated(event.carrier)

HttpParent(event) ==
    IF Propagated(event.carrier) # NoContext THEN Propagated(event.carrier) ELSE FromEnvironment(event)

\* NoContext is the current context, which has no span outside of the middleware.
ExtractContext(event) ==
    IF event.kind \in HttpKinds THEN HttpParent(event) ELSE NoContext

\* extract_link_from_sqs_message, extract_link_from_record.
MessageLink(message) ==
    IF Propagated(message.carrier) # NoContext THEN Propagated(message.carrier)
    ELSE MessageContext(message.header)

\* A message without a context has no link.
Linked(contexts) == SelectSeq(contexts, LAMBDA context : context # NoContext)

ExtractLinks(event) ==
    IF event.kind \in HttpKinds THEN << >>
    ELSE Linked([i \in DOMAIN event.records |-> MessageLink(event.records[i])])

-----------------------------------------------------------------------------
(* Extractors: attributes.  An optional field of an event has the name of *)
(* the attribute that is recorded from it.                                *)

ApiGatewayV1 ==
    {"url.path", "http.route", "user_agent.original", "client.address", "server.address",
     "network.protocol.version"}

\* A query string that is empty counts as none.
ApiGatewayV2 == ApiGatewayV1 \cup {"url.query"}

LoadBalancer == {"url.path", "user_agent.original", "server.address"}

HttpAttributes(event) ==
    CASE event.kind = "v1"  -> {"http.request.method", "url.scheme"} \cup (event.has \cap ApiGatewayV1)
      [] event.kind = "v2"  -> {"http.request.method", "url.scheme"} \cup (event.has \cap ApiGatewayV2)
      [] event.kind = "alb" -> {"http.request.method", "url.scheme"} \cup (event.has \cap LoadBalancer)
      [] event.kind = "websocket" -> {"url.scheme"}

MessagingAttributes ==
    {"messaging.system", "messaging.operation.type", "messaging.batch.message_count"}

\* The id is that of the only message; every message has the ARN of its queue, or none.
SqsAttributes(event) ==
    MessagingAttributes
        \cup (event.has \cap {"messaging.destination.name"})
        \cup (IF Len(event.records) = 1 THEN event.has \cap {"messaging.message.id"} ELSE {})

\* The topic and the id are those of the first notification, and always there.
SnsAttributes(event) ==
    MessagingAttributes
        \cup (IF event.records = << >> THEN {}
              ELSE {"messaging.destination.name", "messaging.message.id"})

EventAttributes(event) ==
    CASE event.kind \in HttpKinds -> HttpAttributes(event)
      [] event.kind = "sqs" -> SqsAttributes(event)
      [] event.kind = "sns" -> SnsAttributes(event)

\* record_lambda_context_attributes, with AWS_REGION set and an ARN that has an account.
ContextAttributes ==
    {"cloud.provider", "faas.name", "faas.version", "faas.max_memory", "cloud.region",
     "aws.lambda.invoked_arn", "cloud.account.id"}

\* What the span has when it is made.
InitialFields == {"otel.name", "otel.kind", "faas.trigger", "faas.invocation_id", "faas.coldstart"}

\* The fields without one of HTTP API events.
FieldsWithoutQuery == InitialFields \cup ContextAttributes \cup MessagingAttributes
    \cup ApiGatewayV1 \cup {"http.request.method", "url.scheme", "messaging.destination.name",
                            "messaging.message.id"}

\* With the fields that info_span! declares empty.
DeclaredFields ==
    InitialFields
        \cup {"http.request.method", "url.path", "url.query", "url.scheme", "http.route",
              "user_agent.original", "client.address", "server.address",
              "network.protocol.version"}
        \cup MessagingAttributes \cup {"messaging.destination.name", "messaging.message.id"}
        \cup ContextAttributes

\* Span::record ignores a field that the span does not declare.
Recorded(names) == names \cap DeclaredFields

-----------------------------------------------------------------------------
(* OtelTracingService::call *)

\* A check that reads the flag and leaves it.
PeekColdStart(first) == first = (cold /\ ~config.provisioned) /\ UNCHANGED cold

\* check_cold_start: one atomic swap.
CheckColdStart(first) == first = (cold /\ ~config.provisioned) /\ cold' = FALSE

Call(c, event) ==
    /\ call[c].at = "idle"
    /\ \E first \in BOOLEAN :
          /\ CheckColdStart(first)
          /\ call' = [call EXCEPT ![c] =
                [NoCall EXCEPT !.at = "running", !.event = event,
                               !.coldStart = first,
                               !.parent = ExtractContext(event),
                               !.links = ExtractLinks(event),
                               !.fields = InitialFields
                                   \cup Recorded(EventAttributes(event) \cup ContextAttributes)]]
    /\ span' = [span EXCEPT ![c] = "open"]
    /\ UNCHANGED <<config, logs>>

-----------------------------------------------------------------------------
(* The handler, polled in its span. *)

Logs(c) ==
    /\ call[c].at = "running"
    /\ logs' = [logs EXCEPT ![c] = "buffered"]
    /\ UNCHANGED <<config, cold, call, span>>

\* A task that is spawned with the current span holds it beyond the handler.
SpawnsTask(c) ==
    /\ call[c].at = "running" /\ call[c].tasks < MaxTasks
    /\ call' = [call EXCEPT ![c].tasks = @ + 1, ![c].spawned = TRUE]
    /\ UNCHANGED <<config, cold, span, logs>>

Holds(c) == call[c].at = "running"

TaskEnds(c) ==
    /\ call[c].tasks > 0
    /\ call' = [call EXCEPT ![c].tasks = @ - 1]
    /\ span' = IF call[c].tasks = 1 /\ ~Holds(c) THEN [span EXCEPT ![c] = "ended"] ELSE span
    /\ UNCHANGED <<config, cold, logs>>

\* A span that the future keeps until it has flushed.
KeepsSpan(c) == UNCHANGED span

\* The future drops its handle of the span.
DropsSpan(c) == span' = IF call[c].tasks = 0 THEN [span EXCEPT ![c] = "ended"] ELSE span

-----------------------------------------------------------------------------
(* OtelTracingFuture::poll *)

StatusFields(result) ==
    IF result = "ok" THEN {"otel.status_code"} ELSE {"otel.status_code", "error.message"}

\* The handler is ready: its status, the end of the span, and the flush if there is one.
Ready(c, result) ==
    /\ call[c].at = "running"
    /\ DropsSpan(c)
    /\ call' = [call EXCEPT ![c].fields = @ \cup Recorded(StatusFields(result)),
                            ![c].at = IF config.flush /\ (config.tracer \/ config.logger)
                                      THEN "tracer"
                                      ELSE "returned"]
    /\ UNCHANGED <<config, cold, logs>>

\* The caller drops the future: a timeout, a connection that is gone.
Dropped(c) ==
    /\ call[c].at = "running"
    /\ DropsSpan(c)
    /\ call' = [call EXCEPT ![c].at = "dropped"]
    /\ UNCHANGED <<config, cold, logs>>

\* A flush takes all there is, of every call.  What a failed one held counts as gone, also
\* where the SDK only stopped waiting and may send it later.
Flushed(store, waiting, ok) ==
    [c \in Calls |-> IF store[c] # waiting THEN store[c]
                     ELSE IF ok THEN "exported" ELSE "lost"]

\* force_flush blocks the thread that polls, so no timeout ends it.
FlushTracer(c, ok) ==
    /\ call[c].at = "tracer"
    /\ call' = [call EXCEPT ![c].at = "logger"]
    /\ span' = IF config.tracer THEN Flushed(span, "ended", ok) ELSE span
    /\ UNCHANGED <<config, cold, logs>>

FlushLogger(c, ok) ==
    /\ call[c].at = "logger"
    /\ call' = [call EXCEPT ![c].at = "returned"]
    /\ logs' = IF config.logger THEN Flushed(logs, "buffered", ok) ELSE logs
    /\ UNCHANGED <<config, cold, span>>

-----------------------------------------------------------------------------
TowerNext ==
    \E c \in Calls :
        \/ \E event \in Events : Call(c, event)
        \/ Logs(c) \/ SpawnsTask(c) \/ TaskEnds(c) \/ Dropped(c)
        \/ \E result \in {"ok", "error"} : Ready(c, result)
        \/ \E ok \in BOOLEAN : FlushTracer(c, ok) \/ FlushLogger(c, ok)

TowerSpec == TowerInit /\ [][TowerNext]_towerVars

-----------------------------------------------------------------------------
(* Properties. *)

Begun == {c \in Calls : call[c].at # "idle"}

\* "exactly one invocation will see `true`" (cold_start.rs:26), however the calls overlap,
\* and none of an environment with provisioned concurrency (cold_start.rs:19-21).
OneColdStart ==
    Cardinality({c \in Begun : call[c].coldStart})
        = IF config.provisioned \/ Begun = {} THEN 0 ELSE 1

\* "the future does NOT return until the flush completes" (future.rs:26-28): when a
\* response is let out, no provider of the layer still buffers its span or its logs,
\* and its span is closed, unless a task that the handler left behind holds it.
FlushedBeforeResponse ==
    [][ \A c \in Calls :
          (config.flush /\ call[c].at # "returned" /\ call'[c].at = "returned")
          => /\ config.tracer => span'[c] \notin {"open", "ended"} \/ call[c].spawned
             /\ config.logger => logs'[c] # "buffered" ]_towerVars

\* "All semantic convention fields must be declared here for record() to work"
\* (service.rs:96): whatever the extractors record of an event reaches the span.
EventAttributesReachSpan ==
    \A c \in Begun : EventAttributes(call[c].event) \cup ContextAttributes \subseteq call[c].fields

\* What a well-formed sender meant: its W3C headers on the request or message if they
\* are valid, else what its X-Ray header says.
Sent(carrier, header) ==
    IF carrier.format = "w3c" /\ IsValid(carrier.context) THEN carrier.context
    ELSE IF header = << >> THEN NoContext
    ELSE Meaning(header)

SentAll(event) == [i \in DOMAIN event.records |->
                      Sent(event.records[i].carrier, event.records[i].header)]

WellFormed(header) == header = << >> \/ Canonical(header)

\* With the W3C propagator, a span has the parent that its sender named, and one link to
\* each message that has a trace, in order; never the trace of another message or event.
ContextIsTheSenders ==
    \A c \in Begun :
        LET event == call[c].event
        IN  config.propagator = "w3c" =>
              IF event.kind \in HttpKinds
              THEN /\ WellFormed(event.env) => call[c].parent = Sent(event.carrier, event.env)
                   /\ call[c].links = << >>
              ELSE /\ call[c].parent = NoContext
                   /\ (\A i \in DOMAIN event.records : WellFormed(event.records[i].header))
                      => call[c].links = Linked(SentAll(event))

\* "Records success/error status on the span" (future.rs:20).
StatusReachesSpan ==
    \A c \in Begun : call[c].at \in {"tracer", "logger", "returned"}
                     => "otel.status_code" \in call[c].fields
=============================================================================
