------------------------- MODULE TelemetryProcessor -------------------------
(***************************************************************************)
(* Platform telemetry on its way through the extension: batches of the     *)
(* Telemetry API are handed to TelemetryService, one task for each, which  *)
(* converts the events, pairs platform.start with platform.runtimeDone in  *)
(* TelemetryProcessor, turns platform.report into metrics, adds these to   *)
(* the aggregator and then signals completion (service.rs, conversion.rs). *)
(*                                                                         *)
(* The platform is external: it logs the events of one invocation after    *)
(* another, cuts the log into batches, delivers these in any order, and a  *)
(* batch again when it misses the answer.                                  *)
(***************************************************************************)
EXTENDS XRayHeader, SequencesExt

CONSTANTS
    Requests,         \* request ids, in the order of their invocations
    TraceHeaders,     \* per request, the tracing field of platform.start, empty for none
    Statuses,         \* statuses of platform.runtimeDone, None where there is no such event
    MaxBatches,       \* bound: batches of the log
    MaxRedeliveries   \* bound: deliveries beyond the first of each batch

ASSUME ProcessorAssumption ==
    /\ Cardinality(Requests) \in Nat /\ Requests = 1 .. Cardinality(Requests)
    /\ DOMAIN TraceHeaders = Requests /\ \A r \in Requests : IsHeader(TraceHeaders[r])
    /\ Statuses \subseteq {"success", "error", "failure", "timeout", None}
    /\ MaxBatches \in Nat \ {0} /\ MaxRedeliveries \in Nat

VARIABLES
    log,           \* the platform's events, in order, each at its place in time
    batches,       \* the last events of its batches
    redeliveries,  \* deliveries of a batch that had been delivered
    delivered,     \* batches that were delivered
    calls,         \* process_telemetry in progress: batch, number, place, metrics to add
    processed,     \* batches, in the order the processor took them
    pending,       \* pending_starts: per request id, the start event
    spans,         \* the spans made, in order
    metrics,       \* metrics requests in the aggregator
    completed      \* requests completed with RuntimeDone

platformVars == <<log, batches, redeliveries, delivered>>
processorVars == <<platformVars, calls, processed, pending, spans, metrics, completed>>

-----------------------------------------------------------------------------
(* The platform. *)

Event(kind, request, header, status) ==
    [kind |-> kind, request |-> request, time |-> 0, header |-> header, status |-> status]

\* An invocation may end with no runtimeDone: the runtime was gone.
Invocation(request, status) ==
    LET start  == Event("start", request, TraceHeaders[request], None)
        done   == Event("runtimeDone", request, << >>, status)
        report == Event("report", request, << >>, None)
    IN  IF status = None THEN <<start, report>> ELSE <<start, done, report>>

\* Init, extension, log and fault events are all alike here: there is one of them.
PlatformLog(statuses) ==
    LET events == <<Event("other", 0, << >>, None)>>
                      \o FlattenSeq([r \in Requests |-> Invocation(r, statuses[r])])
    IN  [i \in DOMAIN events |-> [events[i] EXCEPT !.time = i]]

\* The ways to cut a log into n batches.
Cuts(n, length) ==
    {ends \in [1 .. n -> 1 .. length] :
        ends[n] = length /\ \A i \in 1 .. n - 1 : ends[i] < ends[i + 1]}

ProcessorInit ==
    /\ \E statuses \in [Requests -> Statuses] : log = PlatformLog(statuses)
    /\ \E n \in 1 .. MaxBatches : batches \in Cuts(n, Len(log))
    /\ redeliveries = 0 /\ delivered = {}
    /\ calls = {} /\ processed = << >> /\ pending = << >>
    /\ spans = << >> /\ metrics = {} /\ completed = {}

EndOf(b) == IF b = 0 THEN 0 ELSE batches[b]

Batch(b) == SubSeq(log, EndOf(b - 1) + 1, EndOf(b))

-----------------------------------------------------------------------------
(* Conversion. *)

\* convert_telemetry_events passes on the events of invocations only.
Converted(event) == event.kind # "other"

\* The platform's status, one of the enum Status, is passed on in its Debug form.
DebugForm == [success |-> "Success", error |-> "Error", failure |-> "Failure", timeout |-> "Timeout"]

\* create_invocation_span: a header that cannot be read leaves a new trace.  The status
\* is an attribute, and everything but "success" makes the span one of an error.
SpanOf(start, done) ==
    LET status == DebugForm[done.status]
    IN  [request |-> start.request, done |-> done.request, from |-> start.time, to |-> done.time,
         parent |-> ExtensionContext(start.header),
         status |-> status, code |-> IF status = "success" THEN "unset" ELSE "error"]

\* convert_report: one request to export, with the gauges of the report.
MetricsOf(report) == [made |-> "metrics", request |-> report.request, time |-> report.time]

\* Pairing with whatever start is there.
PairWithAny(state, event) ==
    IF DOMAIN state.pending = {} THEN state
    ELSE LET request == CHOOSE r \in DOMAIN state.pending : TRUE
         IN  [state EXCEPT !.pending = [r \in DOMAIN @ \ {request} |-> @[r]],
                           !.spans = Append(@, SpanOf(state.pending[request], event))]

\* Pairing that leaves the start where it is.
PairAndKeep(state, event) ==
    IF event.request \notin DOMAIN state.pending THEN state
    ELSE [state EXCEPT !.spans = Append(@, SpanOf(state.pending[event.request], event))]

\* A runtimeDone takes the start of its request; without one it makes no span.
Pair(state, event) ==
    IF event.request \notin DOMAIN state.pending THEN state
    ELSE [state EXCEPT
             !.pending = [r \in DOMAIN @ \ {event.request} |-> @[r]],
             !.spans = Append(@, SpanOf(state.pending[event.request], event))]

\* process_events sees the events that were converted.
ProcessEvent(state, event) ==
    CASE ~Converted(event) -> state
      [] event.kind = "start" ->
            [state EXCEPT !.pending =
                [r \in DOMAIN @ \cup {event.request} |-> IF r = event.request THEN event ELSE @[r]]]
      [] event.kind = "runtimeDone" -> Pair(state, event)
      [] event.kind = "report" -> [state EXCEPT !.metrics = Append(@, MetricsOf(event))]

\* A processor made anew for each batch.
ProcessEventsAnew(events) ==
    LET after[i \in 0 .. Len(events)] ==
            IF i = 0 THEN [pending |-> << >>, spans |-> << >>, metrics |-> << >>]
            ELSE ProcessEvent(after[i - 1], events[i])
    IN  after[Len(events)]

ProcessEvents(events) ==
    LET after[i \in 0 .. Len(events)] ==
            IF i = 0 THEN [pending |-> pending, spans |-> << >>, metrics |-> << >>]
            ELSE ProcessEvent(after[i - 1], events[i])
    IN  after[Len(events)]

-----------------------------------------------------------------------------
(* process_telemetry *)

Deliver(b) ==
    /\ b \in delivered => redeliveries < MaxRedeliveries
    /\ redeliveries' = IF b \in delivered THEN redeliveries + 1 ELSE redeliveries
    /\ delivered' = delivered \cup {b}
    /\ calls' = calls \cup {[batch |-> b, nr |-> redeliveries', at |-> "begun", metrics |-> << >>]}
    /\ UNCHANGED <<log, batches, processed, pending, spans, metrics, completed>>

Become(call, next) == calls' = (calls \ {call}) \cup {next}

DoneIn(events) == {events[i].request : i \in {j \in DOMAIN events : events[j].kind = "runtimeDone"}}

\* The completions ahead of the metrics.
ProcessAndComplete(call) ==
    /\ call.at = "begun"
    /\ LET result == ProcessEvents(Batch(call.batch))
       IN  /\ pending' = result.pending
           /\ spans' = spans \o result.spans
           /\ Become(call, [call EXCEPT !.at = "adding", !.metrics = result.metrics])
    /\ processed' = Append(processed, call.batch)
    /\ completed' = completed \cup DoneIn(Batch(call.batch))
    /\ UNCHANGED <<platformVars, metrics>>

\* process_events, under the processor's mutex.
Process(call) ==
    /\ call.at = "begun"
    /\ LET result == ProcessEvents(Batch(call.batch))
       IN  /\ pending' = result.pending
           /\ spans' = spans \o result.spans
           /\ Become(call, [call EXCEPT !.at = "adding", !.metrics = result.metrics])
    /\ processed' = Append(processed, call.batch)
    /\ UNCHANGED <<platformVars, metrics, completed>>

\* aggregator.add, one at a time.
AddMetric(call) ==
    /\ call.at = "adding" /\ call.metrics # << >>
    /\ metrics' = metrics \cup {Head(call.metrics)}
    /\ Become(call, [call EXCEPT !.metrics = Tail(@)])
    /\ UNCHANGED <<platformVars, processed, pending, spans, completed>>

\* The completions, which await nothing.
Complete(call) ==
    /\ call.at = "adding" /\ call.metrics = << >>
    /\ completed' = completed \cup DoneIn(Batch(call.batch))
    /\ calls' = calls \ {call}
    /\ UNCHANGED <<platformVars, processed, pending, spans, metrics>>

ProcessorNext ==
    \/ \E b \in DOMAIN batches : Deliver(b)
    \/ \E call \in calls : Process(call) \/ AddMetric(call) \/ Complete(call)

ProcessorSpec == ProcessorInit /\ [][ProcessorNext]_processorVars

-----------------------------------------------------------------------------
(* Properties. *)

\* However batches are cut, reordered and repeated, and invocations follow each other, a
\* span joins the start and the end of one request, in that order: its attribute is the
\* status of that end, in the form the conversion gives it (service.rs:559), and its trace
\* and parent are those that the header of that start names (conversion.rs:230-262).
SpansJoinOneRequest ==
    \A n \in DOMAIN spans :
        LET span == spans[n]
        IN  /\ span.request = span.done /\ span.from < span.to
            /\ span.status = DebugForm[log[span.to].status]
            /\ Canonical(log[span.from].header) =>
                   span.parent = IdsOf(Meaning(log[span.from].header))

\* "Success status should map to StatusCode::Unset" (otel_compliance_test.rs:413-417): the
\* span of an invocation that succeeded is not one of an error.
SuccessIsNoError ==
    \A n \in DOMAIN spans :
        log[spans[n].to].status = "success" => spans[n].code # "error"

InOrderOnce == \A n \in DOMAIN processed : processed[n] = n

Taken(kind, request) ==
    \E n \in DOMAIN processed :
        \E i \in DOMAIN Batch(processed[n]) :
            Batch(processed[n])[i].kind = kind /\ Batch(processed[n])[i].request = request

\* While the batches come in order, once each, only starts whose end is still to come
\* are kept: pending_starts grows by the invocations that had none, and no others.
OnlyOpenStartsKept ==
    InOrderOnce =>
        DOMAIN pending = {r \in Requests : Taken("start", r) /\ ~Taken("runtimeDone", r)}

\* "Completion is signalled only after the events and their derived metrics are in the
\* aggregator" (service.rs:398-400): when an invocation is completed, every report of a
\* batch that had its runtimeDone is there, though other batches are under way.
CompletedMeansAdded ==
    \A r \in completed :
        \E n \in DOMAIN processed :
            LET events == Batch(processed[n])
            IN  /\ r \in DoneIn(events)
                /\ \A i \in DOMAIN events :
                      events[i].kind = "report" =>
                          MetricsOf(events[i]) \in metrics

\* Once no task is under way, every report that was delivered is in the aggregator, and
\* a span was made of every start and end that came in order (service.rs:423-436).
DeliveredIsConverted ==
    calls = {} =>
        /\ \A b \in delivered : \A i \in DOMAIN Batch(b) :
              Batch(b)[i].kind = "report" => MetricsOf(Batch(b)[i]) \in metrics
        /\ InOrderOnce =>
              \A i, j \in 1 .. EndOf(Len(processed)) :
                  /\ i < j /\ log[i].request = log[j].request
                  /\ log[i].kind = "start" /\ log[j].kind = "runtimeDone"
                  => \E n \in DOMAIN spans : spans[n].from = i /\ spans[n].to = j

\* "converts them to OTLP metrics and traces, adding them to the aggregator for export"
\* (service.rs:485-486): once a span is made and no task is under way, it is there.
SpansAreAdded ==
    calls = {} => \A n \in DOMAIN spans : \E m \in metrics :
                      m.request = spans[n].request /\ "lambda.invoke" \in m.names
=============================================================================
