------------------------- MODULE TelemetryDelivery -------------------------
(***************************************************************************)
(* The Telemetry API of the Lambda simulator (telemetry_state.rs,          *)
(* telemetry_api.rs): what becomes of an event between broadcast_event and *)
(* the HTTP server of an extension, and what graceful_shutdown             *)
(* (simulator.rs) does about the events still under way.                   *)
(*                                                                         *)
(* Two mutexes matter.  A delivery task holds `subscriptions` for as long  *)
(* as its POST takes, flush_all holds `subscriptions` and `event_buffers`  *)
(* for all of its POSTs and sleeps; every other section under a lock runs  *)
(* without an await, so it is part of a step here.  The tasks may run on   *)
(* several threads.                                                        *)
(***************************************************************************)
EXTENDS Naturals, SequencesExt

CONSTANTS
    Extensions,    \* the extensions that may subscribe
    MaxTasks,      \* how many subscriptions succeed at most; each spawns a task
    MaxEvents,     \* how many events are broadcast at most
    MaxItems,      \* BufferingConfig.max_items
    MaxCaptured,   \* MAX_CAPTURED_EVENTS
    MaxAttempts,   \* attempts of flush_all for one extension
    Policies,      \* the delivery policies a test may set
    Outcomes       \* the outcomes a POST to an extension may have

ASSUME DeliveryAssumption ==
    /\ {MaxTasks, MaxEvents} \subseteq Nat
    /\ {MaxItems, MaxCaptured, MaxAttempts} \subseteq Nat \ {0}
    /\ Policies \subseteq {"none", "delay", "suppress"} /\ "none" \in Policies
    /\ Outcomes \subseteq {"ok", "rejected", "answerLost"} /\ "ok" \in Outcomes

VARIABLES
    emitted,      \* events broadcast so far; the events are 1 .. emitted
    captured,     \* captured_events
    policy,       \* delivery_policies, for the type of event that is broadcast
    delayed,      \* events whose Delay policy has not elapsed
    waiting,      \* events in buffer_event, before the locks
    wants,        \* subscriptions: the event types of each extension
    buffer,       \* event_buffers, of those extensions that have one
    subscribing,  \* the extensions whose subscribe is between its two inserts
    tasks,        \* the delivery tasks spawned: extension, place, drained batch
    handle,       \* delivery_handles: the task of each extension, or 0
    flush,        \* flush_all: extensions to do, the one being sent to, attempts
    phase,        \* "running", "flushing", "told" (SHUTDOWN sent), "over"
    received,     \* what the HTTP server of each extension has accepted
    pushed        \* what was buffered for each since its subscription (history)

eventVars == <<emitted, captured, policy, delayed, waiting>>
bufferVars == <<wants, buffer, subscribing, pushed>>
taskVars == <<tasks, handle>>
deliveryVars == <<eventVars, bufferVars, taskVars, flush, phase, received>>

Events == 1 .. MaxEvents

IdleFlush == [todo |-> {}, to |-> {}, batch |-> << >>, attempts |-> 0]

DeliveryTypeOK ==
    /\ emitted \in 0 .. MaxEvents
    /\ captured \in Seq(Events) /\ Len(captured) <= MaxCaptured
    /\ policy \in Policies
    /\ delayed \subseteq Events /\ waiting \subseteq Events
    /\ wants \in [Extensions -> {"unsubscribed", "platform", "other"}]
    /\ DOMAIN buffer \subseteq Extensions
    /\ \A e \in DOMAIN buffer : buffer[e] \in Seq(Events)
    /\ subscribing \subseteq Extensions
    /\ \A t \in DOMAIN tasks :
          /\ tasks[t].ext \in DOMAIN buffer
          /\ tasks[t].at \in {"ticking", "drained", "posting", "aborted"}
          /\ tasks[t].batch \in Seq(Events)
    /\ handle \in [Extensions -> 0 .. Len(tasks)]
    /\ flush.todo \subseteq DOMAIN buffer /\ flush.to \subseteq flush.todo
    /\ flush.attempts \in 0 .. MaxAttempts - 1
    /\ phase \in {"running", "flushing", "told", "over"}
    /\ \A e \in Extensions : received[e] \in Seq(Events) /\ pushed[e] \in Seq(Events)

DeliveryInit ==
    /\ emitted = 0 /\ captured = << >> /\ policy = "none"
    /\ delayed = {} /\ waiting = {}
    /\ wants = [e \in Extensions |-> "unsubscribed"]
    /\ buffer = << >> /\ subscribing = {}
    /\ tasks = << >> /\ handle = [e \in Extensions |-> 0]
    /\ flush = IdleFlush /\ phase = "running"
    /\ received = [e \in Extensions |-> << >>]
    /\ pushed = [e \in Extensions |-> << >>]

Posting == {t \in DOMAIN tasks : tasks[t].at = "posting"}

\* flush_all is inside its two locks.
FlushHolds == flush.todo # {}

SubscriptionsFree == Posting = {} /\ ~FlushHolds

BuffersFree == ~FlushHolds

Matching == {e \in DOMAIN buffer : wants[e] = "platform"}

-----------------------------------------------------------------------------
(* broadcast_event and buffer_event. *)

Capture(n) ==
    Append(IF Len(captured) >= MaxCaptured THEN Tail(captured) ELSE captured, n)

\* An event is captured whatever the policy, which then decides on its delivery.
Emit ==
    /\ emitted < MaxEvents
    /\ emitted' = emitted + 1
    /\ captured' = Capture(emitted')
    /\ delayed' = IF policy = "delay" THEN delayed \cup {emitted'} ELSE delayed
    /\ waiting' = IF policy = "none" THEN waiting \cup {emitted'} ELSE waiting
    /\ UNCHANGED policy

\* A handler of the Runtime API broadcasts an event.  The server runs until the end.
Broadcast ==
    /\ phase # "over"
    /\ Emit
    /\ UNCHANGED <<bufferVars, taskVars, flush, phase, received>>

DelayElapses(n) ==
    /\ n \in delayed
    /\ delayed' = delayed \ {n}
    /\ waiting' = waiting \cup {n}
    /\ UNCHANGED <<emitted, captured, policy, bufferVars, taskVars, flush, phase, received>>

\* Overflow that makes room at the wrong end.
KeepOldest(s, n) ==
    Append(IF Len(s) >= MaxItems THEN SubSeq(s, 1, MaxItems - 1) ELSE s, n)

\* Overflow drops as many of the oldest as it takes to add one.
KeepNewest(s, n) ==
    Append(IF Len(s) >= MaxItems THEN SubSeq(s, Len(s) - MaxItems + 2, Len(s)) ELSE s, n)

BufferEvent(n) ==
    /\ n \in waiting
    /\ SubscriptionsFree
    /\ waiting' = waiting \ {n}
    /\ buffer' = [e \in DOMAIN buffer |->
                     IF e \in Matching THEN KeepNewest(buffer[e], n) ELSE buffer[e]]
    /\ pushed' = [e \in Extensions |->
                     IF e \in Matching THEN Append(pushed[e], n) ELSE pushed[e]]
    /\ UNCHANGED <<emitted, captured, policy, delayed, wants, subscribing, taskVars,
                   flush, phase, received>>

\* set_delivery_policy and clear_delivery_policies: a test's calls.
SetPolicy(p) ==
    /\ phase = "running" /\ p # policy
    /\ policy' = p
    /\ UNCHANGED <<emitted, captured, delayed, waiting, bufferVars, taskVars, flush,
                   phase, received>>

-----------------------------------------------------------------------------
(* PUT /telemetry: subscribe and start_delivery_task. *)

\* subscribe_telemetry answers 400 to a request without an extension id, with a
\* protocol other than HTTP or without a URI; the rest inserts the subscription.
\* A subscription that exists is replaced.
SubscribeBegins(e, request) ==
    /\ phase # "over"
    /\ request.identified /\ request.http /\ request.uri
    /\ e \notin subscribing /\ SubscriptionsFree
    /\ Len(tasks) + Cardinality(subscribing) < MaxTasks
    /\ subscribing' = subscribing \cup {e}
    /\ wants' = [wants EXCEPT ![e] = request.types]
    /\ UNCHANGED <<eventVars, buffer, pushed, taskVars, flush, phase, received>>

\* The buffer is replaced by an empty one, a task is spawned and its handle inserted,
\* then the subscription is itself broadcast.
SubscribeEnds(e) ==
    /\ e \in subscribing /\ phase # "over" /\ BuffersFree
    /\ subscribing' = subscribing \ {e}
    /\ buffer' = [d \in DOMAIN buffer \cup {e} |-> IF d = e THEN << >> ELSE buffer[d]]
    /\ pushed' = [pushed EXCEPT ![e] = << >>]
    /\ tasks' = Append(tasks, [ext |-> e, at |-> "ticking", batch |-> << >>])
    /\ handle' = [handle EXCEPT ![e] = Len(tasks')]
    /\ Emit
    /\ UNCHANGED <<wants, flush, phase, received>>

-----------------------------------------------------------------------------
(* A delivery task. *)

\* A tick that leaves what it sends in the buffer.
TickCopies(t) ==
    /\ tasks[t].at = "ticking" /\ BuffersFree
    /\ LET e == tasks[t].ext
           count == IF Len(buffer[e]) < MaxItems THEN Len(buffer[e]) ELSE MaxItems
       IN  /\ count > 0
           /\ tasks' = [tasks EXCEPT ![t].at = "drained",
                                     ![t].batch = SubSeq(buffer[e], 1, count)]
           /\ UNCHANGED buffer
    /\ UNCHANGED <<eventVars, wants, subscribing, pushed, handle, flush, phase, received>>

\* A tick with a buffer that is not empty drains up to max_items of it.
Tick(t) ==
    /\ tasks[t].at = "ticking" /\ BuffersFree
    /\ LET e == tasks[t].ext
           count == IF Len(buffer[e]) < MaxItems THEN Len(buffer[e]) ELSE MaxItems
       IN  /\ count > 0
           /\ tasks' = [tasks EXCEPT ![t].at = "drained",
                                     ![t].batch = SubSeq(buffer[e], 1, count)]
           /\ buffer' = [buffer EXCEPT ![e] = SubSeq(@, count + 1, Len(@))]
    /\ UNCHANGED <<eventVars, wants, subscribing, pushed, handle, flush, phase, received>>

\* The temporary of `if let` keeps the lock on the subscriptions during the POST.
TakeSubscriptions(t) ==
    /\ tasks[t].at = "drained" /\ SubscriptionsFree
    /\ tasks' = [tasks EXCEPT ![t].at = "posting"]
    /\ UNCHANGED <<eventVars, bufferVars, handle, flush, phase, received>>

Accepted(outcome, batch) == IF outcome = "rejected" THEN << >> ELSE batch

\* A failed POST puts the batch back behind what has come since.
PostRequeues(t, outcome) ==
    /\ tasks[t].at = "posting" /\ BuffersFree
    /\ LET e == tasks[t].ext
       IN  /\ received' = [received EXCEPT ![e] = @ \o Accepted(outcome, tasks[t].batch)]
           /\ buffer' = IF outcome = "ok" THEN buffer
                        ELSE [buffer EXCEPT ![e] = @ \o tasks[t].batch]
    /\ tasks' = [tasks EXCEPT ![t].at = "ticking", ![t].batch = << >>]
    /\ UNCHANGED <<eventVars, wants, subscribing, pushed, handle, flush, phase>>

\* A failed POST ends the task.
PostGivesUp(t, outcome) ==
    /\ tasks[t].at = "posting"
    /\ received' = [received EXCEPT ![tasks[t].ext] = @ \o Accepted(outcome, tasks[t].batch)]
    /\ tasks' = [tasks EXCEPT ![t].at = IF outcome = "ok" THEN "ticking" ELSE "aborted",
                              ![t].batch = << >>]
    /\ UNCHANGED <<eventVars, bufferVars, handle, flush, phase>>

\* Whatever the outcome, the batch is done with.
PostEnds(t, outcome) ==
    /\ tasks[t].at = "posting"
    /\ received' = [received EXCEPT ![tasks[t].ext] = @ \o Accepted(outcome, tasks[t].batch)]
    /\ tasks' = [tasks EXCEPT ![t].at = "ticking", ![t].batch = << >>]
    /\ UNCHANGED <<eventVars, bufferVars, handle, flush, phase>>

-----------------------------------------------------------------------------
(* graceful_shutdown and flush_all. *)

ToFlush == {e \in DOMAIN buffer : wants[e] # "unsubscribed" /\ buffer[e] # << >>}

\* mark_shutting_down comes before; flush_all waits for its locks.
ShutdownBegins ==
    /\ phase = "running"
    /\ phase' = "flushing"
    /\ UNCHANGED <<eventVars, bufferVars, taskVars, flush, received>>

\* Under both locks flush_all visits the subscriptions in the order of a hash map.
\* wait_for_flush_complete finds the flush lock free, for flush_all has returned.
FlushBegins ==
    /\ phase = "flushing" /\ SubscriptionsFree
    /\ IF ToFlush = {}
       THEN phase' = "told" /\ UNCHANGED flush
       ELSE flush' = [IdleFlush EXCEPT !.todo = ToFlush] /\ UNCHANGED phase
    /\ UNCHANGED <<eventVars, bufferVars, taskVars, received>>

FlushTakes(e) ==
    /\ e \in flush.todo /\ flush.to = {}
    /\ flush' = [flush EXCEPT !.to = {e}, !.batch = buffer[e], !.attempts = 0]
    /\ buffer' = [buffer EXCEPT ![e] = << >>]
    /\ UNCHANGED <<eventVars, wants, subscribing, pushed, taskVars, phase, received>>

\* flush_all that starts over with an extension when its attempts are spent.
FlushAttemptForever(outcome) ==
    /\ flush.to # {}
    /\ received' = [e \in Extensions |->
                       received[e] \o IF e \in flush.to /\ outcome = "ok" THEN flush.batch
                                                                         ELSE << >>]
    /\ LET left == flush.todo \ flush.to
       IN  IF outcome # "ok"
           THEN /\ flush' = [flush EXCEPT !.attempts = (@ + 1) % MaxAttempts]
                /\ UNCHANGED phase
           ELSE /\ flush' = [IdleFlush EXCEPT !.todo = left]
                /\ phase' = IF left = {} THEN "told" ELSE phase
    /\ UNCHANGED <<eventVars, bufferVars, taskVars>>

\* An answer other than success, or none, is retried until the attempts are spent.
\* After the last extension the SHUTDOWN event is broadcast.
FlushAttempt(outcome) ==
    /\ flush.to # {}
    /\ received' = [e \in Extensions |->
                       received[e] \o IF e \in flush.to THEN Accepted(outcome, flush.batch)
                                                        ELSE << >>]
    /\ LET left == flush.todo \ flush.to
       IN  IF outcome # "ok" /\ flush.attempts + 1 < MaxAttempts
           THEN flush' = [flush EXCEPT !.attempts = @ + 1] /\ UNCHANGED phase
           ELSE /\ flush' = [IdleFlush EXCEPT !.todo = left]
                /\ phase' = IF left = {} THEN "told" ELSE phase
    /\ UNCHANGED <<eventVars, bufferVars, taskVars>>

\* Aborting a task drops what it has drained and the lock it holds.
Aborted(task) == [task EXCEPT !.at = "aborted", !.batch = << >>]

\* TelemetryState::shutdown aborts the tasks whose handles it finds.
AbortTasks ==
    /\ handle' = [e \in Extensions |-> 0]
    /\ tasks' = [t \in DOMAIN tasks |->
                    IF handle[tasks[t].ext] = t THEN Aborted(tasks[t]) ELSE tasks[t]]

\* After the extensions' acknowledgements, or at once when shutdown is called.
ShutdownEnds ==
    /\ phase \in {"running", "told"}
    /\ phase' = "over"
    /\ AbortTasks
    /\ UNCHANGED <<eventVars, bufferVars, flush, received>>

-----------------------------------------------------------------------------
Requests == [identified : BOOLEAN, http : BOOLEAN, uri : BOOLEAN,
             types : {"platform", "other"}]

TaskStep(t) ==
    Tick(t) \/ TakeSubscriptions(t) \/ \E outcome \in Outcomes : PostEnds(t, outcome)

FlushStep ==
    FlushBegins \/ (\E e \in flush.todo : FlushTakes(e))
                \/ (\E outcome \in Outcomes : FlushAttempt(outcome))

DeliveryNext ==
    \/ Broadcast
    \/ \E n \in Events : DelayElapses(n) \/ BufferEvent(n)
    \/ \E p \in Policies : SetPolicy(p)
    \/ \E e \in Extensions, request \in Requests : SubscribeBegins(e, request)
    \/ \E e \in Extensions : SubscribeEnds(e)
    \/ \E t \in DOMAIN tasks : TaskStep(t)
    \/ ShutdownBegins \/ FlushStep \/ ShutdownEnds

\* Tokio's mutexes are fair, so whoever keeps waiting for one gets it; a POST is
\* answered or fails; graceful_shutdown waits for acknowledgements up to a timeout.
DeliveryFairness ==
    /\ SF_deliveryVars(FlushStep)
    /\ WF_deliveryVars(phase = "told" /\ ShutdownEnds)
    /\ SF_deliveryVars(\E t \in DOMAIN tasks : TaskStep(t))
    /\ SF_deliveryVars(\E n \in Events : BufferEvent(n))
    /\ SF_deliveryVars(\E e \in Extensions : SubscribeEnds(e))

DeliverySpec == DeliveryInit /\ [][DeliveryNext]_deliveryVars /\ DeliveryFairness

-----------------------------------------------------------------------------
(* Properties. *)

InHand(e) == {t \in DOMAIN tasks : tasks[t].ext = e /\ tasks[t].batch # << >>}

Occurrences(n, s) == Cardinality({i \in DOMAIN s : s[i] = n})

\* "when full, the oldest events are dropped to make room for new ones"
\* (telemetry_state.rs:268): what waits in a buffer is the newest of what came, no
\* more than max_items of it, in order, whatever was drained in between.
BufferIsNewest ==
    \A e \in DOMAIN buffer : Len(buffer[e]) <= MaxItems /\ IsSuffix(buffer[e], pushed[e])

\* An extension is given an event a second time only by an attempt of flush_all that
\* follows one whose answer was lost; nothing is both sent and left behind to be sent
\* again by the next tick, by the task of an earlier subscription or by the flush.
DuplicateOnlyOnRetry ==
    [][\A e \in Extensions, n \in Events :
          (Occurrences(n, received[e]) >= 1
             /\ Occurrences(n, received'[e]) > Occurrences(n, received[e]))
          => (e \in flush.to /\ flush.attempts > 0)]_deliveryVars

\* With one task and before the flush an extension gets the events in the order they
\* were buffered for it, though some are dropped and some batches lost.
OneTaskKeepsOrder ==
    \A e \in DOMAIN buffer :
        (phase = "running" /\ Cardinality({t \in DOMAIN tasks : tasks[t].ext = e}) = 1)
        => \A i, j \in DOMAIN received[e] :
              i < j => \E a, b \in DOMAIN pushed[e] :
                          a < b /\ pushed[e][a] = received[e][i] /\ pushed[e][b] = received[e][j]

\* TelemetryState::shutdown leaves no delivery task running but that of a subscription
\* which another one replaced.
SurvivorsWereReplaced ==
    phase = "over" =>
        \A t \in DOMAIN tasks :
            tasks[t].at # "aborted" => \E u \in DOMAIN tasks : u > t /\ tasks[u].ext = tasks[t].ext

\* flush_all returns although a delivery task may hold its lock and every answer may be
\* a failure, so graceful_shutdown goes on to its end.
ShutdownCompletes == (phase = "flushing") ~> (phase = "over")

\* Events do not stay behind the locks, nor in the buffer of an extension: once no more
\* are broadcast both are empty, or the simulator has ended.
EventsMoveOn ==
    (waiting # {} \/ \E e \in DOMAIN buffer : buffer[e] # << >>)
    ~> (phase = "over" \/ (waiting = {} /\ \A e \in DOMAIN buffer : buffer[e] = << >>))

\* "Flushing ensures extensions receive all telemetry before they begin shutdown
\* processing" (simulator.rs:758-759): when SHUTDOWN goes out, nothing that was drained
\* for an extension is still on its way.
AllTelemetryBeforeShutdown ==
    phase = "told" => \A t \in DOMAIN tasks : tasks[t].batch = << >>

\* "This aborts all spawned delivery tasks to ensure clean shutdown"
\* (telemetry_state.rs:533).
NoTaskAfterShutdown ==
    phase = "over" => \A t \in DOMAIN tasks : tasks[t].at = "aborted"
=============================================================================
