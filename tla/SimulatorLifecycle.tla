------------------------- MODULE SimulatorLifecycle -------------------------
(***************************************************************************)
(* The Lambda simulator around an invocation: the queue and status of the  *)
(* Runtime API (state.rs, runtime_api.rs), the event queues of the         *)
(* Extensions API (extension.rs, extensions_api.rs), the readiness tracker *)
(* that couples them (extension_readiness.rs), and enqueue and the two     *)
(* shutdowns (simulator.rs).  Freezing is the subject of FreezeState; a    *)
(* telemetry broadcast is an await that may take its time.                 *)
(*                                                                         *)
(* A step runs from one await that can suspend to the next: a mutex none   *)
(* of whose holders suspends is taken at once.  Aborting the server closes *)
(* its listener; the connections it has accepted are served on.  Request   *)
(* ids are numbered in the order of their enqueue.                         *)
(***************************************************************************)
EXTENDS Naturals, Sequences, FiniteSets

CONSTANTS
    Extensions,           \* extension ids
    InvokeSubscribers,    \* those that ask for INVOKE events
    ShutdownSubscribers,  \* those that ask for SHUTDOWN events
    Invocations           \* how many invocations are enqueued at most

ASSUME SimulatorAssumption ==
    /\ InvokeSubscribers \subseteq Extensions
    /\ ShutdownSubscribers \subseteq Extensions
    /\ Invocations \in Nat

Requests == 1 .. Invocations

NoRequest == 0

Shutdown == Invocations + 1  \* the event, beside the INVOKE events 1 .. Invocations

VARIABLES
    phase,         \* SimulatorPhase
    sim,           \* the task that owns the simulator: "up", in a shutdown, or through
    enqueued,      \* invocations enqueued
    pending,       \* pending_invocations
    status,        \* InvocationStatus of each request; "Completed" is success or error
    runtime,       \* the runtime's /next handler: place, request
    available,     \* the permit of invocation_available
    registered,    \* the extensions map
    extension,     \* of each extension: its /next handler, event queue, permit of
                   \* its notifier, and its entry in delivered_invokes
    acknowledged,  \* shutdown_acknowledged
    readiness,     \* InvocationReadiness of each request
    current,       \* current_request
    last,          \* last_completed_request
    task,          \* of each request: from its recorded response to its report
    polled         \* history: <<e, event>> when e has polled again after the event

runtimeVars == <<pending, status, runtime, available>>
extensionVars == <<registered, extension, acknowledged, polled>>
readinessVars == <<readiness, current, last>>
simulatorVars == <<phase, sim, enqueued, runtimeVars, extensionVars, readinessVars, task>>

-----------------------------------------------------------------------------
Untracked == [tracked |-> FALSE, expected |-> {}, ready |-> {}, early |-> {}, done |-> FALSE]

\* The events that have been broadcast, or may be yet.
Events == (1 .. enqueued) \cup {Shutdown}

Handlers == [at : {"away", "asleep"}, queue : Seq(Events), permit : BOOLEAN,
             delivered : 0 .. enqueued]

Tracking == [tracked : BOOLEAN, expected : SUBSET Extensions, ready : SUBSET Extensions,
             early : SUBSET Extensions, done : BOOLEAN]

RuntimeTypeOK ==
    /\ pending \in Seq(1 .. enqueued)
    /\ status \in [Requests -> {"Unknown", "Pending", "InProgress", "Completed"}]
    /\ runtime \in [at : {"away", "checking", "asleep", "starting"}, got : 0 .. enqueued]
    /\ available \in BOOLEAN
    /\ task \in [Requests -> {"none", "recorded", "waiting", "reporting", "reported"}]

ExtensionTypeOK ==
    /\ registered \subseteq Extensions
    /\ extension \in [Extensions -> Handlers]
    /\ acknowledged \subseteq registered
    /\ polled \subseteq Extensions \X Events

ReadinessTypeOK ==
    /\ readiness \in [Requests -> Tracking]
    /\ {current, last} \subseteq 0 .. enqueued

SimulatorTypeOK ==
    /\ phase \in {"Initializing", "Ready", "ShuttingDown"}
    /\ sim \in {"up", "flushing", "waiting", "acknowledged", "timedOut", "stopped"}
    /\ enqueued \in 0 .. Invocations
    /\ RuntimeTypeOK
    /\ ExtensionTypeOK
    /\ ReadinessTypeOK

SimulatorInit ==
    /\ phase = "Initializing" /\ sim = "up" /\ enqueued = 0
    /\ pending = <<>> /\ status = [r \in Requests |-> "Unknown"]
    /\ runtime = [at |-> "away", got |-> NoRequest] /\ available = FALSE
    /\ registered = {}
    /\ extension = [e \in Extensions |-> [at |-> "away", queue |-> <<>>,
                                          permit |-> FALSE, delivered |-> NoRequest]]
    /\ acknowledged = {} /\ polled = {}
    /\ readiness = [r \in Requests |-> Untracked]
    /\ current = NoRequest /\ last = NoRequest
    /\ task = [r \in Requests |-> "none"]

-----------------------------------------------------------------------------
(* The readiness tracker. *)

AllReady(r) == readiness[r].expected \subseteq readiness[r].ready

\* A poll counts for the invocation completed last, if it still waits for anyone.
CountsForLast(d) ==
    /\ d = last /\ d # NoRequest
    /\ readiness[d].tracked /\ readiness[d].done /\ ~AllReady(d)

\* A poll counts in advance for the invocation started last, while that one runs.
CountsForCurrent(e, d) ==
    /\ d = current /\ d # NoRequest
    /\ readiness[d].tracked /\ ~readiness[d].done
    /\ e \in readiness[d].expected

\* Any poll counts for the invocation in progress, whichever INVOKE was delivered.
MarkAnyPoll(e, d) ==
    readiness' =
        IF current = NoRequest THEN readiness
        ELSE [readiness EXCEPT ![current].early =
                 @ \cup (IF CountsForCurrent(e, current) THEN {e} ELSE {})]

MarkExtensionReady(e, d) ==
    readiness' =
        IF d = NoRequest THEN readiness
        ELSE [readiness EXCEPT ![d].ready = @ \cup (IF CountsForLast(d) THEN {e} ELSE {}),
                               ![d].early = @ \cup (IF CountsForCurrent(e, d) THEN {e}
                                                    ELSE {})]

\* Early polls are dropped.
MarkRuntimeDoneForgets(r) ==
    /\ last' = r
    /\ readiness' = IF readiness[r].tracked
                    THEN [readiness EXCEPT ![r].done = TRUE, ![r].early = {}]
                    ELSE readiness

MarkRuntimeDone(r) ==
    /\ last' = r
    /\ readiness' = IF readiness[r].tracked
                    THEN [readiness EXCEPT ![r].done = TRUE,
                                           ![r].ready = @ \cup readiness[r].early,
                                           ![r].early = {}]
                    ELSE readiness

-----------------------------------------------------------------------------
(* Extensions. *)

\* A push without its notify_one.
BroadcastSilently(event, subscribers) ==
    extension' = [e \in Extensions |->
        IF e \in registered \cap subscribers
        THEN [extension[e] EXCEPT !.queue = Append(@, event)]
        ELSE extension[e]]

\* The push and the notify_one of broadcast_event, for every subscriber.
Broadcast(event, subscribers) ==
    extension' = [e \in Extensions |->
        IF e \in registered \cap subscribers
        THEN [extension[e] EXCEPT !.queue = Append(@, event), !.permit = TRUE]
        ELSE extension[e]]

\* Registration is over once the runtime has polled, or the shutdown has begun.
Register(e) ==
    /\ phase = "Initializing"
    /\ e \notin registered
    /\ registered' = registered \cup {e}
    /\ UNCHANGED <<phase, sim, enqueued, runtimeVars, extension, acknowledged, polled,
                   readinessVars, task>>

\* The loop of next_event, entered with handler x: the first event, INVOKE noted as
\* delivered and SHUTDOWN as acknowledged; without one, sleep.  A permit that is left
\* over only makes the loop turn once more.
Look(e, x) ==
    IF x.queue = <<>>
    THEN /\ extension' = [extension EXCEPT ![e] = [x EXCEPT !.at = "asleep", !.permit = FALSE]]
         /\ UNCHANGED acknowledged
    ELSE LET event == Head(x.queue)
         IN /\ extension' = [extension EXCEPT ![e] =
                  [x EXCEPT !.at = "away", !.queue = Tail(@),
                            !.delivered = IF event = Shutdown THEN @ ELSE event]]
            /\ acknowledged' = IF event = Shutdown THEN acknowledged \cup {e}
                               ELSE acknowledged

\* The delivered events that an extension is through with when it polls again.
ThroughWith(e) ==
    ({extension[e].delivered} \ {NoRequest}) \cup (IF e \in acknowledged THEN {Shutdown} ELSE {})

\* A poll counts as readiness for the INVOKE that was delivered before it.
ExtensionPolls(e) ==
    /\ e \in registered /\ extension[e].at = "away"
    /\ MarkExtensionReady(e, extension[e].delivered)
    /\ Look(e, extension[e])
    /\ polled' = polled \cup ({e} \X ThroughWith(e))
    /\ UNCHANGED <<phase, sim, enqueued, runtimeVars, registered, current, last, task>>

\* notified().await consumes the permit.
ExtensionWakes(e) ==
    /\ extension[e].at = "asleep" /\ extension[e].permit
    /\ Look(e, [extension[e] EXCEPT !.permit = FALSE])
    /\ UNCHANGED <<phase, sim, enqueued, runtimeVars, registered, polled, readinessVars,
                   task>>

-----------------------------------------------------------------------------
(* The runtime. *)

\* next_invocation up to the loop.  mark_initialized sets the phase whatever it was.
\* The runtime has awaited the answer to its response.
RuntimePolls ==
    /\ runtime.at = "away" /\ \A r \in Requests : task[r] # "recorded"
    /\ phase' = "Ready"
    /\ runtime' = [at |-> "checking", got |-> NoRequest]
    /\ UNCHANGED <<sim, enqueued, pending, status, available, extensionVars,
                   readinessVars, task>>

\* The loop of next_invocation.  The first poll broadcasts init telemetry before it.
RuntimeTakes ==
    /\ runtime.at = "checking" \/ (runtime.at = "asleep" /\ available)
    /\ pending # <<>>
    /\ available' = (available /\ runtime.at = "checking")
    /\ pending' = Tail(pending)
    /\ status' = [status EXCEPT ![Head(pending)] = "InProgress"]
    /\ runtime' = [at |-> "starting", got |-> Head(pending)]
    /\ UNCHANGED <<phase, sim, enqueued, extensionVars, readinessVars, task>>

RuntimeSleeps ==
    /\ runtime.at = "checking" /\ pending = <<>>
    /\ available' = FALSE
    /\ runtime' = [runtime EXCEPT !.at = "asleep"]
    /\ UNCHANGED <<phase, sim, enqueued, pending, status, extensionVars, readinessVars,
                   task>>

\* platform.start has been broadcast and the runtime has its invocation.
RuntimeStarts ==
    /\ runtime.at = "starting"
    /\ runtime' = [runtime EXCEPT !.at = "away"]
    /\ UNCHANGED <<phase, sim, enqueued, pending, status, available, extensionVars,
                   readinessVars, task>>

\* record_response or record_error: the first wins.  The handler goes on to
\* broadcast platform.runtimeDone.
RecordResponse(r) ==
    /\ runtime.at = "away" /\ runtime.got = r
    /\ status[r] = "InProgress"
    /\ status' = [status EXCEPT ![r] = "Completed"]
    /\ task' = [task EXCEPT ![r] = "recorded"]
    /\ UNCHANGED <<phase, sim, enqueued, pending, runtime, available, extensionVars,
                   readinessVars>>

\* The rest of the handler: mark_runtime_done and spawn_report_task.
RuntimeDone(r) ==
    /\ task[r] = "recorded"
    /\ MarkRuntimeDone(r)
    /\ task' = [task EXCEPT ![r] = "waiting"]
    /\ UNCHANGED <<phase, sim, enqueued, runtimeVars, extensionVars, current>>

-----------------------------------------------------------------------------
(* The report task. *)

ReportWhenReady(r) ==
    /\ task[r] = "waiting"
    /\ AllReady(r)
    /\ task' = [task EXCEPT ![r] = "reporting"]
    /\ UNCHANGED <<phase, sim, enqueued, runtimeVars, extensionVars, readinessVars>>

\* The timeout looks at the extensions again.
ReportTimesOutWhenReady(r) ==
    /\ task[r] = "waiting" /\ AllReady(r)
    /\ task' = [task EXCEPT ![r] = "reporting"]
    /\ UNCHANGED <<phase, sim, enqueued, runtimeVars, extensionVars, readinessVars>>

\* extension_ready_timeout_ms has passed.
ReportTimesOut(r) ==
    /\ task[r] = "waiting"
    /\ task' = [task EXCEPT ![r] = "reporting"]
    /\ UNCHANGED <<phase, sim, enqueued, runtimeVars, extensionVars, readinessVars>>

\* platform.report has been broadcast: cleanup_invocation, freeze_at_epoch.
ReportEnds(r) ==
    /\ task[r] = "reporting"
    /\ task' = [task EXCEPT ![r] = "reported"]
    /\ readiness' = [readiness EXCEPT ![r] = Untracked]
    /\ UNCHANGED <<phase, sim, enqueued, runtimeVars, extensionVars, current, last>>

-----------------------------------------------------------------------------
(* The owner of the simulator. *)

\* enqueue: start_invocation, enqueue_invocation, broadcast of INVOKE.
Enqueue ==
    /\ sim = "up" /\ enqueued < Invocations
    /\ LET r == enqueued + 1
       IN /\ enqueued' = r /\ current' = r
          /\ readiness' = [readiness EXCEPT ![r] =
                [Untracked EXCEPT !.tracked = TRUE,
                                  !.expected = registered \cap InvokeSubscribers]]
          /\ status' = [status EXCEPT ![r] = "Pending"]
          /\ pending' = Append(pending, r)
          /\ Broadcast(r, InvokeSubscribers)
    /\ available' = TRUE
    /\ UNCHANGED <<phase, sim, runtime, registered, acknowledged, polled, last, task>>

\* graceful_shutdown up to flush_all, which awaits deliveries.
ShutdownBegins ==
    /\ sim = "up"
    /\ sim' = "flushing"
    /\ phase' = "ShuttingDown"
    /\ UNCHANGED <<enqueued, runtimeVars, extensionVars, readinessVars, task>>

\* SHUTDOWN goes to its subscribers, if there are any.
ShutdownSent ==
    /\ sim = "flushing"
    /\ IF registered \cap ShutdownSubscribers = {}
       THEN sim' = "stopped" /\ UNCHANGED <<extension, acknowledged>>
       ELSE /\ sim' = "waiting"
            /\ acknowledged' = {}
            /\ Broadcast(Shutdown, ShutdownSubscribers)
    /\ UNCHANGED <<phase, enqueued, runtimeVars, registered, polled, readinessVars, task>>

ShutdownAcknowledged ==
    /\ sim = "waiting"
    /\ registered \cap ShutdownSubscribers \subseteq acknowledged
    /\ sim' = "acknowledged"
    /\ UNCHANGED <<phase, enqueued, runtimeVars, extensionVars, readinessVars, task>>

\* shutdown_timeout_ms has passed.
ShutdownTimesOut ==
    /\ sim = "waiting"
    /\ sim' = "timedOut"
    /\ UNCHANGED <<phase, enqueued, runtimeVars, extensionVars, readinessVars, task>>

\* shutdown, which waits for nobody.
ShutdownAtOnce ==
    /\ sim = "up"
    /\ sim' = "stopped"
    /\ UNCHANGED <<phase, enqueued, runtimeVars, extensionVars, readinessVars, task>>

-----------------------------------------------------------------------------
RuntimeHandler == RuntimeTakes \/ RuntimeSleeps \/ RuntimeStarts

Report(r) == RuntimeDone(r) \/ ReportWhenReady(r) \/ ReportTimesOut(r) \/ ReportEnds(r)

GracefulShutdown == ShutdownSent \/ ShutdownAcknowledged \/ ShutdownTimesOut

SimulatorNext ==
    \/ \E e \in Extensions : Register(e) \/ ExtensionPolls(e) \/ ExtensionWakes(e)
    \/ RuntimePolls \/ RuntimeHandler
    \/ \E r \in Requests : RecordResponse(r) \/ Report(r)
    \/ Enqueue
    \/ ShutdownBegins \/ GracefulShutdown \/ ShutdownAtOnce

SimulatorSpec == SimulatorInit /\ [][SimulatorNext]_simulatorVars

\* The tasks of the simulator run on; its clients owe it nothing.
SimulatorFairSpec ==
    /\ SimulatorSpec
    /\ \A e \in Extensions : WF_simulatorVars(ExtensionWakes(e))
    /\ WF_simulatorVars(RuntimeHandler)
    /\ \A r \in Requests : WF_simulatorVars(Report(r))
    /\ WF_simulatorVars(GracefulShutdown)

-----------------------------------------------------------------------------
(* Properties. *)

Polled(e, r) == <<e, r>> \in polled

\* Readiness is earned: only an extension that has polled again after the INVOKE event
\* was delivered to it counts, and it counts as ready only once the runtime is done,
\* so the overhead of extensions is never negative (extension_readiness.rs:156-158).
ReadinessEarned ==
    \A r \in Requests :
        /\ readiness[r].ready \cup readiness[r].early \subseteq {e \in Extensions : Polled(e, r)}
        /\ IF readiness[r].done THEN readiness[r].early = {} ELSE readiness[r].ready = {}

\* While no other invocation has been enqueued after it, no poll about an invocation is
\* lost, whether it comes before or after the runtime is done.
NewestKeepsReadiness ==
    \A r \in {current} \cap Requests : readiness[r].tracked =>
        \A e \in readiness[r].expected :
            Polled(e, r) => e \in readiness[r].ready \cup readiness[r].early

\* The same for every invocation: "When all extensions are ready, wait_for_all_ready()
\* returns" (extension_readiness.rs:71).
ReadinessNeverLost ==
    \A r \in Requests : readiness[r].done =>
        ((\A e \in readiness[r].expected : Polled(e, r)) => AllReady(r))

\* Of a response and an error for one invocation the first wins: it is reported once.
ReportedOnce ==
    [][\A r \in Requests : task[r] = "reported" => task'[r] = "reported"]_simulatorVars

\* Whoever sleeps in a long poll is woken once there is something for it.
PollsAnswered ==
    /\ \A e \in Extensions :
          (extension[e].at = "asleep" /\ extension[e].queue # <<>>)
              ~> (extension[e].at = "away")
    /\ (runtime.at = "asleep" /\ pending # <<>>) ~> (runtime.at = "away")

\* A recorded response leads to platform.report, however slow the extensions are.
ResponseReported ==
    \A r \in Requests : (task[r] = "recorded") ~> (task[r] = "reported")

\* "polling this endpoint again signals that the extension has completed its cleanup
\* work (shutdown acknowledgment)" (extensions_api.rs:133-135): a graceful shutdown that
\* does not time out has seen every subscriber poll again.
ShutdownWaitsForCleanup ==
    sim = "acknowledged" =>
        \A e \in registered \cap ShutdownSubscribers : Polled(e, Shutdown)
=============================================================================
