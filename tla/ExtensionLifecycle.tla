------------------------- MODULE ExtensionLifecycle -------------------------
(***************************************************************************)
(* The extension as a whole (service.rs, runtime.rs, receiver.rs): the     *)
(* task that handles INVOKE and SHUTDOWN events one at a time, the tasks   *)
(* that process Telemetry API batches, the OTLP receiver with its bounded  *)
(* channel and forwarder, and the function and wrapper outside.  The       *)
(* completion tracker is the one of CompletionTracker; the aggregator is   *)
(* reduced to what SignalAggregator shows of it: it holds a bounded set,   *)
(* adds evict, and a drain takes at least what was held when it began.     *)
(*                                                                         *)
(* The binary runs on a current_thread runtime (main.rs), so a step here   *)
(* runs from one await to the next, and every await may yield.             *)
(***************************************************************************)
EXTENDS CompletionTracker, FiniteSets

CONSTANTS
    Invocations,      \* how many invocations the environment serves at most
    RequestOf,        \* the request id of each; a retry brings an id again
    PostsCarryId,     \* whether the wrapper always sends Lambda-Request-Id
    MaxSignals,       \* how many signals the function exports at most
    ChannelSize,      \* TelemetryApiConfig.buffer_size
    MaxQueueEntries   \* FlushConfig.max_queue_entries

ASSUME LifecycleAssumption ==
    /\ Invocations \in Nat /\ MaxSignals \in Nat
    /\ RequestOf \in [1 .. Invocations -> RequestIds]
    /\ PostsCarryId \in BOOLEAN
    /\ {ChannelSize, MaxQueueEntries} \subseteq Nat \ {0}
    /\ {"Wrapper", "RuntimeDone"} = Sources

VARIABLES
    pc,         \* where the event handler is; "polling" is parked on /next
    flush,      \* which flush it is in: "none", "periodic", "post" or "final"
    begun,      \* INVOKE events it has handled
    held,       \* what the aggregator holds
    owed,       \* what it held when the drain in progress began
    out,        \* drained and not exported yet
    channel,    \* mpsc channel between receiver and forwarder
    received,   \* signals the receiver has accepted
    started,    \* invocations the runtime has started
    finished,   \* invocations whose function has returned
    posts,      \* invocations whose completion POST is in flight
    telemetry,  \* runtimeDone batch of each invocation: none, locked, done
    shutdown    \* of the SHUTDOWN in progress: what held the read lock when it
                \* came, was the write lock granted, is there time left

extensionVars == <<pc, flush, begun, held, owed, out, channel, received>>
outsideVars == <<started, finished, posts, telemetry, shutdown>>
lifecycleVars == <<trackerVars, extensionVars, outsideVars>>

-----------------------------------------------------------------------------
Metric(n) == [kind |-> "runtimeDone", n |-> n]
SignalNo(n) == [kind |-> "signal", n |-> n]
ShutdownMetric == [kind |-> "shutdown", n |-> 0]

Items == {Metric(n) : n \in 1 .. Invocations} \cup {ShutdownMetric}
             \cup {SignalNo(n) : n \in 1 .. MaxSignals}

HandlerPlaces ==
    {"polling", "hold", "parked", "ready", "settling", "postFlush", "drain", "export",
     "lockWait", "shutdownMetric", "exited"}

LifecycleTypeOK ==
    /\ TrackerTypeOK
    /\ pc \in HandlerPlaces
    /\ flush \in {"none", "periodic", "post", "final"}
    /\ begun \in 0 .. Invocations
    /\ held \subseteq Items /\ owed \subseteq Items /\ out \subseteq Items
    /\ channel \in Seq(1 .. MaxSignals) /\ Len(channel) <= ChannelSize
    /\ received \in 0 .. MaxSignals
    /\ started \in begun .. Invocations
    /\ finished \in 0 .. started
    /\ posts \subseteq 1 .. finished
    /\ telemetry \in [1 .. Invocations -> {"none", "locked", "done"}]
    /\ shutdown \in [inFlight : SUBSET (1 .. Invocations), granted : BOOLEAN,
                     time : BOOLEAN]

LifecycleInit ==
    /\ TrackerInit
    /\ pc = "polling" /\ flush = "none" /\ begun = 0
    /\ held = {} /\ owed = {} /\ out = {}
    /\ channel = <<>> /\ received = 0
    /\ started = 0 /\ finished = 0 /\ posts = {}
    /\ telemetry = [n \in 1 .. Invocations |-> "none"]
    /\ shutdown = [inFlight |-> {}, granted |-> FALSE, time |-> FALSE]

Alive == pc # "exited"

\* SignalAggregator::add: an entry gives way when there is no room.
AddToAggregator(item) ==
    \/ /\ Cardinality(held) < MaxQueueEntries
       /\ held' = held \cup {item}
    \/ /\ Cardinality(held) >= MaxQueueEntries
       /\ \E victim \in held : held' = (held \ {victim}) \cup {item}

\* complete as a caller sees it: a signal the tracker ignores changes nothing.
Signalled(id, source) ==
    \/ Complete(id, source)
    \/ /\ ~MatchesCurrent(id)
       /\ id = None \/ Remembered(id)
       /\ UNCHANGED trackerVars

-----------------------------------------------------------------------------
(* Outside: the runtime, the function with its wrapper, the clock. *)

\* Lambda starts an invocation when the runtime and the extension wait for one.
InvocationStarts ==
    /\ pc = "polling"
    /\ started = begun /\ started = finished /\ started < Invocations
    /\ started' = started + 1
    /\ UNCHANGED <<trackerVars, extensionVars, finished, posts, telemetry, shutdown>>

\* The function returns.  Its wrapper has posted before, unless the POST failed.
FunctionReturns ==
    /\ Alive
    /\ finished < started
    /\ finished' = finished + 1
    /\ posts' \in {posts, posts \cup {finished + 1}}
    /\ UNCHANGED <<trackerVars, extensionVars, started, telemetry, shutdown>>

HoldDeadlinePasses ==
    /\ Alive
    /\ WindowCloses
    /\ UNCHANGED <<extensionVars, outsideVars>>

ShutdownTimeRunsOut ==
    /\ Alive
    /\ shutdown.time
    /\ shutdown' = [shutdown EXCEPT !.time = FALSE]
    /\ UNCHANGED <<trackerVars, extensionVars, started, finished, posts, telemetry>>

-----------------------------------------------------------------------------
(* The receiver and its forwarder. *)

\* POST /invocation/complete.
WrapperSignal(n, id) ==
    /\ Alive
    /\ n \in posts
    /\ id \in {RequestOf[n]} \cup (IF PostsCarryId THEN {} ELSE {None})
    /\ Signalled(id, "Wrapper")
    /\ posts' = posts \ {n}
    /\ UNCHANGED <<extensionVars, started, finished, telemetry, shutdown>>

\* POST /v1/*: try_send into the channel.  (A full channel answers 503 and changes
\* nothing.)
ReceiveSignal ==
    /\ Alive
    /\ started > 0 /\ received < MaxSignals
    /\ Len(channel) < ChannelSize
    /\ received' = received + 1
    /\ channel' = Append(channel, received + 1)
    /\ UNCHANGED <<trackerVars, pc, flush, begun, held, owed, out, outsideVars>>

Forward ==
    /\ Alive
    /\ channel # <<>>
    /\ AddToAggregator(SignalNo(Head(channel)))
    /\ channel' = Tail(channel)
    /\ UNCHANGED <<trackerVars, pc, flush, begun, owed, out, received, outsideVars>>

-----------------------------------------------------------------------------
(* process_telemetry, for the batch with the runtimeDone event of invocation n. *)

\* The batch arrives and takes the read lock; behind a waiting writer it queues.
TelemetryArrives(n) ==
    /\ Alive
    /\ n <= finished /\ telemetry[n] = "none"
    /\ pc # "lockWait"
    /\ telemetry' = [telemetry EXCEPT ![n] = "locked"]
    /\ UNCHANGED <<trackerVars, extensionVars, started, finished, posts, shutdown>>

\* Its metric is added, then the completion is signalled and the lock dropped.
TelemetryProcessed(n) ==
    /\ Alive
    /\ telemetry[n] = "locked"
    /\ AddToAggregator(Metric(n))
    /\ Signalled(RequestOf[n], "RuntimeDone")
    /\ telemetry' = [telemetry EXCEPT ![n] = "done"]
    /\ UNCHANGED <<pc, flush, begun, owed, out, channel, received,
                   started, finished, posts, shutdown>>

-----------------------------------------------------------------------------
(* handle_invoke and hold_and_flush. *)

\* window: whether hold_deadline finds time to hold before the deadline.
HandleInvoke(window) ==
    /\ pc = "polling" /\ begun < started
    /\ begun' = begun + 1
    /\ Begin(RequestOf[begun + 1], window)
    /\ pc' = IF window /\ ShouldHold THEN "hold" ELSE "postFlush"
    /\ UNCHANGED <<flush, held, owed, out, channel, received, outsideVars>>

\* One turn of the hold loop: wait_for_completion and the tick start together.  The
\* tick sleeps for 10 ms at least, so a wait that is over already wins.
HoldTurn ==
    /\ pc = "hold"
    /\ Subscribe
    /\ pc' = IF current.source # None \/ ~current.open THEN "ready" ELSE "parked"
    /\ UNCHANGED <<flush, begun, held, owed, out, channel, received, outsideVars>>

\* The tick fires first and drops the wait; the flush manager may call for a flush.
Tick ==
    /\ pc = "parked"
    /\ Cancelled
    /\ \/ pc' = "hold" /\ UNCHANGED <<flush, owed>>
       \/ held # {} /\ pc' = "drain" /\ flush' = "periodic" /\ owed' = held
    /\ UNCHANGED <<begun, held, out, channel, received, outsideVars>>

HoldCompletes ==
    /\ pc \in {"parked", "ready"}
    /\ WakeCompleted
    /\ pc' = "settling"
    /\ UNCHANGED <<flush, begun, held, owed, out, channel, received, outsideVars>>

\* A hold that is taken up again when its deadline expires.
HoldRestarts ==
    /\ pc \in {"parked", "ready"}
    /\ WakeElapsed
    /\ pc' = "hold"
    /\ UNCHANGED <<flush, begun, held, owed, out, channel, received, outsideVars>>

\* DeadlineExpired.  (The slot is replaced by this task only, never in mid-wait.)
HoldExpires ==
    /\ pc \in {"parked", "ready"}
    /\ WakeElapsed
    /\ pc' = "postFlush"
    /\ UNCHANGED <<flush, begun, held, owed, out, channel, received, outsideVars>>

\* The settle delay, in which what the receiver accepted may reach the aggregator.
Settled ==
    /\ pc = "settling"
    /\ pc' = "postFlush"
    /\ UNCHANGED <<trackerVars, flush, begun, held, owed, out, channel, received,
                   outsideVars>>

\* post_invoke_flush: nothing pending, or the flush manager says no.
PostFlushSkipped ==
    /\ pc = "postFlush"
    /\ pc' = "polling"
    /\ UNCHANGED <<trackerVars, flush, begun, held, owed, out, channel, received,
                   outsideVars>>

PostFlushBegins ==
    /\ pc = "postFlush"
    /\ held # {}
    /\ pc' = "drain" /\ flush' = "post" /\ owed' = held
    /\ UNCHANGED <<trackerVars, begun, held, out, channel, received, outsideVars>>

-----------------------------------------------------------------------------
(* flush_all and final_flush: get_all_batches, then one export after another. *)

AfterFlush ==
    CASE flush = "periodic" -> "hold" [] flush = "post" -> "polling"
      [] flush = "final" -> "exited"

\* get_all_batches returns: everything owed and still held, and whatever else was
\* added in time.  A flush without batches is over.
DrainEnds ==
    /\ pc = "drain"
    /\ \E batches \in SUBSET held :
          /\ owed \cap held \subseteq batches
          /\ out' = batches
          /\ held' = held \ batches
          /\ pc' = IF batches = {} THEN AfterFlush ELSE "export"
    /\ owed' = {}
    /\ UNCHANGED <<trackerVars, flush, begun, channel, received, outsideVars>>

\* One batch is exported.  flush_all bounds each export; final_flush looks at the
\* deadline between exports and drains again after the last.
ExportBatch ==
    /\ pc = "export"
    /\ flush = "final" => shutdown.time
    /\ \E batch \in SUBSET out \ {{}} : out' = out \ batch
    /\ \/ out' # {} /\ UNCHANGED <<pc, owed>>
       \/ out' = {} /\ flush # "final" /\ pc' = AfterFlush /\ UNCHANGED owed
       \/ out' = {} /\ flush = "final" /\ pc' = "drain" /\ owed' = held
    /\ UNCHANGED <<trackerVars, flush, begun, held, channel, received, outsideVars>>

\* final_flush finds its deadline past and abandons what is left.
AbandonRest ==
    /\ pc = "export" /\ flush = "final"
    /\ ~shutdown.time
    /\ pc' = "exited"
    /\ UNCHANGED <<trackerVars, flush, begun, held, owed, out, channel, received,
                   outsideVars>>

-----------------------------------------------------------------------------
(* handle_shutdown. *)

LockedBatches == {n \in 1 .. Invocations : telemetry[n] = "locked"}

\* SHUTDOWN, after every INVOKE: wait_for_processing_complete asks for the write
\* lock.  The function may run on when its hold has expired.
HandleShutdown(time) ==
    /\ pc = "polling" /\ begun = started
    /\ pc' = "lockWait"
    /\ shutdown' = [inFlight |-> LockedBatches, granted |-> FALSE, time |-> time]
    /\ UNCHANGED <<trackerVars, flush, begun, held, owed, out, channel, received,
                   started, finished, posts, telemetry>>

\* The lock is reported granted although batches are in processing.
LockUnchecked ==
    /\ pc = "lockWait"
    /\ pc' = "shutdownMetric"
    /\ shutdown' = [shutdown EXCEPT !.granted = TRUE]
    /\ UNCHANGED <<trackerVars, flush, begun, held, owed, out, channel, received,
                   started, finished, posts, telemetry>>

\* The write lock is granted, and dropped at once.
LockGranted ==
    /\ pc = "lockWait"
    /\ LockedBatches = {}
    /\ pc' = "shutdownMetric"
    /\ shutdown' = [shutdown EXCEPT !.granted = TRUE]
    /\ UNCHANGED <<trackerVars, flush, begun, held, owed, out, channel, received,
                   started, finished, posts, telemetry>>

\* The wait times out: the shutdown goes on regardless.
LockTimesOut ==
    /\ pc = "lockWait"
    /\ LockedBatches # {}
    /\ pc' = "shutdownMetric"
    /\ UNCHANGED <<trackerVars, flush, begun, held, owed, out, channel, received,
                   outsideVars>>

\* The shutdown metric is added and the final flush begins.
FinalFlushBegins ==
    /\ pc = "shutdownMetric"
    /\ AddToAggregator(ShutdownMetric)
    /\ pc' = "drain" /\ flush' = "final" /\ owed' = held'
    /\ UNCHANGED <<trackerVars, begun, out, channel, received, outsideVars>>

-----------------------------------------------------------------------------
Handler ==
    \/ \E window \in BOOLEAN : HandleInvoke(window)
    \/ HoldTurn
    \/ HoldCompletes
    \/ HoldExpires
    \/ Settled
    \/ PostFlushSkipped
    \/ PostFlushBegins
    \/ DrainEnds
    \/ ExportBatch
    \/ AbandonRest
    \/ LockGranted
    \/ LockTimesOut
    \/ FinalFlushBegins

LifecycleNext ==
    \/ Handler
    \/ Tick
    \/ \E time \in BOOLEAN : HandleShutdown(time)
    \/ InvocationStarts
    \/ FunctionReturns
    \/ HoldDeadlinePasses
    \/ ShutdownTimeRunsOut
    \/ \E n \in posts, id \in RequestIds \cup {None} : WrapperSignal(n, id)
    \/ ReceiveSignal
    \/ Forward
    \/ \E n \in 1 .. Invocations : TelemetryArrives(n) \/ TelemetryProcessed(n)

LifecycleSpec == LifecycleInit /\ [][LifecycleNext]_lifecycleVars

\* The handler's task is polled when it can go on, exports and the lock wait are
\* bounded by timeouts, and the clock advances.  Nothing is asked of the function,
\* the wrapper, the Telemetry API, the forwarder or the tick.
LifecycleFairSpec ==
    LifecycleSpec /\ WF_lifecycleVars(Handler) /\ WF_lifecycleVars(HoldDeadlinePasses)

-----------------------------------------------------------------------------
(* Properties. *)

\* "Degraded environments pay the hold cost at most once" (completion.rs:243): the
\* handler never lets a second hold expire before a signal has restored health.
HoldCostPaidOnce == timeouts <= 1

\* Signal health is lost only to silence: a hold that counts as expired belongs to an
\* invocation none of whose telemetry had been processed, even while a periodic flush
\* kept the handler away from its channel (send_replace, completion.rs:142-144).  And it
\* comes back only in time: with the first completion signal of the invocation in flight,
\* inside its window, never with a late, early or foreign one.
HealthIsFair ==
    [][/\ timeouts' > timeouts =>
             \A n \in 1 .. Invocations :
                 RequestOf[n] = current.id => telemetry[n] # "done"
       /\ timeouts' < timeouts =>
             current.open /\ current.source = None /\ current'.source # None]_lifecycleVars

\* What releases a hold as RuntimeDone is telemetry whose metrics the flush that
\* follows will find: they have been added before (service.rs:399-402).
RuntimeDoneMeansBuffered ==
    current.source = "RuntimeDone" =>
        \E n \in 1 .. Invocations : RequestOf[n] = current.id /\ telemetry[n] = "done"

\* A hold ends as complete only when the function has returned or is about to:
\* "it delays its re-poll until the invocation is complete" (README.md of the
\* extension).  It needs request ids that are not used twice and wrappers that
\* send theirs.
HoldOutlastsFunction == pc = "settling" => finished >= begun

\* Telemetry that was being processed when SHUTDOWN came is not left behind in the
\* aggregator, unless the wait for it timed out or the final flush ran out of time.
InFlightFlushed ==
    (pc = "exited" /\ shutdown.granted /\ shutdown.time) =>
        \A n \in shutdown.inFlight : telemetry[n] = "done" /\ Metric(n) \notin held \cup out

\* "Holds a read lock on the processing lock throughout, preventing the SHUTDOWN
\* handler from flushing mid-processing" (service.rs:404-405), whenever the wait
\* for the lock did not time out.
NoFlushMidProcessing ==
    (flush = "final" /\ pc \in {"drain", "export"} /\ shutdown.granted) =>
        LockedBatches = {}

\* Every INVOKE and every SHUTDOWN is dealt with: the handler always comes back to
\* /next or leaves, so the environment is never kept from freezing for ever.
HandlerReturns == pc # "polling" ~> pc \in {"polling", "exited"}
=============================================================================
