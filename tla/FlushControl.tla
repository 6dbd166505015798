---------------------------- MODULE FlushControl ----------------------------
(***************************************************************************)
(* The event handler's flushes against the clock (service.rs): the hold    *)
(* with its periodic ticks, the flush after an invocation, and the final   *)
(* flush, composed of the exporter of OtlpExporter and the decisions of    *)
(* FlushManager.  ExtensionLifecycle has the same handler without time.    *)
(*                                                                         *)
(* Time passes (Pass) only while the handler waits, and never beyond the   *)
(* end of its wait.  Whether a hold is worth while is the completion       *)
(* tracker's to say, so here it is a choice.                               *)
(***************************************************************************)
EXTENDS OtlpExporter, FlushManager

CONSTANTS
    FlushBudget,      \* INVOKE_FLUSH_BUDGET, and HOLD_DEADLINE_MARGIN
    Settle,           \* COMPLETION_SETTLE_DELAY
    TickFloor,        \* the shortest periodic tick
    ShutdownMargin,   \* SHUTDOWN_DEADLINE_MARGIN
    ProcessingCap,    \* the longest wait for telemetry processing at SHUTDOWN
    Allowances,       \* what INVOKE and SHUTDOWN leave until their deadlines
    Caps,             \* completion_wait: Never for auto, else the cap
    MaxSignals, MaxTime   \* bounds of the model: signals at a time, clock

ASSUME ControlAssumption ==
    /\ {FlushBudget, Settle, ShutdownMargin, ProcessingCap} \subseteq Nat
    /\ TickFloor \in Nat \ {0}
    /\ Allowances \subseteq Nat /\ Caps \subseteq Nat \cup {Never}
    /\ {MaxSignals, MaxTime} \subseteq Nat

VARIABLES
    pc,          \* "parked" on /next, "hold", "settle", "flush", "processing",
                 \* "final", or "gone"
    after,       \* where the flush in progress returns to
    pending,     \* signals in the aggregator
    oldest,      \* when the oldest of them was added, or Never
    batches,     \* batches drained and not begun
    deadline,    \* of the flush in progress
    wake,        \* the end of the tick, the settle delay or the wait for processing
    window,      \* the hold: since when (or since the last flush in it), until when,
                 \* and the function's deadline
    completed    \* has the completion signal of the held invocation come?

clockVars == <<now, endpoint>>
signalVars == <<pending, oldest>>
flushVars == <<after, batches, deadline>>
holdVars == <<window, completed>>
controlVars == <<clockVars, export, managerVars, signalVars, flushVars, holdVars, pc, wake>>

NoWindow == [since |-> Never, until |-> Never, limit |-> Never]

ControlTypeOK ==
    /\ ExporterTypeOK /\ ManagerTypeOK
    /\ pc \in {"parked", "hold", "settle", "flush", "processing", "final", "gone"}
    /\ after \in {"parked", "hold"}
    /\ pending \in 0 .. MaxSignals /\ batches \in 0 .. MaxSignals + 1
    /\ pending = 0 <=> oldest = Never
    /\ window = NoWindow \/ window \in [since : 0 .. now, until : Nat, limit : Nat]
    /\ wake \in Nat \cup {Never} /\ deadline \in Nat
    /\ completed => window # NoWindow
    /\ export.at # "idle" => pc \in {"flush", "final"}

ControlInit ==
    /\ ExporterInit /\ ManagerInit
    /\ pc = "parked" /\ after = "parked" /\ pending = 0 /\ oldest = Never
    /\ batches = 0 /\ deadline = 0 /\ wake = Never /\ window = NoWindow
    /\ completed = FALSE

Least(a, b) == IF a < b THEN a ELSE b

Most(a, b) == IF a > b THEN a ELSE b

-----------------------------------------------------------------------------
(* Time, signals, completion. *)

Pass ==
    /\ now < MaxTime
    /\ CASE pc = "parked" -> TRUE
         [] pc = "hold" -> ~completed /\ now < window.until /\ now # wake
         [] pc \in {"settle", "processing"} -> now < wake
         [] pc \in {"flush", "final"} -> Waiting /\ now < export.due
         [] pc = "gone" -> FALSE
    /\ now' = now + 1
    /\ UNCHANGED <<endpoint, export, managerVars, signalVars, flushVars, holdVars, pc, wake>>

SignalArrives ==
    /\ pending < MaxSignals /\ pc # "gone"
    /\ pending' = pending + 1
    /\ oldest' = IF pending = 0 THEN now ELSE oldest
    /\ UNCHANGED <<clockVars, export, managerVars, flushVars, holdVars, pc, wake>>

\* Only the first signal of an invocation that is held matters here.
CompletionArrives ==
    /\ window # NoWindow /\ ~completed
    /\ pc = "hold" \/ (pc = "flush" /\ after = "hold")
    /\ completed' = TRUE
    /\ UNCHANGED <<clockVars, export, managerVars, signalVars, flushVars, window, pc, wake>>

-----------------------------------------------------------------------------
(* hold_and_flush and post_invoke_flush. *)

\* get_all_batches of what is pending and `extra` more; one deadline for every export.
Drain(extra, until) ==
    /\ batches' = (pending + extra + MaxBatchEntries - 1) \div MaxBatchEntries
    /\ pending' = 0 /\ oldest' = Never
    /\ deadline' = until

\* A post-invocation flush that knows only the mid-invocation rules.
ForgetInvocationEnd == ShouldFlush(now, Never, pending, FALSE) # "none"

WantsPostInvokeFlush ==
    \/ ShouldFlushOnInvocationEnd(pending) # "none"
    \/ ShouldFlush(now, Never, pending, FALSE) # "none"

Park == pc' = "parked" /\ window' = NoWindow /\ completed' = FALSE /\ wake' = Never

PostInvokeFlush ==
    /\ after' = "parked"
    /\ IF pending > 0 /\ WantsPostInvokeFlush
       THEN pc' = "flush" /\ wake' = Never /\ Drain(0, now + FlushBudget)
                          /\ UNCHANGED holdVars
       ELSE Park /\ UNCHANGED <<signalVars, batches, deadline>>

\* time_until_periodic_flush without the arm of the periodic strategy.
OnlyContinuousTicks ==
    IF strategy = "continuous" THEN now + Most(TimeUntilNextFlush(now), TickFloor) ELSE Never

\* time_until_periodic_flush: of the configured strategy.
NextTick ==
    IF strategy \in {"periodic", "continuous"}
    THEN now + Most(TimeUntilNextFlush(now), TickFloor)
    ELSE Never

\* A wait for completion that lasts at least a tick, even past the window.
HoldAnew(w) ==
    pc' = "hold" /\ wake' = NextTick /\ window' = [w EXCEPT !.until = Most(@, now + TickFloor)]

\* The head of the loop.
HoldIn(w) == pc' = "hold" /\ wake' = NextTick /\ window' = w

\* hold_deadline.
HoldWindow(allowance, cap) ==
    LET remaining == Most(allowance - FlushBudget, 0)
    IN  IF cap = Never THEN remaining ELSE Least(remaining, cap)

\* INVOKE: hold if there is a window and the tracker advises it, else flush what waits.
Invoke(allowance, cap, hold) ==
    /\ pc = "parked"
    /\ RecordInvocation(now)
    /\ IF HoldWindow(allowance, cap) > 0 /\ hold
       THEN /\ HoldIn([since |-> now, until |-> now + HoldWindow(allowance, cap),
                       limit |-> now + allowance])
            /\ UNCHANGED <<completed, signalVars, flushVars>>
       ELSE PostInvokeFlush
    /\ UNCHANGED <<clockVars, export>>

HoldCompletes ==
    /\ pc = "hold" /\ completed
    /\ pc' = "settle" /\ wake' = now + Settle
    /\ UNCHANGED <<clockVars, export, managerVars, signalVars, flushVars, holdVars>>

SettledOrExpired ==
    /\ \/ pc = "settle" /\ now >= wake
       \/ pc = "hold" /\ now >= window.until
    /\ PostInvokeFlush
    /\ UNCHANGED <<clockVars, export, managerVars>>

\* The tick ends the wait for completion, whether or not anything is flushed.
HoldTicks ==
    /\ pc = "hold" /\ now = wake
    /\ IF ShouldFlush(now, Never, pending, FALSE) # "none"
       THEN /\ pc' = "flush" /\ wake' = Never /\ after' = "hold"
            /\ Drain(0, now + FlushBudget)
            /\ UNCHANGED window
       ELSE HoldIn(window) /\ UNCHANGED <<signalVars, flushVars>>
    /\ UNCHANGED <<clockVars, export, managerVars, completed>>

-----------------------------------------------------------------------------
(* flush_all and final_flush. *)

ExportNext ==
    /\ pc = "flush" \/ (pc = "final" /\ now < deadline)
    /\ batches > 0
    /\ Export(deadline)
    /\ batches' = batches - 1
    /\ UNCHANGED <<clockVars, managerVars, signalVars, after, deadline, holdVars, pc, wake>>

Exporting ==
    /\ ExportStep
    /\ UNCHANGED <<clockVars, managerVars, signalVars, flushVars, holdVars, pc, wake>>

\* flush_all reports each result to the manager; final_flush does not.
ExportReturns ==
    /\ export.at = "done"
    /\ export' = Idle
    /\ IF pc = "final" THEN UNCHANGED managerVars
       ELSE IF export.result = "Success" THEN RecordFlush(now)
       ELSE RecordFlushTimeout
    /\ UNCHANGED <<clockVars, signalVars, flushVars, holdVars, pc, wake>>

FlushReturns ==
    /\ pc = "flush" /\ batches = 0 /\ export.at = "idle"
    /\ IF after = "hold"
       THEN HoldIn([window EXCEPT !.since = now]) /\ UNCHANGED completed
       ELSE Park
    /\ after' = "parked" /\ deadline' = 0
    /\ UNCHANGED <<clockVars, export, managerVars, signalVars, batches>>

\* SHUTDOWN: wait for telemetry processing, up to a quarter of what is left.
Shutdown(allowance) ==
    /\ pc = "parked"
    /\ LET remaining == Most(allowance - ShutdownMargin, 0)
       IN  /\ deadline' = now + remaining
           /\ wake' = now + Least(remaining \div 4, ProcessingCap)
    /\ pc' = "processing"
    /\ UNCHANGED <<clockVars, export, managerVars, signalVars, after, batches, holdVars>>

\* The wait ends early or late; the shutdown metric joins what is drained.
FinalFlushBegins ==
    /\ pc = "processing"
    /\ pc' = "final" /\ wake' = Never
    /\ Drain(1, deadline)
    /\ UNCHANGED <<clockVars, export, managerVars, after, holdVars>>

\* Everything drained was exported: drain again, until there is nothing.
FinalFlushDrains ==
    /\ pc = "final" /\ batches = 0 /\ export.at = "idle"
    /\ IF pending > 0
       THEN Drain(0, deadline) /\ UNCHANGED pc
       ELSE pc' = "gone" /\ UNCHANGED <<signalVars, batches, deadline>>
    /\ UNCHANGED <<clockVars, export, managerVars, after, holdVars, wake>>

\* Past the deadline the batches that remain are abandoned.
FinalFlushAbandons ==
    /\ pc = "final" /\ batches > 0 /\ export.at = "idle" /\ now >= deadline
    /\ pc' = "gone" /\ batches' = 0
    /\ UNCHANGED <<clockVars, export, managerVars, signalVars, after, deadline, holdVars,
                   wake>>

-----------------------------------------------------------------------------
FlushStep ==
    ExportNext \/ Exporting \/ ExportReturns \/ FlushReturns \/ FinalFlushDrains
               \/ FinalFlushAbandons

ControlNext ==
    \/ Pass \/ SignalArrives \/ CompletionArrives
    \/ \E allowance \in Allowances :
          \/ \E cap \in Caps, hold \in BOOLEAN : Invoke(allowance, cap, hold)
          \/ Shutdown(allowance)
    \/ HoldCompletes \/ SettledOrExpired \/ HoldTicks
    \/ FinalFlushBegins \/ FlushStep

ControlSpec == ControlInit /\ [][ControlNext]_controlVars

-----------------------------------------------------------------------------
(* Properties. *)

\* "The optional `deadline` bounds the total time spent, including retries"
\* (exporter.rs:166-167): however many batches a flush has, and however their attempts
\* and backoffs fall, it is over when its one deadline comes.
FlushKeepsItsDeadline == pc \in {"flush", "final"} => now <= deadline

InvokePath == {"hold", "settle", "flush"}

\* However the ticks and the completion fall, the handler is back on /next one flush
\* budget and a settle delay after the function's deadline at the latest: the window
\* leaves room for one flush, and another may begin on the window's last tick.
HoldPathBounded ==
    (pc \in InvokePath /\ window # NoWindow) => now <= window.limit + FlushBudget + Settle

\* "leaving room for the flush itself before the function times out"
\* (service.rs:35): the flush after a hold is over when the function's time is.
FlushFitsMargin ==
    (pc \in InvokePath /\ window # NoWindow) => now <= window.limit + Settle

\* "periodic flush strategies still fire so long-running invocations export
\* incrementally" (service.rs:190-191): while an invocation is held, no signal waits
\* longer than the interval (or the shortest tick) from its arrival, or from the end of
\* the flush that was under way then.
HeldSignalsFresh ==
    (pc = "hold" /\ strategy \in {"periodic", "continuous"})
    => pending = 0
         \/ now - Most(oldest, window.since) <= Most(Interval, TickFloor)

\* "Flush at the end of each invocation." (config.rs:68): under the end strategy the
\* handler never parks on /next, where the sandbox may freeze, with signals that were
\* there when the invocation ended; unless failed flushes have escalated the strategy.
EndLeavesNothing ==
    [][ (/\ pc \in {"parked", "hold", "settle"} /\ pc' = "parked"
         /\ (history' # history \/ pc # "parked")
         /\ strategy = "end" /\ ~Escalated)
        => pending' = 0 ]_controlVars
=============================================================================
