---------------------------- MODULE FlushManager ----------------------------
(***************************************************************************)
(* When to flush (flush.rs): what FlushManager remembers of invocations    *)
(* and flushes, and what it decides from that, the configured strategy and *)
(* the signals that are pending.                                           *)
(***************************************************************************)
EXTENDS Integers, Sequences

CONSTANTS
    HistorySize,        \* HISTORY_SIZE: invocations remembered, failures that escalate
    FrequentThreshold,  \* FREQUENT_THRESHOLD
    DeadlineBuffer,     \* DEADLINE_BUFFER
    Interval,           \* FlushConfig.interval
    MaxBatchEntries,    \* FlushConfig.max_batch_entries
    Strategies          \* the strategies that are configured

ASSUME ManagerAssumption ==
    /\ {HistorySize, Interval, MaxBatchEntries} \subseteq Nat \ {0}
    /\ {FrequentThreshold, DeadlineBuffer} \subseteq Nat
    /\ Strategies \subseteq {"default", "end", "periodic", "continuous"}

VARIABLES
    strategy,   \* FlushConfig.strategy
    history,    \* invocation_timestamps
    lastFlush,  \* last_flush, or Never
    timeouts    \* consecutive_timeout_count, counted up to HistorySize

managerVars == <<strategy, history, lastFlush, timeouts>>

Never == -1

ManagerTypeOK ==
    /\ strategy \in Strategies
    /\ history \in Seq(Nat) /\ Len(history) <= HistorySize
    /\ lastFlush \in Nat \cup {Never}
    /\ timeouts \in 0 .. HistorySize

ManagerInit ==
    /\ strategy \in Strategies
    /\ history = << >> /\ lastFlush = Never /\ timeouts = 0

-----------------------------------------------------------------------------
RecordInvocation(t) ==
    /\ history' = Append(IF Len(history) >= HistorySize THEN Tail(history) ELSE history, t)
    /\ UNCHANGED <<strategy, lastFlush, timeouts>>

RecordFlush(t) ==
    /\ lastFlush' = t /\ timeouts' = 0
    /\ UNCHANGED <<strategy, history>>

RecordFlushTimeout ==
    /\ timeouts' = IF timeouts < HistorySize THEN timeouts + 1 ELSE timeouts
    /\ UNCHANGED <<strategy, history, lastFlush>>

-----------------------------------------------------------------------------
Escalated == timeouts >= HistorySize

EffectiveStrategy == IF Escalated THEN "continuous" ELSE strategy

\* The average of fewer than two invocations is unknown, which counts as infrequent.
Infrequent ==
    Len(history) < 2
        \/ history[Len(history)] - history[1] > FrequentThreshold * (Len(history) - 1)

IntervalElapsed(t) == lastFlush = Never \/ t - lastFlush >= Interval

TimeUntilNextFlush(t) == IF IntervalElapsed(t) THEN 0 ELSE Interval - (t - lastFlush)

\* An invocation's deadline, or Never; a shutdown.  The service passes neither.
ShouldFlush(t, deadline, pending, isShutdown) ==
    IF isShutdown THEN "Shutdown"
    ELSE IF deadline # Never /\ deadline - t < DeadlineBuffer THEN "Deadline"
    ELSE IF pending > 0 /\ pending >= MaxBatchEntries THEN "BufferFull"
    ELSE IF pending = 0 \/ ~IntervalElapsed(t) THEN "none"
    ELSE CASE EffectiveStrategy = "continuous" -> "Continuous"
           [] EffectiveStrategy = "periodic"   -> "Periodic"
           [] EffectiveStrategy = "end"        -> "none"
           [] EffectiveStrategy = "default"    -> IF Infrequent THEN "none" ELSE "Continuous"

ShouldFlushOnInvocationEnd(pending) ==
    IF pending > 0 /\ (EffectiveStrategy = "end" \/ (EffectiveStrategy = "default" /\ Infrequent))
    THEN "InvocationEnd"
    ELSE "none"
=============================================================================
