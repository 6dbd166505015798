---------------------------- MODULE FreezeState ----------------------------
(***************************************************************************)
(* Freezing and thawing in the Lambda simulator (freeze.rs), with the two  *)
(* places that call it: enqueue thaws before it queues an invocation       *)
(* (simulator.rs), and the report task of a finished invocation freezes at *)
(* the epoch it captured (runtime_api.rs).                                 *)
(*                                                                         *)
(* FreezeState is a pair of atomics and a list of PIDs; nothing makes an   *)
(* operation on them atomic as a whole, so every load, compare-exchange    *)
(* and kill is a step.  The readers' lock on the list excludes neither     *)
(* operation from the other.                                               *)
(***************************************************************************)
EXTENDS Naturals, FiniteSets

CONSTANTS
    NumPids,          \* how many processes are registered; the first is the runtime
    Freezers,         \* report tasks
    Thawers,          \* tasks that call enqueue or shut the simulator down
    MaxInvocations,   \* how many invocations are enqueued at most
    MaxPending,       \* how many may be enqueued and unfinished at a time
    Overlap           \* may a thaw begin during a freeze, and a freeze in a thaw?

ASSUME FreezeAssumption ==
    /\ MaxInvocations \in Nat /\ MaxPending \in Nat
    /\ NumPids \in Nat \ {0}
    /\ Overlap \in BOOLEAN

VARIABLES
    epoch,      \* freeze_epoch
    isFrozen,   \* is_frozen
    stopped,    \* the processes that SIGSTOP has stopped
    gone,       \* the processes that have ended
    reaped,     \* those of them whose exit status was taken: no PID any more
    freezer,    \* of each report task: place, epoch captured, next PID, any success
    thawer,     \* of each thawing task: place, next PID, force_unfreeze, any error
    enqueued,   \* invocations whose enqueue has begun
    work,       \* invocations enqueued and not finished
    shut        \* "no", "begun", or "reported": a report task was spawned since

freezeVars ==
    <<epoch, isFrozen, stopped, gone, reaped, freezer, thawer, enqueued, work, shut>>

Pids == 1 .. NumPids

Positions == 1 .. NumPids + 1

FreezeTypeOK ==
    /\ epoch \in 0 .. MaxInvocations + 1
    /\ isFrozen \in BOOLEAN
    /\ stopped \subseteq Pids \ gone /\ gone \subseteq Pids /\ reaped \subseteq gone
    /\ freezer \in [Freezers -> [at : {"idle", "scheduled", "checked", "stopping"},
                                 epoch : 0 .. epoch, next : Positions, any : BOOLEAN]]
    /\ thawer \in [Thawers -> [at : {"idle", "bumped", "continuing"},
                               next : Positions, forced : BOOLEAN, failed : BOOLEAN]]
    /\ enqueued \in 0 .. MaxInvocations
    /\ work \in 0 .. MaxPending
    /\ shut \in {"no", "begun", "reported"}

IdleFreezer == [at |-> "idle", epoch |-> 0, next |-> 1, any |-> FALSE]

IdleThawer == [at |-> "idle", next |-> 1, forced |-> FALSE, failed |-> FALSE]

FreezeInit ==
    /\ epoch = 0 /\ isFrozen = FALSE /\ stopped = {} /\ gone = {} /\ reaped = {}
    /\ freezer = [f \in Freezers |-> IdleFreezer]
    /\ thawer = [t \in Thawers |-> IdleThawer]
    /\ enqueued = 0 /\ work = 0 /\ shut = "no"

Freezing == {f \in Freezers : freezer[f].at \in {"checked", "stopping"}}

Thawing == {t \in Thawers : thawer[t].at # "idle"}

-----------------------------------------------------------------------------
(* The processes. *)

\* A process ends, by itself or because its ManagedProcess is dropped: SIGKILL ends a
\* stopped one too, and nobody tells the flag.
ProcessExits(p) ==
    /\ p \notin gone
    /\ gone' = gone \cup {p}
    /\ stopped' = stopped \ {p}
    /\ UNCHANGED <<epoch, isFrozen, reaped, freezer, thawer, enqueued, work, shut>>

\* wait or try_wait takes its status.  Until then signals to it are accepted, without
\* any effect; from now on they fail with ESRCH.
ProcessReaped(p) ==
    /\ p \in gone \ reaped
    /\ reaped' = reaped \cup {p}
    /\ UNCHANGED <<epoch, isFrozen, stopped, gone, freezer, thawer, enqueued, work, shut>>

\* The runtime finishes an invocation and spawn_report_task captures the epoch.
ReportScheduled(f) ==
    /\ work > 0 /\ 1 \notin stopped \cup gone
    /\ freezer[f].at = "idle"
    /\ work' = work - 1
    /\ freezer' = [freezer EXCEPT ![f] = [IdleFreezer EXCEPT !.at = "scheduled",
                                                             !.epoch = epoch]]
    /\ shut' = IF shut = "no" THEN "no" ELSE "reported"
    /\ UNCHANGED <<epoch, isFrozen, stopped, gone, reaped, thawer, enqueued>>

-----------------------------------------------------------------------------
(* freeze_at_epoch. *)

MayFreeze == Overlap \/ Thawing = {}

\* freeze_at_epoch without the comparison of epochs.
FreezeAtAnyEpoch(f) ==
    /\ freezer[f].at = "scheduled"
    /\ MayFreeze
    /\ freezer' = [freezer EXCEPT ![f].at = "checked"]
    /\ UNCHANGED <<epoch, isFrozen, stopped, gone, reaped, thawer, enqueued, work, shut>>

CheckEpoch(f) ==
    /\ freezer[f].at = "scheduled"
    /\ MayFreeze
    /\ freezer' = IF freezer[f].epoch = epoch
                  THEN [freezer EXCEPT ![f].at = "checked"]
                  ELSE [freezer EXCEPT ![f] = IdleFreezer]
    /\ UNCHANGED <<epoch, isFrozen, stopped, gone, reaped, thawer, enqueued, work, shut>>

\* compare_exchange(false, true): whoever loses it leaves the stopping to the other.
TakeFlag(f) ==
    /\ freezer[f].at = "checked"
    /\ isFrozen' = TRUE
    /\ freezer' = IF isFrozen
                  THEN [freezer EXCEPT ![f] = IdleFreezer]
                  ELSE [freezer EXCEPT ![f].at = "stopping"]
    /\ UNCHANGED <<epoch, stopped, gone, reaped, thawer, enqueued, work, shut>>

\* SIGSTOP to the next PID.
Stop(f) ==
    /\ freezer[f].at = "stopping"
    /\ freezer[f].next \in Pids
    /\ stopped' = stopped \cup ({freezer[f].next} \ gone)
    /\ freezer' = [freezer EXCEPT ![f].next = @ + 1,
                                  ![f].any = @ \/ freezer[f].next \notin reaped]
    /\ UNCHANGED <<epoch, isFrozen, gone, reaped, thawer, enqueued, work, shut>>

\* When every kill failed the flag is taken back.
FreezeEnds(f) ==
    /\ freezer[f].at = "stopping"
    /\ freezer[f].next \notin Pids
    /\ isFrozen' = (isFrozen /\ freezer[f].any)
    /\ freezer' = [freezer EXCEPT ![f] = IdleFreezer]
    /\ UNCHANGED <<epoch, stopped, gone, reaped, thawer, enqueued, work, shut>>

-----------------------------------------------------------------------------
(* enqueue with unfreeze, shutdown with force_unfreeze. *)

MayThaw == Overlap \/ Freezing \cup Thawing = {}

EnqueueBegins(t) ==
    /\ thawer[t].at = "idle"
    /\ MayThaw /\ shut = "no"
    /\ enqueued < MaxInvocations
    /\ work + Cardinality(Thawing) < MaxPending
    /\ enqueued' = enqueued + 1
    /\ epoch' = epoch + 1
    /\ thawer' = [thawer EXCEPT ![t].at = "bumped"]
    /\ UNCHANGED <<isFrozen, stopped, gone, reaped, freezer, work, shut>>

\* force_unfreeze without the new epoch.
ShutdownKeepsEpoch(t) ==
    /\ thawer[t].at = "idle"
    /\ MayThaw /\ Thawing = {} /\ shut = "no"
    /\ shut' = "begun"
    /\ thawer' = [thawer EXCEPT ![t].at = "bumped", ![t].forced = TRUE]
    /\ UNCHANGED <<epoch, isFrozen, stopped, gone, reaped, freezer, enqueued, work>>

\* shutdown and graceful_shutdown own the simulator: no enqueue is under way then, and
\* none follows.  The runtime may be at work, and may finish.
ShutdownBegins(t) ==
    /\ thawer[t].at = "idle"
    /\ MayThaw /\ Thawing = {} /\ shut = "no"
    /\ shut' = "begun"
    /\ epoch' = epoch + 1
    /\ thawer' = [thawer EXCEPT ![t].at = "bumped", ![t].forced = TRUE]
    /\ UNCHANGED <<isFrozen, stopped, gone, reaped, freezer, enqueued, work>>

\* unfreeze swaps the flag and has nothing to do unless it was set; force_unfreeze
\* sends its signals in any case.
SwapFlag(t) ==
    /\ thawer[t].at = "bumped"
    /\ isFrozen' = FALSE
    /\ IF isFrozen \/ thawer[t].forced
       THEN thawer' = [thawer EXCEPT ![t].at = "continuing"] /\ UNCHANGED work
       ELSE thawer' = [thawer EXCEPT ![t] = IdleThawer] /\ work' = work + 1
    /\ UNCHANGED <<epoch, stopped, gone, reaped, freezer, enqueued, shut>>

\* SIGCONT to the next PID.
Continue(t) ==
    /\ thawer[t].at = "continuing"
    /\ thawer[t].next \in Pids
    /\ stopped' = stopped \ {thawer[t].next}
    /\ thawer' = [thawer EXCEPT ![t].next = @ + 1,
                                ![t].failed = @ \/ thawer[t].next \in reaped]
    /\ UNCHANGED <<epoch, isFrozen, gone, reaped, freezer, enqueued, work, shut>>

\* The thaw is over.  enqueue panics when a signal failed; else the work is queued.
ThawEnds(t) ==
    /\ thawer[t].at = "continuing"
    /\ thawer[t].next \notin Pids
    /\ work' = IF thawer[t].forced \/ thawer[t].failed THEN work ELSE work + 1
    /\ thawer' = [thawer EXCEPT ![t] = IdleThawer]
    /\ UNCHANGED <<epoch, isFrozen, stopped, gone, reaped, freezer, enqueued, shut>>

-----------------------------------------------------------------------------
FreezeNext ==
    \/ \E p \in Pids : ProcessExits(p) \/ ProcessReaped(p)
    \/ \E f \in Freezers :
          ReportScheduled(f) \/ CheckEpoch(f) \/ TakeFlag(f) \/ Stop(f) \/ FreezeEnds(f)
    \/ \E t \in Thawers :
          EnqueueBegins(t) \/ ShutdownBegins(t) \/ SwapFlag(t) \/ Continue(t) \/ ThawEnds(t)

FreezeSpec == FreezeInit /\ [][FreezeNext]_freezeVars

-----------------------------------------------------------------------------
(* Properties. *)

\* No process is stopped while an invocation waits for it: the epoch prevents "race
\* conditions where a freeze is scheduled but work arrives before it executes"
\* (freeze.rs:65-67).
NoStopWithWork == (work > 0 /\ Thawing = {}) => stopped = {}

\* "Returns whether the processes are currently frozen" (freeze.rs:155): between
\* operations the flag is set when a process is stopped, else the next unfreeze would find
\* nothing to do and leave it so; and when it is set, every process that lives is stopped,
\* for they "are frozen together" (freeze.rs:171).
FlagTellsTruth ==
    Freezing \cup Thawing = {} =>
        /\ stopped # {} => isFrozen
        /\ isFrozen => Pids \ gone \subseteq stopped

\* "Used during shutdown to ensure processes aren't left frozen" (freeze.rs): a
\* report task that was still waiting when the shutdown began stops nothing.
ShutdownLeavesRunning ==
    (shut = "begun" /\ Freezing \cup Thawing = {}) => stopped = {}

\* The same sentence of the source for every report task, those included that are
\* spawned after force_unfreeze, for an invocation that was still running.
ShutdownNeverStops ==
    (shut # "no" /\ Freezing \cup Thawing = {}) => stopped = {}
=============================================================================
