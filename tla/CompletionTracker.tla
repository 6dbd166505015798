------------------------- MODULE CompletionTracker -------------------------
(***************************************************************************)
(* The completion tracker of the extension crate (completion.rs): one slot *)
(* for the invocation in flight, a short memory of the request ids that    *)
(* completed, and the health counter that decides whether /next is held.   *)
(*                                                                         *)
(* Every method takes the tracker's mutex for its whole body, so begin,    *)
(* complete and each of the two halves of wait_for_completion (subscribe,  *)
(* then wake with an outcome) is one action.  Any task may call any of     *)
(* them in any order.  Instants are compared with one value only, the hold *)
(* deadline of the invocation in flight, so the clock is abstracted to     *)
(* whether that deadline is still ahead (current.open).                    *)
(***************************************************************************)
EXTENDS Naturals, Sequences

CONSTANTS
    RequestIds,   \* the request ids Lambda may use
    Sources,      \* CompletionSource: the wrapper, the runtimeDone event
    None,         \* no request id, or no source yet
    Capacity,     \* RECENTLY_COMPLETED_CAPACITY
    MaxTimeouts   \* where the model stops counting consecutive hold timeouts

ASSUME TrackerAssumption ==
    /\ None \notin RequestIds
    /\ None \notin Sources
    /\ Capacity \in Nat \ {0}
    /\ MaxTimeouts \in Nat \ {0}

VARIABLES
    current,    \* the slot: request id, source of its completion, window open?
    recent,     \* recently_completed, oldest first
    timeouts,   \* consecutive_hold_timeouts
    waiter,     \* the task inside wait_for_completion, and what its channel holds
    observed    \* history of the invocation in flight: was it complete when it began, did
                \* a signal come inside its window since then, and did one come at all (one
                \* remembered when it began, or a call of complete since), heard or not

trackerVars == <<current, recent, timeouts, waiter, observed>>

Entry == [id : RequestIds, source : Sources]

NoInvocation == [id |-> None, source |-> None, open |-> FALSE]

NotWaiting == [on |-> "nothing", source |-> None]

TrackerTypeOK ==
    /\ current \in [id : RequestIds \cup {None},
                    source : Sources \cup {None},
                    open : BOOLEAN]
    /\ recent \in Seq(Entry)
    /\ timeouts \in 0 .. MaxTimeouts
    /\ waiter \in [on : {"nothing", "current", "replaced"},
                   source : Sources \cup {None}]
    /\ observed \in [early : BOOLEAN, inWindow : BOOLEAN, signalled : BOOLEAN]

-----------------------------------------------------------------------------
(* The memory of completed request ids. *)

Remembered(id) == \E i \in 1 .. Len(recent) : recent[i].id = id

PositionIn(entries, id) ==
    CHOOSE i \in 1 .. Len(entries) : entries[i].id = id

SourceOf(id) == recent[PositionIn(recent, id)].source

Remember(id, source) ==
    IF Remembered(id)
    THEN recent
    ELSE Append(IF Len(recent) >= Capacity THEN Tail(recent) ELSE recent,
                [id |-> id, source |-> source])

ShouldHold == timeouts = 0

-----------------------------------------------------------------------------
TrackerInit ==
    /\ current = NoInvocation
    /\ recent = <<>>
    /\ timeouts = 0
    /\ waiter = NotWaiting
    /\ observed = [early |-> FALSE, inWindow |-> FALSE, signalled |-> FALSE]

\* begin without the lookup of an early signal.
BeginBlank(id, window) ==
    /\ current' = [id |-> id, source |-> None, open |-> window]
    /\ waiter' = IF waiter.on = "current"
                 THEN [on |-> "replaced", source |-> current.source]
                 ELSE waiter
    /\ observed' = [early |-> FALSE, inWindow |-> FALSE, signalled |-> Remembered(id)]
    /\ UNCHANGED <<recent, timeouts>>

\* begin: replace the slot.  The new channel starts with the remembered source,
\* if there is one; a waiter of the old channel keeps the value it last held and
\* sees the channel closed.  window: whether the hold deadline handed in is
\* ahead of now (the handler passes now itself when it will not hold).
Begin(id, window) ==
    LET known == IF Remembered(id) THEN SourceOf(id) ELSE None
    IN  /\ current' = [id |-> id, source |-> known, open |-> window]
        /\ waiter' = IF waiter.on = "current"
                     THEN [on |-> "replaced", source |-> current.source]
                     ELSE waiter
        /\ observed' = [early     |-> known # None,
                         inWindow  |-> FALSE,
                         signalled |-> Remembered(id)]
        /\ UNCHANGED <<recent, timeouts>>

\* A signal for any request id is taken for one of the invocation in flight.
MatchesAny(id) == current.id # None

MatchesCurrent(id) == current.id # None /\ id \in {None, current.id}

NoteSignal ==
    observed' = [observed EXCEPT !.inWindow = @ \/ current.open, !.signalled = TRUE]

\* complete without the test that the first source wins.
CompleteOverwrites(id, source) ==
    /\ MatchesCurrent(id)
    /\ current' = [current EXCEPT !.source = source]
    /\ timeouts' = IF current.open THEN 0 ELSE timeouts
    /\ recent' = Remember(current.id, source)
    /\ NoteSignal
    /\ UNCHANGED waiter

\* complete with send for send_replace: nothing is recorded without a receiver.
CompleteUnheard(id, source) ==
    /\ MatchesCurrent(id)
    /\ current.source = None
    /\ current' = [current EXCEPT !.source = IF waiter.on = "current" THEN source ELSE @]
    /\ timeouts' = IF current.open THEN 0 ELSE timeouts
    /\ recent' = Remember(current.id, source)
    /\ NoteSignal
    /\ UNCHANGED waiter

\* complete, for the invocation in flight: the first signal is recorded and, when
\* it is in time, restores health.
CompleteCurrent(id, source) ==
    /\ MatchesCurrent(id)
    /\ current.source = None
    /\ current' = [current EXCEPT !.source = source]
    /\ timeouts' = IF current.open THEN 0 ELSE timeouts
    /\ recent' = Remember(current.id, source)
    /\ NoteSignal
    /\ UNCHANGED waiter

\* complete, for an invocation in flight that is complete already: ignored.
CompleteAgain(id, source) ==
    /\ MatchesCurrent(id)
    /\ current.source # None
    /\ NoteSignal
    /\ UNCHANGED <<current, recent, timeouts, waiter>>

\* complete, for another request id: remembered for a later begin.  (A signal for
\* an id already remembered, and one without an id when nothing is in flight,
\* change nothing and are no step.)
CompleteOther(id, source) ==
    /\ ~MatchesCurrent(id)
    /\ id # None
    /\ ~Remembered(id)
    /\ recent' = Remember(id, source)
    /\ UNCHANGED <<current, timeouts, waiter, observed>>

\* complete without the reset of the health counter.
CompleteNoReset(id, source) ==
    \/ /\ CompleteAgain(id, source)
    \/ /\ CompleteOther(id, source)
    \/ /\ MatchesCurrent(id)
       /\ current.source = None
       /\ current' = [current EXCEPT !.source = source]
       /\ recent' = Remember(current.id, source)
       /\ NoteSignal
       /\ UNCHANGED <<timeouts, waiter>>

Complete(id, source) ==
    \/ CompleteCurrent(id, source)
    \/ CompleteAgain(id, source)
    \/ CompleteOther(id, source)

\* The clock passes the hold deadline of the invocation in flight.
WindowCloses ==
    /\ current.open
    /\ current' = [current EXCEPT !.open = FALSE]
    /\ UNCHANGED <<recent, timeouts, waiter, observed>>

-----------------------------------------------------------------------------
(* wait_for_completion: subscribe under the lock, then wake.  timeout_at polls *)
(* the channel before the timer, so a wake finds a source first, then a closed *)
(* channel, and the elapsed deadline last.                                     *)

Subscribe ==
    /\ waiter.on = "nothing"
    /\ current.id # None
    /\ waiter' = [on |-> "current", source |-> None]
    /\ UNCHANGED <<current, recent, timeouts, observed>>

ChannelHolds ==
    IF waiter.on = "current" THEN current.source ELSE waiter.source

\* Ok(Ok(source)): Completed, and health is restored.
WakeCompleted ==
    /\ waiter.on # "nothing"
    /\ ChannelHolds # None
    /\ timeouts' = 0
    /\ waiter' = NotWaiting
    /\ UNCHANGED <<current, recent, observed>>

\* Err(elapsed): DeadlineExpired, one more consecutive timeout.
WakeElapsed ==
    /\ waiter.on = "current"
    /\ current.source = None
    /\ ~current.open
    /\ timeouts' = IF timeouts < MaxTimeouts THEN timeouts + 1 ELSE timeouts
    /\ waiter' = NotWaiting
    /\ UNCHANGED <<current, recent, observed>>

\* A closed channel never wakes its waiter.
WakeReplacedNever ==
    /\ FALSE
    /\ UNCHANGED trackerVars

\* Ok(Err(closed)): DeadlineExpired without a penalty.
WakeReplaced ==
    /\ waiter.on = "replaced"
    /\ waiter.source = None
    /\ waiter' = NotWaiting
    /\ UNCHANGED <<current, recent, timeouts, observed>>

\* The caller's select! takes another branch and drops the wait.
Cancelled ==
    /\ waiter.on # "nothing"
    /\ waiter' = NotWaiting
    /\ UNCHANGED <<current, recent, timeouts, observed>>

Wake == WakeCompleted \/ WakeElapsed \/ WakeReplaced

TrackerNext ==
    \/ \E id \in RequestIds, window \in BOOLEAN : Begin(id, window)
    \/ \E id \in RequestIds \cup {None}, s \in Sources : Complete(id, s)
    \/ WindowCloses
    \/ Subscribe
    \/ Wake
    \/ Cancelled

TrackerSpec == TrackerInit /\ [][TrackerNext]_trackerVars

\* The clock advances, and the runtime polls a task that was woken.
TrackerFairSpec ==
    TrackerSpec /\ WF_trackerVars(WindowCloses) /\ WF_trackerVars(Wake)

-----------------------------------------------------------------------------
(* Properties. *)

\* remember_completed keeps at most Capacity entries and one per request id, so
\* that a late duplicate can neither push useful entries out nor be looked up
\* with a second source (completion.rs:66-79).
MemoryIsBoundedAndDistinct ==
    /\ Len(recent) <= Capacity
    /\ \A i, j \in 1 .. Len(recent) : recent[i].id = recent[j].id => i = j

\* The slot and the memory tell one story, whatever mixture of early, late,
\* duplicate and id-less signals arrived: an invocation still open for completion
\* is not remembered as completed, and a complete one that is still remembered is
\* remembered with the same source ("the first source wins").
CurrentAgreesWithMemory ==
    (current.id # None /\ Remembered(current.id)) =>
        current.source = SourceOf(current.id)

RememberedSourceKept(id) ==
    (Remembered(id) /\ Remembered(id)') => SourceOf(id)' = SourceOf(id)

SlotSourceKept(id) ==
    (current.id = id /\ current'.id = id /\ current.source # None /\ Remembered(id))
        => current'.source = current.source

FirstSourceStep ==
    \A id \in RequestIds : RememberedSourceKept(id) /\ SlotSourceKept(id)

\* The first source wins for good: a remembered source never changes, and neither
\* does that of the invocation in flight while it is remembered, across a second
\* begin of the same request id (a retry) too (completion.rs:138-140).
FirstSourceWins == [][FirstSourceStep]_trackerVars

\* Only silence is penalised: once a signal for the invocation in flight has been given, no
\* wait for it counts against health, whichever came first: a signal ahead of begin that
\* is still remembered, one that no waiter was subscribed to hear (send_replace), one
\* after the deadline and before the task is polled, or one that was followed by
\* evictions from the memory (completion.rs:118-124, 142-144, 218-230).
SignalledNeverPenalised ==
    [][timeouts' > timeouts => ~observed.signalled]_trackerVars

\* An invocation that did not begin complete and is then signalled inside its
\* window leaves holding enabled: "re-enabled once a completion signal is
\* observed within its invocation's window" (completion.rs:241-243).
FreshSignalRestoresHealth ==
    (observed.inWindow /\ ~observed.early) => ShouldHold

\* The same sentence of the source without the exception for invocations that
\* begin complete.
SignalInWindowRestoresHealth == observed.inWindow => ShouldHold

\* A wait always ends: /next is never held for ever.
WaitEnds == (waiter.on # "nothing") ~> (waiter.on = "nothing")
=============================================================================
