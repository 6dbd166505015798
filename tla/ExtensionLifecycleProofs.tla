---------------------- MODULE ExtensionLifecycleProofs ----------------------
(***************************************************************************)
(* What TLAPS proves of ExtensionLifecycle, for any number of invocations  *)
(* and signals, and of the CompletionTracker it is built on, for every set *)
(* of request ids, of sources and every capacity.                          *)
(*                                                                         *)
(* The tracker comes first, with what it promises to any user.  Then the   *)
(* extension: that it uses the tracker as CompletionTracker says it may be *)
(* used, that a hold outlasts the function, when health is lost and        *)
(* restored, and that the final flush takes the telemetry that was in      *)
(* processing when SHUTDOWN came.                                          *)
(***************************************************************************)
EXTENDS ExtensionLifecycle, FiniteSetTheorems, TLAPS

USE TrackerAssumption

\* The part of MemoryIsBoundedAndDistinct that says an id occurs once.
Distinct(s) == \A i, j \in 1 .. Len(s) : s[i].id = s[j].id => i = j

\* What the list becomes once it has room: it drops its head when it is full.
Room(s) == IF Len(s) >= Capacity THEN Tail(s) ELSE s

-----------------------------------------------------------------------------
(* The memory. *)

\* Looking up an id that some entry carries finds such an entry.
LEMMA LookupFindsSome ==
    ASSUME NEW s \in Seq(Entry), NEW id,
           \E i \in 1 .. Len(s) : s[i].id = id
    PROVE  PositionIn(s, id) \in 1 .. Len(s) /\ s[PositionIn(s, id)].id = id
BY DEF PositionIn

\* In a list of distinct ids it finds the entry that carries it.
LEMMA LookupFindsEntry ==
    ASSUME NEW s \in Seq(Entry), Distinct(s), NEW i \in 1 .. Len(s),
           NEW id, s[i].id = id
    PROVE  PositionIn(s, id) = i
BY LookupFindsSome DEF Distinct

\* A remembered id is looked up as one of the entries, so with a real source.
LEMMA SourceOfRemembered ==
    ASSUME recent \in Seq(Entry), NEW id, Remembered(id)
    PROVE  SourceOf(id) \in Sources
<1>1. PositionIn(recent, id) \in 1 .. Len(recent)
  BY LookupFindsSome DEF Remembered
<1>2. recent[PositionIn(recent, id)] \in Entry
  BY <1>1
<1> QED
  BY <1>2 DEF SourceOf, Entry

\* Making room keeps a sequence of entries, keeps ids distinct, invents no entry
\* and leaves place for one more.
LEMMA RoomProperties ==
    ASSUME NEW s \in Seq(Entry), Distinct(s), Len(s) <= Capacity
    PROVE  /\ Room(s) \in Seq(Entry)
           /\ Distinct(Room(s))
           /\ Len(Room(s)) < Capacity
           /\ \A i \in 1 .. Len(Room(s)) :
                 \E j \in 1 .. Len(s) : Room(s)[i] = s[j]
<1>1. CASE Len(s) >= Capacity
  <2>1. s # <<>>
    BY <1>1
  <2>2. /\ Tail(s) \in Seq(Entry)
        /\ Len(Tail(s)) = Len(s) - 1
        /\ \A i \in 1 .. Len(Tail(s)) : i + 1 \in 1 .. Len(s) /\ Tail(s)[i] = s[i + 1]
    BY <2>1
  <2>3. Distinct(Tail(s))
    BY <2>2 DEF Distinct
  <2> QED
    BY <1>1, <2>2, <2>3 DEF Room
<1>2. CASE ~(Len(s) >= Capacity)
  BY <1>2 DEF Room
<1> QED
  BY <1>1, <1>2

\* Appending an entry with a fresh id keeps the ids distinct.
LEMMA AppendFresh ==
    ASSUME NEW s \in Seq(Entry), Distinct(s), Len(s) < Capacity,
           NEW e \in Entry, \A i \in 1 .. Len(s) : s[i].id # e.id
    PROVE  /\ Append(s, e) \in Seq(Entry)
           /\ Len(Append(s, e)) = Len(s) + 1
           /\ Append(s, e)[Len(s) + 1] = e
           /\ \A i \in 1 .. Len(s) : Append(s, e)[i] = s[i]
           /\ Distinct(Append(s, e))
           /\ Len(Append(s, e)) <= Capacity
<1>1. /\ Append(s, e) \in Seq(Entry)
      /\ Len(Append(s, e)) = Len(s) + 1
      /\ Append(s, e)[Len(s) + 1] = e
      /\ \A i \in 1 .. Len(s) : Append(s, e)[i] = s[i]
  OBVIOUS
<1>2. Distinct(Append(s, e))
  <2> SUFFICES ASSUME NEW i \in 1 .. Len(s) + 1, NEW j \in 1 .. Len(s) + 1,
                      Append(s, e)[i].id = Append(s, e)[j].id
               PROVE  i = j
    BY <1>1 DEF Distinct
  <2>1. i \in 1 .. Len(s) \/ i = Len(s) + 1
    OBVIOUS
  <2>2. j \in 1 .. Len(s) \/ j = Len(s) + 1
    OBVIOUS
  <2> QED
    BY <1>1, <2>1, <2>2 DEF Distinct
<1> QED
  BY <1>1, <1>2

\* remember_completed with an id it does not hold: the id is then remembered with
\* the source given, and no other id gains an entry or changes its source.
LEMMA RememberFresh ==
    ASSUME recent \in Seq(Entry), MemoryIsBoundedAndDistinct,
           NEW id \in RequestIds, NEW source \in Sources,
           ~Remembered(id), recent' = Remember(id, source)
    PROVE  /\ recent' \in Seq(Entry)
           /\ MemoryIsBoundedAndDistinct'
           /\ Remembered(id)' /\ SourceOf(id)' = source
           /\ \A x \in RequestIds : x # id /\ Remembered(x)' =>
                 Remembered(x) /\ SourceOf(x)' = SourceOf(x)
<1> DEFINE e == [id |-> id, source |-> source]
           r == Room(recent)
<1>1. Distinct(recent) /\ Len(recent) <= Capacity
  BY DEF MemoryIsBoundedAndDistinct, Distinct
<1>2. recent' = Append(r, e)
  BY DEF Remember, Room
<1>3. /\ r \in Seq(Entry) /\ Distinct(r) /\ Len(r) < Capacity
      /\ \A i \in 1 .. Len(r) : \E j \in 1 .. Len(recent) : r[i] = recent[j]
  BY <1>1, RoomProperties
<1>4. e \in Entry /\ \A i \in 1 .. Len(r) : r[i].id # e.id
  BY <1>3 DEF Remembered, Entry
<1>5. /\ recent' \in Seq(Entry) /\ Len(recent') = Len(r) + 1
      /\ recent'[Len(r) + 1] = e
      /\ \A i \in 1 .. Len(r) : recent'[i] = r[i]
      /\ Distinct(recent') /\ Len(recent') <= Capacity
  BY <1>2, <1>3, <1>4, AppendFresh
<1>6. MemoryIsBoundedAndDistinct'
  BY <1>5 DEF MemoryIsBoundedAndDistinct, Distinct
<1>7. Remembered(id)' /\ SourceOf(id)' = source
  <2>1. Len(r) + 1 \in 1 .. Len(recent') /\ recent'[Len(r) + 1].id = id
    BY <1>3, <1>5
  <2>2. PositionIn(recent', id) = Len(r) + 1
    BY <1>5, <2>1, LookupFindsEntry
  <2> QED
    BY <1>5, <2>1, <2>2 DEF Remembered, SourceOf
<1>8. ASSUME NEW x \in RequestIds, x # id, Remembered(x)'
      PROVE  Remembered(x) /\ SourceOf(x)' = SourceOf(x)
  <2>1. PICK i \in 1 .. Len(recent') : recent'[i].id = x
    BY <1>8 DEF Remembered
  <2>2. i \in 1 .. Len(r)
    BY <1>3, <1>5, <1>8, <2>1
  <2>3. PICK j \in 1 .. Len(recent) : r[i] = recent[j]
    BY <1>3, <2>2
  <2>4. recent'[i] = recent[j] /\ recent[j].id = x
    BY <1>5, <2>1, <2>2, <2>3
  <2>5. PositionIn(recent', x) = i
    BY <1>5, <2>1, LookupFindsEntry
  <2>6. PositionIn(recent, x) = j
    BY <1>1, <2>4, LookupFindsEntry
  <2> QED
    BY <2>4, <2>5, <2>6 DEF Remembered, SourceOf
<1> QED
  BY <1>5, <1>6, <1>7, <1>8

-----------------------------------------------------------------------------
(* The inductive invariant. *)

\* A signal for the invocation, of whenever it was, has completed it.
SignalledIsComplete == (observed.inWindow \/ observed.signalled) => current.source # None

\* An invocation that completed after it began, and whose window is still open,
\* completed inside it, so it has reset the health counter.
CompletedInOpenWindow ==
    (current.source # None /\ current.open /\ ~observed.early) => timeouts = 0

TrackerInv ==
    /\ TrackerTypeOK
    /\ MemoryIsBoundedAndDistinct
    /\ CurrentAgreesWithMemory
    /\ SignalledIsComplete
    /\ CompletedInOpenWindow
    /\ FreshSignalRestoresHealth

LEMMA InitEstablishesTrackerInv == TrackerInit => TrackerInv
BY DEF TrackerInit, TrackerInv, TrackerTypeOK, MemoryIsBoundedAndDistinct,
       CurrentAgreesWithMemory, SignalledIsComplete, CompletedInOpenWindow,
       FreshSignalRestoresHealth, ShouldHold, NoInvocation, NotWaiting, Remembered, Entry

\* A step that leaves the memory and the slot's id and source alone.
LEMMA MemoryUntouched ==
    ASSUME UNCHANGED recent, UNCHANGED <<current.id, current.source>>,
           MemoryIsBoundedAndDistinct, CurrentAgreesWithMemory
    PROVE  MemoryIsBoundedAndDistinct' /\ CurrentAgreesWithMemory'
BY DEF MemoryIsBoundedAndDistinct, CurrentAgreesWithMemory, Remembered, SourceOf

LEMMA BeginPreserves ==
    ASSUME TrackerInv, NEW id \in RequestIds, NEW window \in BOOLEAN,
           Begin(id, window)
    PROVE  TrackerInv'
<1> DEFINE known == IF Remembered(id) THEN SourceOf(id) ELSE None
<1>1. known \in Sources \cup {None}
  BY SourceOfRemembered DEF TrackerInv, TrackerTypeOK
<1>2. /\ current' = [id |-> id, source |-> known, open |-> window]
      /\ observed' = [early     |-> known # None,
                      inWindow  |-> FALSE,
                      signalled |-> Remembered(id)]
      /\ UNCHANGED <<recent, timeouts>>
  BY DEF Begin
<1>3. TrackerTypeOK'
  <2>1. waiter' \in [on : {"nothing", "current", "replaced"},
                      source : Sources \cup {None}]
    BY DEF Begin, TrackerInv, TrackerTypeOK
  <2>2. Remembered(id) \in BOOLEAN
    BY DEF Remembered
  <2> HIDE DEF known
  <2> QED
    BY <1>1, <1>2, <2>1, <2>2 DEF TrackerInv, TrackerTypeOK
<1>4. MemoryIsBoundedAndDistinct' /\ CurrentAgreesWithMemory'
  BY <1>2 DEF TrackerInv, MemoryIsBoundedAndDistinct, CurrentAgreesWithMemory,
              Remembered, SourceOf
<1>5. SignalledIsComplete' /\ CompletedInOpenWindow' /\ FreshSignalRestoresHealth'
  <2>1. Remembered(id) => known # None
    BY SourceOfRemembered, TrackerAssumption DEF TrackerInv, TrackerTypeOK
  <2> HIDE DEF known
  <2> QED
    BY <1>2, <2>1 DEF SignalledIsComplete, CompletedInOpenWindow, FreshSignalRestoresHealth
<1> QED
  BY <1>3, <1>4, <1>5 DEF TrackerInv

LEMMA CompleteCurrentPreserves ==
    ASSUME TrackerInv, NEW id, NEW source \in Sources, CompleteCurrent(id, source)
    PROVE  TrackerInv'
<1>1. PICK cid \in RequestIds : cid = current.id
  BY DEF CompleteCurrent, MatchesCurrent, TrackerInv, TrackerTypeOK
<1>2. ~Remembered(cid)
  BY <1>1, SourceOfRemembered
  DEF CompleteCurrent, CurrentAgreesWithMemory, TrackerInv, TrackerTypeOK
<1>3. recent' = Remember(cid, source)
  BY <1>1 DEF CompleteCurrent
<1>4. /\ recent' \in Seq(Entry) /\ MemoryIsBoundedAndDistinct'
      /\ Remembered(cid)' /\ SourceOf(cid)' = source
  BY <1>2, <1>3, RememberFresh DEF TrackerInv, TrackerTypeOK
<1>5. /\ current' = [id |-> cid, source |-> source, open |-> current.open]
      /\ timeouts' = IF current.open THEN 0 ELSE timeouts
      /\ observed' = [early     |-> observed.early,
                      inWindow  |-> observed.inWindow \/ current.open,
                      signalled |-> TRUE]
      /\ waiter' = waiter
  BY <1>1 DEF CompleteCurrent, NoteSignal, TrackerInv, TrackerTypeOK
<1>6. TrackerTypeOK'
  BY <1>4, <1>5 DEF TrackerInv, TrackerTypeOK
<1>7. CurrentAgreesWithMemory'
  BY <1>4, <1>5 DEF CurrentAgreesWithMemory
<1>8. SignalledIsComplete' /\ CompletedInOpenWindow' /\ FreshSignalRestoresHealth'
  BY <1>5 DEF CompleteCurrent, TrackerInv, SignalledIsComplete,
              CompletedInOpenWindow, FreshSignalRestoresHealth, ShouldHold
<1> QED
  BY <1>4, <1>6, <1>7, <1>8 DEF TrackerInv

LEMMA CompleteAgainPreserves ==
    ASSUME TrackerInv, NEW id, NEW source \in Sources, CompleteAgain(id, source)
    PROVE  TrackerInv'
<1>1. MemoryIsBoundedAndDistinct' /\ CurrentAgreesWithMemory'
  BY MemoryUntouched DEF CompleteAgain, TrackerInv
<1>2. TrackerTypeOK'
  BY DEF CompleteAgain, NoteSignal, TrackerInv, TrackerTypeOK
<1>3. SignalledIsComplete' /\ CompletedInOpenWindow' /\ FreshSignalRestoresHealth'
  BY DEF CompleteAgain, NoteSignal, TrackerInv, TrackerTypeOK, SignalledIsComplete,
         CompletedInOpenWindow, FreshSignalRestoresHealth, ShouldHold
<1> QED
  BY <1>1, <1>2, <1>3 DEF TrackerInv

LEMMA CompleteOtherPreserves ==
    ASSUME TrackerInv, NEW id \in RequestIds \cup {None}, NEW source \in Sources,
           CompleteOther(id, source)
    PROVE  TrackerInv'
<1>1. /\ id \in RequestIds /\ ~Remembered(id) /\ recent' = Remember(id, source)
      /\ UNCHANGED <<current, timeouts, waiter, observed>>
  BY DEF CompleteOther
<1>2. /\ recent' \in Seq(Entry) /\ MemoryIsBoundedAndDistinct'
      /\ \A x \in RequestIds : x # id /\ Remembered(x)' =>
            Remembered(x) /\ SourceOf(x)' = SourceOf(x)
  BY <1>1, RememberFresh DEF TrackerInv, TrackerTypeOK
<1>3. CurrentAgreesWithMemory'
  <2> SUFFICES ASSUME NEW cid \in RequestIds, cid = current.id, Remembered(cid)'
               PROVE  current.source = SourceOf(cid)'
    BY <1>1 DEF CurrentAgreesWithMemory, TrackerInv, TrackerTypeOK
  <2>1. cid # id
    BY DEF CompleteOther, MatchesCurrent
  <2> QED
    BY <1>2, <2>1 DEF CurrentAgreesWithMemory, TrackerInv
<1>4. TrackerTypeOK'
  BY <1>1, <1>2 DEF TrackerInv, TrackerTypeOK
<1>5. SignalledIsComplete' /\ CompletedInOpenWindow' /\ FreshSignalRestoresHealth'
  BY <1>1 DEF TrackerInv, SignalledIsComplete, CompletedInOpenWindow,
              FreshSignalRestoresHealth, ShouldHold
<1> QED
  BY <1>2, <1>3, <1>4, <1>5 DEF TrackerInv

\* The clock and the waiting task never touch the memory.
LEMMA WaitPreserves ==
    ASSUME TrackerInv, WindowCloses \/ Subscribe \/ Wake \/ Cancelled
    PROVE  TrackerInv'
<1>1. UNCHANGED recent /\ UNCHANGED <<current.id, current.source>>
  BY DEF WindowCloses, Subscribe, Wake, WakeCompleted, WakeElapsed, WakeReplaced,
         Cancelled, TrackerInv, TrackerTypeOK
<1>2. MemoryIsBoundedAndDistinct' /\ CurrentAgreesWithMemory'
  BY <1>1, MemoryUntouched DEF TrackerInv
<1>3. TrackerTypeOK'
  <2> USE DEF TrackerInv, TrackerTypeOK, NotWaiting
  <2>1. CASE WindowCloses
    BY <2>1 DEF WindowCloses
  <2>2. CASE Subscribe \/ Cancelled
    BY <2>2 DEF Subscribe, Cancelled
  <2>3. CASE WakeCompleted \/ WakeReplaced
    BY <2>3 DEF WakeCompleted, WakeReplaced
  <2>4. CASE WakeElapsed
    <3>1. timeouts' \in 0 .. MaxTimeouts
      BY <2>4 DEF WakeElapsed
    <3> QED
      BY <2>4, <3>1 DEF WakeElapsed
  <2> QED
    BY <2>1, <2>2, <2>3, <2>4 DEF Wake
<1>4. SignalledIsComplete' /\ CompletedInOpenWindow' /\ FreshSignalRestoresHealth'
  BY DEF WindowCloses, Subscribe, Wake, WakeCompleted, WakeElapsed, WakeReplaced,
         Cancelled, TrackerInv, TrackerTypeOK, SignalledIsComplete,
         CompletedInOpenWindow, FreshSignalRestoresHealth, ShouldHold
<1> QED
  BY <1>2, <1>3, <1>4 DEF TrackerInv

LEMMA StepPreservesTrackerInv == TrackerInv /\ [TrackerNext]_trackerVars => TrackerInv'
<1> SUFFICES ASSUME TrackerInv, [TrackerNext]_trackerVars
             PROVE  TrackerInv'
  OBVIOUS
<1>1. CASE \E id \in RequestIds, window \in BOOLEAN : Begin(id, window)
  BY <1>1, BeginPreserves
<1>2. CASE \E id \in RequestIds \cup {None}, s \in Sources : Complete(id, s)
  BY <1>2, CompleteCurrentPreserves, CompleteAgainPreserves, CompleteOtherPreserves
  DEF Complete
<1>3. CASE WindowCloses \/ Subscribe \/ Wake \/ Cancelled
  BY <1>3, WaitPreserves
<1>4. CASE UNCHANGED trackerVars
  BY <1>4, MemoryUntouched
  DEF trackerVars, TrackerInv, TrackerTypeOK, SignalledIsComplete,
      CompletedInOpenWindow, FreshSignalRestoresHealth, ShouldHold
<1> QED
  BY <1>1, <1>2, <1>3, <1>4 DEF TrackerNext

-----------------------------------------------------------------------------
(* The theorems. *)

\* Every reachable state of the tracker satisfies the inductive invariant.
THEOREM TrackerInvariant == TrackerSpec => []TrackerInv
BY InitEstablishesTrackerInv, StepPreservesTrackerInv, PTL DEF TrackerSpec

\* Type correctness of the slot, the memory, the counter and the waiter.
THEOREM TrackerTyped == TrackerSpec => []TrackerTypeOK
BY TrackerInvariant, PTL DEF TrackerInv

\* The memory never exceeds its capacity and never holds an id twice.
THEOREM MemoryBounded == TrackerSpec => []MemoryIsBoundedAndDistinct
BY TrackerInvariant, PTL DEF TrackerInv

\* The slot and the memory never disagree on whether and by what an invocation
\* was completed.
THEOREM SlotAgreesWithMemory == TrackerSpec => []CurrentAgreesWithMemory
BY TrackerInvariant, PTL DEF TrackerInv

\* A signal inside the window of an invocation that did not begin complete
\* leaves holding enabled.
THEOREM FreshSignalHeals == TrackerSpec => []FreshSignalRestoresHealth
BY TrackerInvariant, PTL DEF TrackerInv

\* A signal given for the invocation in flight keeps its waits from counting against
\* health, for every set of request ids and every capacity of the memory.
THEOREM SignalledIsNeverPenalised == TrackerSpec => SignalledNeverPenalised
<1>1. ASSUME TrackerInv, TrackerNext, timeouts' > timeouts PROVE ~observed.signalled
  <2>1. timeouts \in Nat
    BY <1>1 DEF TrackerInv, TrackerTypeOK
  <2>2. current.source = None
    BY <1>1, <2>1
    DEF TrackerNext, Begin, Complete, CompleteCurrent, CompleteAgain, CompleteOther,
        WindowCloses, Subscribe, Wake, WakeCompleted, WakeElapsed, WakeReplaced, Cancelled
  <2> QED
    BY <1>1, <2>2 DEF TrackerInv, SignalledIsComplete
<1>2. TrackerInv /\ [TrackerNext]_trackerVars =>
        [timeouts' > timeouts => ~observed.signalled]_trackerVars
  BY <1>1
<1> QED
  BY <1>2, TrackerInvariant, PTL DEF TrackerSpec, SignalledNeverPenalised

\* A remembered source never changes, and neither does that of the invocation in
\* flight while it is remembered, a second begin of the same id included.
THEOREM FirstSourceIsFinal == TrackerSpec => FirstSourceWins
<1>1. ASSUME TrackerInv, TrackerNext, NEW id \in RequestIds
      PROVE  RememberedSourceKept(id)
  <2>1. CASE UNCHANGED recent
    BY <2>1 DEF RememberedSourceKept, Remembered, SourceOf
  <2>2. CASE \E x \in RequestIds \cup {None}, s \in Sources : CompleteCurrent(x, s)
    <3>1. PICK x \in RequestIds \cup {None}, s \in Sources : CompleteCurrent(x, s)
      BY <2>2
    <3>2. PICK cid \in RequestIds : cid = current.id
      BY <1>1, <3>1 DEF CompleteCurrent, MatchesCurrent, TrackerInv, TrackerTypeOK
    <3>3. ~Remembered(cid)
      BY <1>1, <3>1, <3>2, SourceOfRemembered
      DEF CompleteCurrent, CurrentAgreesWithMemory, TrackerInv, TrackerTypeOK
    <3>4. recent' = Remember(cid, s)
      BY <3>1, <3>2 DEF CompleteCurrent
    <3> QED
      BY <1>1, <3>3, <3>4, RememberFresh
      DEF RememberedSourceKept, TrackerInv, TrackerTypeOK
  <2>3. CASE \E x \in RequestIds \cup {None}, s \in Sources : CompleteOther(x, s)
    <3>1. PICK x \in RequestIds, s \in Sources :
             ~Remembered(x) /\ recent' = Remember(x, s)
      BY <2>3 DEF CompleteOther
    <3> QED
      BY <1>1, <3>1, RememberFresh
      DEF RememberedSourceKept, TrackerInv, TrackerTypeOK
  <2> QED
    BY <1>1, <2>1, <2>2, <2>3
    DEF TrackerNext, Begin, Complete, CompleteAgain, WindowCloses, Subscribe, Wake,
        WakeCompleted, WakeElapsed, WakeReplaced, Cancelled
<1>2. ASSUME TrackerInv, TrackerNext, NEW id \in RequestIds
      PROVE  SlotSourceKept(id)
  <2>1. CASE \E x \in RequestIds, window \in BOOLEAN : Begin(x, window)
    BY <1>2, <2>1 DEF SlotSourceKept, Begin, TrackerInv, CurrentAgreesWithMemory
  <2>2. CASE ~(\E x \in RequestIds, window \in BOOLEAN : Begin(x, window))
    BY <1>2, <2>2
    DEF SlotSourceKept, TrackerNext, Complete, CompleteCurrent, CompleteAgain, CompleteOther,
        WindowCloses, Subscribe, Wake, WakeCompleted, WakeElapsed, WakeReplaced,
        Cancelled, TrackerInv, TrackerTypeOK
  <2> QED
    BY <2>1, <2>2
<1>3. TrackerInv /\ [TrackerNext]_trackerVars =>
        [FirstSourceStep]_trackerVars
  BY <1>1, <1>2 DEF FirstSourceStep
<1> QED
  BY <1>3, TrackerInvariant, PTL DEF TrackerSpec, FirstSourceWins

-----------------------------------------------------------------------------
(* The extension. *)

USE LifecycleAssumption

\* Request ids that Lambda does not use twice: no invocation is a retry.
DistinctIds == \A m, n \in 1 .. Invocations : RequestOf[m] = RequestOf[n] => m = n

-----------------------------------------------------------------------------
(* The inductive invariant. *)

\* The tracker's only waiter is the hold, and its slot that of the INVOKE in hand.
HoldWaits ==
    /\ waiter.on # "nothing" => waiter.on = "current" /\ pc \in {"parked", "ready"}
    /\ current.id = IF begun = 0 THEN None ELSE RequestOf[begun]
    /\ pc = "settling" => current.source # None

\* Places from which the hold goes on, when its periodic flush is over.
Holding == pc \in {"hold", "parked", "ready"} \/ (pc \in {"drain", "export"} /\ flush = "periodic")

HoldIsHealthy == timeouts <= 1 /\ (Holding => timeouts = 0)

Invoked(x) == \E n \in 1 .. Invocations : RequestOf[n] = x

Returned(x) == \E n \in 1 .. finished : RequestOf[n] = x

Processed(x) == \E n \in 1 .. Invocations : RequestOf[n] = x /\ telemetry[n] = "done"

\* What a completion recorded for a request id says of it.
Sound(x, source) ==
    /\ Invoked(x)
    /\ PostsCarryId => Returned(x)
    /\ source = "RuntimeDone" => Processed(x)

\* The memory has a place for the id of every invocation.
MemorySuffices == Invocations <= Capacity

CompletionsSound ==
    /\ \A x \in RequestIds : Remembered(x) => Sound(x, SourceOf(x))
    /\ current.source # None => Sound(current.id, current.source)
    /\ MemorySuffices /\ current.source # None => Remembered(current.id)

NothingForgotten ==
    MemorySuffices =>
        \A n \in 1 .. Invocations : telemetry[n] = "done" => Remembered(RequestOf[n])

\* The Telemetry API reports an invocation whose function has returned.
TelemetryFollows == \A n \in 1 .. Invocations : telemetry[n] # "none" => n <= finished

FlushNamed == pc \in {"drain", "export"} => flush # "none"

\* What was in processing when SHUTDOWN came, once the wait for it was granted: it is
\* processed, its metric owed by the drain and gone from the aggregator after it.
FinalFlushTakesAll ==
    /\ FlushNamed
    /\ pc = "exited" => flush = "final"
    /\ flush = "final" => pc \in {"drain", "export", "exited"}
    /\ shutdown.granted => pc = "shutdownMetric" \/ flush = "final"
    /\ \A n \in shutdown.inFlight : telemetry[n] # "none"
    /\ shutdown.granted =>
         \A n \in shutdown.inFlight :
            /\ telemetry[n] = "done"
            /\ pc = "drain" /\ Metric(n) \in held => Metric(n) \in owed
            /\ pc = "export" => Metric(n) \notin held
            /\ pc = "exited" /\ shutdown.time => Metric(n) \notin held \cup out

LifecycleInv ==
    /\ TrackerInv /\ LifecycleTypeOK
    /\ HoldWaits /\ HoldIsHealthy /\ TelemetryFollows /\ CompletionsSound /\ NothingForgotten
    /\ FinalFlushTakesAll

-----------------------------------------------------------------------------
(* Signals, as the tracker sees them. *)

LEMMA SignalIsTrackerStep ==
    ASSUME NEW id \in RequestIds \cup {None}, NEW source \in Sources, Signalled(id, source)
    PROVE  [TrackerNext]_trackerVars
BY DEF Signalled, TrackerNext

LEMMA NumbersTo ==
    ASSUME NEW n \in Nat
    PROVE  IsFiniteSet(1 .. n) /\ Cardinality(1 .. n) = n
<1>1. 1 \in Int /\ n \in Int
  OBVIOUS
<1>2. IsFiniteSet(1 .. n)
  BY <1>1, FS_Interval
<1>3. Cardinality(1 .. n) = IF 1 > n THEN 0 ELSE n - 1 + 1
  BY Zenon, <1>1, FS_Interval
<1> QED
  BY <1>2, <1>3

\* All but one of them.
LEMMA OneNumberLess ==
    ASSUME NEW n \in Nat, NEW m \in 1 .. n
    PROVE  IsFiniteSet((1 .. n) \ {m}) /\ Cardinality((1 .. n) \ {m}) = n - 1
<1> DEFINE all == 1 .. n
<1>1. IsFiniteSet(all) /\ Cardinality(all) = n
  BY NumbersTo
<1>2. m \in all
  OBVIOUS
<1> HIDE DEF all
<1>3. /\ IsFiniteSet(all \ {m})
      /\ Cardinality(all \ {m}) = IF m \in all THEN Cardinality(all) - 1 ELSE Cardinality(all)
  BY <1>1, FS_RemoveElement
<1>4. IsFiniteSet(all \ {m}) /\ Cardinality(all \ {m}) = n - 1
  BY <1>1, <1>2, <1>3
<1> QED
  BY <1>4 DEF all

\* The ids of invocations, one place for each, do not fill the memory while one of them
\* is missing.
LEMMA RoomForAnother ==
    ASSUME MemorySuffices, recent \in Seq(Entry), Distinct(recent),
           \A x \in RequestIds : Remembered(x) => Invoked(x),
           NEW x \in RequestIds, Invoked(x), ~Remembered(x)
    PROVE  Len(recent) < Capacity
<1> DEFINE S == 1 .. Len(recent)
           all == 1 .. Invocations
           f == [i \in S |-> CHOOSE n \in all : RequestOf[n] = recent[i].id]
<1>1. PICK m \in all : RequestOf[m] = x
  BY DEF Invoked
<1>2. ASSUME NEW i \in S
      PROVE  f[i] \in all \ {m} /\ RequestOf[f[i]] = recent[i].id
  <2>1. recent[i].id \in RequestIds /\ Remembered(recent[i].id)
    <3>1. recent[i] \in Entry /\ i \in 1 .. Len(recent)
      OBVIOUS
    <3> QED
      BY <3>1 DEF Entry, Remembered
  <2>2. \E n \in all : RequestOf[n] = recent[i].id
    BY <2>1 DEF Invoked
  <2>3. f[i] \in all /\ RequestOf[f[i]] = recent[i].id
    BY <2>2
  <2>4. recent[i].id # x
    BY DEF Remembered
  <2> HIDE DEF f
  <2> QED
    BY <1>1, <2>3, <2>4
<1>3. f \in [S -> all \ {m}]
  <2>1. f = [i \in S |-> f[i]]
    OBVIOUS
  <2> HIDE DEF f
  <2> QED
    BY <1>2, <2>1
<1>4. ASSUME NEW i \in S, NEW j \in S, f[i] = f[j] PROVE i = j
  <2> HIDE DEF f
  <2>1. recent[i].id = recent[j].id
    BY <1>2, <1>4
  <2> QED
    BY <2>1 DEF Distinct
<1> HIDE DEF f
<1>5. f \in Injection(S, all \ {m})
  BY <1>3, <1>4 DEF Injection, IsInjective
<1>6. IsFiniteSet(all \ {m}) /\ Cardinality(all \ {m}) = Invocations - 1
  BY <1>1, OneNumberLess
<1>7. Cardinality(S) <= Cardinality(all \ {m})
  BY <1>5, <1>6, FS_Injection
<1>8. Len(recent) \in Nat /\ Cardinality(S) = Len(recent)
  BY NumbersTo
<1> QED
  BY <1>6, <1>7, <1>8 DEF MemorySuffices

\* A memory with room forgets nothing.
LEMMA RememberKeeps ==
    ASSUME recent \in Seq(Entry), Len(recent) < Capacity, NEW id \in RequestIds,
           NEW source \in Sources, ~Remembered(id), recent' = Remember(id, source),
           NEW x \in RequestIds, Remembered(x)
    PROVE  Remembered(x)'
<1> DEFINE e == [id |-> id, source |-> source]
<1>1. recent' = Append(recent, e) /\ e \in Entry
  <2>1. Len(recent) \in Nat /\ ~(Len(recent) >= Capacity)
    OBVIOUS
  <2> QED
    BY <2>1 DEF Remember, Entry
<1> HIDE DEF e
<1>2. PICK i \in 1 .. Len(recent) : recent[i].id = x
  BY DEF Remembered
<1>3. Len(recent') = Len(recent) + 1 /\ recent'[i] = recent[i]
  BY <1>1, <1>2
<1>4. i \in 1 .. Len(recent')
  BY <1>2, <1>3
<1> QED
  BY <1>2, <1>3, <1>4 DEF Remembered

\* A completion that is recorded for the first time: what the memory says stays sound,
\* and it forgets nothing when it has a place for every invocation.
LEMMA FreshCompletion ==
    ASSUME TrackerInv, CompletionsSound, NEW c \in RequestIds, NEW source \in Sources,
           ~Remembered(c), recent' = Remember(c, source),
           \A x, s : Sound(x, s) => Sound(x, s)', Sound(c, source)'
    PROVE  /\ \A x \in RequestIds : Remembered(x)' => Sound(x, SourceOf(x))'
           /\ Remembered(c)' /\ SourceOf(c)' = source
           /\ MemorySuffices => \A x \in RequestIds : Remembered(x) => Remembered(x)'
<1>1. /\ recent \in Seq(Entry) /\ MemoryIsBoundedAndDistinct /\ Distinct(recent)
      /\ \A x \in RequestIds : Remembered(x) => Sound(x, SourceOf(x))
  BY DEF TrackerInv, TrackerTypeOK, MemoryIsBoundedAndDistinct, Distinct, CompletionsSound
<1>2. /\ Remembered(c)' /\ SourceOf(c)' = source
      /\ \A x \in RequestIds : x # c /\ Remembered(x)' =>
            Remembered(x) /\ SourceOf(x)' = SourceOf(x)
  BY <1>1, RememberFresh
<1>3. ASSUME NEW x \in RequestIds, Remembered(x)' PROVE Sound(x, SourceOf(x))'
  <2>1. CASE x = c
    BY <1>2, <2>1 DEF Sound
  <2>2. CASE x # c
    <3>1. Sound(x, SourceOf(x)) /\ SourceOf(x)' = SourceOf(x)
      BY <1>1, <1>2, <1>3, <2>2
    <3>2. Sound(x, SourceOf(x)) => Sound(x, SourceOf(x)')
      BY <3>1
    <3> QED
      BY <3>1 DEF Sound
  <2> QED
    BY <2>1, <2>2
<1>4. ASSUME MemorySuffices, NEW x \in RequestIds, Remembered(x) PROVE Remembered(x)'
  <2>1. Invoked(c) /\ \A y \in RequestIds : Remembered(y) => Invoked(y)
    BY <1>1 DEF Sound, Invoked
  <2>2. Len(recent) < Capacity
    BY <1>1, <1>4, <2>1, RoomForAnother
  <2> QED
    BY <1>1, <1>4, <2>2, RememberKeeps
<1> QED
  BY <1>2, <1>3, <1>4

\* A signal, whether it completes the invocation in flight, is remembered for another or
\* ignored.
LEMMA SignalKeepsSound ==
    ASSUME TrackerInv, CompletionsSound, NEW id \in RequestIds \cup {None},
           NEW source \in Sources, Signalled(id, source),
           \A x, s : Sound(x, s) => Sound(x, s)',
           MatchesCurrent(id) => Sound(current.id, source)',
           id # None => Sound(id, source)'
    PROVE  /\ CompletionsSound'
           /\ MemorySuffices =>
                 /\ \A x \in RequestIds : Remembered(x) => Remembered(x)'
                 /\ id # None => Remembered(id)'
<1>1. current.id \in RequestIds \cup {None} /\ recent \in Seq(Entry)
  BY DEF TrackerInv, TrackerTypeOK
<1>2. CASE CompleteCurrent(id, source)
  <2>1. PICK c \in RequestIds : c = current.id
    BY <1>1, <1>2 DEF CompleteCurrent, MatchesCurrent
  <2>2. ~Remembered(c) /\ recent' = Remember(c, source)
    BY <1>1, <1>2, <2>1, SourceOfRemembered
       DEF CompleteCurrent, TrackerInv, CurrentAgreesWithMemory
  <2>3. Sound(c, source)'
    BY <1>2, <2>1 DEF CompleteCurrent, Sound, Invoked, Returned, Processed
  <2>4. /\ \A x \in RequestIds : Remembered(x)' => Sound(x, SourceOf(x))'
        /\ Remembered(c)'
        /\ MemorySuffices => \A x \in RequestIds : Remembered(x) => Remembered(x)'
    BY <2>2, <2>3, FreshCompletion
  <2>5. current'.id = c /\ current'.source = source
    BY <1>2, <2>1 DEF CompleteCurrent, TrackerInv, TrackerTypeOK
  <2>6. CompletionsSound'
    BY <2>3, <2>4, <2>5 DEF CompletionsSound, Sound, Invoked, Returned, Processed,
                            MemorySuffices, Remembered
  <2>7. id # None => Remembered(id)'
    BY <1>2, <2>1, <2>4 DEF CompleteCurrent, MatchesCurrent
  <2> QED
    BY <2>4, <2>6, <2>7
<1>3. CASE CompleteOther(id, source)
  <2>1. id \in RequestIds /\ ~Remembered(id) /\ recent' = Remember(id, source)
        /\ UNCHANGED current
    BY <1>3 DEF CompleteOther
  <2>2. /\ \A x \in RequestIds : Remembered(x)' => Sound(x, SourceOf(x))'
        /\ Remembered(id)'
        /\ MemorySuffices => \A x \in RequestIds : Remembered(x) => Remembered(x)'
    BY <2>1, FreshCompletion
  <2>3. current.source # None => Sound(current.id, current.source)'
    <3>1. PICK x, s : x = current.id /\ s = current.source
      OBVIOUS
    <3>2. current.source # None => Sound(x, s)'
      BY <3>1 DEF CompletionsSound
    <3>3. x = current'.id /\ s = current'.source
      BY <2>1, <3>1
    <3> QED
      BY <3>2, <3>3 DEF Sound, Invoked, Returned, Processed
  <2>4. MemorySuffices /\ current.source # None => current.id \in RequestIds
    BY <1>1, <2>1 DEF CompletionsSound, Sound, Invoked
  <2>5. MemorySuffices /\ current.source # None => Remembered(current.id)'
    BY <2>1, <2>2, <2>4 DEF CompletionsSound, Remembered
  <2> QED
    BY <2>1, <2>2, <2>3, <2>5 DEF CompletionsSound, MemorySuffices
<1>4. ASSUME UNCHANGED <<current, recent>>,
             MatchesCurrent(id) => current.source # None /\ id \in {None, current.id},
             ~MatchesCurrent(id) /\ id # None => Remembered(id)
      PROVE  /\ CompletionsSound'
             /\ MemorySuffices =>
                   /\ \A x \in RequestIds : Remembered(x) => Remembered(x)'
                   /\ id # None => Remembered(id)'
  <2>1. /\ \A x : Remembered(x)' <=> Remembered(x)
        /\ \A x \in RequestIds : SourceOf(x)' = SourceOf(x)
    BY <1>4 DEF Remembered, SourceOf
  <2>2. \A x \in RequestIds : Remembered(x)' => Sound(x, SourceOf(x))'
    BY <2>1 DEF CompletionsSound, Sound
  <2>3. current.source # None => Sound(current.id, current.source)'
    <3>1. PICK x, s : x = current.id /\ s = current.source
      OBVIOUS
    <3>2. current.source # None => Sound(x, s)'
      BY <3>1 DEF CompletionsSound
    <3>3. x = current'.id /\ s = current'.source
      BY <1>4, <3>1
    <3> QED
      BY <3>2, <3>3 DEF Sound, Invoked, Returned, Processed
  <2>4. MemorySuffices /\ current.source # None => Remembered(current.id)
    BY DEF CompletionsSound
  <2>5. MemorySuffices /\ id # None => Remembered(id)
    BY <1>4, <2>4
  <2>6. CompletionsSound'
    BY <1>4, <2>2, <2>3, <2>4 DEF CompletionsSound, MemorySuffices, Remembered
  <2> QED
    BY <2>1, <2>5, <2>6
<1>5. CASE CompleteAgain(id, source)
  BY <1>4, <1>5 DEF CompleteAgain, MatchesCurrent
<1>6. CASE ~MatchesCurrent(id) /\ (id = None \/ Remembered(id)) /\ UNCHANGED trackerVars
  BY <1>4, <1>6 DEF trackerVars
<1> QED
  BY <1>2, <1>3, <1>5, <1>6 DEF Signalled, Complete

-----------------------------------------------------------------------------
(* The extension calls its tracker, and nothing else changes it. *)

LEMMA StepIsTrackerStep ==
    LifecycleTypeOK /\ [LifecycleNext]_lifecycleVars => [TrackerNext]_trackerVars
<1> SUFFICES ASSUME LifecycleTypeOK, [LifecycleNext]_lifecycleVars
             PROVE  [TrackerNext]_trackerVars
  OBVIOUS
<1>1. ASSUME NEW window \in BOOLEAN, HandleInvoke(window) PROVE TrackerNext
  <2>1. RequestOf[begun + 1] \in RequestIds
    BY <1>1 DEF HandleInvoke, LifecycleTypeOK
  <2> QED
    BY <1>1, <2>1 DEF HandleInvoke, TrackerNext
<1>2. CASE HoldTurn \/ Tick \/ HoldCompletes \/ HoldExpires \/ HoldDeadlinePasses
  BY <1>2 DEF HoldTurn, Tick, HoldCompletes, HoldExpires, HoldDeadlinePasses, Wake, TrackerNext
<1>3. CASE \E n \in posts, id \in RequestIds \cup {None} : WrapperSignal(n, id)
  BY <1>3, SignalIsTrackerStep DEF WrapperSignal
<1>4. ASSUME NEW n \in 1 .. Invocations, TelemetryProcessed(n) PROVE [TrackerNext]_trackerVars
  <2>1. RequestOf[n] \in RequestIds \cup {None} /\ "RuntimeDone" \in Sources
    OBVIOUS
  <2> QED
    BY <1>4, <2>1, SignalIsTrackerStep DEF TelemetryProcessed
<1>5. CASE \/ Settled \/ PostFlushSkipped \/ PostFlushBegins \/ DrainEnds \/ ExportBatch
           \/ AbandonRest \/ LockGranted \/ LockTimesOut \/ FinalFlushBegins
           \/ (\E time \in BOOLEAN : HandleShutdown(time))
           \/ InvocationStarts \/ FunctionReturns \/ ShutdownTimeRunsOut \/ ReceiveSignal
           \/ Forward \/ (\E n \in 1 .. Invocations : TelemetryArrives(n))
           \/ UNCHANGED lifecycleVars
  BY <1>5 DEF Settled, PostFlushSkipped, PostFlushBegins, DrainEnds, ExportBatch, AbandonRest,
              LockGranted, LockTimesOut, FinalFlushBegins, HandleShutdown, InvocationStarts,
              FunctionReturns, ShutdownTimeRunsOut, ReceiveSignal, Forward, TelemetryArrives,
              lifecycleVars
<1> QED
  BY <1>1, <1>2, <1>3, <1>4, <1>5 DEF LifecycleNext, Handler

-----------------------------------------------------------------------------
(* Types. *)

LEMMA ItemKinds ==
    /\ \A n \in 1 .. Invocations : Metric(n) \in Items /\ Metric(n) # ShutdownMetric
    /\ \A n \in 1 .. MaxSignals : SignalNo(n) \in Items
    /\ ShutdownMetric \in Items
    /\ \A m, n : Metric(m) = Metric(n) => m = n
    /\ \A m, n : Metric(m) # SignalNo(n)
BY DEF Items, Metric, SignalNo, ShutdownMetric

\* An add brings its item and nothing else, whatever it evicts.
LEMMA AddBringsItem ==
    ASSUME NEW item, AddToAggregator(item)
    PROVE  held' \subseteq held \cup {item}
BY DEF AddToAggregator

Shutdowns == [inFlight : SUBSET (1 .. Invocations), granted : BOOLEAN, time : BOOLEAN]

\* A step of the handler: its places and flushes, and what is held, owed and drained.
LEMMA HandlerTyped ==
    ASSUME LifecycleTypeOK, FlushNamed, TrackerTypeOK',
           \/ Handler \/ Tick \/ \E time \in BOOLEAN : HandleShutdown(time)
    PROVE  LifecycleTypeOK'
<1> USE DEF LifecycleTypeOK, HandlerPlaces
<1>1. ASSUME NEW window \in BOOLEAN, HandleInvoke(window) PROVE LifecycleTypeOK'
  BY <1>1 DEF HandleInvoke, outsideVars
<1>2. CASE HoldTurn \/ HoldCompletes \/ HoldExpires \/ Settled \/ PostFlushSkipped
  BY <1>2 DEF HoldTurn, HoldCompletes, HoldExpires, Settled, PostFlushSkipped, outsideVars
<1>3. CASE Tick \/ PostFlushBegins \/ AbandonRest \/ LockTimesOut
  BY <1>3 DEF Tick, PostFlushBegins, AbandonRest, LockTimesOut, outsideVars
<1>4. CASE DrainEnds
  <2>1. AfterFlush \in HandlerPlaces
    BY <1>4 DEF DrainEnds, AfterFlush, FlushNamed
  <2> QED
    BY <1>4, <2>1 DEF DrainEnds, outsideVars
<1>5. CASE ExportBatch
  <2>1. AfterFlush \in HandlerPlaces
    BY <1>5 DEF ExportBatch, AfterFlush, FlushNamed
  <2> QED
    BY <1>5, <2>1 DEF ExportBatch, outsideVars
<1>6. CASE FinalFlushBegins
  <2>1. held' \subseteq Items
    BY <1>6, ItemKinds, AddBringsItem DEF FinalFlushBegins
  <2> QED
    BY <1>6, <2>1 DEF FinalFlushBegins, outsideVars
<1>7. CASE LockGranted
  <2>1. shutdown' \in Shutdowns
    BY <1>7 DEF LockGranted, Shutdowns
  <2> QED
    BY <1>7, <2>1 DEF LockGranted, Shutdowns
<1>8. ASSUME NEW time \in BOOLEAN, HandleShutdown(time) PROVE LifecycleTypeOK'
  <2>1. shutdown' \in Shutdowns
    BY <1>8 DEF HandleShutdown, Shutdowns, LockedBatches
  <2> QED
    BY <1>8, <2>1 DEF HandleShutdown, Shutdowns
<1> QED
  BY <1>1, <1>2, <1>3, <1>4, <1>5, <1>6, <1>7, <1>8 DEF Handler

\* A step of the others.
LEMMA OthersTyped ==
    ASSUME LifecycleTypeOK, TrackerTypeOK',
           \/ InvocationStarts \/ FunctionReturns \/ HoldDeadlinePasses \/ ShutdownTimeRunsOut
           \/ \E n \in posts, id \in RequestIds \cup {None} : WrapperSignal(n, id)
           \/ ReceiveSignal \/ Forward
           \/ \E n \in 1 .. Invocations : TelemetryArrives(n) \/ TelemetryProcessed(n)
           \/ UNCHANGED lifecycleVars
    PROVE  LifecycleTypeOK'
<1> USE DEF LifecycleTypeOK
<1>1. CASE InvocationStarts
  <2>1. started' \in begun .. Invocations /\ finished \in 0 .. started'
    BY <1>1 DEF InvocationStarts
  <2> QED
    BY <1>1, <2>1 DEF InvocationStarts, extensionVars
<1>2. CASE FunctionReturns
  <2>1. /\ finished' \in 0 .. started /\ posts' \subseteq 1 .. finished'
        /\ UNCHANGED <<extensionVars, started, telemetry, shutdown>>
    BY <1>2 DEF FunctionReturns
  <2> QED
    BY <2>1 DEF extensionVars
<1>3. CASE HoldDeadlinePasses
  BY <1>3 DEF HoldDeadlinePasses, extensionVars, outsideVars
<1>4. CASE ShutdownTimeRunsOut
  <2>1. shutdown' \in Shutdowns
    BY <1>4 DEF ShutdownTimeRunsOut, Shutdowns
  <2> QED
    BY <1>4, <2>1 DEF ShutdownTimeRunsOut, Shutdowns, extensionVars
<1>5. ASSUME NEW n, NEW id, WrapperSignal(n, id) PROVE LifecycleTypeOK'
  <2>1. /\ posts' \subseteq 1 .. finished
        /\ UNCHANGED <<extensionVars, started, finished, telemetry, shutdown>>
    BY <1>5 DEF WrapperSignal
  <2> QED
    BY <2>1 DEF extensionVars
<1>6. CASE ReceiveSignal
  <2>1. received + 1 \in 1 .. MaxSignals
    BY <1>6 DEF ReceiveSignal
  <2>2. /\ channel' = Append(channel, received + 1) /\ Len(channel) < ChannelSize
        /\ received' = received + 1
    BY <1>6 DEF ReceiveSignal
  <2>3. channel' \in Seq(1 .. MaxSignals) /\ Len(channel') <= ChannelSize
    BY <2>1, <2>2
  <2> QED
    BY <1>6, <2>1, <2>2, <2>3 DEF ReceiveSignal, outsideVars
<1>7. CASE Forward
  <2>1. /\ channel # << >> /\ channel' = Tail(channel)
        /\ AddToAggregator(SignalNo(Head(channel)))
    BY <1>7 DEF Forward
  <2>2. /\ Head(channel) \in 1 .. MaxSignals /\ Tail(channel) \in Seq(1 .. MaxSignals)
        /\ Len(Tail(channel)) <= ChannelSize
    BY <2>1
  <2>3. held' \subseteq Items
    BY <2>1, <2>2, ItemKinds, AddBringsItem
  <2> QED
    BY <1>7, <2>1, <2>2, <2>3 DEF Forward, outsideVars
<1>8. ASSUME NEW n \in 1 .. Invocations, TelemetryArrives(n) PROVE LifecycleTypeOK'
  BY <1>8 DEF TelemetryArrives, extensionVars
<1>9. ASSUME NEW n \in 1 .. Invocations, TelemetryProcessed(n) PROVE LifecycleTypeOK'
  <2>1. held' \subseteq Items
    BY <1>9, ItemKinds, AddBringsItem DEF TelemetryProcessed
  <2> QED
    BY <1>9, <2>1 DEF TelemetryProcessed
<1>10. CASE UNCHANGED lifecycleVars
  BY <1>10 DEF lifecycleVars, extensionVars, outsideVars
<1> QED
  BY <1>1, <1>2, <1>3, <1>4, <1>5, <1>6, <1>7, <1>8, <1>9, <1>10

-----------------------------------------------------------------------------
(* The hold and the tracker's waiter. *)

LEMMA HoldWaitsKept ==
    ASSUME LifecycleInv, LifecycleNext
    PROVE  HoldWaits' /\ HoldIsHealthy'
<1> USE DEF HoldWaits, HoldIsHealthy, Holding
<1>1. /\ timeouts \in Nat /\ begun \in Nat /\ pc \in HandlerPlaces /\ HoldWaits /\ HoldIsHealthy
      /\ finished \in Nat
      /\ current \in [id : RequestIds \cup {None}, source : Sources \cup {None}, open : BOOLEAN]
  BY DEF LifecycleInv, LifecycleTypeOK, TrackerInv, TrackerTypeOK
<1>2. ASSUME NEW window \in BOOLEAN, HandleInvoke(window) PROVE HoldWaits' /\ HoldIsHealthy'
  <2>1. begun' = begun + 1 /\ begun' # 0 /\ current'.id = RequestOf[begun']
    BY <1>1, <1>2 DEF HandleInvoke, Begin
  <2>2. waiter' = waiter /\ waiter.on = "nothing" /\ timeouts' = timeouts
    BY <1>1, <1>2 DEF HandleInvoke, Begin
  <2>3. pc' = "postFlush" \/ (pc' = "hold" /\ timeouts = 0)
    BY <1>2 DEF HandleInvoke, ShouldHold
  <2> QED
    BY <1>1, <2>1, <2>2, <2>3
<1>3. CASE HoldTurn
  BY <1>1, <1>3 DEF HoldTurn, Subscribe
<1>4. CASE Tick
  BY <1>1, <1>4 DEF Tick, Cancelled, NotWaiting
<1>5. CASE HoldCompletes
  BY <1>1, <1>5 DEF HoldCompletes, WakeCompleted, NotWaiting, ChannelHolds
<1>6. CASE HoldExpires
  <2>1. timeouts = 0 /\ timeouts' <= 1
    BY <1>1, <1>6 DEF HoldExpires, WakeElapsed
  <2> QED
    BY <1>1, <1>6, <2>1 DEF HoldExpires, WakeElapsed, NotWaiting
<1>7. CASE Settled \/ PostFlushSkipped \/ PostFlushBegins
  BY <1>1, <1>7 DEF Settled, PostFlushSkipped, PostFlushBegins, trackerVars
<1>8. CASE DrainEnds
  BY <1>1, <1>8 DEF DrainEnds, AfterFlush, trackerVars, LifecycleInv, FinalFlushTakesAll,
                    FlushNamed, LifecycleTypeOK
<1>9. CASE ExportBatch
  BY <1>1, <1>9 DEF ExportBatch, AfterFlush, trackerVars, LifecycleInv, FinalFlushTakesAll,
                    FlushNamed, LifecycleTypeOK
<1>10. CASE \/ AbandonRest \/ LockGranted \/ LockTimesOut \/ FinalFlushBegins
            \/ \E time \in BOOLEAN : HandleShutdown(time)
  BY <1>1, <1>10 DEF AbandonRest, LockGranted, LockTimesOut, FinalFlushBegins, HandleShutdown,
                     trackerVars
<1>11. CASE \/ InvocationStarts \/ FunctionReturns \/ ShutdownTimeRunsOut \/ ReceiveSignal
            \/ Forward \/ \E n \in 1 .. Invocations : TelemetryArrives(n)
  BY <1>1, <1>11 DEF InvocationStarts, FunctionReturns, ShutdownTimeRunsOut, ReceiveSignal,
                     Forward, TelemetryArrives, extensionVars, trackerVars
<1>12. CASE HoldDeadlinePasses
  BY <1>1, <1>12 DEF HoldDeadlinePasses, WindowCloses, extensionVars
<1>13. ASSUME NEW id, NEW source \in Sources, Signalled(id, source), UNCHANGED <<pc, flush, begun>>
       PROVE  HoldWaits' /\ HoldIsHealthy'
  <2>1. UNCHANGED waiter /\ timeouts' \in {0, timeouts}
    BY <1>13 DEF Signalled, Complete, CompleteCurrent, CompleteAgain, CompleteOther, trackerVars
  <2>2. current'.id = current.id /\ (current.source # None => current'.source # None)
    BY <1>1, <1>13 DEF Signalled, Complete, CompleteCurrent, CompleteAgain, CompleteOther,
                       trackerVars
  <2> QED
    BY <1>1, <1>13, <2>1, <2>2
<1>14. CASE \E n \in posts, id \in RequestIds \cup {None} : WrapperSignal(n, id)
  BY <1>13, <1>14 DEF WrapperSignal, extensionVars
<1>15. CASE \E n \in 1 .. Invocations : TelemetryProcessed(n)
  BY <1>13, <1>15 DEF TelemetryProcessed
<1> QED
  BY <1>2, <1>3, <1>4, <1>5, <1>6, <1>7, <1>8, <1>9, <1>10, <1>11, <1>12, <1>14, <1>15
     DEF LifecycleNext, Handler

-----------------------------------------------------------------------------
(* What completions say. *)

\* A function that has returned, and telemetry that is processed, stay so.
LEMMA SoundGrows ==
    ASSUME LifecycleTypeOK, [LifecycleNext]_lifecycleVars
    PROVE  \A x, s : Sound(x, s) => Sound(x, s)'
<1>1. finished \in Nat /\ finished' \in {finished, finished + 1}
  BY DEF LifecycleTypeOK, LifecycleNext, Handler, Tick, HandleShutdown, InvocationStarts,
         FunctionReturns, HoldDeadlinePasses, ShutdownTimeRunsOut, WrapperSignal, ReceiveSignal,
         Forward, TelemetryArrives, TelemetryProcessed, HandleInvoke, HoldTurn, HoldCompletes,
         HoldExpires, Settled, PostFlushSkipped, PostFlushBegins, DrainEnds, ExportBatch,
         AbandonRest, LockGranted, LockTimesOut, FinalFlushBegins, outsideVars, lifecycleVars
<1>2. \/ UNCHANGED telemetry
      \/ \E n \in 1 .. Invocations : telemetry[n] # "done"
            /\ \E place : telemetry' = [telemetry EXCEPT ![n] = place]
  BY DEF LifecycleTypeOK, LifecycleNext, Handler, Tick, HandleShutdown, InvocationStarts,
         FunctionReturns, HoldDeadlinePasses, ShutdownTimeRunsOut, WrapperSignal, ReceiveSignal,
         Forward, TelemetryArrives, TelemetryProcessed, HandleInvoke, HoldTurn, HoldCompletes,
         HoldExpires, Settled, PostFlushSkipped, PostFlushBegins, DrainEnds, ExportBatch,
         AbandonRest, LockGranted, LockTimesOut, FinalFlushBegins, outsideVars, lifecycleVars
<1>3. \A x : Processed(x) => Processed(x)'
  BY <1>2 DEF Processed, LifecycleTypeOK
<1>4. \A x : Returned(x) => Returned(x)'
  BY <1>1 DEF Returned
<1>5. \A x : Invoked(x) => Invoked(x)'
  BY DEF Invoked
<1> QED
  BY <1>3, <1>4, <1>5 DEF Sound

\* A step that records no completion.
LEMMA NoCompletionKeeps ==
    ASSUME LifecycleInv, [LifecycleNext]_lifecycleVars, UNCHANGED recent,
           UNCHANGED <<current.id, current.source>>,
           \A n \in 1 .. Invocations : telemetry'[n] = "done" => telemetry[n] = "done"
    PROVE  CompletionsSound' /\ NothingForgotten'
<1> USE DEF LifecycleInv
<1>1. \A x, s : Sound(x, s) => Sound(x, s)'
  BY SoundGrows
<1>2. /\ \A x : Remembered(x)' <=> Remembered(x)
      /\ \A x : SourceOf(x)' = SourceOf(x)
  BY DEF Remembered, SourceOf
<1>3. \A x \in RequestIds : Remembered(x)' => Sound(x, SourceOf(x))'
  <2> SUFFICES ASSUME NEW x \in RequestIds, Remembered(x)' PROVE Sound(x, SourceOf(x))'
    OBVIOUS
  <2>1. Sound(x, SourceOf(x)) /\ SourceOf(x)' = SourceOf(x)
    BY <1>2 DEF CompletionsSound
  <2>2. Sound(x, SourceOf(x)) => (Invoked(x) /\ (PostsCarryId => Returned(x)')
                                  /\ (SourceOf(x) = "RuntimeDone" => Processed(x)'))
    BY <1>1 DEF Sound, Invoked
  <2> QED
    BY <2>1, <2>2 DEF Sound, Invoked
<1>4. current'.source # None => Sound(current.id, current.source)'
  <2> SUFFICES ASSUME NEW c, NEW s, c = current.id, s = current.source, s # None
               PROVE  Sound(current.id, current.source)'
    OBVIOUS
  <2>1. Sound(c, s)
    BY DEF CompletionsSound
  <2>2. Sound(c, s)' /\ current'.id = c /\ current'.source = s
    BY <1>1, <2>1
  <2> QED
    BY <2>2 DEF Sound, Invoked, Returned, Processed
<1>5. MemorySuffices /\ current'.source # None => Remembered(current.id)'
  BY DEF CompletionsSound, Remembered
<1>6. CompletionsSound'
  BY <1>3, <1>4, <1>5 DEF CompletionsSound, MemorySuffices
<1>7. NothingForgotten'
  BY <1>2 DEF NothingForgotten, MemorySuffices
<1> QED
  BY <1>6, <1>7

\* What begin finds in the memory is sound of the id it begins with.
LEMMA BeginSound ==
    ASSUME LifecycleInv, LifecycleNext, NEW window \in BOOLEAN, HandleInvoke(window)
    PROVE  CompletionsSound' /\ NothingForgotten'
<1> USE DEF LifecycleInv
<1> DEFINE id == RequestOf[begun + 1]
           known == IF Remembered(id) THEN SourceOf(id) ELSE None
<1>1. id \in RequestIds
  BY DEF HandleInvoke, LifecycleTypeOK
<1>2. /\ UNCHANGED <<recent, finished, telemetry>>
      /\ current'.id = id /\ current'.source = known
  BY DEF HandleInvoke, Begin, outsideVars
<1>3. /\ \A x : Remembered(x)' <=> Remembered(x)
      /\ \A x : SourceOf(x)' = SourceOf(x)
      /\ \A x, s : Sound(x, s)' <=> Sound(x, s)
  BY <1>2 DEF Remembered, SourceOf, Sound, Invoked, Returned, Processed
<1> HIDE DEF id
<1>4. \A x \in RequestIds : Remembered(x)' => Sound(x, SourceOf(x))'
  BY <1>2 DEF CompletionsSound, Remembered, SourceOf, Sound, Invoked, Returned, Processed
<1>5. current'.source # None => Remembered(id) /\ current'.source = SourceOf(id)
  BY <1>2
<1>6. current'.source # None => Sound(current.id, current.source)'
  <2> SUFFICES ASSUME current'.source # None PROVE Sound(current.id, current.source)'
    OBVIOUS
  <2>1. Sound(id, SourceOf(id))
    BY <1>1, <1>5 DEF CompletionsSound
  <2>2. Sound(id, current'.source)
    BY <1>5, <2>1
  <2> QED
    BY <1>2, <2>2 DEF Sound, Invoked, Returned, Processed
<1>7. current'.source # None => Remembered(current.id)'
  BY <1>2, <1>5 DEF Remembered
<1>8. CompletionsSound'
  BY <1>4, <1>6, <1>7 DEF CompletionsSound
<1>9. NothingForgotten'
  BY <1>2, <1>3 DEF NothingForgotten, MemorySuffices
<1> QED
  BY <1>8, <1>9

LEMMA SignalKeepsId ==
    ASSUME NEW id, NEW source, Signalled(id, source),
           current \in [id : RequestIds \cup {None}, source : Sources \cup {None}, open : BOOLEAN]
    PROVE  current'.id = current.id
BY DEF Signalled, Complete, CompleteCurrent, CompleteAgain, CompleteOther, trackerVars

LEMMA CompletionsKept ==
    ASSUME LifecycleInv, [LifecycleNext]_lifecycleVars
    PROVE  CompletionsSound' /\ NothingForgotten'
<1> USE DEF LifecycleInv
<1>1. /\ TrackerInv /\ CompletionsSound /\ NothingForgotten /\ HoldWaits
      /\ telemetry \in [1 .. Invocations -> {"none", "locked", "done"}]
      /\ begun \in 0 .. Invocations /\ finished \in 0 .. Invocations
      /\ posts \subseteq 1 .. finished
      /\ current \in [id : RequestIds \cup {None}, source : Sources \cup {None}, open : BOOLEAN]
  BY DEF LifecycleTypeOK, TrackerInv, TrackerTypeOK
<1>2. \A x, s : Sound(x, s) => Sound(x, s)'
  BY SoundGrows
<1>3. current.id # None => Invoked(current.id)
  BY <1>1 DEF HoldWaits, Invoked
<1>4. ASSUME NEW n \in posts, NEW id \in RequestIds \cup {None}, WrapperSignal(n, id)
      PROVE  CompletionsSound' /\ NothingForgotten'
  <2>1. /\ Signalled(id, "Wrapper") /\ UNCHANGED <<finished, telemetry>>
        /\ id = RequestOf[n] \/ (id = None /\ ~PostsCarryId)
    BY <1>4 DEF WrapperSignal
  <2>2. n \in 1 .. finished /\ n \in 1 .. Invocations /\ RequestOf[n] \in RequestIds
    BY <1>1
  <2>3. id # None => Sound(id, "Wrapper")'
    BY <2>1, <2>2 DEF Sound, Invoked, Returned
  <2>4. MatchesCurrent(id) => Sound(current.id, "Wrapper")'
    <3>1. current'.id = current.id
      BY <1>1, <2>1, SignalKeepsId
    <3>2. CASE id # None
      BY <2>3, <3>1, <3>2 DEF MatchesCurrent, Sound, Invoked, Returned
    <3>3. CASE id = None
      BY <1>3, <2>1, <2>2, <3>1, <3>3 DEF MatchesCurrent, Sound, Invoked
    <3> QED
      BY <3>2, <3>3
  <2>5. /\ CompletionsSound'
        /\ MemorySuffices => \A x \in RequestIds : Remembered(x) => Remembered(x)'
    BY <1>1, <1>2, <2>1, <2>3, <2>4, SignalKeepsSound
  <2>6. NothingForgotten'
    BY <1>1, <2>1, <2>5 DEF NothingForgotten, MemorySuffices
  <2> QED
    BY <2>5, <2>6
<1>5. ASSUME NEW n \in 1 .. Invocations, TelemetryProcessed(n)
      PROVE  CompletionsSound' /\ NothingForgotten'
  <2>1. /\ Signalled(RequestOf[n], "RuntimeDone") /\ telemetry[n] = "locked"
        /\ telemetry' = [telemetry EXCEPT ![n] = "done"] /\ UNCHANGED finished
    BY <1>5 DEF TelemetryProcessed
  <2>2. RequestOf[n] \in RequestIds /\ RequestOf[n] # None
    OBVIOUS
  <2>3. n \in 1 .. finished
    BY <1>1, <2>1 DEF TelemetryFollows
  <2>4. Sound(RequestOf[n], "RuntimeDone")'
    BY <1>1, <2>1, <2>3 DEF Sound, Invoked, Returned, Processed
  <2>5. MatchesCurrent(RequestOf[n]) => Sound(current.id, "RuntimeDone")'
    <3>1. current'.id = current.id
      BY <1>1, <2>1, SignalKeepsId
    <3> QED
      BY <2>2, <2>4, <3>1 DEF MatchesCurrent, Sound, Invoked, Returned, Processed
  <2>6. /\ CompletionsSound'
        /\ MemorySuffices =>
              /\ \A x \in RequestIds : Remembered(x) => Remembered(x)'
              /\ RequestOf[n] # None => Remembered(RequestOf[n])'
    BY <1>1, <1>2, <2>1, <2>2, <2>4, <2>5, SignalKeepsSound
  <2>7. ASSUME MemorySuffices, NEW m \in 1 .. Invocations, telemetry'[m] = "done"
        PROVE  Remembered(RequestOf[m])'
    <3>1. CASE m = n
      BY <2>2, <2>6, <2>7, <3>1
    <3>2. CASE m # n
      <4>1. telemetry[m] = "done" /\ RequestOf[m] \in RequestIds
        BY <1>1, <2>1, <2>7, <3>2
      <4> QED
        BY <1>1, <2>6, <2>7, <4>1 DEF NothingForgotten
    <3> QED
      BY <3>1, <3>2
  <2>8. NothingForgotten'
    BY <2>7 DEF NothingForgotten, MemorySuffices, Remembered
  <2> QED
    BY <2>6, <2>8
<1>6. CASE HoldDeadlinePasses
  BY <1>1, <1>6, NoCompletionKeeps DEF HoldDeadlinePasses, WindowCloses, outsideVars
<1>7. CASE HoldTurn \/ Tick \/ HoldCompletes \/ HoldExpires
  BY <1>7, NoCompletionKeeps DEF HoldTurn, Tick, HoldCompletes, HoldExpires, Subscribe,
                                 Cancelled, WakeCompleted, WakeElapsed, outsideVars
<1>8. CASE \E n \in 1 .. Invocations : TelemetryArrives(n)
  BY <1>1, <1>8, NoCompletionKeeps DEF TelemetryArrives, trackerVars
<1>9. CASE \/ Settled \/ PostFlushSkipped \/ PostFlushBegins \/ DrainEnds \/ ExportBatch
           \/ AbandonRest \/ LockGranted \/ LockTimesOut \/ FinalFlushBegins
           \/ (\E time \in BOOLEAN : HandleShutdown(time))
           \/ InvocationStarts \/ FunctionReturns \/ ShutdownTimeRunsOut \/ ReceiveSignal
           \/ Forward \/ UNCHANGED lifecycleVars
  BY <1>9, NoCompletionKeeps
     DEF Settled, PostFlushSkipped, PostFlushBegins, DrainEnds, ExportBatch, AbandonRest,
         LockGranted, LockTimesOut, FinalFlushBegins, HandleShutdown, InvocationStarts,
         FunctionReturns, ShutdownTimeRunsOut, ReceiveSignal, Forward, lifecycleVars,
         trackerVars, outsideVars
<1>10. ASSUME NEW window \in BOOLEAN, HandleInvoke(window)
       PROVE  CompletionsSound' /\ NothingForgotten'
  <2>1. LifecycleNext
    BY <1>10 DEF LifecycleNext, Handler
  <2> QED
    BY <1>10, <2>1, BeginSound
<1> QED
  BY <1>4, <1>5, <1>6, <1>7, <1>8, <1>9, <1>10 DEF LifecycleNext, Handler

-----------------------------------------------------------------------------
(* Telemetry in processing, and the final flush. *)

LEMMA TelemetryFollowsKept ==
    ASSUME LifecycleInv, [LifecycleNext]_lifecycleVars
    PROVE  TelemetryFollows'
<1>1. /\ TelemetryFollows /\ finished \in Nat
      /\ telemetry \in [1 .. Invocations -> {"none", "locked", "done"}]
  BY DEF LifecycleInv, LifecycleTypeOK
<1>2. CASE \E n \in 1 .. Invocations : TelemetryArrives(n) \/ TelemetryProcessed(n)
  BY <1>1, <1>2 DEF TelemetryArrives, TelemetryProcessed, TelemetryFollows
<1>3. CASE UNCHANGED telemetry /\ finished' \in {finished, finished + 1}
  BY <1>1, <1>3 DEF TelemetryFollows
<1> QED
  BY <1>2, <1>3
     DEF LifecycleNext, Handler, Tick, HandleShutdown, InvocationStarts,
         FunctionReturns, HoldDeadlinePasses, ShutdownTimeRunsOut, WrapperSignal, ReceiveSignal,
         Forward, HandleInvoke, HoldTurn, HoldCompletes,
         HoldExpires, Settled, PostFlushSkipped, PostFlushBegins, DrainEnds, ExportBatch,
         AbandonRest, LockGranted, LockTimesOut, FinalFlushBegins, outsideVars, lifecycleVars

\* A step elsewhere, that brings no metric of a batch which was in processing.
LEMMA FinalFlushUndisturbed ==
    ASSUME FinalFlushTakesAll, UNCHANGED <<pc, flush, owed, out, shutdown>>,
           \A n \in shutdown.inFlight :
              /\ telemetry[n] # "none" => telemetry'[n] # "none"
              /\ telemetry[n] = "done" => telemetry'[n] = "done"
              /\ telemetry[n] = "done" /\ Metric(n) \in held' => Metric(n) \in held
    PROVE  FinalFlushTakesAll'
<1>1. FlushNamed' /\ (shutdown.granted => pc = "shutdownMetric" \/ flush = "final")'
  BY DEF FinalFlushTakesAll, FlushNamed
<1> QED
  BY <1>1 DEF FinalFlushTakesAll, Metric

\* The handler before SHUTDOWN, where nothing is granted.
LEMMA NotYetFinal ==
    ASSUME FinalFlushTakesAll, ~shutdown.granted, UNCHANGED <<shutdown, telemetry>>,
           pc' = "exited" => flush' = "final",
           flush' = "final" => pc' \in {"drain", "export", "exited"},
           pc' \in {"drain", "export"} => flush' # "none"
    PROVE  FinalFlushTakesAll'
BY DEF FinalFlushTakesAll, FlushNamed

LEMMA FinalFlushKept ==
    ASSUME LifecycleInv, [LifecycleNext]_lifecycleVars
    PROVE  FinalFlushTakesAll'
<1>1. /\ FinalFlushTakesAll /\ FlushNamed /\ shutdown \in Shutdowns
      /\ telemetry \in [1 .. Invocations -> {"none", "locked", "done"}]
      /\ flush \in {"none", "periodic", "post", "final"}
      /\ owed \subseteq Items /\ held \subseteq Items
  BY DEF LifecycleInv, LifecycleTypeOK, Shutdowns, FinalFlushTakesAll
<1>2. shutdown.inFlight \subseteq 1 .. Invocations
  BY <1>1 DEF Shutdowns
<1>3. shutdown.granted => pc = "shutdownMetric" \/ flush = "final"
  BY <1>1 DEF FinalFlushTakesAll
<1>4. flush = "final" => pc \in {"drain", "export", "exited"}
  BY <1>1 DEF FinalFlushTakesAll
<1>5. CASE \/ \E window \in BOOLEAN : HandleInvoke(window)
           \/ HoldTurn \/ HoldCompletes \/ HoldExpires \/ Settled \/ PostFlushSkipped
           \/ PostFlushBegins \/ Tick
  <2>1. ~shutdown.granted
    BY <1>3, <1>4, <1>5 DEF HandleInvoke, HoldTurn, HoldCompletes, HoldExpires, Settled,
                            PostFlushSkipped, PostFlushBegins, Tick
  <2> QED
    BY <1>1, <1>4, <1>5, <2>1, NotYetFinal
       DEF HandleInvoke, HoldTurn, HoldCompletes, HoldExpires, Settled, PostFlushSkipped,
           PostFlushBegins, Tick, outsideVars
<1>6. CASE DrainEnds
  <2>1. PICK batches \in SUBSET held :
           /\ owed \cap held \subseteq batches /\ out' = batches /\ held' = held \ batches
           /\ pc' = IF batches = {} THEN AfterFlush ELSE "export"
           /\ pc = "drain" /\ UNCHANGED <<flush, shutdown, telemetry>>
    BY <1>6 DEF DrainEnds, outsideVars
  <2>2. AfterFlush \in {"hold", "polling", "exited"}
        /\ (AfterFlush = "exited" <=> flush = "final")
    BY <1>1, <2>1 DEF AfterFlush, FlushNamed
  <2>3. CASE shutdown.granted
    <3>1. flush = "final"
      BY <1>3, <2>1, <2>3
    <3>2. ASSUME NEW n \in shutdown.inFlight
          PROVE  /\ telemetry[n] = "done" /\ telemetry[n] # "none"
                 /\ Metric(n) \notin held' /\ (batches = {} => Metric(n) \notin out')
      BY <1>1, <2>1, <2>3 DEF FinalFlushTakesAll
    <3> QED
      BY <2>1, <2>2, <2>3, <3>1, <3>2 DEF FinalFlushTakesAll, FlushNamed, Metric
  <2>4. CASE ~shutdown.granted
    BY <1>1, <2>1, <2>2, <2>4, NotYetFinal DEF FlushNamed
  <2> QED
    BY <2>3, <2>4
<1>7. CASE ExportBatch
  <2>1. /\ pc = "export" /\ UNCHANGED <<flush, held, shutdown, telemetry>>
        /\ \/ pc' = pc
           \/ flush # "final" /\ pc' = AfterFlush
           \/ flush = "final" /\ pc' = "drain" /\ owed' = held
    BY <1>7 DEF ExportBatch, outsideVars
  <2>2. flush # "final" => AfterFlush \in {"hold", "polling"}
    BY <1>1, <2>1 DEF AfterFlush, FlushNamed
  <2>3. CASE shutdown.granted
    BY <1>1, <1>3, <2>1, <2>3 DEF FinalFlushTakesAll, FlushNamed, Metric
  <2>4. CASE ~shutdown.granted
    BY <1>1, <2>1, <2>2, <2>4, NotYetFinal DEF FlushNamed
  <2> QED
    BY <2>3, <2>4
<1>8. CASE AbandonRest
  BY <1>1, <1>8 DEF AbandonRest, FinalFlushTakesAll, FlushNamed, outsideVars
<1>9. ASSUME NEW time \in BOOLEAN, HandleShutdown(time) PROVE FinalFlushTakesAll'
  <2>1. /\ shutdown'.inFlight = LockedBatches /\ shutdown'.granted = FALSE
        /\ pc' = "lockWait" /\ pc = "polling" /\ UNCHANGED <<flush, telemetry>>
    BY <1>9 DEF HandleShutdown
  <2>2. \A n \in shutdown'.inFlight : telemetry'[n] # "none"
    BY <2>1 DEF LockedBatches
  <2> QED
    BY <1>4, <2>1, <2>2 DEF FinalFlushTakesAll, FlushNamed
<1>10. CASE LockGranted
  <2>1. /\ pc = "lockWait" /\ LockedBatches = {} /\ pc' = "shutdownMetric"
        /\ shutdown'.inFlight = shutdown.inFlight /\ UNCHANGED <<flush, telemetry>>
    BY <1>1, <1>10 DEF LockGranted, Shutdowns
  <2>2. \A n \in shutdown'.inFlight : telemetry'[n] = "done"
    BY <1>1, <1>2, <2>1 DEF LockedBatches, FinalFlushTakesAll
  <2>3. flush # "final"
    BY <1>4, <2>1
  <2> QED
    BY <2>1, <2>2, <2>3 DEF FinalFlushTakesAll, FlushNamed
<1>11. CASE LockTimesOut
  BY <1>1, <1>3, <1>4, <1>11, NotYetFinal DEF LockTimesOut, outsideVars
<1>12. CASE FinalFlushBegins
  <2>1. /\ pc = "shutdownMetric" /\ pc' = "drain" /\ flush' = "final" /\ owed' = held'
        /\ UNCHANGED <<shutdown, telemetry>>
    BY <1>12 DEF FinalFlushBegins, outsideVars
  <2> QED
    BY <1>1, <2>1 DEF FinalFlushTakesAll, FlushNamed, Metric
<1>13. CASE ShutdownTimeRunsOut
  <2>1. /\ pc # "exited" /\ shutdown'.inFlight = shutdown.inFlight
        /\ shutdown'.granted = shutdown.granted
        /\ UNCHANGED <<pc, flush, held, owed, out, telemetry>>
    BY <1>1, <1>13 DEF ShutdownTimeRunsOut, Alive, Shutdowns, extensionVars
  <2> QED
    BY <1>1, <2>1 DEF FinalFlushTakesAll, FlushNamed, Metric
<1>14. CASE Forward
  <2>1. /\ UNCHANGED <<pc, flush, owed, out, shutdown, telemetry>>
        /\ AddToAggregator(SignalNo(Head(channel)))
    BY <1>14 DEF Forward, outsideVars
  <2>2. \A n : Metric(n) \in held' => Metric(n) \in held
    BY <2>1, AddBringsItem, ItemKinds
  <2> QED
    BY <1>1, <2>1, <2>2, FinalFlushUndisturbed
<1>15. ASSUME NEW n \in 1 .. Invocations, TelemetryProcessed(n) PROVE FinalFlushTakesAll'
  <2>1. /\ UNCHANGED <<pc, flush, owed, out, shutdown>> /\ telemetry[n] = "locked"
        /\ telemetry' = [telemetry EXCEPT ![n] = "done"] /\ AddToAggregator(Metric(n))
    BY <1>15 DEF TelemetryProcessed
  <2>2. ASSUME NEW m \in shutdown.inFlight
        PROVE  /\ telemetry[m] # "none" => telemetry'[m] # "none"
               /\ telemetry[m] = "done" => telemetry'[m] = "done"
               /\ telemetry[m] = "done" /\ Metric(m) \in held' => Metric(m) \in held
    <3>1. /\ telemetry[m] # "none" => telemetry'[m] # "none"
          /\ telemetry[m] = "done" => telemetry'[m] = "done"
      BY <1>1, <1>2, <2>1
    <3>2. ASSUME telemetry[m] = "done", Metric(m) \in held' PROVE Metric(m) \in held
      <4>1. Metric(m) # Metric(n)
        BY <2>1, <3>2, ItemKinds
      <4> QED
        BY <2>1, <3>2, <4>1, AddBringsItem
    <3> QED
      BY <3>1, <3>2
  <2> QED
    BY <1>1, <2>1, <2>2, FinalFlushUndisturbed
<1>16. ASSUME NEW n \in 1 .. Invocations, TelemetryArrives(n) PROVE FinalFlushTakesAll'
  <2>1. /\ UNCHANGED <<pc, flush, owed, out, held, shutdown>> /\ telemetry[n] = "none"
        /\ telemetry' = [telemetry EXCEPT ![n] = "locked"]
    BY <1>16 DEF TelemetryArrives, extensionVars
  <2>2. ASSUME NEW m \in shutdown.inFlight
        PROVE  /\ telemetry[m] # "none" => telemetry'[m] # "none"
               /\ telemetry[m] = "done" => telemetry'[m] = "done"
    BY <1>1, <1>2, <2>1
  <2> QED
    BY <1>1, <2>1, <2>2, FinalFlushUndisturbed
<1>17. CASE \/ InvocationStarts \/ FunctionReturns \/ HoldDeadlinePasses \/ ReceiveSignal
            \/ \E n \in posts, id \in RequestIds \cup {None} : WrapperSignal(n, id)
            \/ UNCHANGED lifecycleVars
  <2>1. UNCHANGED <<pc, flush, owed, out, held, shutdown, telemetry>>
    BY <1>17 DEF InvocationStarts, FunctionReturns, HoldDeadlinePasses, ReceiveSignal,
                 WrapperSignal, lifecycleVars, extensionVars, outsideVars
  <2> QED
    BY <1>1, <2>1, FinalFlushUndisturbed
<1> QED
  BY <1>5, <1>6, <1>7, <1>8, <1>9, <1>10, <1>11, <1>12, <1>13, <1>14, <1>15, <1>16, <1>17
     DEF LifecycleNext, Handler

-----------------------------------------------------------------------------
LEMMA InitEstablishesLifecycleInv == LifecycleInit => LifecycleInv
<1> SUFFICES ASSUME LifecycleInit PROVE LifecycleInv
  OBVIOUS
<1>1. TrackerInv
  BY InitEstablishesTrackerInv DEF LifecycleInit
<1> USE DEF LifecycleInit, TrackerInit, NoInvocation, NotWaiting
<1>2. LifecycleTypeOK
  <2>1. shutdown \in Shutdowns
    BY DEF Shutdowns
  <2> QED
    BY <1>1, <2>1 DEF LifecycleTypeOK, HandlerPlaces, TrackerInv, Shutdowns
<1>3. /\ HoldWaits /\ HoldIsHealthy /\ TelemetryFollows /\ CompletionsSound
      /\ NothingForgotten /\ FinalFlushTakesAll
  BY DEF HoldWaits, HoldIsHealthy, Holding, TelemetryFollows, CompletionsSound, Remembered,
         NothingForgotten, FinalFlushTakesAll, FlushNamed
<1> QED
  BY <1>1, <1>2, <1>3 DEF LifecycleInv

LEMMA StepPreservesLifecycleInv ==
    LifecycleInv /\ [LifecycleNext]_lifecycleVars => LifecycleInv'
<1> SUFFICES ASSUME LifecycleInv, [LifecycleNext]_lifecycleVars PROVE LifecycleInv'
  OBVIOUS
<1>1. TrackerInv' /\ TrackerTypeOK'
  BY StepIsTrackerStep, StepPreservesTrackerInv DEF LifecycleInv, TrackerInv
<1>2. LifecycleTypeOK'
  BY <1>1, HandlerTyped, OthersTyped DEF LifecycleInv, LifecycleNext, FinalFlushTakesAll
<1>3. HoldWaits' /\ HoldIsHealthy'
  <2>1. CASE UNCHANGED lifecycleVars
    BY <2>1 DEF LifecycleInv, HoldWaits, HoldIsHealthy, Holding, lifecycleVars, trackerVars,
                extensionVars
  <2> QED
    BY <2>1, HoldWaitsKept
<1> QED
  BY <1>1, <1>2, <1>3, CompletionsKept, TelemetryFollowsKept, FinalFlushKept DEF LifecycleInv

-----------------------------------------------------------------------------
(* The theorems. *)

\* Every reachable state of the extension satisfies the inductive invariant.
THEOREM LifecycleInvariant == LifecycleSpec => []LifecycleInv
BY InitEstablishesLifecycleInv, StepPreservesLifecycleInv, PTL DEF LifecycleSpec

\* The handler, the receiver and the telemetry tasks call their tracker only as
\* CompletionTracker allows: what is proved of it there holds in the extension.
THEOREM ExtensionUsesTracker == LifecycleSpec => TrackerSpec
<1>1. LifecycleInit => TrackerInit
  BY DEF LifecycleInit
<1>2. LifecycleInv /\ [LifecycleNext]_lifecycleVars => [TrackerNext]_trackerVars
  BY StepIsTrackerStep DEF LifecycleInv
<1> QED
  BY <1>1, <1>2, LifecycleInvariant, PTL DEF LifecycleSpec, TrackerSpec

\* hold_and_flush ends a hold as complete only when the function has returned, whichever
\* of the two signals came, if wrappers send the request id and Lambda uses each id once.
THEOREM HoldWaitsForFunction ==
    ASSUME PostsCarryId, DistinctIds
    PROVE  LifecycleSpec => []HoldOutlastsFunction
<1>1. LifecycleInv => HoldOutlastsFunction
  <2> SUFFICES ASSUME LifecycleInv, pc = "settling" PROVE finished >= begun
    BY DEF HoldOutlastsFunction
  <2> USE DEF LifecycleInv
  <2>1. begun \in 0 .. Invocations /\ finished \in 0 .. Invocations
    BY DEF LifecycleTypeOK
  <2>2. current.source # None /\ Returned(current.id) /\ Invoked(current.id)
    BY DEF HoldWaits, CompletionsSound, Sound
  <2>3. begun > 0 /\ current.id = RequestOf[begun]
    BY <2>1, <2>2 DEF HoldWaits, Invoked
  <2>4. PICK n \in 1 .. finished : RequestOf[n] = RequestOf[begun]
    BY <2>2, <2>3 DEF Returned
  <2>5. n = begun
    BY <2>1, <2>3, <2>4 DEF DistinctIds
  <2> QED
    BY <2>1, <2>4, <2>5
<1> QED
  BY <1>1, LifecycleInvariant, PTL

\* wait_for_processing_complete, then final_flush: what was in processing when SHUTDOWN
\* came is processed, and neither in the aggregator nor among the batches at the exit,
\* unless the wait timed out or the time ran out.
THEOREM InFlightIsFlushed == LifecycleSpec => []InFlightFlushed
<1>1. LifecycleInv => InFlightFlushed
  BY DEF LifecycleInv, FinalFlushTakesAll, InFlightFlushed
<1> QED
  BY <1>1, LifecycleInvariant, PTL

\* consecutive_hold_timeouts: a second hold is never begun, so never paid for, before a
\* signal has restored health (completion.rs:243).
THEOREM OneHoldAtMostIsPaid == LifecycleSpec => []HoldCostPaidOnce
<1>1. LifecycleInv => HoldCostPaidOnce
  BY DEF LifecycleInv, HoldIsHealthy, HoldCostPaidOnce
<1> QED
  BY <1>1, LifecycleInvariant, PTL

\* process_telemetry signals after its adds: a hold, or a begin, that finds a RuntimeDone
\* finds the metrics of that request in the aggregator or past it.
THEOREM DoneSignalFollowsMetrics == LifecycleSpec => []RuntimeDoneMeansBuffered
<1>1. LifecycleInv => RuntimeDoneMeansBuffered
  <2> SUFFICES ASSUME LifecycleInv, current.source = "RuntimeDone"
               PROVE  Processed(current.id)
    BY DEF RuntimeDoneMeansBuffered, Processed
  <2>1. current.source # None
    BY DEF LifecycleInv
  <2> QED
    BY <2>1 DEF LifecycleInv, CompletionsSound, Sound
<1> QED
  BY <1>1, LifecycleInvariant, PTL

\* note_hold_timeout and complete: holding is given up only for an invocation of which no
\* telemetry has been processed, and taken up again only by the first signal inside the
\* window.  The memory of recent completions must have a place for every invocation: one
\* that forgets an early signal lets its invocation expire.
THEOREM HealthJudgedFairly ==
    ASSUME MemorySuffices
    PROVE  LifecycleSpec => HealthIsFair
<1> DEFINE Fair == /\ timeouts' > timeouts =>
                        \A n \in 1 .. Invocations :
                            RequestOf[n] = current.id => telemetry[n] # "done"
                   /\ timeouts' < timeouts =>
                        current.open /\ current.source = None /\ current'.source # None
<1>1. ASSUME LifecycleInv, LifecycleNext PROVE Fair
  <2> USE DEF LifecycleInv
  <2>1. /\ timeouts \in Nat /\ recent \in Seq(Entry)
        /\ current \in [id : RequestIds \cup {None}, source : Sources \cup {None}, open : BOOLEAN]
    BY <1>1 DEF TrackerInv, TrackerTypeOK
  <2>2. CASE HoldExpires
    <3>1. /\ waiter.on = "current" /\ current.source = None
          /\ timeouts' \in Nat /\ timeouts' >= timeouts
      BY <2>1, <2>2 DEF HoldExpires, WakeElapsed
    <3>2. ASSUME NEW n \in 1 .. Invocations, RequestOf[n] = current.id, telemetry[n] = "done"
          PROVE  FALSE
      <4>1. Remembered(current.id) /\ current.id \in RequestIds
        BY <1>1, <3>2 DEF NothingForgotten
      <4>2. SourceOf(current.id) \in Sources
        BY <2>1, <4>1, SourceOfRemembered
      <4>3. current.source = SourceOf(current.id)
        BY <1>1, <4>1 DEF TrackerInv, CurrentAgreesWithMemory
      <4> QED
        BY <3>1, <4>2, <4>3
    <3> QED
      BY <2>1, <3>1, <3>2
  <2>3. CASE HoldCompletes
    <3>1. timeouts = 0 /\ timeouts' = 0
      BY <1>1, <2>3 DEF HoldCompletes, WakeCompleted, HoldIsHealthy, Holding
    <3> QED
      BY <3>1
  <2>4. ASSUME NEW id, NEW source \in Sources, Signalled(id, source) PROVE Fair
    <3>1. CASE CompleteCurrent(id, source)
      BY <2>1, <3>1 DEF CompleteCurrent
    <3>2. CASE timeouts' = timeouts
      BY <2>1, <3>2
    <3> QED
      BY <2>4, <3>1, <3>2 DEF Signalled, Complete, CompleteAgain, CompleteOther, trackerVars
  <2>5. CASE \E n \in posts, id \in RequestIds \cup {None} : WrapperSignal(n, id)
    BY <2>4, <2>5 DEF WrapperSignal
  <2>6. CASE \E n \in 1 .. Invocations : TelemetryProcessed(n)
    BY <2>4, <2>6 DEF TelemetryProcessed
  <2>7. CASE timeouts' = timeouts
    BY <2>1, <2>7
  <2> QED
    BY <1>1, <2>2, <2>3, <2>5, <2>6, <2>7
       DEF LifecycleNext, Handler, Tick, HandleShutdown, InvocationStarts, FunctionReturns,
           HoldDeadlinePasses, WindowCloses, ShutdownTimeRunsOut, ReceiveSignal, Forward,
           TelemetryArrives, HandleInvoke, Begin, HoldTurn, Subscribe, Cancelled, Settled,
           PostFlushSkipped, PostFlushBegins, DrainEnds, ExportBatch, AbandonRest, LockGranted,
           LockTimesOut, FinalFlushBegins, trackerVars
<1>2. LifecycleInv /\ [LifecycleNext]_lifecycleVars => [Fair]_lifecycleVars
  BY <1>1
<1> QED
  BY <1>2, LifecycleInvariant, PTL DEF LifecycleSpec, HealthIsFair
=============================================================================
