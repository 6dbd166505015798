-------------------------- MODULE SignalAggregator --------------------------
(***************************************************************************)
(* The aggregator of the extension crate (aggregator.rs): three FIFO       *)
(* queues of telemetry signals behind one tokio mutex, sharing a budget of *)
(* bytes and entries, and the drain that the flush paths run.              *)
(*                                                                         *)
(* add holds the mutex through its eviction loop, so the loop is modelled  *)
(* one eviction at a time with the lock held (adding # None): that it ends *)
(* is a property, not an assumption.  The getters hold it through the loop *)
(* of take_batch, modelled one pop at a time (batch # <<>>).               *)
(* get_all_batches takes the mutex anew for every batch, so adds run       *)
(* between its batches.                                                    *)
(***************************************************************************)
EXTENDS Naturals, FiniteSets, SequencesExt

CONSTANTS
    Signals,          \* the signals that may arrive, each at most once
    KindOf,           \* Signals -> Kinds: the SignalKind of each
    SizeOf,           \* Signals -> Nat: its encoded length
    None,             \* no signal
    MaxQueueBytes,    \* FlushConfig.max_queue_bytes
    MaxQueueEntries,  \* FlushConfig.max_queue_entries
    MaxBatchBytes,    \* FlushConfig.max_batch_bytes
    MaxBatchEntries   \* FlushConfig.max_batch_entries

Kinds == {"traces", "metrics", "logs"}

ASSUME AggregatorAssumption ==
    /\ None \notin Signals \cup Kinds
    /\ KindOf \in [Signals -> Kinds]
    /\ SizeOf \in [Signals -> Nat]
    /\ {MaxQueueBytes, MaxQueueEntries, MaxBatchBytes, MaxBatchEntries} \subseteq Nat

VARIABLES
    queue,     \* the queue of each kind, oldest first
    bytes,     \* current_bytes
    dropped,   \* the count of dropped signals
    adding,    \* the signal whose add holds the mutex, or None
    drain,     \* what get_all_batches is emptying, or "idle"
    batch,     \* the batch a getter is popping, <<>> when none is
    batchBytes,\* its size so far
    arrived,   \* history: signals in the order their add took the mutex
    batches,   \* history: every batch returned by the getters, in order
    owed       \* history: what was queued when the drain in progress began

aggregatorVars == <<queue, bytes, dropped, adding, drain, batch, batchBytes,
                    arrived, batches, owed>>

-----------------------------------------------------------------------------
Queued == UNION {ToSet(queue[k]) : k \in Kinds}

Taken == UNION {ToSet(batches[i]) : i \in 1 .. Len(batches)}

TotalEntries == Len(queue["traces"]) + Len(queue["metrics"]) + Len(queue["logs"])

\* The sum of the sizes of a sequence of signals.
BytesIn(s) ==
    LET upTo[n \in 0 .. Len(s)] == IF n = 0 THEN 0 ELSE upTo[n - 1] + SizeOf[s[n]]
    IN  upTo[Len(s)]

\* saturating_sub
Less(a, b) == IF b > a THEN 0 ELSE a - b

AggregatorTypeOK ==
    /\ queue \in [Kinds -> Seq(Signals)]
    /\ bytes \in Nat
    /\ dropped \in Nat
    /\ adding \in {s \in Signals : SizeOf[s] <= MaxQueueBytes} \cup {None}
    /\ drain \in Kinds \cup {"idle"}
    /\ batch \in Seq(Signals)
    /\ batchBytes \in Nat
    /\ arrived \in Seq(Signals)
    /\ batches \in Seq(Seq(Signals))
    /\ owed \subseteq Signals

AggregatorInit ==
    /\ queue = [k \in Kinds |-> <<>>]
    /\ bytes = 0
    /\ dropped = 0
    /\ adding = None
    /\ drain = "idle"
    /\ batch = <<>>
    /\ batchBytes = 0
    /\ arrived = <<>>
    /\ batches = <<>>
    /\ owed = {}

MutexFree == adding = None /\ batch = <<>>

-----------------------------------------------------------------------------
(* add *)

\* The mutex is free and s has not been added before.
CanAdd(s) == MutexFree /\ s \notin ToSet(arrived)

\* A signal larger than the whole byte budget is rejected outright.
AddRejects(s) ==
    /\ CanAdd(s)
    /\ SizeOf[s] > MaxQueueBytes
    /\ dropped' = dropped + 1
    /\ arrived' = Append(arrived, s)
    /\ UNCHANGED <<queue, bytes, adding, drain, batch, batchBytes, batches, owed>>

\* Any other signal enters the eviction loop.
AddLocks(s) ==
    /\ CanAdd(s)
    /\ SizeOf[s] <= MaxQueueBytes
    /\ adding' = s
    /\ arrived' = Append(arrived, s)
    /\ UNCHANGED <<queue, bytes, dropped, drain, batch, batchBytes, batches, owed>>

\* The loop condition with an off-by-one in the entry budget.
OverBudgetLate(s) ==
    \/ bytes + SizeOf[s] > MaxQueueBytes
    \/ TotalEntries > MaxQueueEntries

OverBudget(s) ==
    \/ bytes + SizeOf[s] > MaxQueueBytes
    \/ TotalEntries >= MaxQueueEntries

\* The order in which drop_oldest looks for a victim.
EvictionOrder(k) ==
    CASE k = "traces"  -> <<"traces", "metrics", "logs">>
      [] k = "metrics" -> <<"metrics", "traces", "logs">>
      [] k = "logs"    -> <<"logs", "traces", "metrics">>

\* drop_oldest that never looks beyond the queue being pushed to.
VictimPreferred(k) == IF queue[k] = <<>> THEN None ELSE k

\* The queue drop_oldest pops, None when all three are empty.
VictimKind(k) ==
    LET order == EvictionOrder(k)
        nonEmpty == {i \in 1 .. 3 : queue[order[i]] # <<>>}
    IN  IF nonEmpty = {}
        THEN None
        ELSE order[CHOOSE i \in nonEmpty : \A j \in nonEmpty : i <= j]

\* drop_oldest that pops the newest entry of the queue.
DropNewest(k) ==
    LET q == queue[k]
    IN  /\ queue' = [queue EXCEPT ![k] = SubSeq(q, 1, Len(q) - 1)]
        /\ bytes' = Less(bytes, SizeOf[q[Len(q)]])
        /\ dropped' = dropped + 1

\* drop_oldest that gives the bytes back but does not count the loss.
DropUncounted(k) ==
    /\ queue' = [queue EXCEPT ![k] = Tail(@)]
    /\ bytes' = Less(bytes, SizeOf[Head(queue[k])])
    /\ UNCHANGED dropped

DropHead(k) ==
    /\ queue' = [queue EXCEPT ![k] = Tail(@)]
    /\ bytes' = Less(bytes, SizeOf[Head(queue[k])])
    /\ dropped' = dropped + 1

\* One turn of the loop.  With every queue empty the code turns for ever without
\* changing anything, which is no step here.
Evict ==
    /\ adding # None
    /\ OverBudget(adding)
    /\ VictimKind(KindOf[adding]) # None
    /\ DropHead(VictimKind(KindOf[adding]))
    /\ UNCHANGED <<adding, drain, batch, batchBytes, arrived, batches, owed>>

\* The loop is left: the signal is queued and the mutex released.
Push ==
    /\ adding # None
    /\ ~OverBudget(adding)
    /\ queue' = [queue EXCEPT ![KindOf[adding]] = Append(@, adding)]
    /\ bytes' = bytes + SizeOf[adding]
    /\ adding' = None
    /\ UNCHANGED <<dropped, drain, batch, batchBytes, arrived, batches, owed>>

-----------------------------------------------------------------------------
(* get_all_batches *)

NextPhase(k) ==
    CASE k = "traces" -> "metrics" [] k = "metrics" -> "logs" [] k = "logs" -> "idle"

DrainBegins ==
    /\ drain = "idle"
    /\ drain' = "traces"
    /\ owed' = Queued
    /\ UNCHANGED <<queue, bytes, dropped, adding, batch, batchBytes, arrived, batches>>

\* take_batch pops one more entry.
Pop ==
    /\ batch' = Append(batch, Head(queue[drain]))
    /\ batchBytes' = batchBytes + SizeOf[Head(queue[drain])]
    /\ queue' = [queue EXCEPT ![drain] = Tail(@)]
    /\ UNCHANGED <<bytes, dropped, adding, drain, arrived, batches, owed>>

\* A getter finds its queue not empty: the first entry is popped whatever its size.
PopFirst ==
    /\ drain # "idle"
    /\ MutexFree
    /\ queue[drain] # <<>>
    /\ Pop

\* Whether take_batch goes on after the first entry.
NextFits ==
    /\ queue[drain] # <<>>
    /\ batchBytes + SizeOf[Head(queue[drain])] <= MaxBatchBytes
    /\ Len(batch) < MaxBatchEntries

PopNext == batch # <<>> /\ NextFits /\ Pop

\* The getter gives the bytes back, releases the mutex and returns the batch.
BatchReady ==
    /\ batch # <<>>
    /\ ~NextFits
    /\ bytes' = Less(bytes, batchBytes)
    /\ batches' = Append(batches, batch)
    /\ batch' = <<>>
    /\ batchBytes' = 0
    /\ UNCHANGED <<queue, dropped, adding, drain, arrived, owed>>

\* The drain moves on after any batch, as if `while let` were `if let`.
KindHadABatch ==
    /\ drain # "idle"
    /\ MutexFree
    /\ drain' = NextPhase(drain)
    /\ UNCHANGED <<queue, bytes, dropped, adding, batch, batchBytes, arrived, batches,
                   owed>>

\* The getter finds its queue empty, and the drain moves on to the next kind.
KindExhausted ==
    /\ drain # "idle"
    /\ MutexFree
    /\ queue[drain] = <<>>
    /\ drain' = NextPhase(drain)
    /\ UNCHANGED <<queue, bytes, dropped, adding, batch, batchBytes, arrived, batches,
                   owed>>

AggregatorNext ==
    \/ \E s \in Signals : AddRejects(s) \/ AddLocks(s)
    \/ Evict
    \/ Push
    \/ DrainBegins
    \/ PopFirst
    \/ PopNext
    \/ BatchReady
    \/ KindExhausted

AggregatorSpec == AggregatorInit /\ [][AggregatorNext]_aggregatorVars

\* A task that holds the mutex runs on: there is no await between its lock and its
\* unlock, in add and in the getters alike.
AggregatorFairSpec ==
    AggregatorSpec /\ WF_aggregatorVars(Evict \/ Push \/ PopNext \/ BatchReady)

-----------------------------------------------------------------------------
(* Properties. *)

\* "Buffered bytes never exceed max_queue_bytes", and entries never exceed theirs,
\* whatever mixture of kinds and sizes arrives (aggregator.rs:166-171).
BudgetRespected == bytes <= MaxQueueBytes /\ TotalEntries <= MaxQueueEntries

\* The byte count is the sum of the queued sizes, so the saturating subtractions
\* of drop_oldest and of the getters never hide a deficit.
BytesAccounted ==
    bytes = batchBytes + BytesIn(queue["traces"]) + BytesIn(queue["metrics"])
                       + BytesIn(queue["logs"])

Before(s, t) ==
    \E i, j \in 1 .. Len(arrived) : i < j /\ arrived[i] = s /\ arrived[j] = t

\* What the aggregator still owns: the queues and a batch being popped.
Held == Queued \cup ToSet(batch)

Lost == ToSet(arrived) \ (Held \cup Taken \cup {adding})

\* A signal is evicted only after every older one of its kind has gone: what the
\* queues lose under pressure is always their oldest part.
OldestGoesFirst ==
    \A s \in Held, t \in Lost :
        (KindOf[s] = KindOf[t] /\ Before(s, t)) => SizeOf[t] > MaxQueueBytes

\* A sequence of signals in the order of their arrival.
Ordered(q) == \A i, j \in 1 .. Len(q) : i < j => Before(q[i], q[j])

\* Of each kind, all of some signals came before all of others.
Older(S, T) == \A s \in S, t \in T : KindOf[s] = KindOf[t] => Before(s, t)

\* Per kind, signals leave in arrival order: none is duplicated, and none overtakes
\* another, within a batch, between batches or in the queue.
KindOrderKept ==
    /\ \A k \in Kinds : Ordered(queue[k])
    /\ Ordered(batch) /\ \A b \in 1 .. Len(batches) : Ordered(batches[b])
    /\ Older(ToSet(batch), Queued) /\ Older(Taken, Held)
    /\ \A b, c \in 1 .. Len(batches) : b < c => Older(ToSet(batches[b]), ToSet(batches[c]))

\* A batch respects both limits, except one signal too large for any batch, which
\* still travels alone instead of blocking its queue for ever.
BatchesWithinLimits ==
    \A b \in 1 .. Len(batches) :
        \/ Len(batches[b]) = 1
        \/ Len(batches[b]) <= MaxBatchEntries /\ BytesIn(batches[b]) <= MaxBatchBytes

\* get_all_batches leaves nothing behind that was queued when it was called, even
\* though the mutex is free between its batches and adds evict and push meanwhile.
DrainTakesAllOwed ==
    [][(drain # "idle" /\ drain' = "idle") => owed \cap Held' = {}]_aggregatorVars

\* The eviction loop and the pop loop end, so the mutex is always released.
MutexReleased == ~MutexFree ~> MutexFree

\* The aggregator is a lossy buffer: a signal in add is not yet in, one on a batch
\* is taken, and one that is nowhere any more is lost and counted.
Buffer == INSTANCE LossyBuffer
    WITH Limit <- MaxQueueEntries,
         held  <- Held,
         taken <- Taken,
         lost  <- Lost,
         drops <- dropped

ImplementsLossyBuffer == Buffer!BufferSpec
=============================================================================
