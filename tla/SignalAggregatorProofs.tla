----------------------- MODULE SignalAggregatorProofs -----------------------
(***************************************************************************)
(* What TLAPS proves of SignalAggregator, for every set of signals, of     *)
(* sizes and of limits.                                                    *)
(***************************************************************************)
EXTENDS SignalAggregator, FiniteSetTheorems, WellFoundedInduction, TLAPS

USE AggregatorAssumption

-----------------------------------------------------------------------------
(* The queues. *)

QueuesOK == queue \in [Kinds -> Seq(Signals)]

\* Popping the head of a queue that is not empty.
LEMMA PopShortens ==
    ASSUME NEW q \in Seq(Signals), q # <<>>
    PROVE  /\ Tail(q) \in Seq(Signals)
           /\ Head(q) \in Signals
           /\ Len(Tail(q)) = Len(q) - 1
           /\ Len(q) > 0
OBVIOUS

\* The eviction order of drop_oldest names queues only.
LEMMA OrderNamesKinds ==
    ASSUME NEW k \in Kinds, NEW i \in 1 .. 3
    PROVE  EvictionOrder(k)[i] \in Kinds
<1>1. CASE k = "traces"
  BY <1>1 DEF EvictionOrder, Kinds
<1>2. CASE k = "metrics"
  BY <1>2 DEF EvictionOrder, Kinds
<1>3. CASE k = "logs"
  BY <1>3 DEF EvictionOrder, Kinds
<1> QED
  BY <1>1, <1>2, <1>3 DEF Kinds

\* What drop_oldest finds is a queue with something in it.
LEMMA VictimIsNotEmpty ==
    ASSUME NEW k \in Kinds, VictimKind(k) # None
    PROVE  VictimKind(k) \in Kinds /\ queue[VictimKind(k)] # <<>>
<1> DEFINE order == EvictionOrder(k)
           nonEmpty == {i \in 1 .. 3 : queue[order[i]] # <<>>}
           first == CHOOSE i \in nonEmpty : \A j \in nonEmpty : i <= j
<1>1. nonEmpty # {} /\ VictimKind(k) = order[first]
  BY DEF VictimKind
<1>2. \E i \in nonEmpty : \A j \in nonEmpty : i <= j
  <2>1. CASE 1 \in nonEmpty
    BY <2>1
  <2>2. CASE 1 \notin nonEmpty /\ 2 \in nonEmpty
    BY <2>2
  <2>3. CASE 1 \notin nonEmpty /\ 2 \notin nonEmpty
    BY SMTT(30), <1>1, <2>3
  <2> QED
    BY <2>1, <2>2, <2>3
<1>3. first \in nonEmpty
  BY <1>2
<1> QED
  BY <1>1, <1>3, OrderNamesKinds

\* Taking the head of one queue leaves one entry less in all.
LEMMA TailOfOne ==
    ASSUME QueuesOK, NEW k \in Kinds, queue[k] # <<>>,
           queue' = [queue EXCEPT ![k] = Tail(@)]
    PROVE  QueuesOK' /\ Head(queue[k]) \in Signals
             /\ TotalEntries' = TotalEntries - 1
<1> USE DEF QueuesOK
<1>1. queue[k] \in Seq(Signals)
  OBVIOUS
<1>2. /\ Tail(queue[k]) \in Seq(Signals)
      /\ Head(queue[k]) \in Signals
      /\ Len(Tail(queue[k])) = Len(queue[k]) - 1
  BY <1>1, PopShortens
<1>3. QueuesOK'
  BY <1>2
<1>4. \A j \in Kinds : Len(queue[j]) \in Nat
  OBVIOUS
<1>5. \A j \in Kinds : Len(queue'[j]) = Len(queue[j]) - (IF j = k THEN 1 ELSE 0)
  BY <1>2, <1>4
<1>6. TotalEntries' = TotalEntries - 1
  <2>1. TotalEntries' = Len(queue'["traces"]) + Len(queue'["metrics"]) + Len(queue'["logs"])
    BY DEF TotalEntries
  <2>2. /\ Len(queue["traces"]) \in Nat
        /\ Len(queue["metrics"]) \in Nat
        /\ Len(queue["logs"]) \in Nat
    BY <1>4 DEF Kinds
  <2>3. CASE k = "traces"
    BY <1>5, <2>1, <2>2, <2>3 DEF TotalEntries, Kinds
  <2>4. CASE k = "metrics"
    BY <1>5, <2>1, <2>2, <2>4 DEF TotalEntries, Kinds
  <2>5. CASE k = "logs"
    BY <1>5, <2>1, <2>2, <2>5 DEF TotalEntries, Kinds
  <2> QED
    BY <2>3, <2>4, <2>5 DEF Kinds
<1> QED
  BY <1>2, <1>3, <1>6

\* Queueing one signal leaves one entry more in all.
LEMMA AppendToOne ==
    ASSUME QueuesOK, NEW k \in Kinds, NEW s \in Signals,
           queue' = [queue EXCEPT ![k] = Append(@, s)]
    PROVE  QueuesOK' /\ TotalEntries' = TotalEntries + 1
<1> USE DEF QueuesOK
<1>1. /\ Append(queue[k], s) \in Seq(Signals)
      /\ Len(Append(queue[k], s)) = Len(queue[k]) + 1
  OBVIOUS
<1>2. QueuesOK'
  BY <1>1
<1>3. \A j \in Kinds : Len(queue[j]) \in Nat
  OBVIOUS
<1>4. \A j \in Kinds : Len(queue'[j]) = Len(queue[j]) + (IF j = k THEN 1 ELSE 0)
  BY <1>1, <1>3
<1>5. TotalEntries' = TotalEntries + 1
  <2>1. TotalEntries' = Len(queue'["traces"]) + Len(queue'["metrics"]) + Len(queue'["logs"])
    BY DEF TotalEntries
  <2>2. /\ Len(queue["traces"]) \in Nat
        /\ Len(queue["metrics"]) \in Nat
        /\ Len(queue["logs"]) \in Nat
    BY <1>3 DEF Kinds
  <2>3. CASE k = "traces"
    BY <1>4, <2>1, <2>2, <2>3 DEF TotalEntries, Kinds
  <2>4. CASE k = "metrics"
    BY <1>4, <2>1, <2>2, <2>4 DEF TotalEntries, Kinds
  <2>5. CASE k = "logs"
    BY <1>4, <2>1, <2>2, <2>5 DEF TotalEntries, Kinds
  <2> QED
    BY <2>3, <2>4, <2>5 DEF Kinds
<1> QED
  BY <1>2, <1>5

\* The number of entries is a natural number.
LEMMA EntriesAreCounted ==
    ASSUME QueuesOK PROVE TotalEntries \in Nat
BY DEF QueuesOK, TotalEntries, Kinds

\* A saturating subtraction never goes up.
LEMMA LessNeverGrows ==
    ASSUME NEW a \in Nat, NEW b \in Nat
    PROVE  Less(a, b) \in Nat /\ Less(a, b) <= a
BY DEF Less

\* The limits are natural numbers.
LEMMA LimitsAreNat == MaxQueueBytes \in Nat /\ MaxQueueEntries \in Nat
BY DEF AggregatorAssumption

\* What is queued is a set of signals.
LEMMA QueuedAreSignals ==
    ASSUME QueuesOK PROVE Queued \subseteq Signals
BY DEF QueuesOK, Queued, ToSet

-----------------------------------------------------------------------------
(* The inductive invariant: types, both budgets, and one holder of the mutex. *)

AggregatorInv ==
    /\ AggregatorTypeOK
    /\ BudgetRespected
    /\ batch # <<>> => adding = None /\ drain \in Kinds

LEMMA InitEstablishesAggregatorInv == AggregatorInit => AggregatorInv
<1> SUFFICES ASSUME AggregatorInit PROVE AggregatorInv
  OBVIOUS
<1> USE DEF AggregatorInit
<1>1. AggregatorTypeOK
  BY DEF AggregatorTypeOK, Kinds
<1>2. BudgetRespected
  <2>1. \A k \in Kinds : Len(queue[k]) = 0
    OBVIOUS
  <2>2. TotalEntries = 0
    BY <2>1 DEF TotalEntries, Kinds
  <2> QED
    BY <2>2 DEF BudgetRespected
<1> QED
  BY <1>1, <1>2 DEF AggregatorInv

\* Nothing queued, nothing locked: what a step leaves alone stays right.
LEMMA BudgetUntouched ==
    ASSUME BudgetRespected, UNCHANGED <<queue, bytes>>
    PROVE  BudgetRespected'
BY DEF BudgetRespected, TotalEntries

\* add up to its loop: a rejection, or the mutex taken for a signal that would
\* fit an empty queue.
LEMMA EntryPreserves ==
    ASSUME AggregatorInv, NEW s \in Signals, AddRejects(s) \/ AddLocks(s)
    PROVE  AggregatorInv'
<1> USE DEF AggregatorInv
<1>1. CASE AddRejects(s)
  <2> USE <1>1 DEF AddRejects
  <2>1. AggregatorTypeOK'
    BY DEF AggregatorTypeOK
  <2>2. BudgetRespected'
    BY BudgetUntouched
  <2> QED
    BY <2>1, <2>2
<1>2. CASE AddLocks(s)
  <2> USE <1>2 DEF AddLocks, CanAdd, MutexFree
  <2>1. AggregatorTypeOK'
    BY DEF AggregatorTypeOK
  <2>2. BudgetRespected'
    BY BudgetUntouched
  <2> QED
    BY <2>1, <2>2
<1> QED
  BY <1>1, <1>2

\* One eviction: the victim is a real entry, and neither count goes up.
LEMMA EvictPreserves ==
    ASSUME AggregatorInv, Evict
    PROVE  AggregatorInv'
<1> DEFINE k == VictimKind(KindOf[adding])
<1> USE DEF AggregatorInv
<1>1. adding \in Signals /\ KindOf[adding] \in Kinds
  BY DEF AggregatorTypeOK, Evict, AggregatorAssumption
<1>2. k \in Kinds /\ queue[k] # <<>>
  BY <1>1, VictimIsNotEmpty DEF Evict
<1> HIDE DEF k
<1>3. /\ queue' = [queue EXCEPT ![k] = Tail(@)]
      /\ bytes' = Less(bytes, SizeOf[Head(queue[k])])
      /\ dropped' = dropped + 1
      /\ UNCHANGED <<adding, drain, batch, batchBytes, arrived, batches, owed>>
  BY DEF Evict, DropHead, k
<1>4. /\ queue' \in [Kinds -> Seq(Signals)]
      /\ Head(queue[k]) \in Signals
      /\ TotalEntries' = TotalEntries - 1
      /\ TotalEntries \in Nat
  BY <1>2, <1>3, TailOfOne, EntriesAreCounted DEF AggregatorTypeOK, QueuesOK
<1>5. SizeOf[Head(queue[k])] \in Nat
  BY <1>4 DEF AggregatorAssumption
<1>6. bytes' \in Nat /\ bytes' <= bytes
  <2>1. bytes \in Nat
    BY DEF AggregatorTypeOK
  <2> QED
    BY <1>3, <1>5, <2>1, LessNeverGrows
<1>7. AggregatorTypeOK'
  <2>1. dropped' \in Nat
    BY <1>3 DEF AggregatorTypeOK
  <2> QED
    BY <1>3, <1>4, <1>6, <2>1 DEF AggregatorTypeOK
<1>8. BudgetRespected'
  <2>1. bytes \in Nat /\ bytes <= MaxQueueBytes /\ TotalEntries <= MaxQueueEntries
    BY DEF AggregatorTypeOK, BudgetRespected
  <2>2. bytes' <= MaxQueueBytes
    BY <1>6, <2>1, LimitsAreNat
  <2>3. TotalEntries' <= MaxQueueEntries
    BY <1>4, <2>1, LimitsAreNat
  <2> QED
    BY <2>2, <2>3 DEF BudgetRespected
<1> QED
  BY <1>3, <1>7, <1>8

\* The loop is left only when both budgets have room for the signal.
LEMMA PushPreserves ==
    ASSUME AggregatorInv, Push
    PROVE  AggregatorInv'
<1> DEFINE k == KindOf[adding]
<1> USE DEF AggregatorInv
<1>1. adding \in Signals /\ k \in Kinds /\ SizeOf[adding] \in Nat
  BY DEF AggregatorTypeOK, Push, AggregatorAssumption
<1>2. /\ queue' = [queue EXCEPT ![k] = Append(@, adding)]
      /\ bytes' = bytes + SizeOf[adding]
      /\ adding' = None
      /\ UNCHANGED <<dropped, drain, batch, batchBytes, arrived, batches, owed>>
  BY DEF Push
<1>3. ~OverBudget(adding)
  BY DEF Push
<1> HIDE DEF k
<1>4. QueuesOK /\ TotalEntries \in Nat
  BY EntriesAreCounted DEF AggregatorTypeOK, QueuesOK
<1>5. QueuesOK' /\ TotalEntries' = TotalEntries + 1
  BY <1>1, <1>2, <1>4, AppendToOne
<1>6. AggregatorTypeOK'
  BY SMTT(30), <1>1, <1>2, <1>5 DEF QueuesOK, AggregatorTypeOK
<1>7. BudgetRespected'
  <2>1. bytes + SizeOf[adding] \in Nat /\ ~(bytes + SizeOf[adding] > MaxQueueBytes)
        /\ ~(TotalEntries >= MaxQueueEntries)
    BY <1>1, <1>3 DEF OverBudget, AggregatorTypeOK
  <2>2. bytes' <= MaxQueueBytes
    BY <1>2, <2>1, LimitsAreNat
  <2>3. TotalEntries' <= MaxQueueEntries
    BY <1>4, <1>5, <2>1, LimitsAreNat
  <2> QED
    BY <2>2, <2>3 DEF BudgetRespected
<1> QED
  BY <1>2, <1>6, <1>7

\* One entry moves from its queue to the batch.
LEMMA PopPreserves ==
    ASSUME AggregatorInv, PopFirst \/ PopNext
    PROVE  AggregatorInv'
<1> USE DEF AggregatorInv
<1>1. drain \in Kinds /\ queue[drain] # <<>> /\ adding = None /\ Pop
  BY DEF PopFirst, PopNext, NextFits, MutexFree, AggregatorTypeOK
<1>2. /\ queue' \in [Kinds -> Seq(Signals)]
      /\ Head(queue[drain]) \in Signals
      /\ TotalEntries' = TotalEntries - 1
      /\ TotalEntries \in Nat
  BY <1>1, TailOfOne, EntriesAreCounted DEF Pop, AggregatorTypeOK, QueuesOK
<1>3. SizeOf[Head(queue[drain])] \in Nat
  BY <1>2 DEF AggregatorAssumption
<1>4. AggregatorTypeOK'
  BY SMTT(30), <1>1, <1>2, <1>3 DEF Pop, AggregatorTypeOK
<1>5. BudgetRespected'
  BY <1>1, <1>2 DEF Pop, BudgetRespected, AggregatorAssumption
<1> QED
  BY <1>1, <1>4, <1>5 DEF Pop

\* A batch is returned, and its bytes are given back.
LEMMA BatchPreserves ==
    ASSUME AggregatorInv, BatchReady
    PROVE  AggregatorInv'
<1> USE DEF AggregatorInv, BatchReady
<1>1. bytes' \in Nat /\ bytes' <= bytes
  <2>1. bytes \in Nat /\ batchBytes \in Nat
    BY DEF AggregatorTypeOK
  <2> QED
    BY <2>1, LessNeverGrows
<1>2. AggregatorTypeOK'
  BY <1>1 DEF AggregatorTypeOK
<1>3. BudgetRespected'
  <2>1. bytes \in Nat /\ bytes <= MaxQueueBytes
    BY DEF AggregatorTypeOK, BudgetRespected
  <2>2. bytes' <= MaxQueueBytes
    BY <1>1, <2>1, LimitsAreNat
  <2>3. TotalEntries' <= MaxQueueEntries
    BY DEF BudgetRespected, TotalEntries
  <2> QED
    BY <2>2, <2>3 DEF BudgetRespected
<1> QED
  BY <1>2, <1>3

\* The drain begins, and moves from one kind to the next, only between batches.
LEMMA DrainPreserves ==
    ASSUME AggregatorInv, DrainBegins \/ KindExhausted
    PROVE  AggregatorInv'
<1> USE DEF AggregatorInv
<1>1. CASE DrainBegins
  <2> USE <1>1 DEF DrainBegins
  <2>1. AggregatorTypeOK'
    BY QueuedAreSignals DEF AggregatorTypeOK, QueuesOK, Kinds
  <2>2. BudgetRespected'
    BY BudgetUntouched
  <2> QED
    BY <2>1, <2>2 DEF Kinds
<1>2. CASE KindExhausted
  <2> USE <1>2 DEF KindExhausted
  <2>1. NextPhase(drain) \in Kinds \cup {"idle"}
    <3>1. CASE drain = "traces"
      BY <3>1 DEF NextPhase, Kinds
    <3>2. CASE drain = "metrics"
      BY <3>2 DEF NextPhase, Kinds
    <3>3. CASE drain = "logs"
      BY <3>3 DEF NextPhase, Kinds
    <3> QED
      BY <3>1, <3>2, <3>3 DEF AggregatorTypeOK, Kinds
  <2>2. AggregatorTypeOK'
    BY <2>1 DEF AggregatorTypeOK
  <2>3. BudgetRespected'
    BY BudgetUntouched
  <2> QED
    BY <2>2, <2>3 DEF MutexFree
<1> QED
  BY <1>1, <1>2

LEMMA StepPreservesAggregatorInv ==
    AggregatorInv /\ [AggregatorNext]_aggregatorVars => AggregatorInv'
<1> SUFFICES ASSUME AggregatorInv, [AggregatorNext]_aggregatorVars
             PROVE  AggregatorInv'
  OBVIOUS
<1>1. CASE \E s \in Signals : AddRejects(s) \/ AddLocks(s)
  BY <1>1, EntryPreserves
<1>2. CASE Evict
  BY <1>2, EvictPreserves
<1>3. CASE Push
  BY <1>3, PushPreserves
<1>4. CASE PopFirst \/ PopNext
  BY <1>4, PopPreserves
<1>5. CASE BatchReady
  BY <1>5, BatchPreserves
<1>6. CASE DrainBegins \/ KindExhausted
  BY <1>6, DrainPreserves
<1>7. CASE UNCHANGED aggregatorVars
  BY <1>7 DEF aggregatorVars, AggregatorInv, AggregatorTypeOK, BudgetRespected, TotalEntries
<1> QED
  BY <1>1, <1>2, <1>3, <1>4, <1>5, <1>6, <1>7 DEF AggregatorNext

\* The inductive invariant holds in every reachable state.
THEOREM AggregatorInvariant == AggregatorSpec => []AggregatorInv
<1>1. AggregatorInit => AggregatorInv
  BY InitEstablishesAggregatorInv
<1>2. AggregatorInv /\ [AggregatorNext]_aggregatorVars => AggregatorInv'
  BY StepPreservesAggregatorInv
<1> QED
  BY <1>1, <1>2, PTL DEF AggregatorSpec

\* Every variable keeps its type; what add holds the mutex for fits an empty queue.
THEOREM AggregatorTyped == AggregatorSpec => []AggregatorTypeOK
<1>1. AggregatorInv => AggregatorTypeOK
  BY DEF AggregatorInv
<1> QED
  BY <1>1, AggregatorInvariant, PTL

\* Neither budget is ever exceeded, for every mixture of kinds and sizes and every
\* interleaving of adds with drains (SignalAggregator::add, aggregator.rs:166).
THEOREM BudgetAlwaysRespected == AggregatorSpec => []BudgetRespected
<1>1. AggregatorInv => BudgetRespected
  BY DEF AggregatorInv
<1> QED
  BY <1>1, AggregatorInvariant, PTL
-----------------------------------------------------------------------------
(* Which signal is where: sequences as sets. *)

LEMMA Places ==
    ASSUME NEW q \in Seq(Signals), NEW x
    PROVE  x \in ToSet(q) <=> \E i \in 1 .. Len(q) : q[i] = x
<1>1. DOMAIN q = 1 .. Len(q)
  OBVIOUS
<1> QED
  BY Zenon, <1>1 DEF ToSet

LEMMA AppendAddsOne ==
    ASSUME NEW q \in Seq(Signals), NEW s \in Signals
    PROVE  ToSet(Append(q, s)) = ToSet(q) \cup {s}
<1> DEFINE r == Append(q, s)
<1>1. r \in Seq(Signals) /\ Len(r) = Len(q) + 1 /\ r[Len(q) + 1] = s
      /\ \A i \in 1 .. Len(q) : r[i] = q[i]
  OBVIOUS
<1>2. Len(q) \in Nat
  OBVIOUS
<1> HIDE DEF r
<1>3. ASSUME NEW x PROVE x \in ToSet(r) <=> x \in ToSet(q) \/ x = s
  <2>1. ASSUME NEW i \in 1 .. Len(r), r[i] = x PROVE x \in ToSet(q) \/ x = s
    <3>1. i \in 1 .. Len(q) \/ i = Len(q) + 1
      BY <1>1, <1>2
    <3> QED
      BY <1>1, <2>1, <3>1, Places
  <2>2. ASSUME NEW i \in 1 .. Len(q), q[i] = x PROVE x \in ToSet(r)
    <3>1. i \in 1 .. Len(r) /\ r[i] = x
      BY SMTT(30), <1>1, <1>2, <2>2
    <3> QED
      BY <1>1, <3>1, Places
  <2>3. x = s => x \in ToSet(r)
    <3>1. Len(q) + 1 \in 1 .. Len(r)
      BY <1>1, <1>2
    <3> QED
      BY <1>1, <3>1, Places
  <2> QED
    BY <1>1, <2>1, <2>2, <2>3, Places
<1> QED
  BY <1>3 DEF r

LEMMA HeadAndTail ==
    ASSUME NEW q \in Seq(Signals), q # <<>>
    PROVE  ToSet(q) = ToSet(Tail(q)) \cup {Head(q)}
<1> DEFINE r == Tail(q)
           h == Head(q)
<1>1. r \in Seq(Signals) /\ Len(q) = Len(r) + 1 /\ q[1] = h
      /\ \A i \in 1 .. Len(r) : r[i] = q[i + 1]
  OBVIOUS
<1>2. Len(r) \in Nat
  OBVIOUS
<1> HIDE DEF r, h
<1>3. ASSUME NEW x PROVE x \in ToSet(q) <=> x \in ToSet(r) \/ x = h
  <2>1. ASSUME NEW i \in 1 .. Len(q), q[i] = x PROVE x \in ToSet(r) \/ x = h
    <3>1. CASE i = 1
      BY <1>1, <2>1, <3>1
    <3>2. CASE i # 1
      <4>1. i - 1 \in 1 .. Len(r) /\ (i - 1) + 1 = i
        BY <1>1, <1>2, <3>2
      <4>2. r[i - 1] = q[(i - 1) + 1]
        BY <1>1, <4>1
      <4> QED
        BY <1>1, <2>1, <4>1, <4>2, Places
    <3> QED
      BY <3>1, <3>2
  <2>2. ASSUME NEW i \in 1 .. Len(r), r[i] = x PROVE x \in ToSet(q)
    <3>1. i + 1 \in 1 .. Len(q) /\ q[i + 1] = x
      BY SMTT(30), <1>1, <1>2, <2>2
    <3> QED
      BY <3>1, Places
  <2>3. x = h => x \in ToSet(q)
    <3>1. 1 \in 1 .. Len(q)
      BY <1>1, <1>2
    <3> QED
      BY <1>1, <3>1, Places
  <2> QED
    BY <1>1, <2>1, <2>2, <2>3, Places
<1> QED
  BY <1>3 DEF r, h

LEMMA NothingInEmpty == ToSet(<<>>) = {}
BY DEF ToSet

LEMMA NotEmptyHasElements ==
    ASSUME NEW q \in Seq(Signals), q # <<>>
    PROVE  ToSet(q) # {} /\ ToSet(q) \subseteq Signals
<1>1. 1 \in 1 .. Len(q) /\ \A i \in 1 .. Len(q) : q[i] \in Signals
  OBVIOUS
<1> QED
  BY <1>1, Places

LEMMA NumbersTo ==
    ASSUME NEW n \in Nat
    PROVE  IsFiniteSet(1 .. n) /\ Cardinality(1 .. n) = n
<1>1. 1 \in Int /\ n \in Int
  OBVIOUS
<1>2. IsFiniteSet(1 .. n)
  BY <1>1, FS_Interval
<1>3. Cardinality(1 .. n) = IF 1 > n THEN 0 ELSE n - 1 + 1
  BY Zenon, <1>1, FS_Interval
<1> QED
  BY <1>2, <1>3

LEMMA SumsOfThree ==
    ASSUME NEW a \in Nat, NEW b \in Nat, NEW c \in Nat,
           NEW x \in Nat, NEW y \in Nat, NEW z \in Nat, a <= x, b <= y, c <= z
    PROVE  a + b + c <= x + y + z
OBVIOUS

\* A sequence has as many elements as places, at most.
LEMMA ElementsWithinLength ==
    ASSUME NEW q \in Seq(Signals)
    PROVE  IsFiniteSet(ToSet(q)) /\ Cardinality(ToSet(q)) <= Len(q)
             /\ Cardinality(ToSet(q)) \in Nat
<1>1. q \in Surjection(1 .. Len(q), ToSet(q))
  <2>1. q \in [1 .. Len(q) -> ToSet(q)]
    BY Places
  <2>2. \A x \in ToSet(q) : \E i \in 1 .. Len(q) : q[i] = x
    BY Places
  <2> QED
    BY Zenon, <2>1, <2>2 DEF Surjection
<1>2. IsFiniteSet(1 .. Len(q)) /\ Cardinality(1 .. Len(q)) = Len(q)
  <2>1. Len(q) \in Nat
    OBVIOUS
  <2> QED
    BY <2>1, NumbersTo
<1>3. IsFiniteSet(ToSet(q)) /\ Cardinality(ToSet(q)) <= Len(q)
  BY <1>1, <1>2, FS_Surjection
<1> QED
  BY <1>3, FS_CardinalityType

\* The entries bound the signals that are queued.
LEMMA QueuedWithinEntries ==
    ASSUME QueuesOK
    PROVE  IsFiniteSet(Queued) /\ Cardinality(Queued) <= TotalEntries
<1> DEFINE T == ToSet(queue["traces"])
           M == ToSet(queue["metrics"])
           L == ToSet(queue["logs"])
<1>1. Queued = T \cup M \cup L
  BY DEF Queued, Kinds
<1>2. /\ queue["traces"] \in Seq(Signals)
      /\ queue["metrics"] \in Seq(Signals)
      /\ queue["logs"] \in Seq(Signals)
  BY DEF QueuesOK, Kinds
<1>3. /\ IsFiniteSet(T) /\ Cardinality(T) \in Nat /\ Cardinality(T) <= Len(queue["traces"])
      /\ IsFiniteSet(M) /\ Cardinality(M) \in Nat /\ Cardinality(M) <= Len(queue["metrics"])
      /\ IsFiniteSet(L) /\ Cardinality(L) \in Nat /\ Cardinality(L) <= Len(queue["logs"])
  BY <1>2, ElementsWithinLength
<1> HIDE DEF T, M, L
<1>4. IsFiniteSet(T \cup M) /\ Cardinality(T \cup M) <= Cardinality(T) + Cardinality(M)
  <2>1. IsFiniteSet(T \cap M) /\ Cardinality(T \cap M) \in Nat
    BY <1>3, FS_Subset, FS_CardinalityType
  <2>2. Cardinality(T \cup M) = Cardinality(T) + Cardinality(M) - Cardinality(T \cap M)
        /\ IsFiniteSet(T \cup M)
    BY <1>3, FS_Union
  <2> QED
    BY <1>3, <2>1, <2>2
<1>5. /\ IsFiniteSet(T \cup M \cup L)
      /\ Cardinality(T \cup M \cup L) <= Cardinality(T) + Cardinality(M) + Cardinality(L)
  <2>1. /\ IsFiniteSet((T \cup M) \cap L) /\ Cardinality((T \cup M) \cap L) \in Nat
        /\ Cardinality(T \cup M) \in Nat
    BY <1>3, <1>4, FS_Subset, FS_CardinalityType
  <2>2. /\ IsFiniteSet(T \cup M \cup L)
        /\ Cardinality(T \cup M \cup L)
             = Cardinality(T \cup M) + Cardinality(L) - Cardinality((T \cup M) \cap L)
    BY <1>3, <1>4, FS_Union
  <2> QED
    BY <1>3, <1>4, <2>1, <2>2
<1>6. Cardinality(T \cup M \cup L) \in Nat
  BY <1>5, FS_CardinalityType
<1>7. /\ Len(queue["traces"]) \in Nat
      /\ Len(queue["metrics"]) \in Nat
      /\ Len(queue["logs"]) \in Nat
  BY <1>2
<1>8. IsFiniteSet(Queued) /\ Cardinality(Queued) = Cardinality(T \cup M \cup L)
  BY Zenon, <1>1, <1>5
<1>9. Cardinality(T) + Cardinality(M) + Cardinality(L) <= TotalEntries
  BY <1>3, <1>7, SumsOfThree DEF TotalEntries
<1>10. TotalEntries \in Nat
  BY EntriesAreCounted
<1> QED
  BY <1>3, <1>5, <1>6, <1>8, <1>9, <1>10
-----------------------------------------------------------------------------
(* Who owns a signal, and which is older. *)

\* A signal arrives once, and the one that add holds the mutex for is the last.
ArrivedOnce ==
    /\ \A i, j \in 1 .. Len(arrived) : arrived[i] = arrived[j] => i = j
    /\ adding # None =>
          /\ adding \in ToSet(arrived)
          /\ \A s \in ToSet(arrived) : s # adding => Before(s, adding)

\* Every queue holds signals of its kind, oldest first.
QueuesInOrder ==
    \A k \in Kinds : Ordered(queue[k]) /\ \A s \in ToSet(queue[k]) : KindOf[s] = k

\* What a getter has popped is older than what its queue still holds.
BatchIsOlder ==
    \A s \in ToSet(batch) : KindOf[s] = drain /\ \A t \in ToSet(queue[drain]) : Before(s, t)

\* A signal is in one place: being added, held, or taken.
OwnedOnce ==
    /\ Held \cup Taken \cup owed \subseteq ToSet(arrived)
    /\ Held \cap Taken = {}
    /\ adding \notin Held \cup Taken \cup owed

Ownership == ArrivedOnce /\ QueuesInOrder /\ BatchIsOlder /\ OwnedOnce

\* Nothing arrives before itself, nor two signals each before the other.
LEMMA BeforeIsStrict ==
    ASSUME ArrivedOnce, NEW s, NEW t, Before(s, t)
    PROVE  ~Before(t, s) /\ s # t
<1>1. PICK i, j \in 1 .. Len(arrived) : i < j /\ arrived[i] = s /\ arrived[j] = t
  BY DEF Before
<1>2. s # t
  BY <1>1 DEF ArrivedOnce
<1>3. ASSUME Before(t, s) PROVE FALSE
  <2>1. PICK m, n \in 1 .. Len(arrived) : m < n /\ arrived[m] = t /\ arrived[n] = s
    BY <1>3 DEF Before
  <2>2. m = j /\ n = i
    BY <1>1, <2>1 DEF ArrivedOnce
  <2> QED
    BY <1>1, <2>1, <2>2
<1> QED
  BY <1>2, <1>3

LEMMA PlacesBefore ==
    ASSUME NEW n \in Nat, NEW i \in 1 .. n + 1, NEW j \in 1 .. n + 1, i < j, j # n + 1
    PROVE  i \in 1 .. n /\ j \in 1 .. n
OBVIOUS

\* A new arrival is younger than all, and changes nothing among the others.
LEMMA BeforeGrows ==
    ASSUME arrived \in Seq(Signals), NEW s \in Signals, s \notin ToSet(arrived),
           arrived' = Append(arrived, s)
    PROVE  /\ \A a, b \in ToSet(arrived) : Before(a, b)' <=> Before(a, b)
           /\ \A a \in ToSet(arrived) : Before(a, s)'
<1>1. /\ Len(arrived') = Len(arrived) + 1 /\ arrived'[Len(arrived) + 1] = s
      /\ \A i \in 1 .. Len(arrived) : arrived'[i] = arrived[i]
      /\ Len(arrived) \in Nat
  OBVIOUS
<1>2. ASSUME NEW a \in ToSet(arrived), NEW b \in ToSet(arrived)
      PROVE  Before(a, b)' <=> Before(a, b)
  <2>1. ASSUME NEW i \in 1 .. Len(arrived'), NEW j \in 1 .. Len(arrived'), i < j,
               arrived'[i] = a, arrived'[j] = b
        PROVE  Before(a, b)
    <3>1. i \in 1 .. Len(arrived) /\ j \in 1 .. Len(arrived)
      <4>1. j # Len(arrived) + 1
        BY <1>1, <2>1
      <4>2. Len(arrived) \in Nat /\ i \in 1 .. Len(arrived) + 1 /\ j \in 1 .. Len(arrived) + 1
        BY <1>1
      <4> QED
        BY <2>1, <4>1, <4>2, PlacesBefore
    <3> QED
      BY <1>1, <2>1, <3>1 DEF Before
  <2>2. ASSUME NEW i \in 1 .. Len(arrived), NEW j \in 1 .. Len(arrived), i < j,
               arrived[i] = a, arrived[j] = b
        PROVE  Before(a, b)'
    <3>1. i \in 1 .. Len(arrived') /\ j \in 1 .. Len(arrived')
      BY <1>1
    <3> QED
      BY <1>1, <2>2, <3>1 DEF Before
  <2> QED
    BY <2>1, <2>2 DEF Before
<1>3. ASSUME NEW a \in ToSet(arrived)
      PROVE  Before(a, s)'
  <2>1. PICK i \in 1 .. Len(arrived) : arrived[i] = a
    BY Places
  <2>2. /\ i \in 1 .. Len(arrived') /\ Len(arrived) + 1 \in 1 .. Len(arrived')
        /\ i < Len(arrived) + 1
    BY <1>1
  <2> QED
    BY <1>1, <2>1, <2>2 DEF Before
<1> QED
  BY <1>2, <1>3

LEMMA BeforeStays ==
    ASSUME UNCHANGED arrived
    PROVE  \A a, b : Before(a, b)' <=> Before(a, b)
BY DEF Before

\* The head of an ordered sequence is the oldest, and its tail is ordered.
LEMMA OldestIsFirst ==
    ASSUME NEW q \in Seq(Signals), q # <<>>, Ordered(q)
    PROVE  Ordered(Tail(q)) /\ \A s \in ToSet(Tail(q)) : Before(Head(q), s)
<1> DEFINE r == Tail(q)
           h == Head(q)
<1>1. r \in Seq(Signals) /\ Len(q) = Len(r) + 1 /\ q[1] = h
      /\ \A i \in 1 .. Len(r) : r[i] = q[i + 1]
  OBVIOUS
<1>2. Len(r) \in Nat
  OBVIOUS
<1> HIDE DEF r, h
<1>3. \A i \in 1 .. Len(r) : i + 1 \in 1 .. Len(q) /\ 1 < i + 1 /\ 1 \in 1 .. Len(q)
  BY <1>1, <1>2
<1>4. Ordered(r)
  <2> SUFFICES ASSUME NEW i \in 1 .. Len(r), NEW j \in 1 .. Len(r), i < j
               PROVE  Before(r[i], r[j])
    BY DEF Ordered
  <2>1. i + 1 < j + 1
    OBVIOUS
  <2> QED
    BY <1>1, <1>3, <2>1 DEF Ordered
<1>5. ASSUME NEW s \in ToSet(r) PROVE Before(h, s)
  <2>1. PICK i \in 1 .. Len(r) : r[i] = s
    BY <1>1, Places
  <2> QED
    BY <1>1, <1>3, <2>1 DEF Ordered
<1> QED
  BY <1>4, <1>5 DEF r, h

\* A sequence stays ordered when something younger is added.
LEMMA YoungestIsLast ==
    ASSUME NEW q \in Seq(Signals), NEW s \in Signals, Ordered(q),
           \A t \in ToSet(q) : Before(t, s)
    PROVE  Ordered(Append(q, s))
<1> DEFINE r == Append(q, s)
<1>1. r \in Seq(Signals) /\ Len(r) = Len(q) + 1 /\ r[Len(q) + 1] = s
      /\ \A i \in 1 .. Len(q) : r[i] = q[i]
  OBVIOUS
<1>2. Len(q) \in Nat
  OBVIOUS
<1> HIDE DEF r
<1> SUFFICES ASSUME NEW i \in 1 .. Len(r), NEW j \in 1 .. Len(r), i < j
             PROVE  Before(r[i], r[j])
  BY DEF Ordered, r
<1>3. i \in 1 .. Len(q)
  BY <1>1, <1>2
<1>4. CASE j \in 1 .. Len(q)
  BY <1>1, <1>3, <1>4 DEF Ordered
<1>5. CASE j = Len(q) + 1
  <2>1. r[i] \in ToSet(q)
    BY <1>1, <1>3, Places
  <2> QED
    BY <1>1, <1>5, <2>1
<1> QED
  BY SMTT(30), <1>1, <1>2, <1>4, <1>5

\* The oldest signal of a kind leaves its queue, and every other stays.
LEMMA OldestLeaves ==
    ASSUME AggregatorInv, Ownership, NEW k \in Kinds, queue[k] # <<>>,
           queue' = [queue EXCEPT ![k] = Tail(@)], UNCHANGED arrived
    PROVE  /\ Head(queue[k]) \in Queued /\ KindOf[Head(queue[k])] = k
           /\ Queued' = Queued \ {Head(queue[k])}
           /\ QueuesInOrder'
           /\ \A s \in ToSet(queue'[k]) : Before(Head(queue[k]), s)
<1> DEFINE v == Head(queue[k])
<1>1. queue \in [Kinds -> Seq(Signals)] /\ queue[k] \in Seq(Signals)
  BY DEF AggregatorInv, AggregatorTypeOK
<1>2. queue'[k] = Tail(queue[k]) /\ \A j \in Kinds \ {k} : queue'[j] = queue[j]
  BY <1>1
<1>3. ToSet(queue[k]) = ToSet(queue'[k]) \cup {v}
  BY <1>1, <1>2, HeadAndTail
<1>4. Ordered(queue'[k]) /\ \A s \in ToSet(queue'[k]) : Before(v, s)
  BY <1>1, <1>2, OldestIsFirst DEF Ownership, QueuesInOrder
<1> HIDE DEF v
<1>5. \A j \in Kinds : \A s \in ToSet(queue[j]) : KindOf[s] = j
  BY DEF Ownership, QueuesInOrder
<1>6. KindOf[v] = k
  BY <1>3, <1>5
<1>7. \A s \in ToSet(queue'[k]) : s # v
  BY <1>4, BeforeIsStrict DEF Ownership
<1>8. v \in Queued
  BY <1>3 DEF Queued
<1>9. Queued' = Queued \ {v}
  <2>1. ASSUME NEW s, NEW j \in Kinds, s \in ToSet(queue[j]), s # v
        PROVE  s \in ToSet(queue'[j])
    BY <1>2, <1>3, <2>1
  <2>2. ASSUME NEW s, NEW j \in Kinds, s \in ToSet(queue'[j])
        PROVE  s \in ToSet(queue[j]) /\ s # v
    BY <1>2, <1>3, <1>5, <1>6, <1>7, <2>2
  <2>3. \A s : s \in Queued <=> \E j \in Kinds : s \in ToSet(queue[j])
    BY DEF Queued
  <2>4. \A s : s \in Queued' <=> \E j \in Kinds : s \in ToSet(queue'[j])
    BY DEF Queued
  <2> QED
    BY <2>1, <2>2, <2>3, <2>4
<1>10. QueuesInOrder'
  <2>1. \A j \in Kinds : Ordered(queue'[j])
    BY <1>2, <1>4 DEF Ownership, QueuesInOrder
  <2>2. \A j \in Kinds : Ordered(queue[j])'
    BY <2>1, BeforeStays DEF Ordered
  <2>3. \A j \in Kinds : \A s \in ToSet(queue'[j]) : KindOf[s] = j
    BY <1>2, <1>3, <1>5
  <2> QED
    BY <2>2, <2>3 DEF QueuesInOrder
<1> QED
  BY <1>4, <1>6, <1>8, <1>9, <1>10 DEF v
-----------------------------------------------------------------------------
(* What each step does to the buffer that the aggregator is. *)

\* No signal, and None is not one.
LEMMA SignalsArrive ==
    ASSUME AggregatorInv, NEW s \in ToSet(arrived)
    PROVE  s \in Signals /\ s # None
<1>1. arrived \in Seq(Signals)
  BY DEF AggregatorInv, AggregatorTypeOK
<1>2. \A i \in 1 .. Len(arrived) : arrived[i] \in Signals
  BY <1>1
<1>3. s \in Signals
  BY <1>1, <1>2, Places
<1> QED
  BY <1>3 DEF AggregatorAssumption

LEMMA HeldStays ==
    ASSUME UNCHANGED <<queue, batch>>
    PROVE  Queued' = Queued /\ Held' = Held
BY DEF Held, Queued

LEMMA TakenStays ==
    ASSUME UNCHANGED batches
    PROVE  Taken' = Taken
BY DEF Taken

\* Without an arrival the order of arrival stays right.
LEMMA ArrivalStays ==
    ASSUME ArrivedOnce, UNCHANGED arrived, adding' \in {adding, None}
    PROVE  ArrivedOnce'
<1>1. \A a, b : Before(a, b)' <=> Before(a, b)
  BY BeforeStays
<1>2. CASE adding' = None
  BY <1>2 DEF ArrivedOnce
<1>3. CASE adding' = adding
  <2>1. ASSUME adding # None, NEW s \in ToSet(arrived), s # adding
        PROVE  Before(s, adding)
    BY <2>1 DEF ArrivedOnce
  <2>2. ASSUME adding' # None, NEW s \in ToSet(arrived'), s # adding'
        PROVE  Before(s, adding)'
    BY <1>1, <1>3, <2>1, <2>2
  <2> QED
    BY <1>3, <2>2 DEF ArrivedOnce
<1> QED
  BY <1>2, <1>3

\* An arrival is younger than everything that is owned.
LEMMA ArrivalStep ==
    ASSUME AggregatorInv, Ownership, NEW s \in Signals, CanAdd(s),
           arrived' = Append(arrived, s), adding' \in {None, s},
           UNCHANGED <<queue, drain, batch, batches, owed>>
    PROVE  /\ Ownership' /\ Held' = Held /\ Taken' = Taken
           /\ ToSet(arrived') = ToSet(arrived) \cup {s} /\ s \notin ToSet(arrived)
           /\ \A a, b \in ToSet(arrived) : Before(a, b)' <=> Before(a, b)
<1>1. /\ arrived \in Seq(Signals) /\ adding = None /\ batch = <<>> /\ s \notin ToSet(arrived)
      /\ queue \in [Kinds -> Seq(Signals)] /\ s # None
  BY DEF AggregatorInv, AggregatorTypeOK, CanAdd, MutexFree, AggregatorAssumption
<1>2. ToSet(arrived') = ToSet(arrived) \cup {s}
  BY <1>1, AppendAddsOne
<1>3. /\ \A a, b \in ToSet(arrived) : Before(a, b)' <=> Before(a, b)
      /\ \A a \in ToSet(arrived) : Before(a, s)'
  BY <1>1, BeforeGrows
<1>4. Held' = Held /\ Taken' = Taken /\ Queued' = Queued
  BY HeldStays, TakenStays
<1>5. ArrivedOnce'
  <2>1. \A i, j \in 1 .. Len(arrived') : arrived'[i] = arrived'[j] => i = j
    <3> DEFINE n == Len(arrived)
    <3>1. /\ Len(arrived') = n + 1 /\ arrived'[n + 1] = s /\ n \in Nat
          /\ \A i \in 1 .. n : arrived'[i] = arrived[i]
      BY <1>1
    <3>2. \A i, j \in 1 .. n : arrived[i] = arrived[j] => i = j
      BY DEF Ownership, ArrivedOnce
    <3>3. \A i \in 1 .. n : arrived[i] # s
      BY <1>1, Places
    <3> HIDE DEF n
    <3>4. \A i \in 1 .. n + 1 : i \in 1 .. n \/ i = n + 1
      BY <3>1
    <3> QED
      BY <3>1, <3>2, <3>3, <3>4
  <2>2. \A a \in ToSet(arrived') : a # s => Before(a, s)'
    BY <1>2, <1>3
  <2> QED
    BY <1>2, <2>1, <2>2 DEF ArrivedOnce
<1>6. QueuesInOrder'
  <2>1. \A k \in Kinds : \A i \in 1 .. Len(queue[k]) : queue[k][i] \in ToSet(arrived)
    <3> SUFFICES ASSUME NEW k \in Kinds, NEW i \in 1 .. Len(queue[k])
                 PROVE  queue[k][i] \in ToSet(arrived)
      OBVIOUS
    <3>1. queue[k][i] \in ToSet(queue[k])
      BY <1>1, Places
    <3> QED
      BY <3>1 DEF Queued, Held, Ownership, OwnedOnce
  <2>2. \A k \in Kinds : Ordered(queue[k])
    BY DEF Ownership, QueuesInOrder
  <2>3. \A k \in Kinds : Ordered(queue[k])'
    BY <1>3, <2>1, <2>2 DEF Ordered
  <2> QED
    BY <2>3 DEF Ownership, QueuesInOrder
<1>7. BatchIsOlder'
  BY <1>1, NothingInEmpty DEF BatchIsOlder
<1>8. OwnedOnce'
  <2>1. Held \cup Taken \cup owed \subseteq ToSet(arrived) /\ Held \cap Taken = {}
    BY DEF Ownership, OwnedOnce
  <2>2. s \notin Held \cup Taken \cup owed /\ None \notin Held \cup Taken \cup owed
    BY <1>1, <2>1, SignalsArrive
  <2> QED
    BY <1>2, <1>4, <2>1, <2>2 DEF OwnedOnce
<1> QED
  BY <1>1, <1>2, <1>3, <1>4, <1>5, <1>6, <1>7, <1>8 DEF Ownership

\* A signal too large for the budget is lost on arrival.
LEMMA RejectStep ==
    ASSUME AggregatorInv, Ownership, NEW s \in Signals, AddRejects(s)
    PROVE  /\ Ownership' /\ Held' = Held /\ Taken' = Taken /\ Lost' = Lost \cup {s}
           /\ s \notin Held \cup Taken \cup Lost
<1>1. /\ Ownership' /\ Held' = Held /\ Taken' = Taken
      /\ ToSet(arrived') = ToSet(arrived) \cup {s} /\ s \notin ToSet(arrived)
  BY ArrivalStep DEF AddRejects, CanAdd, MutexFree
<1>2. Held \cup Taken \subseteq ToSet(arrived) /\ adding = None /\ adding' = None /\ s # None
  BY DEF Ownership, OwnedOnce, AddRejects, CanAdd, MutexFree, AggregatorAssumption
<1> QED
  BY <1>1, <1>2 DEF Lost

\* A signal that add is working on is not lost, nor held yet.
LEMMA LockStep ==
    ASSUME AggregatorInv, Ownership, NEW s \in Signals, AddLocks(s)
    PROVE  Ownership' /\ Held' = Held /\ Taken' = Taken /\ Lost' = Lost
<1>1. /\ Ownership' /\ Held' = Held /\ Taken' = Taken
      /\ ToSet(arrived') = ToSet(arrived) \cup {s} /\ s \notin ToSet(arrived)
  BY ArrivalStep DEF AddLocks
<1>2. None \notin ToSet(arrived)
  BY SignalsArrive
<1>3. adding = None /\ adding' = s
  BY DEF AddLocks, CanAdd, MutexFree
<1> QED
  BY <1>1, <1>2, <1>3 DEF Lost

\* drop_oldest loses one signal, and none older of its kind is left.
LEMMA EvictStep ==
    ASSUME AggregatorInv, Ownership, Evict
    PROVE  \E v \in Held : /\ Ownership' /\ Taken' = Taken
                           /\ Held' = Held \ {v} /\ Lost' = Lost \cup {v}
                           /\ \A s \in Held' : KindOf[s] = KindOf[v] => Before(v, s)
<1> DEFINE k == VictimKind(KindOf[adding])
           v == Head(queue[k])
<1>1. adding \in Signals /\ KindOf[adding] \in Kinds /\ batch = <<>>
  BY DEF AggregatorInv, AggregatorTypeOK, Evict, AggregatorAssumption
<1>2. k \in Kinds /\ queue[k] # <<>>
  BY <1>1, VictimIsNotEmpty DEF Evict
<1> HIDE DEF k
<1>3. /\ queue' = [queue EXCEPT ![k] = Tail(@)]
      /\ UNCHANGED <<adding, drain, batch, batchBytes, arrived, batches, owed>>
  BY DEF Evict, DropHead, k
<1>4. /\ v \in Queued /\ KindOf[v] = k /\ Queued' = Queued \ {v} /\ QueuesInOrder'
      /\ \A s \in ToSet(queue'[k]) : Before(v, s)
  BY <1>2, <1>3, OldestLeaves
<1> HIDE DEF v
<1>5. Held = Queued /\ Held' = Queued'
  BY <1>1, <1>3, NothingInEmpty DEF Held
<1>6. Taken' = Taken
  BY <1>3, TakenStays
<1>7. ArrivedOnce' /\ BatchIsOlder' /\ OwnedOnce'
  <2>1. ArrivedOnce'
    BY <1>3, ArrivalStays DEF Ownership
  <2>2. BatchIsOlder'
    BY <1>1, <1>3, NothingInEmpty DEF BatchIsOlder
  <2>3. OwnedOnce'
    BY <1>3, <1>4, <1>5, <1>6 DEF Ownership, OwnedOnce
  <2> QED
    BY <2>1, <2>2, <2>3
<1>8. Lost' = Lost \cup {v}
  <2>1. v \in ToSet(arrived) /\ v \notin Taken /\ v # adding
    BY <1>4, <1>5 DEF Ownership, OwnedOnce
  <2> QED
    BY <1>3, <1>4, <1>5, <1>6, <2>1 DEF Lost
<1>9. ASSUME NEW s \in Held', KindOf[s] = KindOf[v] PROVE Before(v, s)
  <2>1. PICK j \in Kinds : s \in ToSet(queue'[j])
    BY <1>5, <1>9 DEF Queued
  <2>2. j = k
    BY <1>4, <1>9, <2>1 DEF QueuesInOrder
  <2> QED
    BY <1>4, <2>1, <2>2
<1> QED
  BY <1>4, <1>5, <1>6, <1>7, <1>8, <1>9 DEF Ownership

\* add queues the signal behind every older one, and there is room for it.
LEMMA PushStep ==
    ASSUME AggregatorInv, Ownership, Push
    PROVE  /\ Ownership' /\ Taken' = Taken /\ Lost' = Lost
           /\ adding \in Signals \ (Held \cup Taken \cup Lost)
           /\ Held' = Held \cup {adding}
           /\ IsFiniteSet(Held) /\ Cardinality(Held) < MaxQueueEntries
           /\ \A t \in Lost : ~Before(adding, t)
<1> DEFINE k == KindOf[adding]
<1>1. /\ adding \in Signals /\ k \in Kinds /\ batch = <<>> /\ adding # None
      /\ queue \in [Kinds -> Seq(Signals)] /\ queue[k] \in Seq(Signals)
  BY DEF AggregatorInv, AggregatorTypeOK, Push, AggregatorAssumption
<1>2. /\ queue' = [queue EXCEPT ![k] = Append(@, adding)]
      /\ adding' = None
      /\ UNCHANGED <<dropped, drain, batch, batchBytes, arrived, batches, owed>>
  BY DEF Push
<1> HIDE DEF k
<1>3. queue'[k] = Append(queue[k], adding) /\ \A j \in Kinds \ {k} : queue'[j] = queue[j]
  BY <1>1, <1>2
<1>4. ToSet(queue'[k]) = ToSet(queue[k]) \cup {adding}
  BY <1>1, <1>3, AppendAddsOne
<1>5. Held = Queued /\ Held' = Queued' /\ Taken' = Taken
  BY <1>1, <1>2, NothingInEmpty, TakenStays DEF Held
<1>6. Queued' = Queued \cup {adding}
  <2>1. \A s : s \in Queued <=> \E j \in Kinds : s \in ToSet(queue[j])
    BY DEF Queued
  <2>2. \A s : s \in Queued' <=> \E j \in Kinds : s \in ToSet(queue'[j])
    BY DEF Queued
  <2> QED
    BY <1>1, <1>3, <1>4, <2>1, <2>2
<1>7. /\ adding \in ToSet(arrived) /\ adding \notin Held \cup Taken
      /\ \A s \in ToSet(arrived) : s # adding => Before(s, adding)
  BY <1>1 DEF Ownership, OwnedOnce, ArrivedOnce
<1>8. QueuesInOrder'
  <2>1. \A s \in ToSet(queue[k]) : Before(s, adding)
    <3> SUFFICES ASSUME NEW s \in ToSet(queue[k]) PROVE Before(s, adding)
      OBVIOUS
    <3>1. s \in Held
      BY <1>1, <1>5 DEF Queued
    <3> QED
      BY <1>7, <3>1 DEF Ownership, OwnedOnce
  <2>2. Ordered(queue'[k])
    BY <1>1, <1>3, <2>1, YoungestIsLast DEF Ownership, QueuesInOrder
  <2>3. \A j \in Kinds : Ordered(queue'[j])
    BY <1>3, <2>2 DEF Ownership, QueuesInOrder
  <2>4. \A j \in Kinds : Ordered(queue[j])'
    BY <1>2, <2>3, BeforeStays DEF Ordered
  <2>5. \A j \in Kinds : \A s \in ToSet(queue'[j]) : KindOf[s] = j
    BY <1>3, <1>4 DEF Ownership, QueuesInOrder, k
  <2> QED
    BY <2>4, <2>5 DEF QueuesInOrder
<1>9. ArrivedOnce' /\ BatchIsOlder' /\ OwnedOnce'
  <2>1. ArrivedOnce'
    BY <1>2, ArrivalStays DEF Ownership
  <2>2. BatchIsOlder'
    BY <1>1, <1>2, NothingInEmpty DEF BatchIsOlder
  <2>3. None \notin ToSet(arrived)
    BY SignalsArrive
  <2>4. OwnedOnce'
    BY <1>2, <1>5, <1>6, <1>7, <2>3 DEF Ownership, OwnedOnce
  <2> QED
    BY <2>1, <2>2, <2>4
<1>10. Lost' = Lost /\ adding \notin Lost
  <2>1. None \notin ToSet(arrived)
    BY SignalsArrive
  <2> QED
    BY <1>2, <1>5, <1>6, <2>1 DEF Lost
<1>11. IsFiniteSet(Held) /\ Cardinality(Held) < MaxQueueEntries
  <2>1. QueuesOK
    BY <1>1 DEF QueuesOK
  <2>2. TotalEntries \in Nat /\ ~(TotalEntries >= MaxQueueEntries)
    BY <2>1, EntriesAreCounted DEF Push, OverBudget
  <2>3. IsFiniteSet(Queued) /\ Cardinality(Queued) <= TotalEntries /\ Cardinality(Queued) \in Nat
    BY <2>1, QueuedWithinEntries, FS_CardinalityType
  <2> QED
    BY <1>5, <2>2, <2>3, LimitsAreNat
<1>12. \A t \in Lost : ~Before(adding, t)
  BY <1>7, BeforeIsStrict DEF Lost, Ownership
<1> QED
  BY <1>1, <1>5, <1>6, <1>7, <1>8, <1>9, <1>10, <1>11, <1>12 DEF Ownership

\* A signal that a getter pops is still held: it has only left its queue.
LEMMA PopStep ==
    ASSUME AggregatorInv, Ownership, PopFirst \/ PopNext
    PROVE  Ownership' /\ Held' = Held /\ Taken' = Taken /\ Lost' = Lost
<1> DEFINE v == Head(queue[drain])
<1>1. drain \in Kinds /\ queue[drain] # <<>> /\ adding = None /\ Pop
  BY DEF PopFirst, PopNext, NextFits, MutexFree, AggregatorInv, AggregatorTypeOK
<1>2. /\ queue' = [queue EXCEPT ![drain] = Tail(@)] /\ batch' = Append(batch, v)
      /\ UNCHANGED <<bytes, dropped, adding, drain, arrived, batches, owed>>
  BY <1>1 DEF Pop
<1>3. /\ v \in Queued /\ KindOf[v] = drain /\ Queued' = Queued \ {v} /\ QueuesInOrder'
      /\ \A s \in ToSet(queue'[drain]) : Before(v, s)
  BY <1>1, <1>2, OldestLeaves
<1>4. batch \in Seq(Signals) /\ queue \in [Kinds -> Seq(Signals)] /\ v \in Signals
  <2>1. batch \in Seq(Signals) /\ queue \in [Kinds -> Seq(Signals)]
    BY DEF AggregatorInv, AggregatorTypeOK
  <2>2. queue[drain] \in Seq(Signals)
    BY <1>1, <2>1
  <2> QED
    BY <1>1, <2>1, <2>2, PopShortens
<1>5. ToSet(queue[drain]) = ToSet(queue'[drain]) \cup {v}
  <2>1. queue[drain] \in Seq(Signals) /\ queue'[drain] = Tail(queue[drain])
    BY <1>1, <1>2, <1>4
  <2> QED
    BY <1>1, <2>1, HeadAndTail
<1> HIDE DEF v
<1>6. ToSet(batch') = ToSet(batch) \cup {v}
  BY <1>2, <1>4, AppendAddsOne
<1>7. Held' = Held /\ Taken' = Taken
  BY <1>2, <1>3, <1>6, TakenStays DEF Held
<1>8. BatchIsOlder'
  <2>1. \A s \in ToSet(batch') : KindOf[s] = drain
    BY <1>3, <1>6 DEF Ownership, BatchIsOlder
  <2>2. ASSUME NEW s \in ToSet(batch'), NEW t \in ToSet(queue'[drain])
        PROVE  Before(s, t)
    BY <1>3, <1>5, <1>6 DEF Ownership, BatchIsOlder
  <2> QED
    BY <1>2, <2>1, <2>2, BeforeStays DEF BatchIsOlder
<1>9. ArrivedOnce' /\ OwnedOnce' /\ Lost' = Lost
  <2>1. ArrivedOnce'
    BY <1>2, ArrivalStays DEF Ownership
  <2> QED
    BY <1>2, <1>7, <2>1 DEF Ownership, OwnedOnce, Lost
<1> QED
  BY <1>3, <1>7, <1>8, <1>9 DEF Ownership

\* A finished batch is taken as a whole.
LEMMA BatchStep ==
    ASSUME AggregatorInv, Ownership, BatchReady
    PROVE  /\ Ownership' /\ ToSet(batch) # {} /\ ToSet(batch) \subseteq Held
           /\ Held' = Held \ ToSet(batch) /\ Taken' = Taken \cup ToSet(batch)
           /\ Lost' = Lost
<1>1. /\ batch \in Seq(Signals) /\ batch # <<>> /\ batches \in Seq(Seq(Signals))
      /\ queue \in [Kinds -> Seq(Signals)]
  BY DEF BatchReady, AggregatorInv, AggregatorTypeOK
<1>2. /\ batches' = Append(batches, batch) /\ batch' = <<>>
      /\ UNCHANGED <<queue, dropped, adding, drain, arrived, owed>>
  BY DEF BatchReady
<1>3. Taken' = Taken \cup ToSet(batch)
  <2> DEFINE n == Len(batches)
  <2>1. /\ n \in Nat /\ Len(batches') = n + 1 /\ batches'[n + 1] = batch
        /\ \A i \in 1 .. n : batches'[i] = batches[i]
    BY <1>1, <1>2
  <2>2. \A s : s \in Taken <=> \E i \in 1 .. n : s \in ToSet(batches[i])
    BY DEF Taken
  <2>3. \A s : s \in Taken' <=> \E i \in 1 .. Len(batches') : s \in ToSet(batches'[i])
    BY DEF Taken
  <2> HIDE DEF n
  <2>4. \A i \in 1 .. n + 1 : i \in 1 .. n \/ i = n + 1
    BY <2>1
  <2>5. \A i \in 1 .. n : i \in 1 .. n + 1
    BY <2>1
  <2>6. n + 1 \in 1 .. n + 1
    BY <2>1
  <2>7. ASSUME NEW s \in Taken' PROVE s \in Taken \cup ToSet(batch)
    BY <2>1, <2>2, <2>3, <2>4
  <2>8. ASSUME NEW s \in Taken \cup ToSet(batch) PROVE s \in Taken'
    <3>1. CASE s \in Taken
      BY <2>1, <2>2, <2>3, <2>5, <3>1
    <3>2. CASE s \in ToSet(batch)
      BY <2>1, <2>3, <2>6, <3>2
    <3> QED
      BY <3>1, <3>2
  <2> QED
    BY <2>7, <2>8
<1>4. ToSet(batch) # {} /\ ToSet(batch) \subseteq Held
  BY <1>1, NotEmptyHasElements DEF Held
<1>5. Held' = Queued /\ Queued' = Queued
  BY <1>2, NothingInEmpty DEF Held, Queued
<1>6. ToSet(batch) \cap Queued = {}
  <2> SUFFICES ASSUME NEW s \in ToSet(batch), NEW j \in Kinds, s \in ToSet(queue[j])
               PROVE  FALSE
    BY DEF Queued
  <2>1. j = drain
    BY DEF Ownership, QueuesInOrder, BatchIsOlder
  <2>2. Before(s, s)
    BY <2>1 DEF Ownership, BatchIsOlder
  <2> QED
    BY <2>2, BeforeIsStrict DEF Ownership
<1>7. Held' = Held \ ToSet(batch)
  BY <1>5, <1>6 DEF Held
<1>8. QueuesInOrder'
  BY <1>2, BeforeStays DEF Ownership, QueuesInOrder, Ordered
<1>9. ArrivedOnce' /\ BatchIsOlder'
  BY <1>2, ArrivalStays, NothingInEmpty DEF Ownership, BatchIsOlder
<1>10. OwnedOnce' /\ Lost' = Lost
  BY <1>2, <1>3, <1>4, <1>7 DEF Ownership, OwnedOnce, Lost
<1> QED
  BY <1>3, <1>4, <1>7, <1>8, <1>9, <1>10 DEF Ownership

\* Where a signal is does not depend on how far the drain is.
LEMMA DrainStep ==
    ASSUME AggregatorInv, Ownership,
           DrainBegins \/ KindExhausted \/ UNCHANGED aggregatorVars
    PROVE  Ownership' /\ Held' = Held /\ Taken' = Taken /\ Lost' = Lost
<1>1. /\ UNCHANGED <<queue, dropped, adding, batch, arrived, batches>>
      /\ owed' \in {owed, Queued} /\ (drain' = drain \/ batch = <<>>)
  <2>1. CASE DrainBegins
    <3>1. batch = <<>>
      BY <2>1 DEF DrainBegins, AggregatorInv, Kinds
    <3> QED
      BY <2>1, <3>1 DEF DrainBegins
  <2>2. CASE KindExhausted
    BY <2>2 DEF KindExhausted, MutexFree
  <2>3. CASE UNCHANGED aggregatorVars
    BY <2>3 DEF aggregatorVars
  <2> QED
    BY <2>1, <2>2, <2>3
<1>2. Held' = Held /\ Taken' = Taken /\ Queued' = Queued
  BY <1>1, HeldStays, TakenStays
<1>3. QueuesInOrder'
  BY <1>1, BeforeStays DEF Ownership, QueuesInOrder, Ordered
<1>4. ArrivedOnce'
  BY <1>1, ArrivalStays DEF Ownership
<1>5. BatchIsOlder'
  <2>1. CASE batch = <<>>
    BY <1>1, <2>1, NothingInEmpty DEF BatchIsOlder
  <2>2. CASE drain' = drain
    BY <1>1, <2>2, BeforeStays DEF Ownership, BatchIsOlder
  <2> QED
    BY <1>1, <2>1, <2>2
<1>6. OwnedOnce' /\ Lost' = Lost
  BY <1>1, <1>2 DEF Ownership, OwnedOnce, Lost, Held
<1> QED
  BY <1>2, <1>3, <1>4, <1>5, <1>6 DEF Ownership

-----------------------------------------------------------------------------
(* What follows for every behaviour. *)

LEMMA InitOwnership ==
    AggregatorInit => Ownership /\ Held = {} /\ Taken = {} /\ Lost = {}
<1> SUFFICES ASSUME AggregatorInit
             PROVE  Ownership /\ Held = {} /\ Taken = {} /\ Lost = {}
  OBVIOUS
<1>1. /\ \A k \in Kinds : queue[k] = <<>>
      /\ arrived = <<>> /\ batch = <<>> /\ batches = <<>> /\ owed = {} /\ adding = None
  BY DEF AggregatorInit
<1>2. Held = {} /\ Taken = {} /\ Lost = {}
  BY <1>1, NothingInEmpty DEF Held, Queued, Taken, Lost
<1>3. ArrivedOnce /\ QueuesInOrder /\ BatchIsOlder
  BY <1>1, NothingInEmpty DEF ArrivedOnce, QueuesInOrder, BatchIsOlder, Ordered
<1>4. OwnedOnce
  BY <1>1, <1>2 DEF OwnedOnce
<1> QED
  BY <1>2, <1>3, <1>4 DEF Ownership

LEMMA StepPreservesOwnership ==
    AggregatorInv /\ Ownership /\ [AggregatorNext]_aggregatorVars => Ownership'
BY RejectStep, LockStep, EvictStep, PushStep, PopStep, BatchStep, DrainStep DEF AggregatorNext

\* Every signal is owned in one place, and the queues are in the order of arrival.
THEOREM OwnershipInvariant == AggregatorSpec => []Ownership
<1>1. AggregatorInit => Ownership
  BY InitOwnership
<1> QED
  BY <1>1, StepPreservesOwnership, AggregatorInvariant, PTL DEF AggregatorSpec

\* All that came before stays in its order when something new arrives.
LEMMA ArrivalKeepsOrder ==
    ASSUME AggregatorInv, Ownership, KindOrderKept,
           \A a, b \in ToSet(arrived) : Before(a, b)' <=> Before(a, b),
           UNCHANGED <<queue, batch, batches>>
    PROVE  KindOrderKept'
<1> DEFINE known == ToSet(arrived)
<1>1. /\ batch \in Seq(Signals) /\ batches \in Seq(Seq(Signals))
      /\ queue \in [Kinds -> Seq(Signals)]
  BY DEF AggregatorInv, AggregatorTypeOK
<1>2. Held \subseteq known /\ Taken \subseteq known /\ Queued \subseteq Held /\ ToSet(batch) \subseteq Held
  BY DEF Ownership, OwnedOnce, Held
<1>3. \A b \in 1 .. Len(batches) : ToSet(batches[b]) \subseteq Taken
  BY DEF Taken
<1>4. \A k \in Kinds : ToSet(queue[k]) \subseteq Queued
  BY DEF Queued
<1>5. Held' = Held /\ Taken' = Taken /\ Queued' = Queued
  BY HeldStays, TakenStays
<1> HIDE DEF known
<1>6. ASSUME NEW q \in Seq(Signals), ToSet(q) \subseteq known, Ordered(q) PROVE Ordered(q)'
  <2>1. \A i \in 1 .. Len(q) : q[i] \in known
    BY <1>6, Places
  <2> QED
    BY <1>6, <2>1 DEF Ordered, known
<1>7. ASSUME NEW S, NEW T, S \subseteq known, T \subseteq known, Older(S, T)
      PROVE  \A s \in S, t \in T : KindOf[s] = KindOf[t] => Before(s, t)'
  BY <1>7 DEF Older, known
<1>8. \A k \in Kinds : Ordered(queue[k])'
  BY <1>1, <1>2, <1>4, <1>6 DEF KindOrderKept
<1>9. \A b \in 1 .. Len(batches) : Ordered(batches[b])'
  <2>1. \A b \in 1 .. Len(batches) : batches[b] \in Seq(Signals)
    BY <1>1
  <2> QED
    BY <1>2, <1>3, <1>6, <2>1 DEF KindOrderKept
<1>10. Ordered(batch)'
  BY <1>1, <1>2, <1>6 DEF KindOrderKept
<1>11. Older(ToSet(batch), Queued)' /\ Older(Taken, Held)'
  BY <1>2, <1>5, <1>7 DEF KindOrderKept, Older
<1>12. \A b, c \in 1 .. Len(batches) : b < c => Older(ToSet(batches[b]), ToSet(batches[c]))'
  BY <1>2, <1>3, <1>7 DEF KindOrderKept, Older
<1> QED
  BY <1>8, <1>9, <1>10, <1>11, <1>12 DEF KindOrderKept

\* Nor does the drain's progress change it.
LEMMA DrainKeepsOrder ==
    ASSUME KindOrderKept, UNCHANGED <<queue, batch, batches, arrived>>
    PROVE  KindOrderKept'
<1>1. Held' = Held /\ Taken' = Taken /\ Queued' = Queued
  BY HeldStays, TakenStays
<1> QED
  BY <1>1, BeforeStays DEF KindOrderKept, Ordered, Older

\* An eviction takes from the queues only.
LEMMA EvictKeepsOrder ==
    ASSUME AggregatorInv, Ownership, KindOrderKept, Evict
    PROVE  KindOrderKept'
<1>1. UNCHANGED <<batch, batches, arrived>> /\ batch = <<>>
  BY DEF Evict, DropHead, AggregatorInv
<1>2. Ownership' /\ Taken' = Taken /\ Held' \subseteq Held
  BY EvictStep
<1>3. \A k \in Kinds : Ordered(queue[k])'
  BY <1>2 DEF Ownership, QueuesInOrder
<1>4. Ordered(batch)' /\ \A b \in 1 .. Len(batches) : Ordered(batches[b])'
  BY <1>1, BeforeStays DEF KindOrderKept, Ordered
<1>5. Older(ToSet(batch), Queued)'
  BY <1>1, NothingInEmpty DEF Older
<1>6. Older(Taken, Held)'
  BY <1>1, <1>2, BeforeStays DEF KindOrderKept, Older
<1>7. \A b, c \in 1 .. Len(batches) : b < c => Older(ToSet(batches[b]), ToSet(batches[c]))'
  BY <1>1, BeforeStays DEF KindOrderKept, Older
<1> QED
  BY <1>1, <1>3, <1>4, <1>5, <1>6, <1>7 DEF KindOrderKept

\* What add pushes is younger than all that have left.
LEMMA PushKeepsOrder ==
    ASSUME AggregatorInv, Ownership, KindOrderKept, Push
    PROVE  KindOrderKept'
<1>1. UNCHANGED <<batch, batches, arrived>> /\ batch = <<>> /\ adding # None
  BY DEF Push, AggregatorInv
<1>2. /\ Ownership' /\ Taken' = Taken /\ Held' = Held \cup {adding}
      /\ adding \notin Taken
  BY PushStep
<1>3. \A k \in Kinds : Ordered(queue[k])'
  BY <1>2 DEF Ownership, QueuesInOrder
<1>4. Ordered(batch)' /\ \A b \in 1 .. Len(batches) : Ordered(batches[b])'
  BY <1>1, BeforeStays DEF KindOrderKept, Ordered
<1>5. Older(ToSet(batch), Queued)'
  BY <1>1, NothingInEmpty DEF Older
<1>6. Older(Taken, Held)'
  <2>1. \A s \in Taken : Before(s, adding)
    BY <1>1, <1>2 DEF Ownership, OwnedOnce, ArrivedOnce
  <2>2. \A s \in Taken', t \in Held' : KindOf[s] = KindOf[t] => Before(s, t)
    BY <1>2, <2>1 DEF KindOrderKept, Older
  <2> QED
    BY <1>1, <2>2, BeforeStays DEF Older
<1>7. \A b, c \in 1 .. Len(batches) : b < c => Older(ToSet(batches[b]), ToSet(batches[c]))'
  BY <1>1, BeforeStays DEF KindOrderKept, Older
<1> QED
  BY <1>1, <1>3, <1>4, <1>5, <1>6, <1>7 DEF KindOrderKept

\* What a getter pops is younger than what it has popped, and older than the rest.
LEMMA PopKeepsOrder ==
    ASSUME AggregatorInv, Ownership, KindOrderKept, PopFirst \/ PopNext
    PROVE  KindOrderKept'
<1> DEFINE v == Head(queue[drain])
<1>1. drain \in Kinds /\ queue[drain] # <<>> /\ Pop
  BY DEF PopFirst, PopNext, NextFits, AggregatorInv, AggregatorTypeOK
<1>2. /\ queue' = [queue EXCEPT ![drain] = Tail(@)] /\ batch' = Append(batch, v)
      /\ UNCHANGED <<drain, arrived, batches>>
  BY <1>1 DEF Pop
<1>3. batch \in Seq(Signals) /\ v \in Signals
  <2>1. batch \in Seq(Signals) /\ queue \in [Kinds -> Seq(Signals)]
    BY DEF AggregatorInv, AggregatorTypeOK
  <2>2. queue[drain] \in Seq(Signals)
    BY <1>1, <2>1
  <2> QED
    BY <1>1, <2>1, <2>2, PopShortens
<1>4. v \in ToSet(queue[drain])
  <2>1. queue[drain] \in Seq(Signals)
    BY <1>1 DEF AggregatorInv, AggregatorTypeOK
  <2> QED
    BY <1>1, <2>1, HeadAndTail
<1>5. Ownership' /\ Taken' = Taken /\ Held' = Held
  BY PopStep
<1> HIDE DEF v
<1>6. \A k \in Kinds : Ordered(queue[k])'
  BY <1>5 DEF Ownership, QueuesInOrder
<1>7. Ordered(batch)'
  <2>1. \A s \in ToSet(batch) : Before(s, v)
    BY <1>4 DEF Ownership, BatchIsOlder
  <2>2. Ordered(Append(batch, v))
    BY <1>3, <2>1, YoungestIsLast DEF KindOrderKept
  <2> QED
    BY <1>2, <2>2, BeforeStays DEF Ordered
<1>8. Older(ToSet(batch), Queued)'
  <2>1. ASSUME NEW s \in ToSet(batch'), NEW t \in Queued', KindOf[s] = KindOf[t]
        PROVE  Before(s, t)'
    <3>1. PICK k \in Kinds : t \in ToSet(queue'[k])
      BY DEF Queued
    <3>2. KindOf[s] = drain' /\ KindOf[t] = k
      BY <1>5, <3>1 DEF Ownership, QueuesInOrder, BatchIsOlder
    <3> QED
      BY <1>5, <2>1, <3>1, <3>2 DEF Ownership, BatchIsOlder
  <2> QED
    BY <2>1 DEF Older
<1>9. Older(Taken, Held)' /\ \A b \in 1 .. Len(batches) : Ordered(batches[b])'
  BY <1>2, <1>5, BeforeStays DEF KindOrderKept, Older, Ordered
<1>10. \A b, c \in 1 .. Len(batches) : b < c => Older(ToSet(batches[b]), ToSet(batches[c]))'
  BY <1>2, BeforeStays DEF KindOrderKept, Older
<1> QED
  BY <1>2, <1>6, <1>7, <1>8, <1>9, <1>10 DEF KindOrderKept

\* A batch that is returned is behind the earlier ones and ahead of the queues.
LEMMA BatchKeepsOrder ==
    ASSUME AggregatorInv, Ownership, KindOrderKept, BatchReady
    PROVE  KindOrderKept'
<1> DEFINE n == Len(batches)
           popped == ToSet(batch)
<1>1. /\ batch \in Seq(Signals) /\ batches \in Seq(Seq(Signals))
      /\ batches' = Append(batches, batch) /\ batch' = <<>> /\ UNCHANGED <<queue, arrived>>
  BY DEF BatchReady, AggregatorInv, AggregatorTypeOK
<1>2. /\ n \in Nat /\ Len(batches') = n + 1 /\ batches'[n + 1] = batch
      /\ \A b \in 1 .. n : batches'[b] = batches[b]
  BY <1>1
<1>3. /\ Ownership' /\ Taken' = Taken \cup popped /\ popped \subseteq Held
      /\ Held' = Queued /\ Held' \subseteq Held
  <2>1. Held' = Queued
    BY <1>1, NothingInEmpty DEF Held, Queued
  <2> QED
    BY <2>1, BatchStep
<1>4. \A b \in 1 .. n : ToSet(batches[b]) \subseteq Taken
  BY DEF Taken
<1> HIDE DEF n, popped
<1>5. \A b \in 1 .. n + 1 : b \in 1 .. n \/ b = n + 1
  BY <1>2
<1>6. \A k \in Kinds : Ordered(queue[k])'
  BY <1>3 DEF Ownership, QueuesInOrder
<1>7. Ordered(batch)' /\ Older(ToSet(batch), Queued)'
  BY <1>1, NothingInEmpty DEF Ordered, Older
<1>8. \A b \in 1 .. n + 1 : Ordered(batches[b])'
  <2>1. \A b \in 1 .. n + 1 : Ordered(batches'[b])
    BY <1>2, <1>5 DEF KindOrderKept, n
  <2> QED
    BY <1>1, <2>1, BeforeStays DEF Ordered
<1>9. Older(Taken, Held)'
  <2>1. \A s \in Taken', t \in Held' : KindOf[s] = KindOf[t] => Before(s, t)
    BY <1>3 DEF KindOrderKept, Older, popped
  <2> QED
    BY <1>1, <2>1, BeforeStays DEF Older
<1>10. \A b, c \in 1 .. n + 1 : b < c => Older(ToSet(batches[b]), ToSet(batches[c]))'
  <2> SUFFICES ASSUME NEW b \in 1 .. n + 1, NEW c \in 1 .. n + 1, b < c
               PROVE  \A s \in ToSet(batches'[b]), t \in ToSet(batches'[c]) :
                         KindOf[s] = KindOf[t] => Before(s, t)
    BY <1>1, BeforeStays DEF Older
  <2>1. b \in 1 .. n
    BY <1>2
  <2>2. CASE c \in 1 .. n
    BY <1>2, <2>1, <2>2 DEF KindOrderKept, Older, n
  <2>3. CASE c = n + 1
    BY <1>2, <1>3, <1>4, <2>1, <2>3 DEF KindOrderKept, Older, popped
  <2> QED
    BY <1>5, <2>2, <2>3
<1> QED
  BY <1>2, <1>6, <1>7, <1>8, <1>9, <1>10 DEF KindOrderKept

\* Per kind signals leave in the order of their arrival: no getter (take_batch) and no
\* eviction (drop_oldest) lets one overtake another, nor is one in two places.
THEOREM OrderOfKindsIsKept == AggregatorSpec => []KindOrderKept
<1>1. AggregatorInit => KindOrderKept
  <2> SUFFICES ASSUME AggregatorInit PROVE KindOrderKept
    OBVIOUS
  <2>1. batch = <<>> /\ batches = <<>> /\ \A k \in Kinds : queue[k] = <<>>
    BY DEF AggregatorInit
  <2>2. Taken = {} /\ ToSet(batch) = {}
    BY <2>1, NothingInEmpty DEF Taken
  <2> QED
    BY <2>1, <2>2 DEF KindOrderKept, Ordered, Older
<1>2. ASSUME AggregatorInv, Ownership, KindOrderKept, [AggregatorNext]_aggregatorVars
      PROVE  KindOrderKept'
  <2>1. ASSUME NEW s \in Signals, AddRejects(s) \/ AddLocks(s) PROVE KindOrderKept'
    <3>1. /\ CanAdd(s) /\ arrived' = Append(arrived, s) /\ adding' \in {None, s}
          /\ UNCHANGED <<queue, drain, batch, batches, owed>>
      BY <2>1 DEF AddRejects, AddLocks, CanAdd, MutexFree
    <3>2. \A a, b \in ToSet(arrived) : Before(a, b)' <=> Before(a, b)
      BY <1>2, <3>1, ArrivalStep
    <3> QED
      BY <1>2, <3>1, <3>2, ArrivalKeepsOrder
  <2>2. CASE Evict
    BY <1>2, <2>2, EvictKeepsOrder
  <2>3. CASE Push
    BY <1>2, <2>3, PushKeepsOrder
  <2>4. CASE PopFirst \/ PopNext
    BY <1>2, <2>4, PopKeepsOrder
  <2>5. CASE BatchReady
    BY <1>2, <2>5, BatchKeepsOrder
  <2>6. CASE DrainBegins \/ KindExhausted \/ UNCHANGED aggregatorVars
    BY <1>2, <2>6, DrainKeepsOrder DEF DrainBegins, KindExhausted, aggregatorVars
  <2> QED
    BY <1>2, <2>1, <2>2, <2>3, <2>4, <2>5, <2>6 DEF AggregatorNext
<1> QED
  BY <1>1, <1>2, AggregatorInvariant, OwnershipInvariant, PTL DEF AggregatorSpec

\* A signal is lost only after every older one of its kind has left, but for those
\* rejected on arrival: drop_oldest (aggregator.rs) never skips one.
LEMMA StepPreservesOldestGoesFirst ==
    AggregatorInv /\ Ownership /\ OldestGoesFirst /\ [AggregatorNext]_aggregatorVars
        => OldestGoesFirst'
<1> SUFFICES ASSUME AggregatorInv, Ownership, OldestGoesFirst,
                    [AggregatorNext]_aggregatorVars,
                    NEW s \in Held', NEW t \in Lost', KindOf[s] = KindOf[t], Before(s, t)'
             PROVE  SizeOf[t] > MaxQueueBytes
  BY DEF OldestGoesFirst
<1>1. CASE s \in Held /\ t \in Lost /\ Before(s, t)
  BY <1>1 DEF OldestGoesFirst
<1>2. Held \subseteq ToSet(arrived) /\ Lost \subseteq ToSet(arrived)
  BY DEF Ownership, OwnedOnce, Lost
<1>3. ASSUME NEW a \in Signals, AddRejects(a) PROVE SizeOf[t] > MaxQueueBytes
  <2>1. Held' = Held /\ Lost' = Lost \cup {a}
    BY <1>3, RejectStep
  <2>2. CASE t = a
    BY <1>3, <2>2 DEF AddRejects
  <2>3. CASE t \in Lost
    <3>1. Before(s, t)
      BY <1>2, <1>3, <2>1, <2>3, ArrivalStep DEF AddRejects, CanAdd, MutexFree
    <3> QED
      BY <1>1, <2>1, <2>3, <3>1
  <2> QED
    BY <2>1, <2>2, <2>3
<1>4. ASSUME NEW a \in Signals, AddLocks(a) PROVE SizeOf[t] > MaxQueueBytes
  <2>1. Held' = Held /\ Lost' = Lost
    BY <1>4, LockStep
  <2>2. Before(s, t)
    BY <1>2, <1>4, <2>1, ArrivalStep DEF AddLocks
  <2> QED
    BY <1>1, <2>1, <2>2
<1>5. CASE Evict
  <2>1. PICK v \in Held : /\ Held' = Held \ {v} /\ Lost' = Lost \cup {v}
                          /\ \A u \in Held' : KindOf[u] = KindOf[v] => Before(v, u)
    BY <1>5, EvictStep
  <2>2. Before(s, t)
    BY <1>5, BeforeStays DEF Evict
  <2>3. t # v
    BY <2>1, <2>2, BeforeIsStrict DEF Ownership
  <2> QED
    BY <1>1, <2>1, <2>2, <2>3
<1>6. CASE Push
  <2>1. /\ Held' = Held \cup {adding} /\ Lost' = Lost
        /\ \A u \in Lost : ~Before(adding, u)
    BY <1>6, PushStep
  <2>2. Before(s, t)
    BY <1>6, BeforeStays DEF Push
  <2> QED
    BY <1>1, <2>1, <2>2
<1>7. CASE PopFirst \/ PopNext
  <2>1. Held' = Held /\ Lost' = Lost /\ Before(s, t)
    BY <1>7, PopStep, BeforeStays DEF PopFirst, PopNext, Pop
  <2> QED
    BY <1>1, <2>1
<1>8. CASE BatchReady
  <2>1. Held' \subseteq Held /\ Lost' = Lost /\ Before(s, t)
    BY <1>8, BatchStep, BeforeStays DEF BatchReady
  <2> QED
    BY <1>1, <2>1
<1>9. CASE DrainBegins \/ KindExhausted \/ UNCHANGED aggregatorVars
  <2>1. Held' = Held /\ Lost' = Lost /\ Before(s, t)
    BY <1>9, DrainStep, BeforeStays DEF DrainBegins, KindExhausted, aggregatorVars
  <2> QED
    BY <1>1, <2>1
<1> QED
  BY <1>3, <1>4, <1>5, <1>6, <1>7, <1>8, <1>9 DEF AggregatorNext

\* What the queues lose under pressure is always their oldest part (drop_oldest,
\* aggregator.rs), for every mixture of kinds and sizes and while drains run.
THEOREM OldestAlwaysGoesFirst == AggregatorSpec => []OldestGoesFirst
<1>1. AggregatorInit => OldestGoesFirst
  BY InitOwnership DEF OldestGoesFirst
<1> QED
  BY <1>1, StepPreservesOldestGoesFirst, AggregatorInvariant, OwnershipInvariant, PTL
     DEF AggregatorSpec

\* The initial state of the aggregator is the empty buffer.
LEMMA InitIsEmptyBuffer == AggregatorInit => Buffer!BufferInit
BY InitOwnership DEF Buffer!BufferInit, AggregatorInit

\* Every step of the aggregator is a step of the buffer, or none of its business.
LEMMA StepIsBufferStep ==
    AggregatorInv /\ Ownership /\ [AggregatorNext]_aggregatorVars
        => [Buffer!BufferNext]_(Buffer!bufferVars)
<1> SUFFICES ASSUME AggregatorInv, Ownership, [AggregatorNext]_aggregatorVars
             PROVE  [Buffer!BufferNext]_(Buffer!bufferVars)
  OBVIOUS
<1> USE DEF Buffer!BufferNext, Buffer!bufferVars
<1>1. ASSUME NEW s \in Signals, AddRejects(s) PROVE Buffer!TurnAway
  <2>1. dropped' = dropped + 1
    BY <1>1 DEF AddRejects
  <2> QED
    BY <1>1, <2>1, RejectStep DEF Buffer!TurnAway, Buffer!Fresh
<1>2. ASSUME NEW s \in Signals, AddLocks(s) PROVE UNCHANGED Buffer!bufferVars
  BY <1>2, LockStep DEF AddLocks
<1>3. CASE Evict
  <2>1. dropped' = dropped + 1
    BY <1>3 DEF Evict, DropHead
  <2> QED
    BY <1>3, <2>1, EvictStep DEF Buffer!GiveWay
<1>4. CASE Push
  <2>1. dropped' = dropped
    BY <1>4 DEF Push
  <2>2. /\ Cardinality(Held) < MaxQueueEntries /\ Taken' = Taken /\ Lost' = Lost
        /\ adding \in Signals \ (Held \cup Taken \cup Lost) /\ Held' = Held \cup {adding}
    BY <1>4, PushStep
  <2>3. Buffer!Cardinality(Held) = Cardinality(Held)
    BY Zenon DEF Buffer!Cardinality, Cardinality
  <2>4. Buffer!Accept
    BY Zenon, <2>1, <2>2, <2>3 DEF Buffer!Accept, Buffer!Fresh
  <2> QED
    BY <2>4
<1>5. CASE PopFirst \/ PopNext
  BY <1>5, PopStep DEF PopFirst, PopNext, Pop
<1>6. CASE BatchReady
  <2>1. dropped' = dropped
    BY <1>6 DEF BatchReady
  <2>2. /\ ToSet(batch) # {} /\ ToSet(batch) \subseteq Held /\ Lost' = Lost
        /\ Held' = Held \ ToSet(batch) /\ Taken' = Taken \cup ToSet(batch)
    BY <1>6, BatchStep
  <2>3. ToSet(batch) \in (SUBSET Held) \ {{}}
    BY Zenon, <2>2
  <2>4. Buffer!Take
    BY Zenon, <2>1, <2>2, <2>3 DEF Buffer!Take
  <2> QED
    BY <2>4
<1>7. CASE DrainBegins \/ KindExhausted \/ UNCHANGED aggregatorVars
  BY <1>7, DrainStep DEF DrainBegins, KindExhausted, aggregatorVars
<1> QED
  BY <1>1, <1>2, <1>3, <1>4, <1>5, <1>6, <1>7 DEF AggregatorNext

\* The aggregator is the lossy buffer it promises to be: a signal is held until it is
\* taken exactly once or lost, every loss is counted, and the limit on entries holds.
THEOREM AggregatorIsLossyBuffer == AggregatorSpec => ImplementsLossyBuffer
<1> QED
  BY InitIsEmptyBuffer, StepIsBufferStep, AggregatorInvariant, OwnershipInvariant, PTL
     DEF AggregatorSpec, ImplementsLossyBuffer, Buffer!BufferSpec

-----------------------------------------------------------------------------
(* The drain. *)

\* The kinds that get_all_batches has still to empty.
Ahead(k) == CASE k = "traces"  -> Kinds
              [] k = "metrics" -> {"metrics", "logs"}
              [] k = "logs"    -> {"logs"}

\* What was queued when the drain began, and is still held, is of a kind ahead.
OwedIsAhead == drain # "idle" => \A s \in owed \cap Held : KindOf[s] \in Ahead(drain)

\* A getter that returns nothing leaves nothing of its kind behind.
LEMMA ExhaustedIsEmpty ==
    ASSUME AggregatorInv, Ownership, KindExhausted, NEW s \in Held
    PROVE  KindOf[s] # drain
<1>1. batch = <<>> /\ queue[drain] = <<>>
  BY DEF KindExhausted, MutexFree
<1>2. PICK j \in Kinds : s \in ToSet(queue[j])
  BY <1>1, NothingInEmpty DEF Held, Queued
<1> QED
  BY <1>1, <1>2, NothingInEmpty DEF Ownership, QueuesInOrder

LEMMA StepPreservesOwedIsAhead ==
    AggregatorInv /\ Ownership /\ OwedIsAhead /\ [AggregatorNext]_aggregatorVars
        => OwedIsAhead'
<1> SUFFICES ASSUME AggregatorInv, Ownership, OwedIsAhead, [AggregatorNext]_aggregatorVars,
                    drain' # "idle", NEW s \in owed', s \in Held'
             PROVE  KindOf[s] \in Ahead(drain')
  BY DEF OwedIsAhead, Ahead
<1>1. CASE UNCHANGED <<drain, owed>> /\ s \in Held
  BY <1>1 DEF OwedIsAhead
<1>2. ASSUME NEW a \in Signals, AddRejects(a) \/ AddLocks(a) PROVE KindOf[s] \in Ahead(drain')
  BY <1>1, <1>2, RejectStep, LockStep DEF AddRejects, AddLocks
<1>3. CASE Evict
  BY <1>1, <1>3, EvictStep DEF Evict
<1>4. CASE Push
  <2>1. Held' = Held \cup {adding} /\ owed' = owed /\ drain' = drain
    BY <1>4, PushStep DEF Push
  <2>2. adding \notin owed
    BY DEF Ownership, OwnedOnce
  <2> QED
    BY <1>1, <2>1, <2>2
<1>5. CASE PopFirst \/ PopNext
  BY <1>1, <1>5, PopStep DEF PopFirst, PopNext, Pop
<1>6. CASE BatchReady
  BY <1>1, <1>6, BatchStep DEF BatchReady
<1>7. CASE DrainBegins
  <2>1. drain' = "traces" /\ Held' = Held
    BY <1>7, DrainStep DEF DrainBegins
  <2>2. s \in Signals
    BY <2>1, SignalsArrive DEF Ownership, OwnedOnce
  <2> QED
    BY <2>1, <2>2 DEF Ahead, AggregatorAssumption
<1>8. CASE KindExhausted
  <2>1. drain' = NextPhase(drain) /\ Held' = Held /\ owed' = owed /\ drain # "idle"
    BY <1>8, DrainStep DEF KindExhausted
  <2>2. KindOf[s] \in Ahead(drain) /\ KindOf[s] # drain
    BY <1>8, <2>1, ExhaustedIsEmpty DEF OwedIsAhead
  <2>3. drain \in Kinds
    BY <2>1 DEF AggregatorInv, AggregatorTypeOK
  <2>4. CASE drain = "traces"
    BY <2>1, <2>2, <2>4 DEF NextPhase, Ahead, Kinds
  <2>5. CASE drain = "metrics"
    BY <2>1, <2>2, <2>5 DEF NextPhase, Ahead, Kinds
  <2>6. CASE drain = "logs"
    BY <2>1, <2>2, <2>6 DEF NextPhase, Ahead, Kinds
  <2> QED
    BY <2>3, <2>4, <2>5, <2>6 DEF Kinds
<1>9. CASE UNCHANGED aggregatorVars
  BY <1>1, <1>9, DrainStep DEF aggregatorVars
<1> QED
  BY <1>2, <1>3, <1>4, <1>5, <1>6, <1>7, <1>8, <1>9 DEF AggregatorNext

\* get_all_batches (aggregator.rs) leaves nothing behind that was queued when it was
\* called, although adds evict and push between its batches.
THEOREM DrainAlwaysTakesAllOwed == AggregatorSpec => DrainTakesAllOwed
<1>1. AggregatorInit => OwedIsAhead
  BY DEF AggregatorInit, OwedIsAhead
<1>2. AggregatorSpec => []OwedIsAhead
  BY <1>1, StepPreservesOwedIsAhead, AggregatorInvariant, OwnershipInvariant, PTL
     DEF AggregatorSpec
<1>3. AggregatorInv /\ Ownership /\ OwedIsAhead /\ [AggregatorNext]_aggregatorVars
        => [(drain # "idle" /\ drain' = "idle") => owed \cap Held' = {}]_aggregatorVars
  <2> SUFFICES ASSUME AggregatorInv, Ownership, OwedIsAhead, AggregatorNext,
                      drain # "idle", drain' = "idle"
               PROVE  owed \cap Held' = {}
    OBVIOUS
  <2>1. KindExhausted
    BY DEF AggregatorNext, AddRejects, AddLocks, Evict, Push, DrainBegins, PopFirst, PopNext,
           Pop, BatchReady
  <2>2. Held' = Held /\ NextPhase(drain) = "idle" /\ drain \in Kinds
    BY <2>1, DrainStep DEF KindExhausted, AggregatorInv, AggregatorTypeOK
  <2>3. drain = "logs"
    BY <2>2 DEF NextPhase, Kinds
  <2>4. \A s \in owed \cap Held : KindOf[s] = "logs"
    BY <2>3 DEF OwedIsAhead, Ahead
  <2> QED
    BY <2>1, <2>2, <2>3, <2>4, ExhaustedIsEmpty
<1> QED
  BY <1>2, <1>3, AggregatorInvariant, OwnershipInvariant, PTL
     DEF AggregatorSpec, DrainTakesAllOwed
-----------------------------------------------------------------------------
(* Sums of sizes.  Induction over the natural numbers, stated of a set. *)

\* A set of natural numbers has a least one: the intervals 0 .. n are finite sets,
\* and proper inclusion of those is well-founded.
LEMMA SmallestNumber ==
    ASSUME NEW S \in SUBSET Nat, S # {}
    PROVE  \E m \in S : \A n \in S : m <= n
<1> DEFINE T == {0 .. n : n \in S}
<1>1. IsWellFoundedOn(StrictSubsetOrdering(Nat), FiniteSubsetsOf(Nat))
  BY FS_StrictSubsetOrderingWellFounded
<1>2. T \subseteq FiniteSubsetsOf(Nat) /\ T # {}
  <2>1. ASSUME NEW n \in S PROVE 0 .. n \in FiniteSubsetsOf(Nat)
    <3>1. IsFiniteSet(0 .. n)
      BY FS_Interval
    <3>2. 0 .. n \subseteq Nat
      OBVIOUS
    <3> QED
      BY Zenon, <3>1, <3>2 DEF FiniteSubsetsOf
  <2>2. PICK n \in S : TRUE
    OBVIOUS
  <2>3. 0 .. n \in T
    BY Zenon, <2>2
  <2> QED
    BY Zenon, <2>1, <2>3
<1>3. \E x \in T : \A y \in T : ~ (<<y, x>> \in StrictSubsetOrdering(Nat))
  <2> HIDE DEF T
  <2> QED
    BY <1>1, <1>2, WFMin
<1>4. PICK m \in S : \A y \in T : ~ (<<y, 0 .. m>> \in StrictSubsetOrdering(Nat))
  BY <1>3
<1>5. ASSUME NEW n \in S, n < m PROVE FALSE
  <2>1. 0 .. n \subseteq 0 .. m /\ 0 .. n # 0 .. m /\ 0 .. n \in T
    BY <1>5
  <2>2. <<0 .. n, 0 .. m>> \in StrictSubsetOrdering(Nat)
    BY <2>1 DEF StrictSubsetOrdering
  <2> QED
    BY <1>4, <2>1, <2>2
<1> QED
  BY <1>5

\* Induction, stated of a set: zero is in it, and with each number the next one.
LEMMA SetInduction ==
    ASSUME NEW S, 0 \in S, \A n \in Nat : n \in S => n + 1 \in S
    PROVE  Nat \subseteq S
<1> SUFFICES ASSUME Nat \ S # {} PROVE FALSE
  OBVIOUS
<1>1. PICK m \in Nat \ S : \A n \in Nat \ S : m <= n
  BY SmallestNumber
<1>2. m # 0 /\ m - 1 \in Nat /\ m - 1 \notin Nat \ S
  BY <1>1
<1> QED
  BY <1>1, <1>2

\* What the recursive function of BytesIn computes, as far as the first n signals.
IsSum(g, n, s) ==
    /\ g \in [0 .. n -> Nat]
    /\ g[0] = 0
    /\ \A i \in 1 .. n : g[i] = g[i - 1] + SizeOf[s[i]]

\* Partial sums exist for every sequence.
LEMMA SumExists ==
    ASSUME NEW s \in Seq(Signals)
    PROVE  \E g : IsSum(g, Len(s), s)
<1> DEFINE S == {n \in Nat : n <= Len(s) => \E g : IsSum(g, n, s)}
<1>1. 0 \in S
  <2> DEFINE g == [i \in 0 .. 0 |-> 0]
  <2>1. IsSum(g, 0, s)
    BY DEF IsSum
  <2> QED
    BY <2>1
<1>2. ASSUME NEW n \in Nat, n \in S, n + 1 <= Len(s) PROVE \E g : IsSum(g, n + 1, s)
  <2>1. PICK g : IsSum(g, n, s)
    BY <1>2
  <2> DEFINE h == [i \in 0 .. n + 1 |-> IF i = n + 1 THEN g[n] + SizeOf[s[n + 1]] ELSE g[i]]
  <2>2. SizeOf[s[n + 1]] \in Nat /\ g[n] \in Nat
    <3>1. s[n + 1] \in Signals
      BY <1>2
    <3> QED
      BY <2>1, <3>1 DEF IsSum, AggregatorAssumption
  <2>3. h \in [0 .. n + 1 -> Nat]
    <3>1. ASSUME NEW i \in 0 .. n + 1, i # n + 1 PROVE g[i] \in Nat
      <4>1. i \in 0 .. n
        BY <3>1
      <4> QED
        BY <2>1, <4>1 DEF IsSum
    <3> QED
      BY SMTT(30), <2>2, <3>1
  <2>4. h[0] = 0
    BY <2>1 DEF IsSum
  <2>5. ASSUME NEW i \in 1 .. n + 1 PROVE h[i] = h[i - 1] + SizeOf[s[i]]
    <3>1. CASE i = n + 1
      BY <3>1
    <3>2. CASE i # n + 1
      <4>1. i \in 1 .. n /\ i - 1 \in 0 .. n + 1 /\ i - 1 # n + 1
        BY <3>2
      <4> QED
        BY <2>1, <3>2, <4>1 DEF IsSum
    <3> QED
      BY <3>1, <3>2
  <2>6. IsSum(h, n + 1, s)
    BY <2>3, <2>4, <2>5 DEF IsSum
  <2> QED
    BY <2>6
<1>3. Nat \subseteq S
  <2>1. ASSUME NEW n \in Nat, n \in S PROVE n + 1 \in S
    <3>1. n + 1 \in Nat
      OBVIOUS
    <3>2. n + 1 <= Len(s) => \E g : IsSum(g, n + 1, s)
      BY Zenon, <1>2, <2>1
    <3> QED
      BY Zenon, <3>1, <3>2
  <2> HIDE DEF S
  <2> QED
    BY <1>1, <2>1, SetInduction
<1> QED
  BY <1>3

\* BytesIn is the last of them.
LEMMA SumUnfolds ==
    ASSUME NEW s \in Seq(Signals)
    PROVE  \E g : IsSum(g, Len(s), s) /\ BytesIn(s) = g[Len(s)]
<1> DEFINE body(g) == [n \in 0 .. Len(s) |-> IF n = 0 THEN 0 ELSE g[n - 1] + SizeOf[s[n]]]
           up == CHOOSE g : g = body(g)
<1>1. BytesIn(s) = up[Len(s)]
  BY DEF BytesIn
<1>2. PICK g : IsSum(g, Len(s), s)
  BY SumExists
<1>3. g = body(g)
  BY <1>2 DEF IsSum
<1>4. up = body(up)
  BY <1>3
<1>5. \A n \in 0 .. Len(s) : up[n] = IF n = 0 THEN 0 ELSE up[n - 1] + SizeOf[s[n]]
  BY <1>4
<1> HIDE DEF up, body
<1> DEFINE S == {n \in Nat : n <= Len(s) => up[n] = g[n]}
<1>6. Nat \subseteq S
  <2>1. 0 \in S
    BY <1>2, <1>5 DEF IsSum
  <2>2. ASSUME NEW n \in Nat, n \in S, n + 1 <= Len(s) PROVE up[n + 1] = g[n + 1]
    <3>1. n + 1 \in 0 .. Len(s) /\ n + 1 \in 1 .. Len(s) /\ (n + 1) - 1 = n
      BY <2>2
    <3> QED
      BY <1>2, <1>5, <2>2, <3>1 DEF IsSum
  <2>3. \A n \in Nat : n \in S => n + 1 \in S
    BY <2>2
  <2> HIDE DEF S
  <2> QED
    BY <2>1, <2>3, SetInduction
<1>7. up[Len(s)] = g[Len(s)]
  BY <1>6
<1> QED
  BY <1>1, <1>2, <1>7

\* The sum of a sequence is a natural number, and zero for the empty one.
LEMMA BytesInType ==
    ASSUME NEW s \in Seq(Signals)
    PROVE  BytesIn(s) \in Nat /\ (s = <<>> => BytesIn(s) = 0)
<1>1. PICK g : IsSum(g, Len(s), s) /\ BytesIn(s) = g[Len(s)]
  BY SumUnfolds
<1>2. Len(s) \in 0 .. Len(s) /\ (s = <<>> => Len(s) = 0)
  OBVIOUS
<1> QED
  BY <1>1, <1>2 DEF IsSum

\* Appending a signal adds its size.
LEMMA BytesInAppend ==
    ASSUME NEW s \in Seq(Signals), NEW x \in Signals
    PROVE  BytesIn(Append(s, x)) = BytesIn(s) + SizeOf[x]
<1> DEFINE t == Append(s, x)
<1>1. /\ t \in Seq(Signals) /\ Len(s) \in Nat /\ Len(t) = Len(s) + 1 /\ t[Len(s) + 1] = x
      /\ \A i \in 1 .. Len(s) : t[i] = s[i]
  OBVIOUS
<1> HIDE DEF t
<1>2. PICK g : IsSum(g, Len(s), s) /\ BytesIn(s) = g[Len(s)]
  BY SumUnfolds
<1>3. PICK h : IsSum(h, Len(t), t) /\ BytesIn(t) = h[Len(t)]
  BY <1>1, SumUnfolds
<1> DEFINE S == {n \in Nat : n <= Len(s) => h[n] = g[n]}
<1>4. Nat \subseteq S
  <2>1. 0 \in S
    BY <1>2, <1>3 DEF IsSum
  <2>2. ASSUME NEW n \in Nat, n \in S, n + 1 <= Len(s) PROVE h[n + 1] = g[n + 1]
    <3>1. n + 1 \in 1 .. Len(t) /\ n + 1 \in 1 .. Len(s) /\ (n + 1) - 1 = n
      BY <1>1, <2>2
    <3>2. h[n + 1] = h[n] + SizeOf[t[n + 1]] /\ g[n + 1] = g[n] + SizeOf[s[n + 1]]
      BY <1>2, <1>3, <3>1 DEF IsSum
    <3> QED
      BY SMTT(30), <1>1, <2>2, <3>1, <3>2
  <2>3. \A n \in Nat : n \in S => n + 1 \in S
    BY <2>2
  <2> HIDE DEF S
  <2> QED
    BY <2>1, <2>3, SetInduction
<1>5. h[Len(s)] = g[Len(s)]
  BY <1>1, <1>4
<1>6. h[Len(t)] = h[Len(s)] + SizeOf[x]
  <2>1. Len(t) \in 1 .. Len(t) /\ Len(t) - 1 = Len(s)
    BY <1>1
  <2> QED
    BY <1>1, <1>3, <2>1 DEF IsSum
<1> QED
  BY <1>2, <1>3, <1>5, <1>6 DEF t

\* Popping the head takes its size off.
LEMMA BytesInTail ==
    ASSUME NEW s \in Seq(Signals), s # <<>>
    PROVE  BytesIn(s) = SizeOf[Head(s)] + BytesIn(Tail(s))
<1> DEFINE t == Tail(s)
<1>1. /\ t \in Seq(Signals) /\ Len(s) \in Nat /\ Len(t) \in Nat /\ Len(s) = Len(t) + 1
      /\ Head(s) = s[1] /\ Head(s) \in Signals
      /\ \A i \in 1 .. Len(t) : t[i] = s[i + 1]
  OBVIOUS
<1> HIDE DEF t
<1>2. PICK h : IsSum(h, Len(s), s) /\ BytesIn(s) = h[Len(s)]
  BY SumUnfolds
<1>3. PICK g : IsSum(g, Len(t), t) /\ BytesIn(t) = g[Len(t)]
  BY <1>1, SumUnfolds
<1>4. SizeOf[Head(s)] \in Nat
  BY <1>1 DEF AggregatorAssumption
<1> DEFINE S == {n \in Nat : n <= Len(t) => h[n + 1] = SizeOf[Head(s)] + g[n]}
<1>5. Nat \subseteq S
  <2>1. 0 \in S
    <3>1. 1 \in 1 .. Len(s) /\ 1 - 1 = 0
      BY <1>1
    <3>2. h[1] = SizeOf[Head(s)] /\ g[0] = 0
      BY <1>1, <1>2, <1>3, <1>4, <3>1 DEF IsSum
    <3> QED
      BY <1>4, <3>2
  <2>2. ASSUME NEW n \in Nat, n \in S, n + 1 <= Len(t)
        PROVE  h[(n + 1) + 1] = SizeOf[Head(s)] + g[n + 1]
    <3>1. /\ n + 1 \in 1 .. Len(t) /\ (n + 1) - 1 = n /\ n \in 0 .. Len(t)
          /\ (n + 1) + 1 \in 1 .. Len(s) /\ ((n + 1) + 1) - 1 = n + 1
      BY SMTT(30), <1>1, <2>2
    <3>2. t[n + 1] = s[(n + 1) + 1] /\ t[n + 1] \in Signals
      BY <1>1, <3>1
    <3>3. g[n] \in Nat /\ SizeOf[t[n + 1]] \in Nat
      BY <1>3, <3>1, <3>2 DEF IsSum, AggregatorAssumption
    <3>4. g[n + 1] = g[n] + SizeOf[t[n + 1]]
      BY <1>3, <3>1 DEF IsSum
    <3>5. h[(n + 1) + 1] = h[n + 1] + SizeOf[t[n + 1]]
      BY <1>2, <3>1, <3>2 DEF IsSum
    <3>6. h[n + 1] = SizeOf[Head(s)] + g[n]
      BY <2>2
    <3> QED
      BY SMTT(30), <1>4, <3>3, <3>4, <3>5, <3>6
  <2>3. \A n \in Nat : n \in S => n + 1 \in S
    BY <2>2
  <2> HIDE DEF S
  <2> QED
    BY <2>1, <2>3, SetInduction
<1>6. h[Len(t) + 1] = SizeOf[Head(s)] + g[Len(t)]
  BY <1>1, <1>5
<1> QED
  BY <1>1, <1>2, <1>3, <1>6 DEF t

-----------------------------------------------------------------------------
(* The byte counts. *)

\* Everything that is queued, in bytes.
QueuedBytes ==
    BytesIn(queue["traces"]) + BytesIn(queue["metrics"]) + BytesIn(queue["logs"])

\* A queue that changes alone changes the sum by as much.
LEMMA OneQueueChanges ==
    ASSUME NEW k \in Kinds, NEW q \in Seq(Signals), QueuesOK,
           queue' = [queue EXCEPT ![k] = q]
    PROVE  /\ QueuedBytes \in Nat
           /\ BytesIn(queue[k]) \in Nat
           /\ BytesIn(queue[k]) <= QueuedBytes
           /\ QueuedBytes' = (QueuedBytes - BytesIn(queue[k])) + BytesIn(q)
<1>1. \A j \in Kinds : queue[j] \in Seq(Signals) /\ BytesIn(queue[j]) \in Nat
  BY BytesInType DEF QueuesOK
<1>2. BytesIn(q) \in Nat
  BY BytesInType
<1>3. \A j \in Kinds : queue'[j] = IF j = k THEN q ELSE queue[j]
  BY DEF QueuesOK
<1>4. \A j \in Kinds : BytesIn(queue'[j]) = IF j = k THEN BytesIn(q) ELSE BytesIn(queue[j])
  BY <1>3
<1>5. QueuedBytes' = BytesIn(queue'["traces"]) + BytesIn(queue'["metrics"])
                       + BytesIn(queue'["logs"])
  BY DEF QueuedBytes
<1>6. "traces" \in Kinds /\ "metrics" \in Kinds /\ "logs" \in Kinds
  BY DEF Kinds
<1> DEFINE b(j) == BytesIn(queue[j])
<1>7. b("traces") \in Nat /\ b("metrics") \in Nat /\ b("logs") \in Nat
  BY <1>1, <1>6
<1>8. QueuedBytes = b("traces") + b("metrics") + b("logs")
  BY DEF QueuedBytes
<1> HIDE DEF b
<1>9. CASE k = "traces"
  <2>1. QueuedBytes' = BytesIn(q) + b("metrics") + b("logs")
    BY <1>4, <1>5, <1>6, <1>9 DEF b
  <2> QED
    BY SMTT(30), <1>2, <1>7, <1>8, <1>9, <2>1 DEF b
<1>10. CASE k = "metrics"
  <2>1. QueuedBytes' = b("traces") + BytesIn(q) + b("logs")
    BY <1>4, <1>5, <1>6, <1>10 DEF b
  <2> QED
    BY SMTT(30), <1>2, <1>7, <1>8, <1>10, <2>1 DEF b
<1>11. CASE k = "logs"
  <2>1. QueuedBytes' = b("traces") + b("metrics") + BytesIn(q)
    BY <1>4, <1>5, <1>6, <1>11 DEF b
  <2> QED
    BY SMTT(30), <1>2, <1>7, <1>8, <1>11, <2>1 DEF b
<1> QED
  BY <1>9, <1>10, <1>11 DEF Kinds

\* The batch in progress obeys the limits, or is its first signal alone.
BatchInLimits ==
    \/ Len(batch) <= 1
    \/ Len(batch) <= MaxBatchEntries /\ batchBytes <= MaxBatchBytes

\* The counts are the sums they stand for, and every batch obeys the limits.
Sums ==
    /\ bytes = batchBytes + QueuedBytes
    /\ batchBytes = BytesIn(batch)
    /\ BatchInLimits
    /\ BatchesWithinLimits

\* A step that leaves queues, counts and batches alone leaves the sums alone.
LEMMA SumsStay ==
    ASSUME Sums, UNCHANGED <<queue, bytes, batch, batchBytes, batches>>
    PROVE  Sums'
BY DEF Sums, QueuedBytes, BatchInLimits, BatchesWithinLimits

\* drop_oldest gives back what its victim added: the subtraction does not saturate.
LEMMA EvictKeepsSums ==
    ASSUME AggregatorInv, Sums, Evict
    PROVE  Sums'
<1> DEFINE k == VictimKind(KindOf[adding])
           q == Tail(queue[k])
           h == Head(queue[k])
<1>1. adding \in Signals /\ KindOf[adding] \in Kinds
  BY DEF AggregatorInv, AggregatorTypeOK, Evict, AggregatorAssumption
<1>2. k \in Kinds /\ queue[k] # <<>>
  BY <1>1, VictimIsNotEmpty DEF Evict
<1> HIDE DEF k
<1>3. queue' = [queue EXCEPT ![k] = q] /\ bytes' = Less(bytes, SizeOf[h])
  BY DEF Evict, DropHead, k
<1>4. QueuesOK /\ queue[k] \in Seq(Signals) /\ q \in Seq(Signals) /\ h \in Signals
  BY <1>2 DEF AggregatorInv, AggregatorTypeOK, QueuesOK
<1>5. BytesIn(queue[k]) = SizeOf[h] + BytesIn(q) /\ BytesIn(q) \in Nat
  BY <1>2, <1>4, BytesInTail, BytesInType
<1>6. SizeOf[h] \in Nat /\ batchBytes \in Nat
  BY <1>4 DEF AggregatorAssumption, AggregatorInv, AggregatorTypeOK
<1> HIDE DEF q, h
<1>7. /\ QueuedBytes \in Nat /\ BytesIn(queue[k]) <= QueuedBytes
      /\ QueuedBytes' = (QueuedBytes - BytesIn(queue[k])) + BytesIn(q)
  BY <1>2, <1>3, <1>4, OneQueueChanges
<1>8. bytes' = batchBytes + QueuedBytes'
  BY <1>3, <1>5, <1>6, <1>7 DEF Sums, Less
<1>9. UNCHANGED <<batch, batchBytes, batches>>
  BY DEF Evict
<1> QED
  BY <1>8, <1>9 DEF Sums, BatchInLimits, BatchesWithinLimits

\* A signal is counted with its queue.
LEMMA PushKeepsSums ==
    ASSUME AggregatorInv, Sums, Push
    PROVE  Sums'
<1> DEFINE k == KindOf[adding]
           q == Append(queue[k], adding)
<1>1. adding \in Signals /\ k \in Kinds /\ SizeOf[adding] \in Nat /\ batchBytes \in Nat
  BY DEF AggregatorInv, AggregatorTypeOK, Push, AggregatorAssumption
<1>2. queue' = [queue EXCEPT ![k] = q] /\ bytes' = bytes + SizeOf[adding]
  BY DEF Push
<1> HIDE DEF k
<1>3. QueuesOK /\ queue[k] \in Seq(Signals) /\ q \in Seq(Signals)
  BY <1>1 DEF AggregatorInv, AggregatorTypeOK, QueuesOK
<1>4. BytesIn(q) = BytesIn(queue[k]) + SizeOf[adding]
  BY <1>1, <1>3, BytesInAppend
<1> HIDE DEF q
<1>5. /\ QueuedBytes \in Nat /\ BytesIn(queue[k]) \in Nat
      /\ QueuedBytes' = (QueuedBytes - BytesIn(queue[k])) + BytesIn(q)
  BY <1>1, <1>2, <1>3, OneQueueChanges
<1>6. bytes' = batchBytes + QueuedBytes'
  BY <1>1, <1>2, <1>4, <1>5 DEF Sums
<1>7. UNCHANGED <<batch, batchBytes, batches>>
  BY DEF Push
<1> QED
  BY <1>6, <1>7 DEF Sums, BatchInLimits, BatchesWithinLimits

\* An entry popped is counted with the batch, which it enters if both limits allow.
LEMMA PopKeepsSums ==
    ASSUME AggregatorInv, Sums, PopFirst \/ PopNext
    PROVE  Sums'
<1> DEFINE q == Tail(queue[drain])
           h == Head(queue[drain])
<1>1. drain \in Kinds /\ queue[drain] # <<>> /\ Pop
  BY DEF AggregatorInv, PopFirst, PopNext, NextFits, AggregatorTypeOK
<1>2. /\ queue' = [queue EXCEPT ![drain] = q] /\ batch' = Append(batch, h)
      /\ batchBytes' = batchBytes + SizeOf[h] /\ UNCHANGED <<bytes, batches>>
  BY <1>1 DEF Pop
<1>3. /\ QueuesOK /\ queue[drain] \in Seq(Signals) /\ q \in Seq(Signals) /\ h \in Signals
      /\ batch \in Seq(Signals) /\ batchBytes \in Nat
  BY <1>1 DEF AggregatorInv, AggregatorTypeOK, QueuesOK
<1>4. /\ BytesIn(queue[drain]) = SizeOf[h] + BytesIn(q) /\ BytesIn(q) \in Nat
      /\ SizeOf[h] \in Nat
  BY <1>1, <1>3, BytesInTail, BytesInType DEF AggregatorAssumption
<1>5. BytesIn(batch') = BytesIn(batch) + SizeOf[h]
  BY <1>2, <1>3, BytesInAppend
<1>6. BatchInLimits'
  <2>1. Len(batch') = Len(batch) + 1 /\ Len(batch) \in Nat
    BY <1>2, <1>3
  <2>2. CASE PopFirst
    BY <2>1, <2>2 DEF PopFirst, MutexFree, BatchInLimits
  <2>3. CASE PopNext
    <3>1. batchBytes + SizeOf[h] <= MaxBatchBytes /\ Len(batch) < MaxBatchEntries
      BY <2>3 DEF PopNext, NextFits
    <3>2. MaxBatchEntries \in Nat
      BY DEF AggregatorAssumption
    <3> QED
      BY <1>2, <2>1, <3>1, <3>2 DEF BatchInLimits
  <2> QED
    BY <2>2, <2>3
<1> HIDE DEF q, h
<1>7. /\ QueuedBytes \in Nat /\ BytesIn(queue[drain]) <= QueuedBytes
      /\ QueuedBytes' = (QueuedBytes - BytesIn(queue[drain])) + BytesIn(q)
  BY <1>1, <1>2, <1>3, OneQueueChanges
<1>8. bytes' = batchBytes' + QueuedBytes'
  <2>1. bytes = batchBytes + QueuedBytes
    BY DEF Sums
  <2>2. bytes' = bytes /\ batchBytes' = batchBytes + SizeOf[h]
    BY <1>2
  <2>3. QueuedBytes' = QueuedBytes - SizeOf[h]
    BY <1>4, <1>7
  <2> QED
    BY <1>3, <1>4, <1>7, <2>1, <2>2, <2>3
<1>9. batchBytes' = BytesIn(batch)'
  BY <1>2, <1>5 DEF Sums
<1>10. BatchesWithinLimits'
  BY <1>2 DEF Sums, BatchesWithinLimits
<1> QED
  BY <1>6, <1>8, <1>9, <1>10 DEF Sums

\* A getter gives back what its batch adds up to.
LEMMA BatchKeepsSums ==
    ASSUME AggregatorInv, Sums, BatchReady
    PROVE  Sums'
<1>1. /\ batch \in Seq(Signals) /\ batch # <<>> /\ batches \in Seq(Seq(Signals))
      /\ batchBytes \in Nat /\ QueuesOK
  BY DEF AggregatorInv, AggregatorTypeOK, BatchReady, QueuesOK
<1>2. /\ bytes' = Less(bytes, batchBytes) /\ batches' = Append(batches, batch)
      /\ batch' = <<>> /\ batchBytes' = 0 /\ queue' = queue
  BY DEF BatchReady
<1>3. QueuedBytes \in Nat
  <2>1. \A j \in Kinds : BytesIn(queue[j]) \in Nat
    BY <1>1, BytesInType DEF QueuesOK
  <2> QED
    BY <2>1 DEF QueuedBytes, Kinds
<1>4. QueuedBytes' = QueuedBytes
  BY <1>2 DEF QueuedBytes
<1>5. bytes' = batchBytes' + QueuedBytes'
  BY <1>1, <1>2, <1>3, <1>4 DEF Sums, Less
<1>6. batchBytes' = BytesIn(batch)' /\ BatchInLimits'
  <2>1. <<>> \in Seq(Signals) /\ Len(<<>>) = 0
    OBVIOUS
  <2>2. BytesIn(<<>>) = 0
    BY <2>1, BytesInType
  <2>3. BytesIn(batch)' = BytesIn(<<>>)
    BY <1>2
  <2> QED
    BY <1>2, <2>1, <2>2, <2>3 DEF BatchInLimits
<1>7. BatchesWithinLimits'
  <2>1. \/ Len(batch) = 1
        \/ Len(batch) <= MaxBatchEntries /\ BytesIn(batch) <= MaxBatchBytes
    <3>1. Len(batch) \in Nat /\ Len(batch) # 0
      BY <1>1
    <3>2. batchBytes = BytesIn(batch) /\ BatchInLimits
      BY DEF Sums
    <3>3. CASE Len(batch) <= 1
      <4> DEFINE n == Len(batch)
      <4>1. n \in Nat /\ n # 0 /\ n <= 1
        BY <3>1, <3>3
      <4> HIDE DEF n
      <4>2. n = 1
        BY <4>1
      <4> QED
        BY Zenon, <4>2 DEF n
    <3>4. CASE Len(batch) <= MaxBatchEntries /\ batchBytes <= MaxBatchBytes
      <4>1. BytesIn(batch) <= MaxBatchBytes
        BY <3>2, <3>4
      <4> QED
        BY <3>4, <4>1
    <3> QED
      BY <3>2, <3>3, <3>4 DEF BatchInLimits
  <2> SUFFICES ASSUME NEW b \in 1 .. Len(batches')
               PROVE  \/ Len(batches'[b]) = 1
                      \/ /\ Len(batches'[b]) <= MaxBatchEntries
                         /\ BytesIn(batches'[b]) <= MaxBatchBytes
    BY DEF BatchesWithinLimits
  <2>2. CASE b = Len(batches) + 1
    BY <1>1, <1>2, <2>1, <2>2
  <2>3. CASE b \in 1 .. Len(batches)
    BY <1>1, <1>2, <2>3 DEF Sums, BatchesWithinLimits
  <2> QED
    BY <1>1, <1>2, <2>2, <2>3
<1> QED
  BY <1>5, <1>6, <1>7 DEF Sums

LEMMA InitSums == AggregatorInit => Sums
<1> SUFFICES ASSUME AggregatorInit PROVE Sums
  OBVIOUS
<1>1. <<>> \in Seq(Signals) /\ Len(<<>>) = 0
  OBVIOUS
<1>2. BytesIn(<<>>) = 0
  BY <1>1, BytesInType
<1>3. \A k \in Kinds : queue[k] = <<>>
  BY DEF AggregatorInit
<1>4. QueuedBytes = 0
  BY <1>2, <1>3 DEF QueuedBytes, Kinds
<1> QED
  BY <1>1, <1>2, <1>4 DEF AggregatorInit, Sums, BatchInLimits, BatchesWithinLimits

LEMMA StepKeepsSums ==
    AggregatorInv /\ Sums /\ [AggregatorNext]_aggregatorVars => Sums'
<1> SUFFICES ASSUME AggregatorInv, Sums, [AggregatorNext]_aggregatorVars PROVE Sums'
  OBVIOUS
<1>1. CASE \E s \in Signals : AddRejects(s) \/ AddLocks(s)
  BY <1>1, SumsStay DEF AddRejects, AddLocks
<1>2. CASE Evict
  BY <1>2, EvictKeepsSums
<1>3. CASE Push
  BY <1>3, PushKeepsSums
<1>4. CASE PopFirst \/ PopNext
  BY <1>4, PopKeepsSums
<1>5. CASE BatchReady
  BY <1>5, BatchKeepsSums
<1>6. CASE DrainBegins \/ KindExhausted \/ UNCHANGED aggregatorVars
  BY <1>6, SumsStay DEF DrainBegins, KindExhausted, aggregatorVars
<1> QED
  BY <1>1, <1>2, <1>3, <1>4, <1>5, <1>6 DEF AggregatorNext

\* Counts and sums agree, and batches obey their limits, in every reachable state.
THEOREM SumsInvariant == AggregatorSpec => []Sums
<1> QED
  BY InitSums, StepKeepsSums, AggregatorInvariant, PTL DEF AggregatorSpec

\* The byte count is the sum of what is queued and of the batch in progress, so no
\* saturating_sub (drop_oldest and the getters, aggregator.rs) ever hides a deficit.
THEOREM BytesAlwaysAccounted == AggregatorSpec => []BytesAccounted
<1>1. AggregatorInv /\ Sums => BytesAccounted
  <2> SUFFICES ASSUME AggregatorInv, Sums PROVE BytesAccounted
    OBVIOUS
  <2>1. \A j \in Kinds : BytesIn(queue[j]) \in Nat
    BY BytesInType DEF AggregatorInv, AggregatorTypeOK
  <2>2. /\ BytesIn(queue["traces"]) \in Nat /\ BytesIn(queue["metrics"]) \in Nat
        /\ BytesIn(queue["logs"]) \in Nat /\ batchBytes \in Nat
    BY <2>1 DEF Kinds, AggregatorInv, AggregatorTypeOK
  <2>3. bytes = batchBytes + QueuedBytes
    BY DEF Sums
  <2> QED
    BY <2>2, <2>3 DEF BytesAccounted, QueuedBytes
<1> QED
  BY <1>1, AggregatorInvariant, SumsInvariant, PTL

\* take_batch (aggregator.rs) returns a batch within both limits, or a signal alone.
THEOREM BatchesAlwaysWithinLimits == AggregatorSpec => []BatchesWithinLimits
<1>1. Sums => BatchesWithinLimits
  BY DEF Sums
<1> QED
  BY <1>1, SumsInvariant, PTL
=============================================================================
