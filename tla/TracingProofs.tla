---------------------------- MODULE TracingProofs ----------------------------
(***************************************************************************)
(* What TLAPS proves of the two components that trace an invocation: of    *)
(* TelemetryProcessor, for any number of requests and of trace headers,    *)
(* and every way to cut, reorder and repeat the batches of the platform's  *)
(* log; and of TowerTracing, for any number of concurrent calls, of events *)
(* of every kind and of settings of the layer.  Both read X-Ray headers,   *)
(* and what is said of a header here serves both.                          *)
(***************************************************************************)
EXTENDS TelemetryProcessor, TowerTracing, FiniteSetTheorems, WellFoundedInduction, TLAPS


-----------------------------------------------------------------------------
(* Induction over the natural numbers, stated of a set. *)

\* A set of natural numbers has a least one: the intervals 0 .. n are finite sets,
\* and proper inclusion of those is well-founded.
LEMMA SmallestNumber ==
    ASSUME NEW S \in SUBSET Nat, S # {}
    PROVE  \E m \in S : \A n \in S : m <= n
<1> DEFINE T == {0 .. n : n \in S}
<1>1. IsWellFoundedOn(StrictSubsetOrdering(Nat), FiniteSubsetsOf(Nat))
  BY FS_StrictSubsetOrderingWellFounded
<1>2. T \subseteq FiniteSubsetsOf(Nat) /\ T # {}
  <2>1. ASSUME NEW n \in S PROVE 0 .. n \in FiniteSubsetsOf(Nat)
    <3>1. IsFiniteSet(0 .. n)
      BY FS_Interval
    <3>2. 0 .. n \subseteq Nat
      OBVIOUS
    <3> QED
      BY Zenon, <3>1, <3>2 DEF FiniteSubsetsOf
  <2>2. PICK n \in S : TRUE
    OBVIOUS
  <2>3. 0 .. n \in T
    BY Zenon, <2>2
  <2> QED
    BY Zenon, <2>1, <2>3
<1>3. \E x \in T : \A y \in T : ~ (<<y, x>> \in StrictSubsetOrdering(Nat))
  <2> HIDE DEF T
  <2> QED
    BY <1>1, <1>2, WFMin
<1>4. PICK m \in S : \A y \in T : ~ (<<y, 0 .. m>> \in StrictSubsetOrdering(Nat))
  BY <1>3
<1>5. ASSUME NEW n \in S, n < m PROVE FALSE
  <2>1. 0 .. n \subseteq 0 .. m /\ 0 .. n # 0 .. m /\ 0 .. n \in T
    BY <1>5
  <2>2. <<0 .. n, 0 .. m>> \in StrictSubsetOrdering(Nat)
    BY <2>1 DEF StrictSubsetOrdering
  <2> QED
    BY <1>4, <2>1, <2>2
<1> QED
  BY <1>5

\* Induction, stated of a set: zero is in it, and with each number the next one.
LEMMA SetInduction ==
    ASSUME NEW S, 0 \in S, \A n \in Nat : n \in S => n + 1 \in S
    PROVE  Nat \subseteq S
<1> SUFFICES ASSUME Nat \ S # {} PROVE FALSE
  OBVIOUS
<1>1. PICK m \in Nat \ S : \A n \in Nat \ S : m <= n
  BY SmallestNumber
<1>2. m # 0 /\ m - 1 \in Nat /\ m - 1 \notin Nat \ S
  BY <1>1
<1> QED
  BY <1>1, <1>2

-----------------------------------------------------------------------------
(* The platform's log. *)

Kinds == {"other", "start", "runtimeDone", "report"}

LoggedHeaders == {TraceHeaders[r] : r \in Requests} \cup {<< >>}

LogEvents ==
    [kind : Kinds, request : Nat, time : Nat, header : LoggedHeaders, status : Statuses \cup {None}]

\* The start of a request, as the platform logs it.
StartOK(event) ==
    event.kind = "start" => event.request \in Requests /\ event.header = TraceHeaders[event.request]

StartsFirst(l) ==
    \A i, j \in 1 .. Len(l) :
        l[i].kind = "start" /\ l[j].kind = "runtimeDone" /\ l[i].request = l[j].request => i < j

OneOfEach(l) ==
    \A i, j \in 1 .. Len(l) :
        l[i].kind = l[j].kind /\ l[i].kind \in {"start", "runtimeDone"} /\ l[i].request = l[j].request
            => i = j

LogOK(l) ==
    /\ l \in Seq(LogEvents)
    /\ \A i \in 1 .. Len(l) : StartOK(l[i])
    /\ StartsFirst(l) /\ OneOfEach(l)

\* The events of an invocation begin with its start, and are of its request.
LEMMA InvocationIs ==
    ASSUME NEW r \in Requests, NEW status \in Statuses
    PROVE  LET events == Invocation(r, status)
           IN  /\ events \in Seq(LogEvents)
               /\ \A i \in 1 .. Len(events) :
                     /\ events[i].request = r /\ StartOK(events[i])
                     /\ events[i].kind = "start" => i = 1
                     /\ events[i].kind = "runtimeDone" => i = 2
<1> DEFINE start  == Event("start", r, TraceHeaders[r], None)
           done   == Event("runtimeDone", r, << >>, status)
           report == Event("report", r, << >>, None)
<1>1. r \in Nat
  BY ProcessorAssumption
<1>2. start \in LogEvents /\ done \in LogEvents /\ report \in LogEvents
  BY <1>1 DEF Event, LogEvents, LoggedHeaders, Kinds
<1>3. /\ start.kind = "start" /\ done.kind = "runtimeDone" /\ report.kind = "report"
      /\ start.request = r /\ done.request = r /\ report.request = r
      /\ start.header = TraceHeaders[r]
  BY DEF Event
<1>4. StartOK(start) /\ StartOK(done) /\ StartOK(report)
  BY <1>3 DEF StartOK
<1>5. Invocation(r, status) = IF status = None THEN <<start, report>> ELSE <<start, done, report>>
  BY DEF Invocation
<1> HIDE DEF start, done, report
<1>6. CASE status = None
  <2> DEFINE events == <<start, report>>
  <2>1. events \in Seq(LogEvents) /\ Len(events) = 2
    BY <1>2
  <2>2. \A i \in 1 .. Len(events) : (i = 1 /\ events[i] = start) \/ (i = 2 /\ events[i] = report)
    BY <2>1
  <2> HIDE DEF events
  <2>3. Invocation(r, status) = events
    BY <1>5, <1>6 DEF events
  <2> QED
    BY <1>3, <1>4, <2>1, <2>2, <2>3
<1>7. CASE status # None
  <2> DEFINE events == <<start, done, report>>
  <2>1. events \in Seq(LogEvents) /\ Len(events) = 3
    BY <1>2
  <2>2. \A i \in 1 .. Len(events) : \/ i = 1 /\ events[i] = start
                                    \/ i = 2 /\ events[i] = done
                                    \/ i = 3 /\ events[i] = report
    BY <2>1
  <2> HIDE DEF events
  <2>3. Invocation(r, status) = events
    BY <1>5, <1>7 DEF events
  <2> QED
    BY <1>3, <1>4, <2>1, <2>2, <2>3
<1> QED
  BY <1>6, <1>7

\* The concatenations of the first n sequences.
IsJoined(f, n, seqs) ==
    /\ f = [i \in 1 .. n |-> f[i]]
    /\ f[1] = seqs[1]
    /\ \A i \in 2 .. n : f[i] = f[i - 1] \o seqs[i]

LEMMA JoinedExist ==
    ASSUME NEW seqs, NEW m \in Nat, m > 0
    PROVE  \E f : IsJoined(f, m, seqs)
<1> DEFINE S == {n \in Nat : n + 1 <= m => \E f : IsJoined(f, n + 1, seqs)}
<1>1. 0 \in S
  <2> DEFINE f == [i \in 1 .. 1 |-> seqs[1]]
  <2>1. IsJoined(f, 1, seqs)
    BY DEF IsJoined
  <2>2. IsJoined(f, 0 + 1, seqs)
    BY <2>1
  <2> HIDE DEF f
  <2> QED
    BY <2>2
<1>2. ASSUME NEW n \in Nat, n \in S, (n + 1) + 1 <= m PROVE \E f : IsJoined(f, (n + 1) + 1, seqs)
  <2>1. PICK f : IsJoined(f, n + 1, seqs)
    BY <1>2
  <2> DEFINE k == (n + 1) + 1
             h == [i \in 1 .. k |-> IF i = k THEN f[n + 1] \o seqs[k] ELSE f[i]]
  <2>2. k \in Nat /\ k - 1 = n + 1 /\ 1 # k /\ 1 \in 1 .. k /\ k \in 1 .. k
    OBVIOUS
  <2>3. h[1] = seqs[1]
    BY <2>1, <2>2 DEF IsJoined
  <2>4. ASSUME NEW i \in 2 .. k PROVE h[i] = h[i - 1] \o seqs[i]
    <3>1. CASE i = k
      <4>1. h[k] = f[n + 1] \o seqs[k]
        BY <2>2
      <4>2. n + 1 \in 1 .. k /\ n + 1 # k
        BY <2>2
      <4>3. h[n + 1] = f[n + 1]
        BY <4>2
      <4> QED
        BY <2>2, <3>1, <4>1, <4>3
    <3>2. CASE i # k
      <4>1. i \in 2 .. n + 1 /\ i \in 1 .. k /\ i - 1 \in 1 .. k /\ i - 1 # k
        BY <2>2, <3>2
      <4> QED
        BY <2>1, <3>2, <4>1 DEF IsJoined
    <3> QED
      BY <3>1, <3>2
  <2>5. h = [i \in 1 .. k |-> h[i]]
    OBVIOUS
  <2> HIDE DEF h
  <2>6. IsJoined(h, k, seqs)
    BY <2>3, <2>4, <2>5 DEF IsJoined
  <2> QED
    BY <2>6
<1>3. Nat \subseteq S
  <2>1. ASSUME NEW n \in Nat, n \in S PROVE n + 1 \in S
    <3>1. n + 1 \in Nat
      OBVIOUS
    <3>2. (n + 1) + 1 <= m => \E f : IsJoined(f, (n + 1) + 1, seqs)
      BY Zenon, <1>2, <2>1
    <3> QED
      BY Zenon, <3>1, <3>2
  <2> HIDE DEF S
  <2> QED
    BY <1>1, <2>1, SetInduction
<1>4. m - 1 \in Nat /\ (m - 1) + 1 = m
  OBVIOUS
<1>5. m - 1 \in S
  BY <1>3, <1>4
<1> QED
  BY <1>4, <1>5

\* FlattenSeq is the last of them.
LEMMA FlattenUnfolds ==
    ASSUME NEW seqs, Len(seqs) \in Nat, Len(seqs) > 0
    PROVE  \E f : IsJoined(f, Len(seqs), seqs) /\ FlattenSeq(seqs) = f[Len(seqs)]
<1> DEFINE body(f) == [i \in 1 .. Len(seqs) |-> IF i = 1 THEN seqs[i] ELSE f[i - 1] \o seqs[i]]
           flatten == CHOOSE f : f = body(f)
<1>1. FlattenSeq(seqs) = flatten[Len(seqs)]
  BY DEF FlattenSeq
<1>2. PICK f : IsJoined(f, Len(seqs), seqs)
  BY JoinedExist
<1>3. f = body(f)
  <2>1. ASSUME NEW i \in 1 .. Len(seqs)
        PROVE  f[i] = IF i = 1 THEN seqs[i] ELSE f[i - 1] \o seqs[i]
    <3>1. i = 1 \/ i \in 2 .. Len(seqs)
      OBVIOUS
    <3> QED
      BY <1>2, <3>1 DEF IsJoined
  <2>2. f = [i \in 1 .. Len(seqs) |-> f[i]]
    BY <1>2 DEF IsJoined
  <2> QED
    BY <2>1, <2>2
<1>4. flatten = body(flatten)
  BY <1>3
<1> HIDE DEF flatten
<1>5. IsJoined(flatten, Len(seqs), seqs)
  <2>1. flatten = [i \in 1 .. Len(seqs) |-> flatten[i]]
    BY <1>4
  <2>2. flatten[1] = seqs[1]
    <3>1. 1 \in 1 .. Len(seqs)
      OBVIOUS
    <3> QED
      BY <1>4, <3>1
  <2>3. ASSUME NEW i \in 2 .. Len(seqs) PROVE flatten[i] = flatten[i - 1] \o seqs[i]
    <3>1. i \in 1 .. Len(seqs) /\ i # 1
      OBVIOUS
    <3> QED
      BY <1>4, <3>1
  <2> QED
    BY <2>1, <2>2, <2>3 DEF IsJoined
<1> QED
  BY <1>1, <1>5

\* What is where in a concatenation.
LEMMA Concatenated ==
    ASSUME NEW S, NEW a \in Seq(S), NEW b \in Seq(S)
    PROVE  /\ a \o b \in Seq(S) /\ Len(a) \in Nat /\ Len(b) \in Nat
           /\ Len(a \o b) = Len(a) + Len(b)
           /\ \A i \in 1 .. Len(a \o b) :
                 \/ i \in 1 .. Len(a) /\ (a \o b)[i] = a[i]
                 \/ /\ i > Len(a) /\ i - Len(a) \in 1 .. Len(b)
                    /\ (a \o b)[i] = b[i - Len(a)]
OBVIOUS

\* The events of the first n requests: their starts come before their ends.
UpTo(l, n) ==
    /\ l \in Seq(LogEvents)
    /\ \A i \in 1 .. Len(l) : l[i].request \in 1 .. n /\ StartOK(l[i])
    /\ StartsFirst(l) /\ OneOfEach(l)

LEMMA OneMoreInvocation ==
    ASSUME NEW n \in Nat, n + 1 \in Requests, NEW status \in Statuses, NEW l, UpTo(l, n)
    PROVE  UpTo(l \o Invocation(n + 1, status), n + 1)
<1> DEFINE e == Invocation(n + 1, status)
           c == l \o e
<1>1. /\ e \in Seq(LogEvents)
      /\ \A i \in 1 .. Len(e) : /\ e[i].request = n + 1 /\ StartOK(e[i])
                                /\ e[i].kind = "start" => i = 1
                                /\ e[i].kind = "runtimeDone" => i = 2
  BY InvocationIs
<1>2. l \in Seq(LogEvents)
  BY DEF UpTo
<1> HIDE DEF e
<1>3. /\ c \in Seq(LogEvents) /\ Len(l) \in Nat /\ Len(e) \in Nat /\ Len(c) = Len(l) + Len(e)
      /\ \A i \in 1 .. Len(c) : \/ i \in 1 .. Len(l) /\ c[i] = l[i]
                                \/ i > Len(l) /\ i - Len(l) \in 1 .. Len(e) /\ c[i] = e[i - Len(l)]
  BY <1>1, <1>2, Concatenated
<1> HIDE DEF c
<1>4. ASSUME NEW i \in 1 .. Len(c) PROVE c[i].request \in 1 .. n + 1 /\ StartOK(c[i])
  <2>1. CASE i \in 1 .. Len(l) /\ c[i] = l[i]
    BY <2>1 DEF UpTo
  <2>2. CASE i > Len(l) /\ i - Len(l) \in 1 .. Len(e) /\ c[i] = e[i - Len(l)]
    BY <1>1, <2>2
  <2> QED
    BY <1>3, <2>1, <2>2
<1>5. StartsFirst(c)
  <2> SUFFICES ASSUME NEW i \in 1 .. Len(c), NEW j \in 1 .. Len(c), c[i].kind = "start",
                      c[j].kind = "runtimeDone", c[i].request = c[j].request
               PROVE  i < j
    BY DEF StartsFirst
  <2>1. CASE i \in 1 .. Len(l) /\ c[i] = l[i]
    <3>1. CASE j \in 1 .. Len(l) /\ c[j] = l[j]
      BY <2>1, <3>1 DEF UpTo, StartsFirst
    <3>2. CASE j > Len(l)
      BY <1>3, <2>1, <3>2
    <3> QED
      BY <1>3, <3>1, <3>2
  <2>2. CASE i > Len(l) /\ i - Len(l) \in 1 .. Len(e) /\ c[i] = e[i - Len(l)]
    <3>1. c[i].request = n + 1 /\ i - Len(l) = 1
      BY <1>1, <2>2
    <3>2. ~(j \in 1 .. Len(l) /\ c[j] = l[j])
      <4>1. ASSUME j \in 1 .. Len(l), c[j] = l[j] PROVE FALSE
        <5>1. c[j].request \in 1 .. n
          BY <4>1 DEF UpTo
        <5> QED
          BY <3>1, <5>1
      <4> QED
        BY <4>1
    <3>3. j - Len(l) \in 1 .. Len(e) /\ c[j] = e[j - Len(l)]
      BY <1>3, <3>2
    <3>4. j - Len(l) = 2
      BY <1>1, <3>3
    <3> QED
      BY <1>3, <3>1, <3>4
  <2> QED
    BY <1>3, <2>1, <2>2
<1>6. OneOfEach(c)
  <2> SUFFICES ASSUME NEW i \in 1 .. Len(c), NEW j \in 1 .. Len(c), c[i].kind = c[j].kind,
                      c[i].kind \in {"start", "runtimeDone"}, c[i].request = c[j].request
               PROVE  i = j
    BY DEF OneOfEach
  <2>1. ASSUME NEW h \in 1 .. Len(c)
        PROVE  \/ h \in 1 .. Len(l) /\ c[h] = l[h] /\ c[h].request \in 1 .. n
               \/ /\ h - Len(l) \in 1 .. Len(e) /\ c[h] = e[h - Len(l)] /\ c[h].request = n + 1
                  /\ c[h].kind = "start" => h - Len(l) = 1
                  /\ c[h].kind = "runtimeDone" => h - Len(l) = 2
    <3>1. CASE h \in 1 .. Len(l) /\ c[h] = l[h]
      BY <3>1 DEF UpTo
    <3>2. CASE h > Len(l) /\ h - Len(l) \in 1 .. Len(e) /\ c[h] = e[h - Len(l)]
      BY <1>1, <3>2
    <3> QED
      BY <1>3, <3>1, <3>2
  <2>2. CASE c[i].request \in 1 .. n
    <3>1. /\ i \in 1 .. Len(l) /\ c[i] = l[i]
          /\ j \in 1 .. Len(l) /\ c[j] = l[j]
      BY <2>1, <2>2
    <3> QED
      BY <3>1 DEF UpTo, OneOfEach
  <2>3. CASE c[i].request \notin 1 .. n
    <3>1. i - Len(l) = j - Len(l)
      BY <2>1, <2>3
    <3> QED
      BY <1>3, <3>1
  <2> QED
    BY <2>2, <2>3
<1> QED
  BY <1>3, <1>4, <1>5, <1>6 DEF UpTo, c, e

\* The events of all requests, one invocation after the other.
LEMMA InvocationsInOrder ==
    ASSUME NEW statuses \in [Requests -> Statuses]
    PROVE  LET l == FlattenSeq([r \in Requests |-> Invocation(r, statuses[r])])
           IN  \E n \in Nat : UpTo(l, n)
<1> DEFINE seqs == [r \in Requests |-> Invocation(r, statuses[r])]
           m == Cardinality(Requests)
<1>1. m \in Nat /\ Requests = 1 .. m
  BY ProcessorAssumption
<1> HIDE DEF m
<1>2. seqs \in Seq(Seq(LogEvents)) /\ Len(seqs) = m
  <2>1. ASSUME NEW r \in Requests PROVE Invocation(r, statuses[r]) \in Seq(LogEvents)
    BY InvocationIs
  <2>2. seqs \in [1 .. m -> Seq(LogEvents)]
    BY <1>1, <2>1
  <2> HIDE DEF seqs
  <2> QED
    BY <1>1, <2>2
<1>3. UpTo(<< >>, 0)
  BY DEF UpTo, StartsFirst, OneOfEach
<1>4. CASE m = 0
  <2>1. FlattenSeq(seqs) = << >>
    BY <1>2, <1>4 DEF FlattenSeq
  <2> QED
    BY <1>3, <2>1
<1>5. CASE m > 0
  <2>1. PICK f : IsJoined(f, m, seqs) /\ FlattenSeq(seqs) = f[m]
    BY <1>1, <1>2, <1>5, FlattenUnfolds
  <2> DEFINE S == {n \in Nat : n + 1 <= m => UpTo(f[n + 1], n + 1)}
  <2>2. 0 \in S
    <3>1. 1 \in Requests /\ 0 + 1 \in Requests /\ f[1] = Invocation(1, statuses[1])
      <4>1. 1 \in Requests /\ 0 + 1 = 1
        BY <1>1, <1>5
      <4>2. f[1] = seqs[1]
        BY <2>1 DEF IsJoined
      <4>3. seqs[1] = Invocation(1, statuses[1])
        BY <4>1
      <4> HIDE DEF seqs
      <4> QED
        BY <4>1, <4>2, <4>3
    <3>2. UpTo(<< >> \o Invocation(1, statuses[1]), 1)
      <4>1. 0 \in Nat /\ 0 + 1 = 1 /\ statuses[1] \in Statuses
        BY <3>1
      <4>2. UpTo(<< >> \o Invocation(0 + 1, statuses[1]), 0 + 1)
        BY ONLY Zenon, <1>3, <3>1, <4>1, OneMoreInvocation
      <4> QED
        BY <4>1, <4>2
    <3>3. << >> \o Invocation(1, statuses[1]) = Invocation(1, statuses[1])
      BY <3>1, InvocationIs
    <3> QED
      BY <3>1, <3>2, <3>3
  <2>3. ASSUME NEW n \in Nat, n \in S PROVE n + 1 \in S
    <3>1. SUFFICES ASSUME (n + 1) + 1 <= m PROVE UpTo(f[(n + 1) + 1], (n + 1) + 1)
      OBVIOUS
    <3>2. n + 1 \in Nat /\ (n + 1) + 1 \in Requests /\ (n + 1) + 1 \in 2 .. m
            /\ ((n + 1) + 1) - 1 = n + 1 /\ n + 1 <= m
      BY <1>1, <3>1
    <3>3. UpTo(f[n + 1], n + 1)
      BY <2>3, <3>2
    <3>4. f[(n + 1) + 1] = f[n + 1] \o Invocation((n + 1) + 1, statuses[(n + 1) + 1])
      BY <2>1, <3>2 DEF IsJoined
    <3> QED
      BY <3>2, <3>3, <3>4, OneMoreInvocation
  <2>4. Nat \subseteq S
    <3> HIDE DEF S
    <3> QED
      BY <2>2, <2>3, SetInduction
  <2>5. m - 1 \in S /\ (m - 1) + 1 = m
    BY <1>1, <1>5, <2>4
  <2> QED
    BY <1>1, <2>1, <2>5
<1> QED
  BY <1>1, <1>4, <1>5

\* The log of the platform, whatever its invocations come to.
LEMMA PlatformLogs ==
    ASSUME NEW statuses \in [Requests -> Statuses]
    PROVE  LogOK(PlatformLog(statuses))
             /\ \A i \in 1 .. Len(PlatformLog(statuses)) : PlatformLog(statuses)[i].time = i
<1> DEFINE l == FlattenSeq([r \in Requests |-> Invocation(r, statuses[r])])
           other == Event("other", 0, << >>, None)
           events == <<other>> \o l
           timed == [i \in DOMAIN events |-> [events[i] EXCEPT !.time = i]]
<1>1. PlatformLog(statuses) = timed
  BY DEF PlatformLog
<1>2. PICK n \in Nat : UpTo(l, n)
  BY InvocationsInOrder
<1> HIDE DEF l
<1>3. other \in LogEvents /\ other.kind = "other"
  BY DEF Event, LogEvents, LoggedHeaders, Kinds
<1>4. <<other>> \in Seq(LogEvents) /\ Len(<<other>>) = 1 /\ <<other>>[1] = other
  BY <1>3
<1> HIDE DEF other
<1>5. /\ events \in Seq(LogEvents) /\ Len(l) \in Nat /\ Len(events) = 1 + Len(l)
      /\ \A i \in 1 .. Len(events) : \/ i \in 1 .. 1 /\ events[i] = <<other>>[i]
                                     \/ i > 1 /\ i - 1 \in 1 .. Len(l) /\ events[i] = l[i - 1]
  BY <1>2, <1>4, Concatenated DEF UpTo
<1>6. \A i \in 1 .. Len(events) : \/ events[i] = other
                                  \/ i - 1 \in 1 .. Len(l) /\ events[i] = l[i - 1]
  BY <1>4, <1>5
<1> HIDE DEF events
<1>7. DOMAIN events = 1 .. Len(events) /\ Len(events) \in Nat
  BY <1>5
<1>8. ASSUME NEW i \in 1 .. Len(events)
      PROVE  /\ timed[i] \in LogEvents /\ timed[i].time = i /\ timed[i].kind = events[i].kind
             /\ timed[i].request = events[i].request /\ timed[i].header = events[i].header
  <2>1. events[i] \in LogEvents /\ i \in Nat
    BY <1>5, <1>7
  <2>2. timed[i] = [events[i] EXCEPT !.time = i]
    BY <1>7
  <2> HIDE DEF timed
  <2> QED
    BY <2>1, <2>2 DEF LogEvents
<1>9. timed \in Seq(LogEvents) /\ Len(timed) = Len(events)
  <2>1. timed \in [1 .. Len(events) -> LogEvents]
    BY <1>7, <1>8
  <2> HIDE DEF timed
  <2> QED
    BY <1>7, <2>1
<1> HIDE DEF timed
<1>10. ASSUME NEW i \in 1 .. Len(timed) PROVE StartOK(timed[i])
  <2>1. i \in 1 .. Len(events)
    BY <1>9
  <2>2. StartOK(events[i])
    <3>1. CASE events[i] = other
      BY <1>3, <3>1 DEF StartOK
    <3>2. CASE i - 1 \in 1 .. Len(l) /\ events[i] = l[i - 1]
      <4>1. StartOK(l[i - 1])
        BY <1>2, <3>2 DEF UpTo
      <4> QED
        BY <3>2, <4>1
    <3> QED
      BY <1>6, <2>1, <3>1, <3>2
  <2> QED
    BY <1>8, <2>1, <2>2 DEF StartOK
<1>11. StartsFirst(timed)
  <2> SUFFICES ASSUME NEW i \in 1 .. Len(timed), NEW j \in 1 .. Len(timed),
                      timed[i].kind = "start", timed[j].kind = "runtimeDone",
                      timed[i].request = timed[j].request
               PROVE  i < j
    BY DEF StartsFirst
  <2>1. /\ i - 1 \in 1 .. Len(l) /\ events[i] = l[i - 1]
        /\ j - 1 \in 1 .. Len(l) /\ events[j] = l[j - 1]
    BY <1>3, <1>6, <1>8, <1>9
  <2>2. i - 1 < j - 1
    <3>1. /\ events[i].kind = "start" /\ events[j].kind = "runtimeDone"
          /\ events[i].request = events[j].request
      BY <1>8, <1>9
    <3>2. /\ l[i - 1].kind = "start" /\ l[j - 1].kind = "runtimeDone"
          /\ l[i - 1].request = l[j - 1].request
      BY <2>1, <3>1
    <3>3. StartsFirst(l)
      BY <1>2 DEF UpTo
    <3> QED
      BY <2>1, <3>2, <3>3 DEF StartsFirst
  <2> QED
    BY <2>2
<1>12. OneOfEach(timed)
  <2> SUFFICES ASSUME NEW i \in 1 .. Len(timed), NEW j \in 1 .. Len(timed),
                      timed[i].kind = timed[j].kind, timed[i].kind \in {"start", "runtimeDone"},
                      timed[i].request = timed[j].request
               PROVE  i = j
    BY DEF OneOfEach
  <2>1. /\ i - 1 \in 1 .. Len(l) /\ events[i] = l[i - 1]
        /\ j - 1 \in 1 .. Len(l) /\ events[j] = l[j - 1]
    BY <1>3, <1>6, <1>8, <1>9
  <2>2. i - 1 = j - 1
    <3>1. /\ events[i].kind = events[j].kind /\ events[i].kind \in {"start", "runtimeDone"}
          /\ events[i].request = events[j].request
      BY <1>8, <1>9
    <3>2. /\ l[i - 1].kind = l[j - 1].kind /\ l[i - 1].kind \in {"start", "runtimeDone"}
          /\ l[i - 1].request = l[j - 1].request
      BY <2>1, <3>1
    <3>3. OneOfEach(l)
      BY <1>2 DEF UpTo
    <3> QED
      BY <2>1, <3>2, <3>3 DEF OneOfEach
  <2> QED
    BY <2>2
<1> QED
  BY <1>1, <1>8, <1>9, <1>10, <1>11, <1>12 DEF LogOK

-----------------------------------------------------------------------------
(* The trace header. *)

\* One part of a name is the last one.
LEMMA LastOfOne ==
    ASSUME NEW parts, NEW key, NEW i \in Nat, Named(parts, key) = {i}
    PROVE  LastValue(parts, key) = parts[i].value
<1>1. (CHOOSE j \in {i} : \A k \in {i} : k <= j) = i
  OBVIOUS
<1> QED
  BY <1>1 DEF LastValue

\* A canonical header names one root and one parent, and its meaning is that.
LEMMA CanonicalMeans ==
    ASSUME NEW header, IsHeader(header), Canonical(header)
    PROVE  /\ LastValue(header, "Root") = Meaning(header).trace
           /\ LastValue(header, "Parent") = Meaning(header).span
           /\ SomeSampled(header) <=> Meaning(header).sampled
           /\ Meaning(header) = [trace   |-> Meaning(header).trace,
                                 span    |-> Meaning(header).span,
                                 sampled |-> Meaning(header).sampled]
           /\ Meaning(header).trace \in Ids /\ Meaning(header).span \in Ids
           /\ Meaning(header).sampled \in BOOLEAN
<1>1. ASSUME NEW i \in DOMAIN header
      PROVE  i \in Nat /\ header[i] = Part(header[i].key, header[i].value, FALSE)
  <2>1. header[i].space = FALSE
    BY DEF IsHeader, Canonical
  <2>2. header[i] = Part(header[i].key, header[i].value, FALSE)
    BY <2>1 DEF IsHeader
  <2>3. i \in 1 .. Len(header)
    BY DEF IsHeader
  <2>4. \A n : 1 .. n \subseteq Nat
    OBVIOUS
  <2> QED
    BY <2>2, <2>3, <2>4
<1>2. ASSUME NEW key \in {"Root", "Parent"}
      PROVE  /\ LastValue(header, key) \in Ids
             /\ (CHOOSE id \in Ids : \E i \in DOMAIN header : header[i] = Part(key, id, FALSE))
                    = LastValue(header, key)
  <2>1. PICK i \in DOMAIN header : Named(header, key) = {i} /\ header[i].value \in Ids
    BY DEF Canonical
  <2>2. LastValue(header, key) = header[i].value
    BY <1>1, <2>1, LastOfOne
  <2>3. header[i] = Part(key, header[i].value, FALSE)
    <3>1. header[i].key = key
      BY <2>1 DEF Named
    <3> QED
      BY <1>1, <3>1
  <2>4. ASSUME NEW id \in Ids, NEW j \in DOMAIN header, header[j] = Part(key, id, FALSE)
        PROVE  id = header[i].value
    <3>1. j \in Named(header, key) /\ header[j].value = id
      BY <2>4 DEF Named, Part
    <3> QED
      BY <2>1, <3>1
  <2> QED
    BY <2>1, <2>2, <2>3, <2>4
<1>3. SomeSampled(header) <=> \E i \in DOMAIN header : header[i] = Part("Sampled", "1", FALSE)
  <2>1. ASSUME NEW i \in DOMAIN header
        PROVE  header[i].key = "Sampled" /\ header[i].value = "1"
                   <=> header[i] = Part("Sampled", "1", FALSE)
    BY <1>1 DEF Part
  <2> QED
    BY <2>1 DEF SomeSampled
<1>4. /\ Meaning(header).trace = LastValue(header, "Root")
      /\ Meaning(header).span = LastValue(header, "Parent")
  BY <1>2 DEF Meaning
<1>5. Meaning(header).sampled <=> \E i \in DOMAIN header : header[i] = Part("Sampled", "1", FALSE)
  BY DEF Meaning
<1>6. Meaning(header).sampled \in BOOLEAN
  BY DEF Meaning
<1>7. Meaning(header) = [trace   |-> Meaning(header).trace,
                         span    |-> Meaning(header).span,
                         sampled |-> Meaning(header).sampled]
  BY DEF Meaning
<1> QED
  BY <1>2, <1>3, <1>4, <1>5, <1>6, <1>7

\* The extension reads of a canonical header the ids it names.
LEMMA ExtensionReads ==
    ASSUME NEW header, IsHeader(header), Canonical(header)
    PROVE  ExtensionContext(header) = IdsOf(Meaning(header))
<1> DEFINE meaning == Meaning(header)
<1>1. /\ LastValue(header, "Root") = meaning.trace /\ LastValue(header, "Parent") = meaning.span
      /\ meaning.trace \in Ids /\ meaning.span \in Ids
  BY CanonicalMeans
<1> HIDE DEF meaning
<1>2. meaning.trace # None
  BY <1>1, IdsAssumption
<1>3. RootFieldsToTraceId(meaning.trace) # None
  BY <1>1, <1>2 DEF RootFieldsToTraceId
<1>4. ExtensionContext(header) = [trace |-> meaning.trace, span |-> meaning.span]
  BY <1>1, <1>3 DEF ExtensionContext, IdsOf, ParseHeader, ToW3C
<1> QED
  BY <1>4 DEF meaning, IdsOf

-----------------------------------------------------------------------------
(* A batch is a stretch of the log. *)

BatchesOK ==
    \E n \in Nat : batches \in [1 .. n -> 1 .. Len(log)]
                     /\ \A i \in 1 .. n - 1 : batches[i] < batches[i + 1]

\* Batches end one after the other, and within the log.
LEMMA EndsAscend ==
    ASSUME LogOK(log), BatchesOK, NEW b \in DOMAIN batches
    PROVE  /\ b \in Nat /\ b > 0
           /\ \A c \in 0 .. b : EndOf(c) \in 0 .. Len(log)
           /\ EndOf(b - 1) < EndOf(b)
<1>1. PICK n \in Nat : batches \in [1 .. n -> 1 .. Len(log)]
                         /\ \A i \in 1 .. n - 1 : batches[i] < batches[i + 1]
  BY DEF BatchesOK
<1>2. b \in 1 .. n
  BY <1>1
<1>3. ASSUME NEW c \in 0 .. b PROVE EndOf(c) \in 0 .. Len(log)
  <2>1. Len(log) \in Nat
    BY DEF LogOK
  <2>2. CASE c = 0
    BY <2>1, <2>2 DEF EndOf
  <2>3. CASE c # 0
    <3>1. c \in 1 .. n
      BY <1>2, <2>3
    <3>2. batches[c] \in 1 .. Len(log)
      BY <1>1, <3>1
    <3> QED
      BY <2>3, <3>2 DEF EndOf
  <2> QED
    BY <2>2, <2>3
<1>4. EndOf(b - 1) < EndOf(b)
  <2>1. CASE b = 1
    <3>1. batches[1] \in 1 .. Len(log)
      BY <1>1, <1>2, <2>1
    <3> QED
      BY <2>1, <3>1 DEF EndOf
  <2>2. CASE b # 1
    <3>1. b - 1 \in 1 .. n - 1 /\ (b - 1) + 1 = b /\ b - 1 # 0 /\ b # 0
      BY <1>2, <2>2
    <3> QED
      BY <1>1, <3>1 DEF EndOf
  <2> QED
    BY <2>1, <2>2
<1> QED
  BY <1>2, <1>3, <1>4

LEMMA BatchIs ==
    ASSUME LogOK(log), BatchesOK, NEW b \in DOMAIN batches
    PROVE  /\ EndOf(b - 1) \in Nat /\ EndOf(b) \in Nat /\ EndOf(b) <= Len(log)
           /\ Len(Batch(b)) \in Nat /\ DOMAIN Batch(b) = 1 .. Len(Batch(b))
           /\ EndOf(b - 1) + Len(Batch(b)) = EndOf(b)
           /\ \A i \in 1 .. Len(Batch(b)) :
                 /\ EndOf(b - 1) + i \in 1 .. Len(log) /\ EndOf(b - 1) + i <= EndOf(b)
                 /\ Batch(b)[i] = log[EndOf(b - 1) + i]
<1> DEFINE from == EndOf(b - 1)
           to == EndOf(b)
           len == Len(log)
<1>1. from \in Nat /\ to \in Nat /\ from < to /\ to <= len /\ len \in Nat
  <2>1. b \in 0 .. b /\ b - 1 \in 0 .. b
    BY EndsAscend
  <2>2. from \in 0 .. len /\ to \in 0 .. len /\ from < to
    BY <2>1, EndsAscend
  <2>3. len \in Nat
    BY DEF LogOK
  <2> HIDE DEF from, to, len
  <2> QED
    BY <2>2, <2>3
<1>2. Batch(b) = SubSeq(log, from + 1, to) /\ log \in Seq(LogEvents) /\ Len(log) = len
  BY DEF Batch, LogOK
<1> HIDE DEF from, to, len
<1>3. Len(Batch(b)) = to - from /\ DOMAIN Batch(b) = 1 .. Len(Batch(b))
  BY <1>1, <1>2
<1>4. ASSUME NEW i \in 1 .. Len(Batch(b))
      PROVE  from + i \in 1 .. len /\ from + i <= to /\ Batch(b)[i] = log[from + i]
  <2>1. from + i \in 1 .. len /\ from + i <= to /\ (from + 1) + i - 1 = from + i /\ i \in 1 .. to - from
    BY <1>1, <1>3
  <2> QED
    BY <1>1, <1>2, <2>1
<1> QED
  BY <1>1, <1>2, <1>3, <1>4 DEF from, to, len

\* Of two batches, the later one ends later.
LEMMA EndsGrow ==
    ASSUME LogOK(log), BatchesOK, NEW b \in DOMAIN batches, NEW c \in 1 .. b
    PROVE  EndOf(c) \in Nat /\ EndOf(b) \in Nat /\ EndOf(c) <= EndOf(b)
<1>1. \A d \in 0 .. b : EndOf(d) \in Nat
  <2>1. Len(log) \in Nat
    BY DEF LogOK
  <2> QED
    BY <2>1, EndsAscend
<1>2. b \in Nat /\ b \in 1 .. b /\ c \in 0 .. b /\ b \in 0 .. b
  BY EndsAscend
<1> DEFINE T == {d \in Nat : c + d <= b => EndOf(c) <= EndOf(c + d)}
<1>3. 0 \in T
  <2>1. c + 0 = c /\ EndOf(c) <= EndOf(c)
    BY <1>1, <1>2
  <2> QED
    BY <2>1
<1>4. ASSUME NEW d \in Nat, d \in T, c + (d + 1) <= b PROVE EndOf(c) <= EndOf(c + (d + 1))
  <2> DEFINE e == c + (d + 1)
  <2>1. /\ c + d <= b /\ e - 1 = c + d /\ c + d \in 0 .. b /\ e \in 0 .. b
        /\ e \in 1 .. b
    BY <1>2, <1>4
  <2>2. e \in DOMAIN batches
    BY <2>1, EndsAscend DEF BatchesOK
  <2>3. EndOf(c) <= EndOf(c + d)
    BY <1>4, <2>1
  <2> HIDE DEF e
  <2>4. EndOf(c + d) < EndOf(e)
    BY <2>1, <2>2, EndsAscend
  <2> QED
    BY <1>1, <1>2, <2>1, <2>3, <2>4 DEF e
<1>5. Nat \subseteq T
  <2>1. ASSUME NEW d \in Nat, d \in T PROVE d + 1 \in T
    <3>1. d + 1 \in Nat
      OBVIOUS
    <3>2. c + (d + 1) <= b => EndOf(c) <= EndOf(c + (d + 1))
      BY Zenon, <1>4, <2>1
    <3> QED
      BY Zenon, <3>1, <3>2
  <2> HIDE DEF T
  <2> QED
    BY <1>3, <2>1, SetInduction
<1>6. b - c \in Nat /\ c + (b - c) = b
  BY <1>2
<1>7. EndOf(c) <= EndOf(c + (b - c))
  <2>1. b - c \in T
    BY <1>5, <1>6
  <2> QED
    BY <1>2, <1>6, <2>1
<1> QED
  BY <1>1, <1>2, <1>6, <1>7

\* Every event up to the end of a batch is in one of the batches up to it.
LEMMA BatchesCoverTheLog ==
    ASSUME LogOK(log), BatchesOK, NEW b \in DOMAIN batches, NEW k \in 1 .. EndOf(b)
    PROVE  \E c \in 1 .. b : \E i \in DOMAIN Batch(c) : Batch(c)[i] = log[k]
<1> DEFINE Covered(c) == \A j \in 1 .. EndOf(c) :
                            \E d \in 1 .. c : \E i \in DOMAIN Batch(d) : Batch(d)[i] = log[j]
           S == {c \in Nat : c <= b => Covered(c)}
<1>1. 0 \in S
  BY DEF EndOf
<1>2. ASSUME NEW c \in Nat, c \in S, c + 1 <= b, NEW j \in 1 .. EndOf(c + 1)
      PROVE  \E d \in 1 .. c + 1 : \E i \in DOMAIN Batch(d) : Batch(d)[i] = log[j]
  <2>1. c + 1 \in DOMAIN batches /\ (c + 1) - 1 = c /\ c + 1 \in 1 .. c + 1
    BY <1>2, EndsAscend DEF BatchesOK
  <2>2. /\ EndOf(c) \in Nat /\ EndOf(c + 1) \in Nat /\ Len(Batch(c + 1)) \in Nat
        /\ EndOf(c) + Len(Batch(c + 1)) = EndOf(c + 1)
        /\ DOMAIN Batch(c + 1) = 1 .. Len(Batch(c + 1))
        /\ \A i \in 1 .. Len(Batch(c + 1)) : Batch(c + 1)[i] = log[EndOf(c) + i]
    BY <2>1, BatchIs
  <2>3. CASE j <= EndOf(c)
    <3>1. j \in 1 .. EndOf(c)
      BY <2>2, <2>3
    <3>2. c <= b
      BY <1>2, EndsAscend
    <3>3. Covered(c)
      BY <1>2, <3>2
    <3>4. PICK d \in 1 .. c : \E i \in DOMAIN Batch(d) : Batch(d)[i] = log[j]
      BY <3>1, <3>3
    <3>5. d \in 1 .. c + 1
      OBVIOUS
    <3> QED
      BY <3>4, <3>5
  <2>4. CASE j > EndOf(c)
    <3>1. j - EndOf(c) \in 1 .. Len(Batch(c + 1)) /\ EndOf(c) + (j - EndOf(c)) = j
      BY <2>2, <2>4
    <3>2. Batch(c + 1)[j - EndOf(c)] = log[j] /\ j - EndOf(c) \in DOMAIN Batch(c + 1)
      BY <2>2, <3>1
    <3> QED
      BY <2>1, <3>2
  <2> QED
    BY <2>2, <2>3, <2>4
<1>3. Nat \subseteq S
  <2>1. ASSUME NEW c \in Nat, c \in S PROVE c + 1 \in S
    <3>1. c + 1 \in Nat
      OBVIOUS
    <3>2. c + 1 <= b => Covered(c + 1)
      BY Zenon, <1>2, <2>1
    <3> QED
      BY Zenon, <3>1, <3>2
  <2> HIDE DEF S
  <2> QED
    BY <1>1, <2>1, SetInduction
<1>4. b \in Nat /\ b <= b
  BY EndsAscend
<1>5. Covered(b)
  BY <1>3, <1>4
<1> QED
  BY <1>5

-----------------------------------------------------------------------------
(* The events of a batch, one after the other. *)

\* What the recursive function of ProcessEvents computes, as far as the first n events.
IsRun(g, n, events) ==
    /\ g = [i \in 0 .. n |-> g[i]]
    /\ g[0] = [pending |-> pending, spans |-> << >>, metrics |-> << >>]
    /\ \A i \in 1 .. n : g[i] = ProcessEvent(g[i - 1], events[i])

LEMMA RunExists ==
    ASSUME NEW events, NEW m \in Nat
    PROVE  \E g : IsRun(g, m, events)
<1> DEFINE S == {n \in Nat : \E g : IsRun(g, n, events)}
<1>1. 0 \in S
  <2> DEFINE g == [i \in 0 .. 0 |-> [pending |-> pending, spans |-> << >>, metrics |-> << >>]]
  <2>1. IsRun(g, 0, events)
    BY DEF IsRun
  <2> HIDE DEF g
  <2> QED
    BY <2>1
<1>2. ASSUME NEW n \in Nat, n \in S PROVE \E g : IsRun(g, n + 1, events)
  <2>1. PICK g : IsRun(g, n, events)
    BY <1>2
  <2> DEFINE k == n + 1
             h == [i \in 0 .. k |-> IF i = k THEN ProcessEvent(g[n], events[k]) ELSE g[i]]
  <2>2. k \in Nat /\ k - 1 = n /\ 0 # k /\ 0 \in 0 .. k /\ k \in 0 .. k
    OBVIOUS
  <2>3. h[0] = g[0]
    BY <2>2
  <2>4. ASSUME NEW i \in 1 .. k PROVE h[i] = ProcessEvent(h[i - 1], events[i])
    <3>1. CASE i = k
      <4>1. h[k] = ProcessEvent(g[n], events[k])
        BY <2>2
      <4>2. n \in 0 .. k /\ n # k
        BY <2>2
      <4>3. h[n] = g[n]
        BY <4>2
      <4> QED
        BY <2>2, <3>1, <4>1, <4>3
    <3>2. CASE i # k
      <4>1. i \in 1 .. n /\ i \in 0 .. k /\ i - 1 \in 0 .. k /\ i - 1 # k
        BY <2>2, <3>2
      <4>2. h[i] = g[i] /\ h[i - 1] = g[i - 1]
        BY <3>2, <4>1
      <4> HIDE DEF h
      <4> QED
        BY <2>1, <4>1, <4>2 DEF IsRun
    <3> QED
      BY <3>1, <3>2
  <2>5. h = [i \in 0 .. k |-> h[i]]
    OBVIOUS
  <2> HIDE DEF h
  <2>6. h[0] = [pending |-> pending, spans |-> << >>, metrics |-> << >>]
    BY <2>1, <2>3 DEF IsRun
  <2>7. IsRun(h, k, events)
    BY <2>4, <2>5, <2>6 DEF IsRun
  <2> QED
    BY <2>7
<1>3. Nat \subseteq S
  <2>1. ASSUME NEW n \in Nat, n \in S PROVE n + 1 \in S
    <3>1. n + 1 \in Nat
      OBVIOUS
    <3> QED
      BY Zenon, <1>2, <2>1, <3>1
  <2> HIDE DEF S
  <2> QED
    BY <1>1, <2>1, SetInduction
<1> QED
  BY <1>3

\* ProcessEvents is the last of them.
LEMMA RunUnfolds ==
    ASSUME NEW events, Len(events) \in Nat
    PROVE  \E g : IsRun(g, Len(events), events) /\ ProcessEvents(events) = g[Len(events)]
<1> DEFINE before == [pending |-> pending, spans |-> << >>, metrics |-> << >>]
           body(g) == [i \in 0 .. Len(events) |->
                         IF i = 0 THEN before ELSE ProcessEvent(g[i - 1], events[i])]
           after == CHOOSE g : g = body(g)
<1>1. ProcessEvents(events) = after[Len(events)]
  BY DEF ProcessEvents
<1>2. PICK g : IsRun(g, Len(events), events)
  BY RunExists
<1>3. g = body(g)
  <2>1. ASSUME NEW i \in 0 .. Len(events)
        PROVE  g[i] = IF i = 0 THEN before ELSE ProcessEvent(g[i - 1], events[i])
    <3>1. i = 0 \/ (i # 0 /\ i \in 1 .. Len(events))
      OBVIOUS
    <3> QED
      BY <1>2, <3>1 DEF IsRun
  <2>2. g = [i \in 0 .. Len(events) |-> g[i]]
    BY <1>2 DEF IsRun
  <2> QED
    BY <2>1, <2>2
<1>4. after = body(after)
  BY <1>3
<1> HIDE DEF after
<1>5. IsRun(after, Len(events), events)
  <2>1. after = [i \in 0 .. Len(events) |-> after[i]]
    BY <1>4
  <2>2. after[0] = before
    <3>1. 0 \in 0 .. Len(events)
      OBVIOUS
    <3> QED
      BY <1>4, <3>1
  <2>3. ASSUME NEW i \in 1 .. Len(events) PROVE after[i] = ProcessEvent(after[i - 1], events[i])
    <3>1. i \in 0 .. Len(events) /\ i # 0
      OBVIOUS
    <3> QED
      BY <1>4, <3>1
  <2> QED
    BY <2>1, <2>2, <2>3 DEF IsRun
<1> QED
  BY <1>1, <1>5

-----------------------------------------------------------------------------
(* The inductive invariant. *)

LogTimed == LogOK(log) /\ \A i \in 1 .. Len(log) : log[i].time = i

\* What is pending under a request id is a start that the platform logged of it.
PendingOK(starts) ==
    /\ starts = [r \in DOMAIN starts |-> starts[r]]
    /\ \A r \in DOMAIN starts :
          \E i \in 1 .. Len(log) : starts[r] = log[i] /\ log[i].kind = "start" /\ log[i].request = r

\* The spans of a start and an end of one request.
Joined ==
    {linked \in {SpanOf(log[i], log[j]) : i, j \in 1 .. Len(log)} :
        \E i, j \in 1 .. Len(log) :
            /\ linked = SpanOf(log[i], log[j])
            /\ log[i].kind = "start" /\ log[j].kind = "runtimeDone"
            /\ log[i].request = log[j].request}

Reports == {MetricsOf(log[i]) : i \in 1 .. Len(log)}

\* A state of the processor amid a batch.
StateOK(state) ==
    /\ state = [pending |-> state.pending, spans |-> state.spans, metrics |-> state.metrics]
    /\ PendingOK(state.pending)
    /\ state.spans \in Seq(Joined)
    /\ state.metrics \in Seq(Reports)

LoggedUpTo(k, kind, request) == \E i \in 1 .. k : log[i].kind = kind /\ log[i].request = request

\* The requests that are open after the first k events.
OpenAt(k) == {r \in Requests : LoggedUpTo(k, "start", r) /\ ~LoggedUpTo(k, "runtimeDone", r)}

\* The metrics of every report among these events.
Reported(requests, events, n) ==
    \A i \in 1 .. n : events[i].kind = "report" =>
        \E m \in 1 .. Len(requests) : requests[m] = MetricsOf(events[i])

\* Whatever a call has still to add is that of its batch, which the processor has taken.
CallOK(job) ==
    /\ job \in [batch : DOMAIN batches, nr : Nat, at : {"begun", "adding"}, metrics : Seq(Reports)]
    /\ job.at = "adding" =>
          /\ \E n \in DOMAIN processed : processed[n] = job.batch
          /\ \A i \in DOMAIN Batch(job.batch) : Batch(job.batch)[i].kind = "report" =>
                \/ MetricsOf(Batch(job.batch)[i]) \in metrics
                \/ \E m \in 1 .. Len(job.metrics) :
                      job.metrics[m] = MetricsOf(Batch(job.batch)[i])

\* The body of CompletedMeansAdded.
AddedFor(r) ==
    \E n \in DOMAIN processed :
        LET events == Batch(processed[n])
        IN  /\ r \in DoneIn(events)
            /\ \A i \in DOMAIN events :
                  events[i].kind = "report" => MetricsOf(events[i]) \in metrics

OpenAreKept == InOrderOnce => DOMAIN pending = OpenAt(EndOf(Len(processed)))

HasSpan(ss, i, j) == \E n \in 1 .. Len(ss) : ss[n].from = i /\ ss[n].to = j

\* The start at i and the end at j are those of one request.
IsPair(i, j) ==
    /\ log[i].kind = "start" /\ log[j].kind = "runtimeDone" /\ log[i].request = log[j].request
    /\ i < j

\* While batches come in order, a span was made of every start and end.
PairsHaveSpans ==
    InOrderOnce =>
        \A i, j \in 1 .. EndOf(Len(processed)) : IsPair(i, j) => HasSpan(spans, i, j)

BatchAdded(b) ==
    \A i \in DOMAIN Batch(b) : Batch(b)[i].kind = "report" => MetricsOf(Batch(b)[i]) \in metrics

\* What was delivered is under way, or in the aggregator.
NothingLost ==
    \A b \in delivered :
        b \in DOMAIN batches /\ ((\E job \in calls : job.batch = b) \/ BatchAdded(b))

ProcessorInv ==
    /\ LogTimed /\ BatchesOK
    /\ redeliveries \in Nat
    /\ processed \in Seq(DOMAIN batches)
    /\ PendingOK(pending)
    /\ spans \in Seq(Joined)
    /\ \A job \in calls : CallOK(job)
    /\ CompletedMeansAdded /\ NothingLost
    /\ OpenAreKept /\ PairsHaveSpans

\* What one event of the log does to the processor.
LEMMA EventPreserves ==
    ASSUME LogTimed, NEW s, StateOK(s), NEW k \in 1 .. Len(log)
    PROVE  LET t == ProcessEvent(s, log[k])
           IN  /\ StateOK(t)
               /\ log[k].kind = "report" => t.metrics = Append(s.metrics, MetricsOf(log[k]))
               /\ log[k].kind # "report" => t.metrics = s.metrics
               /\ DOMAIN s.pending = OpenAt(k - 1) => DOMAIN t.pending = OpenAt(k)
<1> DEFINE e == log[k]
           r == e.request
           t == ProcessEvent(s, e)
<1>1. e \in LogEvents /\ e.kind \in Kinds /\ StartOK(e) /\ k \in Nat /\ k > 0
  <2>1. e \in LogEvents /\ StartOK(e) /\ k \in Nat /\ k > 0
    BY DEF LogTimed, LogOK
  <2> QED
    BY <2>1 DEF LogEvents
<1>2. ASSUME NEW kind, NEW q
      PROVE  LoggedUpTo(k, kind, q) <=> LoggedUpTo(k - 1, kind, q) \/ (e.kind = kind /\ r = q)
  <2>1. \A i : i \in 1 .. k <=> i \in 1 .. k - 1 \/ i = k
    BY <1>1
  <2> QED
    BY <2>1 DEF LoggedUpTo
<1>3. s = [pending |-> s.pending, spans |-> s.spans, metrics |-> s.metrics]
  BY DEF StateOK
<1>4. CASE e.kind = "other"
  <2>1. t = s
    BY <1>4 DEF ProcessEvent, Converted
  <2>2. OpenAt(k) = OpenAt(k - 1)
    BY <1>2, <1>4 DEF OpenAt
  <2> QED
    BY <1>4, <2>1, <2>2
<1>5. CASE e.kind = "start"
  <2> DEFINE starts == [q \in DOMAIN s.pending \cup {r} |-> IF q = r THEN e ELSE s.pending[q]]
  <2>1. t = [s EXCEPT !.pending = starts]
    BY <1>5 DEF ProcessEvent, Converted
  <2>2. starts = [q \in DOMAIN starts |-> starts[q]] /\ DOMAIN starts = DOMAIN s.pending \cup {r}
    OBVIOUS
  <2>3. ASSUME NEW q \in DOMAIN starts
        PROVE  \E i \in 1 .. Len(log) :
                  starts[q] = log[i] /\ log[i].kind = "start" /\ log[i].request = q
    <3>1. CASE q = r
      <4>1. starts[q] = log[k]
        BY <3>1
      <4> QED
        BY <1>5, <3>1, <4>1
    <3>2. CASE q # r
      <4>1. q \in DOMAIN s.pending /\ starts[q] = s.pending[q]
        BY <3>2
      <4> HIDE DEF starts
      <4> QED
        BY <4>1 DEF StateOK, PendingOK
    <3> QED
      BY <3>1, <3>2
  <2> HIDE DEF starts
  <2>4. PendingOK(starts)
    BY <2>2, <2>3 DEF PendingOK
  <2>5. t = [pending |-> starts, spans |-> s.spans, metrics |-> s.metrics]
    BY <1>3, <2>1
  <2>6. StateOK(t) /\ t.metrics = s.metrics /\ t.pending = starts
    BY <2>4, <2>5 DEF StateOK
  <2>7. OpenAt(k) = OpenAt(k - 1) \cup {r}
    <3>1. ~LoggedUpTo(k - 1, "runtimeDone", r)
      <4>1. ASSUME NEW i \in 1 .. k - 1, log[i].kind = "runtimeDone", log[i].request = r PROVE FALSE
        <5>1. i \in 1 .. Len(log) /\ ~(k < i)
          BY <1>1
        <5> QED
          BY <1>5, <4>1, <5>1 DEF LogTimed, LogOK, StartsFirst
      <4> QED
        BY <4>1 DEF LoggedUpTo
    <3>2. r \in Requests
      BY <1>1, <1>5 DEF StartOK
    <3> QED
      BY <1>2, <1>5, <3>1, <3>2 DEF OpenAt
  <2> QED
    BY <1>5, <2>2, <2>6, <2>7
<1>6. CASE e.kind = "runtimeDone"
  <2>1. t = Pair(s, e)
    BY <1>6 DEF ProcessEvent, Converted
  <2>2. OpenAt(k) = OpenAt(k - 1) \ {r}
    BY <1>2, <1>6 DEF OpenAt
  <2>3. CASE r \notin DOMAIN s.pending
    <3>1. t = s
      BY <2>1, <2>3 DEF Pair
    <3> QED
      BY <1>6, <2>2, <2>3, <3>1
  <2>4. CASE r \in DOMAIN s.pending
    <3> DEFINE starts == [q \in DOMAIN s.pending \ {r} |-> s.pending[q]]
               linked == SpanOf(s.pending[r], e)
    <3>1. t = [s EXCEPT !.pending = starts, !.spans = Append(s.spans, linked)]
      BY <2>1, <2>4 DEF Pair
    <3>2. starts = [q \in DOMAIN starts |-> starts[q]] /\ DOMAIN starts = DOMAIN s.pending \ {r}
            /\ \A q \in DOMAIN starts : q \in DOMAIN s.pending /\ starts[q] = s.pending[q]
      OBVIOUS
    <3>3. linked \in Joined
      <4>1. PICK i \in 1 .. Len(log) :
                   s.pending[r] = log[i] /\ log[i].kind = "start" /\ log[i].request = r
        BY <2>4 DEF StateOK, PendingOK
      <4>2. linked = SpanOf(log[i], log[k])
        BY <4>1
      <4> HIDE DEF linked
      <4> QED
        BY <1>6, <4>1, <4>2 DEF Joined
    <3> HIDE DEF starts, linked
    <3>4. PendingOK(starts)
      BY <3>2 DEF StateOK, PendingOK
    <3>5. t = [pending |-> starts, spans |-> Append(s.spans, linked), metrics |-> s.metrics]
      BY <1>3, <3>1
    <3>6. Append(s.spans, linked) \in Seq(Joined)
      BY <3>3 DEF StateOK
    <3>7. StateOK(t) /\ t.metrics = s.metrics /\ t.pending = starts
      BY <3>4, <3>5, <3>6 DEF StateOK
    <3> QED
      BY <1>6, <2>2, <3>2, <3>7
  <2> QED
    BY <2>3, <2>4
<1>7. CASE e.kind = "report"
  <2>1. t = [s EXCEPT !.metrics = Append(s.metrics, MetricsOf(e))]
    BY <1>7 DEF ProcessEvent, Converted
  <2>2. t = [pending |-> s.pending, spans |-> s.spans, metrics |-> Append(s.metrics, MetricsOf(e))]
    BY <1>3, <2>1
  <2>3. Append(s.metrics, MetricsOf(e)) \in Seq(Reports)
    <3>1. MetricsOf(e) \in Reports
      BY DEF Reports
    <3> QED
      BY <3>1 DEF StateOK
  <2>4. StateOK(t)
    BY <2>2, <2>3 DEF StateOK
  <2>5. OpenAt(k) = OpenAt(k - 1)
    BY <1>2, <1>7 DEF OpenAt
  <2> QED
    BY <1>7, <2>2, <2>4, <2>5
<1> QED
  BY <1>1, <1>4, <1>5, <1>6, <1>7 DEF Kinds

\* What a batch does to the processor.
LEMMA BatchPreserves ==
    ASSUME LogTimed, BatchesOK, NEW b \in DOMAIN batches, PendingOK(pending)
    PROVE  LET result == ProcessEvents(Batch(b))
           IN  /\ StateOK(result)
               /\ Reported(result.metrics, Batch(b), Len(Batch(b)))
               /\ DOMAIN pending = OpenAt(EndOf(b - 1)) => DOMAIN result.pending = OpenAt(EndOf(b))
<1> DEFINE events == Batch(b)
           m == Len(events)
           from == EndOf(b - 1)
<1>1. /\ from \in Nat /\ m \in Nat /\ from + m = EndOf(b)
      /\ \A i \in 1 .. m : from + i \in 1 .. Len(log) /\ events[i] = log[from + i]
  BY BatchIs DEF LogTimed
<1> HIDE DEF events, from
<1>2. PICK g : IsRun(g, m, events) /\ ProcessEvents(events) = g[m]
  BY <1>1, RunUnfolds
<1> DEFINE Good(n) == /\ StateOK(g[n])
                      /\ Reported(g[n].metrics, events, n)
                      /\ DOMAIN pending = OpenAt(from) => DOMAIN g[n].pending = OpenAt(from + n)
           S == {n \in Nat : n <= m => Good(n)}
<1>3. Good(0)
  <2>1. g[0] = [pending |-> pending, spans |-> << >>, metrics |-> << >>]
    BY <1>2 DEF IsRun
  <2>2. StateOK(g[0])
    BY <2>1 DEF StateOK
  <2>3. Reported(g[0].metrics, events, 0)
    BY DEF Reported
  <2>4. from + 0 = from
    BY <1>1
  <2> QED
    BY <2>1, <2>2, <2>3, <2>4
<1>4. ASSUME NEW n \in Nat, n + 1 <= m, Good(n) PROVE Good(n + 1)
  <2> DEFINE k == n + 1
             s == g[n]
             t == g[k]
             ms == s.metrics
  <2>1. k \in 1 .. m /\ k - 1 = n /\ from + k \in Nat /\ (from + k) - 1 = from + n
    BY <1>1, <1>4
  <2>2. events[k] = log[from + k] /\ from + k \in 1 .. Len(log)
    BY <1>1, <2>1
  <2>3. t = ProcessEvent(s, log[from + k])
    BY <1>2, <2>1, <2>2 DEF IsRun
  <2>4. StateOK(s) /\ Reported(ms, events, n)
    BY <1>4
  <2>5. /\ StateOK(t)
        /\ events[k].kind = "report" => t.metrics = Append(ms, MetricsOf(events[k]))
        /\ events[k].kind # "report" => t.metrics = ms
        /\ DOMAIN s.pending = OpenAt(from + n) => DOMAIN t.pending = OpenAt(from + k)
    <3> DEFINE j == from + k
               u == ProcessEvent(s, log[j])
    <3>1. j \in 1 .. Len(log) /\ StateOK(s)
      BY <2>2, <2>4
    <3> HIDE DEF j, k, s, t, ms
    <3>2. /\ StateOK(u)
          /\ log[j].kind = "report" => u.metrics = Append(s.metrics, MetricsOf(log[j]))
          /\ log[j].kind # "report" => u.metrics = s.metrics
          /\ DOMAIN s.pending = OpenAt(j - 1) => DOMAIN u.pending = OpenAt(j)
      BY <3>1, EventPreserves
    <3> QED
      BY <2>1, <2>2, <2>3, <3>2 DEF j, ms
  <2>6. Reported(t.metrics, events, k)
    <3>1. \A i \in 1 .. k : i \in 1 .. n \/ i = k
      BY <2>1
    <3>2. ms \in Seq(Reports)
      BY <2>4 DEF StateOK
    <3> HIDE DEF k, s, t, ms
    <3>3. CASE events[k].kind # "report"
      BY <2>4, <2>5, <3>1, <3>3 DEF Reported
    <3>4. CASE events[k].kind = "report"
      <4> DEFINE next == Append(ms, MetricsOf(events[k]))
      <4>1. /\ Len(ms) \in Nat /\ Len(next) = Len(ms) + 1 /\ Len(next) \in 1 .. Len(next)
            /\ next[Len(next)] = MetricsOf(events[k])
            /\ \A j \in 1 .. Len(ms) : j \in 1 .. Len(next) /\ next[j] = ms[j]
        BY <3>2
      <4>2. t.metrics = next
        BY <2>5, <3>4
      <4> HIDE DEF next
      <4> QED
        BY <2>4, <3>1, <4>1, <4>2 DEF Reported
    <3> QED
      BY <3>3, <3>4
  <2> QED
    BY <1>4, <2>5, <2>6
<1>5. m \in S
  <2>1. 0 \in S
    BY <1>3
  <2>2. ASSUME NEW n \in Nat, n \in S PROVE n + 1 \in S
    <3> HIDE DEF Good
    <3>1. n + 1 \in Nat /\ (n + 1 <= m => n <= m)
      BY <1>1
    <3>2. n + 1 <= m => Good(n + 1)
      BY <1>4, <2>2, <3>1
    <3> QED
      BY Zenon, <3>1, <3>2
  <2> HIDE DEF S
  <2> QED
    BY <1>1, <2>1, <2>2, SetInduction
<1>6. Good(m)
  BY <1>1, <1>5
<1> QED
  BY <1>1, <1>2, <1>6 DEF events, from

\* The spans that are made stay.
LEMMA SpansStay ==
    ASSUME NEW S, NEW ss \in Seq(S), NEW tt \in Seq(S), NEW i, NEW j,
           HasSpan(ss, i, j) \/ HasSpan(tt, i, j)
    PROVE  HasSpan(ss \o tt, i, j)
<1> DEFINE c == ss \o tt
<1>1. /\ Len(ss) \in Nat /\ Len(tt) \in Nat /\ Len(c) = Len(ss) + Len(tt)
      /\ \A n \in 1 .. Len(ss) : n \in 1 .. Len(c) /\ c[n] = ss[n]
      /\ \A n \in 1 .. Len(tt) : Len(ss) + n \in 1 .. Len(c) /\ c[Len(ss) + n] = tt[n]
  OBVIOUS
<1> HIDE DEF c
<1>2. CASE HasSpan(ss, i, j)
  BY <1>1, <1>2 DEF HasSpan
<1>3. CASE HasSpan(tt, i, j)
  <2>1. PICK n \in 1 .. Len(tt) : tt[n].from = i /\ tt[n].to = j
    BY <1>3 DEF HasSpan
  <2>2. Len(ss) + n \in 1 .. Len(c) /\ c[Len(ss) + n] = tt[n]
    BY <1>1
  <2> QED
    BY <2>1, <2>2 DEF HasSpan
<1> QED
  BY <1>2, <1>3 DEF c

\* An event takes no span away, and an end whose start is pending makes one.
LEMMA EventSpans ==
    ASSUME LogTimed, NEW s, StateOK(s), NEW k \in 1 .. Len(log), NEW i \in 1 .. Len(log), NEW j
    PROVE  LET t == ProcessEvent(s, log[k])
           IN  /\ HasSpan(s.spans, i, j) => HasSpan(t.spans, i, j)
               /\ DOMAIN s.pending = OpenAt(k - 1) /\ IsPair(i, k) => HasSpan(t.spans, i, k)
<1> DEFINE e == log[k]
           r == e.request
           t == ProcessEvent(s, e)
           ss == s.spans
<1>1. e.kind \in Kinds /\ k \in Nat
  <2>1. e \in LogEvents
    BY DEF LogTimed, LogOK
  <2> QED
    BY <2>1 DEF LogEvents
<1>2. s = [pending |-> s.pending, spans |-> ss, metrics |-> s.metrics] /\ ss \in Seq(Joined)
  BY DEF StateOK
<1>3. CASE e.kind # "runtimeDone"
  <2>1. t.spans = ss
    <3>1. CASE e.kind = "other"
      BY <3>1 DEF ProcessEvent, Converted
    <3>2. CASE e.kind = "start"
      <4> DEFINE starts == [q \in DOMAIN s.pending \cup {r} |-> IF q = r THEN e ELSE s.pending[q]]
      <4>1. t = [s EXCEPT !.pending = starts]
        BY <3>2 DEF ProcessEvent, Converted
      <4> HIDE DEF starts, t
      <4> QED
        BY <1>2, <4>1
    <3>3. CASE e.kind = "report"
      <4>1. t = [s EXCEPT !.metrics = Append(s.metrics, MetricsOf(e))]
        BY <3>3 DEF ProcessEvent, Converted
      <4> HIDE DEF t
      <4> QED
        BY <1>2, <4>1
    <3> QED
      BY <1>1, <1>3, <3>1, <3>2, <3>3 DEF Kinds
  <2> QED
    BY <1>3, <2>1 DEF IsPair
<1>4. CASE e.kind = "runtimeDone"
  <2>1. t = Pair(s, e)
    BY <1>4 DEF ProcessEvent, Converted
  <2>2. CASE r \notin DOMAIN s.pending
    <3>1. t = s
      BY <2>1, <2>2 DEF Pair
    <3>2. ~(DOMAIN s.pending = OpenAt(k - 1) /\ IsPair(i, k))
      <4> SUFFICES ASSUME DOMAIN s.pending = OpenAt(k - 1), IsPair(i, k) PROVE FALSE
        OBVIOUS
      <4>1. r \in Requests /\ log[i].kind = "start" /\ log[i].request = r /\ i \in 1 .. k - 1
        <5>1. StartOK(log[i])
          BY DEF LogTimed, LogOK
        <5>2. log[i].kind = "start" /\ log[i].request = r /\ i < k
          BY DEF IsPair
        <5> QED
          BY <1>1, <5>1, <5>2 DEF StartOK
      <4>2. LoggedUpTo(k - 1, "start", r)
        BY <4>1 DEF LoggedUpTo
      <4>3. PICK h \in 1 .. k - 1 : log[h].kind = "runtimeDone" /\ log[h].request = r
        BY <2>2, <4>1, <4>2 DEF OpenAt, LoggedUpTo
      <4>4. h \in 1 .. Len(log) /\ h # k
        BY <1>1
      <4> QED
        BY <1>4, <4>3, <4>4 DEF LogTimed, LogOK, OneOfEach
    <3> QED
      BY <3>1, <3>2
  <2>3. CASE r \in DOMAIN s.pending
    <3> DEFINE starts == [q \in DOMAIN s.pending \ {r} |-> s.pending[q]]
               linked == SpanOf(s.pending[r], e)
               tt == Append(ss, linked)
    <3>1. t = [s EXCEPT !.pending = starts, !.spans = tt]
      BY <2>1, <2>3 DEF Pair
    <3>2. t.spans = tt
      <4> HIDE DEF starts, tt, t
      <4> QED
        BY <1>2, <3>1
    <3>3. PICK h \in 1 .. Len(log) :
                 s.pending[r] = log[h] /\ log[h].kind = "start" /\ log[h].request = r
      BY <2>3 DEF StateOK, PendingOK
    <3>4. linked.from = h /\ linked.to = k
      BY <3>3 DEF SpanOf, LogTimed
    <3>5. /\ Len(ss) \in Nat /\ Len(tt) = Len(ss) + 1 /\ tt[Len(ss) + 1] = linked
          /\ Len(ss) + 1 \in 1 .. Len(tt)
          /\ \A n \in 1 .. Len(ss) : n \in 1 .. Len(tt) /\ tt[n] = ss[n]
      <4> HIDE DEF linked
      <4> QED
        BY <1>2
    <3> HIDE DEF tt, linked, t
    <3>6. HasSpan(ss, i, j) => HasSpan(tt, i, j)
      BY <3>5 DEF HasSpan
    <3>7. IsPair(i, k) => h = i
      BY <3>3 DEF IsPair, LogTimed, LogOK, OneOfEach
    <3>8. HasSpan(tt, h, k)
      BY <3>4, <3>5 DEF HasSpan
    <3> QED
      BY <3>2, <3>6, <3>7, <3>8 DEF t
  <2> QED
    BY <2>2, <2>3
<1> QED
  BY <1>3, <1>4

\* A batch makes a span of every pair that ends in it, wherever that began.
LEMMA BatchSpans ==
    ASSUME LogTimed, BatchesOK, NEW b \in DOMAIN batches, PendingOK(pending),
           DOMAIN pending = OpenAt(EndOf(b - 1)),
           NEW i \in 1 .. Len(log), NEW j \in EndOf(b - 1) + 1 .. EndOf(b), IsPair(i, j)
    PROVE  HasSpan(ProcessEvents(Batch(b)).spans, i, j)
<1> DEFINE events == Batch(b)
           m == Len(events)
           from == EndOf(b - 1)
<1>1. /\ from \in Nat /\ m \in Nat /\ from + m = EndOf(b)
      /\ \A h \in 1 .. m : from + h \in 1 .. Len(log) /\ events[h] = log[from + h]
  BY BatchIs DEF LogTimed
<1> HIDE DEF events
<1>2. PICK g : IsRun(g, m, events) /\ ProcessEvents(events) = g[m]
  BY <1>1, RunUnfolds
<1>3. j \in Nat /\ j <= from + m /\ j > from
  BY <1>1
<1> HIDE DEF from
<1> DEFINE Good(n) == /\ StateOK(g[n])
                      /\ DOMAIN g[n].pending = OpenAt(from + n)
                      /\ j <= from + n => HasSpan(g[n].spans, i, j)
           S == {n \in Nat : n <= m => Good(n)}
<1>4. Good(0)
  <2>1. g[0] = [pending |-> pending, spans |-> << >>, metrics |-> << >>]
    BY <1>2 DEF IsRun
  <2>2. StateOK(g[0])
    BY <2>1 DEF StateOK
  <2>3. from + 0 = from /\ ~(j <= from + 0)
    BY <1>1, <1>3
  <2> QED
    BY <2>1, <2>2, <2>3 DEF from
<1>5. ASSUME NEW n \in Nat, n + 1 <= m, Good(n) PROVE Good(n + 1)
  <2> DEFINE k == from + (n + 1)
             s == g[n]
             t == g[n + 1]
             u == ProcessEvent(s, log[k])
  <2>1. /\ n + 1 \in 1 .. m /\ (n + 1) - 1 = n /\ k \in 1 .. Len(log) /\ k - 1 = from + n
        /\ events[n + 1] = log[k]
    BY <1>1, <1>5
  <2>2. t = u
    BY <1>2, <2>1 DEF IsRun
  <2>3. StateOK(s) /\ DOMAIN s.pending = OpenAt(k - 1)
    BY <1>5, <2>1
  <2>4. j <= k - 1 => HasSpan(s.spans, i, j)
    BY <1>5, <2>1
  <2>5. j <= k => j <= k - 1 \/ j = k
    BY <1>1, <1>3
  <2> HIDE DEF k, s, t, u
  <2>6. StateOK(u) /\ DOMAIN u.pending = OpenAt(k)
    BY <2>1, <2>3, EventPreserves DEF u
  <2>7. /\ HasSpan(s.spans, i, j) => HasSpan(u.spans, i, j)
        /\ IsPair(i, k) => HasSpan(u.spans, i, k)
    BY <2>1, <2>3, EventSpans DEF u
  <2>8. j <= k => HasSpan(u.spans, i, j)
    BY <2>4, <2>5, <2>7
  <2> QED
    BY <2>2, <2>6, <2>8 DEF k, t
<1>6. m \in S
  <2>1. 0 \in S
    BY <1>4
  <2>2. ASSUME NEW n \in Nat, n \in S PROVE n + 1 \in S
    <3> HIDE DEF Good
    <3>1. n + 1 \in Nat /\ (n + 1 <= m => n <= m)
      BY <1>1
    <3>2. n + 1 <= m => Good(n + 1)
      BY <1>5, <2>2, <3>1
    <3> QED
      BY Zenon, <3>1, <3>2
  <2> HIDE DEF S
  <2> QED
    BY <1>1, <2>1, <2>2, SetInduction
<1>7. Good(m)
  BY <1>1, <1>6
<1> QED
  BY <1>2, <1>3, <1>7 DEF events

\* The invariant holds at the start.
LEMMA InitEstablishesProcessorInv == ProcessorInit => ProcessorInv
<1> SUFFICES ASSUME ProcessorInit PROVE ProcessorInv
  OBVIOUS
<1>1. PICK statuses \in [Requests -> Statuses] : log = PlatformLog(statuses)
  BY DEF ProcessorInit
<1>2. LogTimed
  BY <1>1, PlatformLogs DEF LogTimed
<1>3. BatchesOK
  <2>1. PICK n \in 1 .. MaxBatches : batches \in Cuts(n, Len(log))
    BY DEF ProcessorInit
  <2>2. n \in Nat
    BY ProcessorAssumption
  <2> QED
    BY <2>1, <2>2 DEF BatchesOK, Cuts
<1>4. processed = << >> /\ pending = << >> /\ spans = << >> /\ calls = {} /\ completed = {}
        /\ redeliveries = 0 /\ delivered = {}
  BY DEF ProcessorInit
<1>5. PendingOK(pending)
  <2>1. pending = [r \in DOMAIN pending |-> pending[r]] /\ DOMAIN pending = {}
    BY <1>4
  <2> QED
    BY <2>1 DEF PendingOK
<1>6. OpenAreKept
  <2>1. EndOf(Len(processed)) = 0
    BY <1>4 DEF EndOf
  <2>2. OpenAt(0) = {}
    BY DEF OpenAt, LoggedUpTo
  <2> QED
    BY <1>4, <2>1, <2>2 DEF OpenAreKept
<1>7. PairsHaveSpans
  <2>1. EndOf(Len(processed)) = 0
    BY <1>4 DEF EndOf
  <2> QED
    BY <2>1 DEF PairsHaveSpans
<1> QED
  BY <1>2, <1>3, <1>4, <1>5, <1>6, <1>7 DEF ProcessorInv, CompletedMeansAdded, NothingLost

\* What is said of the log and of its batches stays true, for they do.
LEMMA PlatformStays ==
    ASSUME UNCHANGED <<log, batches>>
    PROVE  /\ LogTimed' <=> LogTimed
           /\ BatchesOK' <=> BatchesOK
           /\ Joined' = Joined /\ Reports' = Reports
           /\ \A b : EndOf(b)' = EndOf(b) /\ Batch(b)' = Batch(b)
           /\ \A k : OpenAt(k)' = OpenAt(k)
<1>1. LogTimed' <=> LogTimed
  BY DEF LogTimed, LogOK, StartsFirst, OneOfEach
<1>2. BatchesOK' <=> BatchesOK
  BY DEF BatchesOK
<1>3. Joined' = Joined /\ Reports' = Reports
  BY DEF Joined, Reports
<1>4. \A b : EndOf(b)' = EndOf(b) /\ Batch(b)' = Batch(b)
  BY DEF EndOf, Batch
<1>5. \A k : OpenAt(k)' = OpenAt(k)
  BY DEF OpenAt, LoggedUpTo
<1> QED
  BY <1>1, <1>2, <1>3, <1>4, <1>5

\* What goes on: batches are taken, and metrics are added.
Onward ==
    /\ UNCHANGED <<log, batches>>
    /\ \A n \in DOMAIN processed : n \in DOMAIN processed' /\ processed'[n] = processed[n]
    /\ metrics \subseteq metrics'

LEMMA CallStays ==
    ASSUME Onward, NEW job, CallOK(job)
    PROVE  CallOK(job)'
<1>1. Reports' = Reports /\ \A b : Batch(b)' = Batch(b)
  BY PlatformStays DEF Onward
<1> QED
  BY <1>1 DEF CallOK, Onward

LEMMA AddedStays ==
    ASSUME Onward, NEW r, AddedFor(r)
    PROVE  AddedFor(r)'
<1>1. \A b : Batch(b)' = Batch(b)
  BY PlatformStays DEF Onward
<1>2. PICK n \in DOMAIN processed :
        /\ r \in DoneIn(Batch(processed[n]))
        /\ \A i \in DOMAIN Batch(processed[n]) :
              Batch(processed[n])[i].kind = "report" => MetricsOf(Batch(processed[n])[i]) \in metrics
  BY DEF AddedFor
<1>3. n \in DOMAIN processed' /\ processed'[n] = processed[n] /\ metrics \subseteq metrics'
  BY DEF Onward
<1>4. Batch(processed[n])' = Batch(processed[n])
  BY <1>1, <1>3
<1> QED
  BY <1>2, <1>3, <1>4 DEF AddedFor

LEMMA CompletedStay ==
    ASSUME ProcessorInv, Onward, UNCHANGED completed
    PROVE  CompletedMeansAdded'
<1>1. \A r \in completed : AddedFor(r)
  BY DEF ProcessorInv, CompletedMeansAdded, AddedFor
<1>2. \A r \in completed' : AddedFor(r)'
  BY <1>1, AddedStays
<1> QED
  BY <1>2 DEF CompletedMeansAdded, AddedFor

LEMMA DeliveredStay ==
    ASSUME ProcessorInv, Onward,
           \A b \in delivered' :
               b \in delivered \/ (b \in DOMAIN batches /\ \E d \in calls' : d.batch = b),
           \A c \in calls : (\E d \in calls' : d.batch = c.batch) \/ BatchAdded(c.batch)
    PROVE  NothingLost'
<1>1. /\ \A b : Batch(b)' = Batch(b)
      /\ metrics \subseteq metrics' /\ batches' = batches
  BY PlatformStays DEF Onward
<1>2. ASSUME NEW b, BatchAdded(b) PROVE BatchAdded(b)'
  BY <1>1, <1>2 DEF BatchAdded
<1>3. ASSUME NEW b \in delivered'
      PROVE  b \in DOMAIN batches' /\ ((\E job \in calls' : job.batch = b) \/ BatchAdded(b)')
  <2>1. CASE b \in DOMAIN batches /\ \E d \in calls' : d.batch = b
    BY <1>1, <2>1
  <2>2. CASE b \in delivered
    <3>1. b \in DOMAIN batches /\ ((\E job \in calls : job.batch = b) \/ BatchAdded(b))
      BY <2>2 DEF ProcessorInv, NothingLost
    <3>2. CASE \E job \in calls : job.batch = b
      <4>1. (\E d \in calls' : d.batch = b) \/ BatchAdded(b)
        BY <3>2
      <4> QED
        BY <1>1, <1>2, <3>1, <4>1
    <3>3. CASE BatchAdded(b)
      BY <1>1, <1>2, <3>1, <3>3
    <3> QED
      BY <3>1, <3>2, <3>3
  <2> QED
    BY <2>1, <2>2
<1> QED
  BY <1>3 DEF NothingLost

\* A step that takes no batch and makes no span.
LEMMA OthersStay ==
    ASSUME ProcessorInv, UNCHANGED <<log, batches, processed, pending, spans>>
    PROVE  /\ LogTimed' /\ BatchesOK'
           /\ (processed \in Seq(DOMAIN batches))'
           /\ PendingOK(pending)'
           /\ (spans \in Seq(Joined))'
           /\ OpenAreKept' /\ PairsHaveSpans'
<1>1. LogTimed' /\ BatchesOK' /\ Joined' = Joined
  BY PlatformStays DEF ProcessorInv
<1>2. PendingOK(pending)'
  BY DEF ProcessorInv, PendingOK
<1>3. OpenAreKept'
  <2>1. EndOf(Len(processed))' = EndOf(Len(processed))
    BY DEF EndOf
  <2>2. OpenAt(EndOf(Len(processed)))' = OpenAt(EndOf(Len(processed)))
    BY <2>1 DEF OpenAt, LoggedUpTo
  <2> QED
    BY <2>2 DEF ProcessorInv, OpenAreKept, InOrderOnce
<1>4. PairsHaveSpans'
  <2>1. EndOf(Len(processed))' = EndOf(Len(processed))
    BY DEF EndOf
  <2> QED
    BY <2>1 DEF ProcessorInv, PairsHaveSpans, InOrderOnce, IsPair
<1> QED
  BY <1>1, <1>2, <1>3, <1>4 DEF ProcessorInv

LEMMA DeliverPreserves ==
    ASSUME ProcessorInv, NEW b \in DOMAIN batches, Deliver(b)
    PROVE  ProcessorInv'
<1> DEFINE new == [batch |-> b, nr |-> redeliveries', at |-> "begun", metrics |-> << >>]
<1>1. /\ calls' = calls \cup {new} /\ redeliveries' \in Nat
      /\ delivered' = delivered \cup {b}
      /\ UNCHANGED <<log, batches, processed, pending, spans, metrics, completed>>
  BY DEF Deliver, ProcessorInv
<1>2. Onward
  BY <1>1 DEF Onward
<1>3. ASSUME NEW job, job = new PROVE CallOK(job)'
  <2>1. new.at = "begun"
    OBVIOUS
  <2>2. new \in [batch : DOMAIN batches, nr : Nat, at : {"begun", "adding"}, metrics : Seq(Reports)]
    BY <1>1
  <2> HIDE DEF new
  <2>3. Reports' = Reports
    BY <1>1, PlatformStays
  <2> QED
    BY <1>1, <1>3, <2>1, <2>2, <2>3 DEF CallOK
<1>4. ASSUME NEW job \in calls PROVE CallOK(job)'
  BY <1>2, CallStays DEF ProcessorInv
<1>5. CompletedMeansAdded'
  BY <1>1, <1>2, CompletedStay
<1>7. NothingLost'
  <2>1. new \in calls' /\ new.batch = b
    BY <1>1
  <2> HIDE DEF new
  <2>2. \A c \in delivered' :
           c \in delivered \/ (c \in DOMAIN batches /\ \E d \in calls' : d.batch = c)
    BY <1>1, <2>1
  <2>3. \A c \in calls : \E d \in calls' : d.batch = c.batch
    BY <1>1
  <2> QED
    BY <1>1, <1>2, <2>2, <2>3, DeliveredStay
<1> HIDE DEF new
<1>6. ASSUME NEW job \in calls' PROVE CallOK(job)'
  <2>1. job \in calls \/ job = new
    BY <1>1
  <2> QED
    BY <1>3, <1>4, <2>1
<1> QED
  BY <1>1, <1>5, <1>6, <1>7, OthersStay DEF ProcessorInv

LEMMA ProcessPreserves ==
    ASSUME ProcessorInv, NEW job \in calls, Process(job)
    PROVE  ProcessorInv'
<1> DEFINE b == job.batch
           result == ProcessEvents(Batch(b))
           next == [job EXCEPT !.at = "adding", !.metrics = result.metrics]
<1>1. /\ calls' = (calls \ {job}) \cup {next}
      /\ pending' = result.pending /\ spans' = spans \o result.spans
      /\ processed' = Append(processed, b)
      /\ UNCHANGED <<log, batches, redeliveries, delivered, metrics, completed>>
  BY DEF Process, Become, platformVars
<1>2. /\ CallOK(job) /\ LogTimed /\ BatchesOK /\ PendingOK(pending)
      /\ processed \in Seq(DOMAIN batches)
  BY DEF ProcessorInv
<1>3. b \in DOMAIN batches
  BY <1>2 DEF CallOK
<1>4. /\ StateOK(result)
      /\ Reported(result.metrics, Batch(b), Len(Batch(b)))
      /\ DOMAIN pending = OpenAt(EndOf(b - 1)) => DOMAIN result.pending = OpenAt(EndOf(b))
  <2> HIDE DEF b
  <2> QED
    BY <1>2, <1>3, BatchPreserves
<1> HIDE DEF result
<1>5. /\ LogTimed' /\ BatchesOK' /\ Joined' = Joined /\ Reports' = Reports
      /\ \A c : EndOf(c)' = EndOf(c) /\ Batch(c)' = Batch(c)
      /\ \A k : OpenAt(k)' = OpenAt(k)
  BY <1>1, <1>2, PlatformStays
<1>6. /\ processed' \in Seq(DOMAIN batches) /\ Len(processed) \in Nat
      /\ Len(processed') = Len(processed) + 1 /\ processed'[Len(processed) + 1] = b
      /\ \A n \in DOMAIN processed : n \in DOMAIN processed' /\ processed'[n] = processed[n]
      /\ Len(processed) + 1 \in DOMAIN processed'
  BY <1>1, <1>2, <1>3
<1>7. Onward
  BY <1>1, <1>6 DEF Onward
<1>8. PendingOK(pending)'
  <2>1. PendingOK(result.pending)
    BY <1>4 DEF StateOK
  <2> QED
    BY <1>1, <2>1 DEF PendingOK
<1>9. spans' \in Seq(Joined)
  <2>1. spans \in Seq(Joined) /\ result.spans \in Seq(Joined)
    BY <1>4 DEF ProcessorInv, StateOK
  <2> QED
    BY <1>1, <2>1
<1>10. ASSUME NEW c \in calls' PROVE CallOK(c)'
  <2>1. CASE c \in calls
    BY <1>7, <2>1, CallStays DEF ProcessorInv
  <2>2. CASE c = next
    <3>1. /\ job \in [batch : DOMAIN batches, nr : Nat, at : {"begun", "adding"},
                       metrics : Seq(Reports)]
          /\ result.metrics \in Seq(Reports)
      BY <1>2, <1>4 DEF CallOK, StateOK
    <3>2. /\ next \in [batch : DOMAIN batches, nr : Nat, at : {"begun", "adding"},
                       metrics : Seq(Reports)]
          /\ next.batch = b /\ next.metrics = result.metrics
      BY <3>1
    <3> HIDE DEF next, b
    <3>3. ASSUME NEW i \in DOMAIN Batch(b), Batch(b)[i].kind = "report"
          PROVE  \E m \in 1 .. Len(result.metrics) : result.metrics[m] = MetricsOf(Batch(b)[i])
      <4>1. DOMAIN Batch(b) = 1 .. Len(Batch(b))
        BY <1>2, <1>3, BatchIs DEF LogTimed
      <4> QED
        BY <1>4, <3>3, <4>1 DEF Reported
    <3>4. \E n \in DOMAIN processed' : processed'[n] = b
      BY <1>6
    <3>5. Batch(b)' = Batch(b)
      BY <1>1, <1>5 DEF b
    <3> QED
      BY <1>1, <1>5, <2>2, <3>2, <3>3, <3>4, <3>5 DEF CallOK
  <2> QED
    BY <1>1, <2>1, <2>2
<1>11. OpenAreKept'
  <2> SUFFICES ASSUME InOrderOnce' PROVE (DOMAIN pending = OpenAt(EndOf(Len(processed))))'
    BY DEF OpenAreKept
  <2>1. b = Len(processed) + 1
    BY <1>6 DEF InOrderOnce
  <2>2. InOrderOnce
    BY <1>6 DEF InOrderOnce
  <2>3. b - 1 = Len(processed)
    BY <1>6, <2>1
  <2>4. DOMAIN pending = OpenAt(EndOf(b - 1))
    BY <2>2, <2>3 DEF ProcessorInv, OpenAreKept
  <2>5. DOMAIN pending' = OpenAt(EndOf(b)) /\ Len(processed') = b
    BY <1>1, <1>4, <1>6, <2>1, <2>4
  <2> HIDE DEF b
  <2>6. EndOf(Len(processed))' = EndOf(b)
    BY <1>1, <2>5 DEF EndOf
  <2>7. OpenAt(EndOf(Len(processed)))' = OpenAt(EndOf(b))
    BY <1>1, <2>6 DEF OpenAt, LoggedUpTo
  <2> QED
    BY <2>5, <2>7
<1>12. CompletedMeansAdded'
  BY <1>1, <1>7, CompletedStay
<1>13. NothingLost'
  <2>1. next.batch = b
    BY <1>2 DEF CallOK
  <2> HIDE DEF next
  <2>2. \A c \in calls : \E d \in calls' : d.batch = c.batch
    BY <1>1, <2>1
  <2> QED
    BY <1>1, <1>7, <2>2, DeliveredStay
<1>14. PairsHaveSpans'
  <2> SUFFICES ASSUME InOrderOnce', NEW i \in 1 .. EndOf(Len(processed))',
                      NEW j \in 1 .. EndOf(Len(processed))', IsPair(i, j)'
               PROVE  HasSpan(spans', i, j)
    BY DEF PairsHaveSpans
  <2>1. b = Len(processed) + 1 /\ b - 1 = Len(processed) /\ Len(processed') = b
    BY <1>6 DEF InOrderOnce
  <2>2. InOrderOnce
    BY <1>6 DEF InOrderOnce
  <2> HIDE DEF b
  <2>3. IsPair(i, j) /\ i < j
    BY <1>1 DEF IsPair
  <2>4. EndOf(Len(processed))' = EndOf(b)
    BY <1>1, <2>1 DEF EndOf
  <2>5. EndOf(b - 1) \in Nat /\ EndOf(b) \in Nat /\ EndOf(b) <= Len(log)
    BY <1>2, <1>3, BatchIs DEF LogTimed
  <2>6. i \in 1 .. Len(log) /\ j \in 1 .. EndOf(b)
    <3>1. Len(log) \in Nat
      BY <1>2 DEF LogTimed, LogOK
    <3> QED
      BY <2>4, <2>5, <3>1
  <2>7. spans \in Seq(Joined) /\ result.spans \in Seq(Joined)
    BY <1>4 DEF ProcessorInv, StateOK
  <2>8. HasSpan(spans, i, j) \/ HasSpan(result.spans, i, j)
    <3>1. CASE j <= EndOf(b - 1)
      <4>1. i \in 1 .. EndOf(b - 1) /\ j \in 1 .. EndOf(b - 1)
        BY <2>3, <2>5, <2>6, <3>1
      <4> QED
        BY <2>1, <2>2, <2>3, <4>1 DEF ProcessorInv, PairsHaveSpans
    <3>2. CASE j > EndOf(b - 1)
      <4>1. j \in EndOf(b - 1) + 1 .. EndOf(b)
        BY <2>5, <2>6, <3>2
      <4>2. DOMAIN pending = OpenAt(EndOf(b - 1))
        BY <2>1, <2>2 DEF ProcessorInv, OpenAreKept
      <4> QED
        BY <1>2, <1>3, <2>3, <2>6, <4>1, <4>2, BatchSpans DEF result
    <3> QED
      BY <2>5, <2>6, <3>1, <3>2
  <2> QED
    BY <1>1, <2>7, <2>8, SpansStay
<1> HIDE DEF b, next
<1>15. redeliveries' \in Nat
  BY <1>1 DEF ProcessorInv
<1> QED
  BY <1>1, <1>5, <1>6, <1>8, <1>9, <1>10, <1>11, <1>12, <1>13, <1>14, <1>15 DEF ProcessorInv

LEMMA AddMetricPreserves ==
    ASSUME ProcessorInv, NEW job \in calls, AddMetric(job)
    PROVE  ProcessorInv'
<1> DEFINE b == job.batch
           next == [job EXCEPT !.metrics = Tail(job.metrics)]
<1>1. /\ job.at = "adding" /\ job.metrics # << >>
      /\ metrics' = metrics \cup {Head(job.metrics)} /\ calls' = (calls \ {job}) \cup {next}
      /\ UNCHANGED <<log, batches, redeliveries, delivered, processed, pending, spans, completed>>
  BY DEF AddMetric, Become, platformVars
<1>2. CallOK(job)
  BY DEF ProcessorInv
<1>3. Onward
  BY <1>1 DEF Onward
<1>4. Reports' = Reports /\ \A c : Batch(c)' = Batch(c)
  BY <1>1, PlatformStays
<1>5. ASSUME NEW c \in calls' PROVE CallOK(c)'
  <2>1. CASE c \in calls
    BY <1>3, <2>1, CallStays DEF ProcessorInv
  <2>2. CASE c = next
    <3>1. /\ job \in [batch : DOMAIN batches, nr : Nat, at : {"begun", "adding"},
                       metrics : Seq(Reports)]
          /\ \E n \in DOMAIN processed : processed[n] = b
          /\ \A i \in DOMAIN Batch(b) : Batch(b)[i].kind = "report" =>
                \/ MetricsOf(Batch(b)[i]) \in metrics
                \/ \E m \in 1 .. Len(job.metrics) : job.metrics[m] = MetricsOf(Batch(b)[i])
      BY <1>1, <1>2 DEF CallOK
    <3> DEFINE ms == job.metrics
               rest == Tail(ms)
    <3>2. /\ ms \in Seq(Reports) /\ rest \in Seq(Reports) /\ Len(ms) \in Nat /\ Len(rest) \in Nat
          /\ Len(ms) = Len(rest) + 1 /\ Head(ms) = ms[1]
          /\ \A m \in 1 .. Len(rest) : rest[m] = ms[m + 1]
      BY <1>1, <3>1
    <3>3. /\ next \in [batch : DOMAIN batches, nr : Nat, at : {"begun", "adding"},
                       metrics : Seq(Reports)]
          /\ next.batch = b /\ next.metrics = rest
      BY <3>1, <3>2
    <3>4. /\ metrics' = metrics \cup {ms[1]}
          /\ \A i \in DOMAIN Batch(b) : Batch(b)[i].kind = "report" =>
                \/ MetricsOf(Batch(b)[i]) \in metrics
                \/ \E m \in 1 .. Len(ms) : ms[m] = MetricsOf(Batch(b)[i])
      BY <1>1, <3>1, <3>2
    <3>5. Batch(b)' = Batch(b)
      BY <1>1, <1>4
    <3> HIDE DEF next, b, ms, rest
    <3>6. ASSUME NEW i \in DOMAIN Batch(b), Batch(b)[i].kind = "report",
                 MetricsOf(Batch(b)[i]) \notin metrics'
          PROVE  \E m \in 1 .. Len(rest) : rest[m] = MetricsOf(Batch(b)[i])
      <4>1. PICK m \in 1 .. Len(ms) : ms[m] = MetricsOf(Batch(b)[i])
        BY <3>4, <3>6
      <4>2. m # 1
        BY <3>4, <3>6, <4>1
      <4>3. m - 1 \in 1 .. Len(rest) /\ (m - 1) + 1 = m
        BY <3>2, <4>2
      <4>4. rest[m - 1] = ms[m]
        BY <3>2, <4>3
      <4> QED
        BY <4>1, <4>3, <4>4
    <3> QED
      BY <1>1, <1>4, <2>2, <3>1, <3>3, <3>5, <3>6 DEF CallOK
  <2> QED
    BY <1>1, <2>1, <2>2
<1>6. CompletedMeansAdded'
  BY <1>1, <1>3, CompletedStay
<1>7. NothingLost'
  <2>1. next.batch = b
    BY <1>2 DEF CallOK
  <2> HIDE DEF next
  <2>2. \A c \in calls : \E d \in calls' : d.batch = c.batch
    BY <1>1, <2>1
  <2> QED
    BY <1>1, <1>3, <2>2, DeliveredStay
<1> HIDE DEF next
<1>8. redeliveries' \in Nat
  BY <1>1 DEF ProcessorInv
<1> QED
  BY <1>1, <1>5, <1>6, <1>7, <1>8, OthersStay DEF ProcessorInv

LEMMA CompletePreserves ==
    ASSUME ProcessorInv, NEW job \in calls, Complete(job)
    PROVE  ProcessorInv'
<1> DEFINE b == job.batch
<1>1. /\ job.at = "adding" /\ job.metrics = << >>
      /\ completed' = completed \cup DoneIn(Batch(b)) /\ calls' = calls \ {job}
      /\ UNCHANGED <<log, batches, redeliveries, delivered, processed, pending, spans, metrics>>
  BY DEF Complete, platformVars
<1>2. Onward
  BY <1>1 DEF Onward
<1>3. ASSUME NEW c \in calls' PROVE CallOK(c)'
  <2>1. c \in calls
    BY <1>1
  <2> QED
    BY <1>2, <2>1, CallStays DEF ProcessorInv
<1>4. ASSUME NEW r \in DoneIn(Batch(b)) PROVE AddedFor(r)
  <2>1. CallOK(job)
    BY DEF ProcessorInv
  <2>2. Len(job.metrics) = 0
    BY <1>1
  <2>3. \A i \in DOMAIN Batch(b) :
           Batch(b)[i].kind = "report" => MetricsOf(Batch(b)[i]) \in metrics
    BY <1>1, <2>1, <2>2 DEF CallOK
  <2>4. PICK n \in DOMAIN processed : processed[n] = b
    BY <1>1, <2>1 DEF CallOK
  <2> QED
    BY <1>4, <2>3, <2>4 DEF AddedFor
<1>5. ASSUME NEW r \in completed PROVE AddedFor(r)
  BY DEF ProcessorInv, CompletedMeansAdded, AddedFor
<1>6. CompletedMeansAdded'
  <2>1. \A r \in completed' : AddedFor(r)
    BY <1>1, <1>4, <1>5
  <2>2. \A r \in completed' : AddedFor(r)'
    BY <1>2, <2>1, AddedStays
  <2> QED
    BY <2>2 DEF CompletedMeansAdded, AddedFor
<1>7. NothingLost'
  <2>1. BatchAdded(b)
    <3>1. CallOK(job) /\ Len(job.metrics) = 0
      BY <1>1 DEF ProcessorInv
    <3> QED
      BY <1>1, <3>1 DEF CallOK, BatchAdded
  <2>2. \A c \in calls : (\E d \in calls' : d.batch = c.batch) \/ BatchAdded(c.batch)
    BY <1>1, <2>1
  <2> QED
    BY <1>1, <1>2, <2>2, DeliveredStay
<1>8. redeliveries' \in Nat
  BY <1>1 DEF ProcessorInv
<1> QED
  BY <1>1, <1>3, <1>6, <1>7, <1>8, OthersStay DEF ProcessorInv

LEMMA StepPreservesProcessorInv == ProcessorInv /\ [ProcessorNext]_processorVars => ProcessorInv'
<1> SUFFICES ASSUME ProcessorInv, [ProcessorNext]_processorVars PROVE ProcessorInv'
  OBVIOUS
<1>1. ASSUME NEW b \in DOMAIN batches, Deliver(b) PROVE ProcessorInv'
  BY <1>1, DeliverPreserves
<1>2. ASSUME NEW job \in calls, Process(job) \/ AddMetric(job) \/ Complete(job)
      PROVE  ProcessorInv'
  BY <1>2, ProcessPreserves, AddMetricPreserves, CompletePreserves
<1>3. CASE UNCHANGED processorVars
  <2>1. /\ UNCHANGED <<log, batches, redeliveries, delivered, calls, processed>>
        /\ UNCHANGED <<pending, spans, metrics, completed>>
    BY <1>3 DEF processorVars, platformVars
  <2>2. Onward
    BY <2>1 DEF Onward
  <2>3. ASSUME NEW job \in calls' PROVE CallOK(job)'
    BY <2>1, <2>2, CallStays DEF ProcessorInv
  <2>4. CompletedMeansAdded' /\ redeliveries' \in Nat
    BY <2>1, <2>2, CompletedStay DEF ProcessorInv
  <2>5. NothingLost'
    BY <2>1, <2>2, DeliveredStay
  <2> QED
    BY <2>1, <2>3, <2>4, <2>5, OthersStay DEF ProcessorInv
<1> QED
  BY <1>1, <1>2, <1>3 DEF ProcessorNext

\* The invariant of the processor and the platform together: what is pending are starts
\* of the log, what is in a call or in the aggregator comes from the batch it was of.
THEOREM ProcessorInvariant == ProcessorSpec => []ProcessorInv
<1> QED
  BY InitEstablishesProcessorInv, StepPreservesProcessorInv, PTL DEF ProcessorSpec

-----------------------------------------------------------------------------
(* What follows from it. *)

\* A span of a start and an end of one request is what SpansJoinOneRequest asks for.
LEMMA JoinedIsOne ==
    ASSUME LogTimed, NEW linked \in Joined
    PROVE  /\ linked.request = linked.done /\ linked.from < linked.to
           /\ linked.status = DebugForm[log[linked.to].status]
           /\ Canonical(log[linked.from].header) =>
                 linked.parent = IdsOf(Meaning(log[linked.from].header))
<1>1. PICK i \in 1 .. Len(log), j \in 1 .. Len(log) :
        /\ linked = SpanOf(log[i], log[j])
        /\ log[i].kind = "start" /\ log[j].kind = "runtimeDone" /\ log[i].request = log[j].request
  BY DEF Joined
<1>2. log[i].time = i /\ log[j].time = j
  BY DEF LogTimed
<1>3. /\ linked.request = log[i].request /\ linked.done = log[j].request
      /\ linked.from = i /\ linked.to = j /\ linked.status = DebugForm[log[j].status]
      /\ linked.parent = ExtensionContext(log[i].header)
  BY <1>1, <1>2 DEF SpanOf
<1>4. i < j
  BY <1>1 DEF LogTimed, LogOK, StartsFirst
<1>5. IsHeader(log[i].header)
  <2>1. log[i].request \in Requests /\ log[i].header = TraceHeaders[log[i].request]
    BY <1>1 DEF LogTimed, LogOK, StartOK
  <2> QED
    BY <2>1, ProcessorAssumption
<1>6. Canonical(log[i].header) => ExtensionContext(log[i].header) = IdsOf(Meaning(log[i].header))
  BY <1>5, ExtensionReads
<1> QED
  BY <1>1, <1>3, <1>4, <1>6

\* While batches come in order, the requests of the events in them are those of the
\* first events of the log.
LEMMA TakenInOrder ==
    ASSUME ProcessorInv, InOrderOnce, NEW kind, NEW r
    PROVE  Taken(kind, r) <=> LoggedUpTo(EndOf(Len(processed)), kind, r)
<1> DEFINE last == Len(processed)
<1>1. /\ LogOK(log) /\ BatchesOK /\ last \in Nat /\ DOMAIN processed = 1 .. last
      /\ \A n \in 1 .. last : processed[n] = n /\ n \in DOMAIN batches
  BY DEF ProcessorInv, LogTimed, InOrderOnce
<1> HIDE DEF last
<1>2. ASSUME Taken(kind, r) PROVE LoggedUpTo(EndOf(last), kind, r)
  <2>1. PICK n \in DOMAIN processed : \E i \in DOMAIN Batch(processed[n]) :
               Batch(processed[n])[i].kind = kind /\ Batch(processed[n])[i].request = r
    BY <1>2 DEF Taken
  <2>2. n \in 1 .. last /\ n \in DOMAIN batches /\ processed[n] = n
    BY <1>1
  <2>3. PICK i \in DOMAIN Batch(n) : Batch(n)[i].kind = kind /\ Batch(n)[i].request = r
    BY <2>1, <2>2
  <2>4. /\ EndOf(n - 1) + i \in 1 .. Len(log) /\ EndOf(n - 1) + i <= EndOf(n)
        /\ Batch(n)[i] = log[EndOf(n - 1) + i] /\ EndOf(n) \in Nat
    BY <1>1, <2>2, BatchIs
  <2>5. EndOf(last) \in Nat /\ EndOf(n) <= EndOf(last)
    BY <1>1, <2>2, EndsGrow
  <2>6. EndOf(n - 1) + i \in 1 .. EndOf(last)
    BY <2>4, <2>5
  <2> QED
    BY <2>3, <2>4, <2>6 DEF LoggedUpTo
<1>3. ASSUME LoggedUpTo(EndOf(last), kind, r) PROVE Taken(kind, r)
  <2>1. PICK k \in 1 .. EndOf(last) : log[k].kind = kind /\ log[k].request = r
    BY <1>3 DEF LoggedUpTo
  <2>2. last # 0
    BY <2>1 DEF EndOf
  <2>3. last \in DOMAIN batches
    BY <1>1, <2>2
  <2>4. PICK c \in 1 .. last : \E i \in DOMAIN Batch(c) : Batch(c)[i] = log[k]
    BY <1>1, <2>3, BatchesCoverTheLog
  <2>5. c \in DOMAIN processed /\ processed[c] = c
    BY <1>1
  <2> QED
    BY <2>1, <2>4, <2>5 DEF Taken
<1> QED
  BY <1>2, <1>3 DEF last

\* However batches are cut, reordered and repeated, and invocations follow each other,
\* a span joins the start and the end of one request, in that order, with the status of
\* its end as the conversion forms it and the ids its header names (conversion.rs:230-262).
THEOREM SpansAlwaysJoinOneRequest == ProcessorSpec => []SpansJoinOneRequest
<1>1. ProcessorInv => SpansJoinOneRequest
  <2> SUFFICES ASSUME ProcessorInv, NEW n \in DOMAIN spans
               PROVE  /\ spans[n].request = spans[n].done /\ spans[n].from < spans[n].to
                      /\ spans[n].status = DebugForm[log[spans[n].to].status]
                      /\ Canonical(log[spans[n].from].header) =>
                            spans[n].parent = IdsOf(Meaning(log[spans[n].from].header))
    BY DEF SpansJoinOneRequest
  <2>1. spans[n] \in Joined /\ LogTimed
    BY DEF ProcessorInv
  <2> QED
    BY <2>1, JoinedIsOne
<1> QED
  BY <1>1, ProcessorInvariant, PTL

\* While the batches come in order, once each, pending_starts holds the starts whose
\* end is still to come, and no others (conversion.rs:408-426).
THEOREM PendingIsWhatIsOpen == ProcessorSpec => []OnlyOpenStartsKept
<1>1. ProcessorInv => OnlyOpenStartsKept
  <2> SUFFICES ASSUME ProcessorInv, InOrderOnce
               PROVE  DOMAIN pending = {r \in Requests : Taken("start", r) /\ ~Taken("runtimeDone", r)}
    BY DEF OnlyOpenStartsKept
  <2>1. DOMAIN pending = OpenAt(EndOf(Len(processed)))
    BY DEF ProcessorInv, OpenAreKept
  <2>2. \A kind, r : Taken(kind, r) <=> LoggedUpTo(EndOf(Len(processed)), kind, r)
    BY TakenInOrder
  <2> QED
    BY <2>1, <2>2 DEF OpenAt
<1> QED
  BY <1>1, ProcessorInvariant, PTL

\* Completion is signalled only after the metrics of the batch are in the aggregator
\* (service.rs:398-400).
THEOREM CompletionFollowsMetrics == ProcessorSpec => []CompletedMeansAdded
<1>1. ProcessorInv => CompletedMeansAdded
  BY DEF ProcessorInv
<1> QED
  BY <1>1, ProcessorInvariant, PTL

\* Once no task is under way, every report that was delivered is in the aggregator, and
\* a span was made of every start and end that came in order, in one batch or in two
\* (service.rs:423-436).
THEOREM DeliveredIsAllConverted == ProcessorSpec => []DeliveredIsConverted
<1>1. ProcessorInv => DeliveredIsConverted
  <2> SUFFICES ASSUME ProcessorInv, calls = {} PROVE DeliveredIsConverted
    BY DEF DeliveredIsConverted
  <2>1. ASSUME NEW b \in delivered, NEW i \in DOMAIN Batch(b), Batch(b)[i].kind = "report"
        PROVE  MetricsOf(Batch(b)[i]) \in metrics
    BY <2>1 DEF ProcessorInv, NothingLost, BatchAdded
  <2>2. ASSUME InOrderOnce, NEW i \in 1 .. EndOf(Len(processed)),
               NEW j \in 1 .. EndOf(Len(processed)), i < j, log[i].request = log[j].request,
               log[i].kind = "start", log[j].kind = "runtimeDone"
        PROVE  \E n \in DOMAIN spans : spans[n].from = i /\ spans[n].to = j
    <3>1. HasSpan(spans, i, j)
      BY <2>2 DEF ProcessorInv, PairsHaveSpans, IsPair
    <3>2. DOMAIN spans = 1 .. Len(spans)
      BY DEF ProcessorInv
    <3> QED
      BY <3>1, <3>2 DEF HasSpan
  <2> QED
    BY <2>1, <2>2 DEF DeliveredIsConverted
<1> QED
  BY <1>1, ProcessorInvariant, PTL

-----------------------------------------------------------------------------
(* TowerTracing. *)

USE TowerAssumption

-----------------------------------------------------------------------------
(* Records. *)

\* The state of a call; what it says of its event, parent and links does not matter here.
Shaped(r) ==
    r \in [at : Places, event : {r.event}, coldStart : BOOLEAN, parent : {r.parent},
           links : {r.links}, fields : {r.fields}, tasks : Nat, spawned : BOOLEAN]

TowerTyped ==
    /\ config \in Configs
    /\ cold \in BOOLEAN
    /\ DOMAIN call = Calls /\ call = [c \in Calls |-> call[c]]
    /\ \A c \in Calls : Shaped(call[c])
    /\ span \in [Calls -> {"none", "open", "ended", "exported", "lost"}]
    /\ logs \in [Calls -> {"none", "buffered", "exported", "lost"}]

\* At most one call was the first, and one was if any began.
FirstCalls == {c \in Begun : call[c].coldStart}

ColdStartTaken ==
    /\ config.provisioned => FirstCalls = {}
    /\ ~config.provisioned /\ cold => Begun = {}
    /\ ~config.provisioned /\ ~cold => \E c \in Begun : FirstCalls = {c}

\* A call that nothing outlives has closed its span before the first flush, and after it
\* the tracer's processor has it no more.
SpanAheadOfResponse ==
    \A c \in Calls :
        ~call[c].spawned =>
            /\ call[c].tasks = 0
            /\ call[c].at = "tracer" => span[c] # "open"
            /\ call[c].at = "logger" /\ config.tracer => span[c] \notin {"open", "ended"}

TowerInv == TowerTyped /\ ColdStartTaken /\ SpanAheadOfResponse /\ EventAttributesReachSpan

LEMMA NoCallShaped ==
    /\ Shaped(NoCall) /\ NoCall.at = "idle" /\ ~NoCall.coldStart /\ NoCall.tasks = 0
    /\ ~NoCall.spawned
<1>1. FALSE \in BOOLEAN
  OBVIOUS
<1> QED
  BY <1>1 DEF NoCall, Shaped, Places

\* A new record for one call leaves the others alone.
LEMMA OneCall ==
    ASSUME TowerTyped, NEW c \in Calls, NEW r, Shaped(r), call' = [call EXCEPT ![c] = r]
    PROVE  /\ DOMAIN call' = Calls /\ call' = [d \in Calls |-> call'[d]]
           /\ \A d \in Calls : Shaped(call'[d])
           /\ call'[c] = r /\ \A d \in Calls \ {c} : call'[d] = call[d]
BY DEF TowerTyped

-----------------------------------------------------------------------------
(* Every attribute is declared. *)

\* What an extractor records of an event, of whatever kind, has a field.
LEMMA AttributesAreDeclared ==
    ASSUME NEW event \in Events
    PROVE  EventAttributes(event) \cup ContextAttributes \subseteq DeclaredFields
<1>1. event.kind \in HttpKinds \cup MessageKinds
  BY DEF TowerAssumption, EventsOK
<1>2. MessagingAttributes \cup ContextAttributes \subseteq DeclaredFields
  BY DEF DeclaredFields
<1>3. {"messaging.destination.name", "messaging.message.id"} \subseteq DeclaredFields
  BY DEF DeclaredFields
<1>4. ApiGatewayV2 \cup LoadBalancer \cup {"http.request.method", "url.scheme"}
          \subseteq DeclaredFields \cup {"server.address", "client.address"}
  BY DEF DeclaredFields, ApiGatewayV1, ApiGatewayV2, LoadBalancer
<1>5. {"server.address", "client.address"} \subseteq DeclaredFields
  BY DEF DeclaredFields
<1>6. CASE event.kind \in HttpKinds
  <2>1. EventAttributes(event) = HttpAttributes(event)
    BY <1>6 DEF EventAttributes, HttpKinds
  <2>2. HttpAttributes(event)
          \subseteq ApiGatewayV2 \cup LoadBalancer \cup {"http.request.method", "url.scheme"}
    BY <1>6 DEF HttpAttributes, HttpKinds, ApiGatewayV2
  <2> QED
    BY <1>2, <1>4, <1>5, <2>1, <2>2
<1>7. CASE event.kind = "sqs"
  BY <1>2, <1>3, <1>7 DEF EventAttributes, SqsAttributes, HttpKinds
<1>8. CASE event.kind = "sns"
  BY <1>2, <1>3, <1>8 DEF EventAttributes, SnsAttributes, HttpKinds
<1> QED
  BY <1>1, <1>6, <1>7, <1>8 DEF MessageKinds

-----------------------------------------------------------------------------
LEMMA InitEstablishesTowerInv == TowerInit => TowerInv
<1> SUFFICES ASSUME TowerInit PROVE TowerInv
  OBVIOUS
<1>1. TowerTyped
  BY NoCallShaped, Zenon DEF TowerInit, TowerTyped
<1>2. \A c \in Calls : call[c] = NoCall
  BY DEF TowerInit
<1>3. Begun = {} /\ FirstCalls = {}
  BY <1>2, NoCallShaped DEF Begun, FirstCalls
<1>4. ColdStartTaken
  BY <1>3 DEF ColdStartTaken, TowerInit
<1>5. SpanAheadOfResponse
  BY <1>2, NoCallShaped DEF SpanAheadOfResponse
<1> QED
  BY <1>1, <1>3, <1>4, <1>5 DEF TowerInv, EventAttributesReachSpan

\* The swap of the cold start flag: the first of the calls takes it.
LEMMA CallPreserves ==
    ASSUME TowerInv, NEW c \in Calls, NEW event \in Events, Call(c, event)
    PROVE  /\ TowerInv' /\ call'[c].at = "running"
           /\ \A d \in Calls \ {c} : call'[d] = call[d]
<1> USE DEF TowerInv
<1>1. PICK first \in BOOLEAN :
        /\ CheckColdStart(first)
        /\ call' = [call EXCEPT ![c] =
              [NoCall EXCEPT !.at = "running", !.event = event, !.coldStart = first,
                             !.parent = ExtractContext(event), !.links = ExtractLinks(event),
                             !.fields = InitialFields
                                 \cup Recorded(EventAttributes(event) \cup ContextAttributes)]]
  BY DEF Call
<1> DEFINE fields == InitialFields \cup Recorded(EventAttributes(event) \cup ContextAttributes)
           r == [NoCall EXCEPT !.at = "running", !.event = event, !.coldStart = first,
                               !.parent = ExtractContext(event), !.links = ExtractLinks(event),
                               !.fields = fields]
<1> HIDE DEF fields
<1>2. /\ Shaped(r) /\ r.at = "running" /\ r.coldStart = first /\ r.event = event
      /\ r.fields = fields /\ r.tasks = 0 /\ ~r.spawned
  BY NoCallShaped DEF Shaped, Places
<1>3. call' = [call EXCEPT ![c] = r]
  BY <1>1 DEF fields
<1> HIDE DEF r
<1>4. /\ DOMAIN call' = Calls /\ call' = [d \in Calls |-> call'[d]]
      /\ \A d \in Calls : Shaped(call'[d])
      /\ call'[c] = r /\ \A d \in Calls \ {c} : call'[d] = call[d]
  BY <1>2, <1>3, OneCall
<1>5. call[c].at = "idle" /\ span' = [span EXCEPT ![c] = "open"] /\ UNCHANGED <<config, logs>>
  BY DEF Call
<1>6. TowerTyped'
  <2>1. cold' \in BOOLEAN
    BY <1>1, Zenon DEF CheckColdStart
  <2> QED
    BY <1>4, <1>5, <2>1 DEF TowerTyped
<1>7. ColdStartTaken'
  <2>1. Begun' = Begun \cup {c} /\ c \notin Begun
    BY <1>2, <1>4, <1>5 DEF Begun
  <2>2. cold' = FALSE /\ (first <=> cold /\ ~config.provisioned)
    BY <1>1, Zenon DEF CheckColdStart
  <2>3. FirstCalls' = IF first THEN FirstCalls \cup {c} ELSE FirstCalls
    BY <1>2, <1>4, <2>1 DEF FirstCalls, Begun
  <2>4. CASE first
    <3>1. FirstCalls = {}
      BY <2>2, <2>4 DEF ColdStartTaken, FirstCalls
    <3> QED
      BY <1>5, <2>1, <2>2, <2>3, <2>4, <3>1 DEF ColdStartTaken
  <2>5. CASE ~first
    BY <1>5, <2>1, <2>2, <2>3, <2>5 DEF ColdStartTaken
  <2> QED
    BY <2>4, <2>5
<1>8. SpanAheadOfResponse'
  BY <1>2, <1>4, <1>5 DEF SpanAheadOfResponse, TowerTyped
<1>9. EventAttributesReachSpan'
  <2>1. EventAttributes(event) \cup ContextAttributes \subseteq fields
    BY AttributesAreDeclared DEF fields, Recorded
  <2> QED
    BY <1>2, <1>4, <2>1 DEF EventAttributesReachSpan, Begun
<1> QED
  BY <1>2, <1>4, <1>6, <1>7, <1>8, <1>9

\* Whatever goes on in a call after its beginning neither makes it a first call nor
\* takes a field from its span.
LEMMA CallGoesOn ==
    ASSUME TowerInv, NEW c \in Calls, NEW r, Shaped(r), call' = [call EXCEPT ![c] = r],
           call[c].at = "idle" <=> r.at = "idle", r.coldStart = call[c].coldStart,
           r.event = call[c].event, call[c].fields \subseteq r.fields,
           UNCHANGED <<config, cold>>
    PROVE  /\ ColdStartTaken' /\ EventAttributesReachSpan'
           /\ DOMAIN call' = Calls /\ call' = [d \in Calls |-> call'[d]]
           /\ \A d \in Calls : Shaped(call'[d])
           /\ call'[c] = r /\ \A d \in Calls \ {c} : call'[d] = call[d]
<1> USE DEF TowerInv
<1>1. /\ DOMAIN call' = Calls /\ call' = [d \in Calls |-> call'[d]]
      /\ \A d \in Calls : Shaped(call'[d])
      /\ call'[c] = r /\ \A d \in Calls \ {c} : call'[d] = call[d]
  BY OneCall
<1>2. Begun' = Begun
  BY <1>1 DEF Begun
<1>3. FirstCalls' = FirstCalls
  BY <1>1, <1>2 DEF FirstCalls, Begun
<1>4. ColdStartTaken'
  BY <1>2, <1>3 DEF ColdStartTaken
<1>5. EventAttributesReachSpan'
  BY <1>1, <1>2 DEF EventAttributesReachSpan, Begun
<1> QED
  BY <1>1, <1>4, <1>5

\* The handler logs.
LEMMA LogsPreserves ==
    ASSUME TowerInv, NEW c \in Calls, Logs(c)
    PROVE  TowerInv'
<1>1. UNCHANGED <<config, cold, call, span>> /\ logs' = [logs EXCEPT ![c] = "buffered"]
  BY DEF Logs
<1> QED
  BY <1>1 DEF TowerInv, TowerTyped, ColdStartTaken, FirstCalls, Begun, SpanAheadOfResponse,
              EventAttributesReachSpan

\* A task that the handler spawns may outlive the response.
LEMMA SpawnPreserves ==
    ASSUME TowerInv, NEW c \in Calls, SpawnsTask(c)
    PROVE  TowerInv'
<1> DEFINE r == [call[c] EXCEPT !.tasks = @ + 1, !.spawned = TRUE]
<1> USE DEF TowerInv
<1>1. Shaped(call[c]) /\ call[c].at = "running"
  BY DEF SpawnsTask, TowerTyped
<1>2. /\ Shaped(r) /\ r.at = "running" /\ r.coldStart = call[c].coldStart
      /\ r.event = call[c].event /\ r.fields = call[c].fields /\ r.spawned
  <2>1. call[c].tasks \in Nat /\ call[c].tasks + 1 \in Nat
    BY <1>1 DEF Shaped
  <2> QED
    BY <1>1, <2>1 DEF Shaped
<1>3. call' = [call EXCEPT ![c] = r] /\ UNCHANGED <<config, cold, span, logs>>
  BY DEF SpawnsTask, TowerTyped
<1> HIDE DEF r
<1>4. /\ ColdStartTaken' /\ EventAttributesReachSpan'
      /\ DOMAIN call' = Calls /\ call' = [d \in Calls |-> call'[d]]
      /\ \A d \in Calls : Shaped(call'[d])
      /\ call'[c] = r /\ \A d \in Calls \ {c} : call'[d] = call[d]
  BY <1>1, <1>2, <1>3, CallGoesOn
<1> QED
  BY <1>2, <1>3, <1>4 DEF TowerTyped, SpanAheadOfResponse

\* A task ends; it may have been the last to hold a span.
LEMMA TaskEndPreserves ==
    ASSUME TowerInv, NEW c \in Calls, TaskEnds(c)
    PROVE  TowerInv'
<1> DEFINE r == [call[c] EXCEPT !.tasks = @ - 1]
<1> USE DEF TowerInv
<1>1. Shaped(call[c]) /\ call[c].tasks > 0 /\ call[c].tasks \in Nat /\ call[c].spawned
  BY DEF TaskEnds, TowerTyped, SpanAheadOfResponse, Shaped
<1>2. /\ Shaped(r) /\ r.at = call[c].at /\ r.coldStart = call[c].coldStart
      /\ r.event = call[c].event /\ r.fields = call[c].fields /\ r.spawned
  BY <1>1 DEF Shaped
<1>3. call' = [call EXCEPT ![c] = r] /\ UNCHANGED <<config, cold, logs>>
  BY DEF TaskEnds, TowerTyped
<1>4. span' = span \/ span' = [span EXCEPT ![c] = "ended"]
  BY DEF TaskEnds
<1> HIDE DEF r
<1>5. /\ ColdStartTaken' /\ EventAttributesReachSpan'
      /\ DOMAIN call' = Calls /\ call' = [d \in Calls |-> call'[d]]
      /\ \A d \in Calls : Shaped(call'[d])
      /\ call'[c] = r /\ \A d \in Calls \ {c} : call'[d] = call[d]
  BY <1>1, <1>2, <1>3, CallGoesOn
<1> QED
  BY <1>2, <1>3, <1>4, <1>5 DEF TowerTyped, SpanAheadOfResponse

\* The future lets go of the span: before any flush, and for good.
LEMMA EndPreserves ==
    ASSUME TowerInv, NEW c \in Calls, NEW r, Shaped(r), call' = [call EXCEPT ![c] = r],
           call[c].at = "running", r.at \in {"tracer", "returned", "dropped"},
           r.coldStart = call[c].coldStart, r.event = call[c].event,
           call[c].fields \subseteq r.fields, r.spawned = call[c].spawned,
           r.tasks = call[c].tasks, DropsSpan(c), UNCHANGED <<config, cold, logs>>
    PROVE  TowerInv'
<1> USE DEF TowerInv
<1>1. /\ ColdStartTaken' /\ EventAttributesReachSpan'
      /\ DOMAIN call' = Calls /\ call' = [d \in Calls |-> call'[d]]
      /\ \A d \in Calls : Shaped(call'[d])
      /\ call'[c] = r /\ \A d \in Calls \ {c} : call'[d] = call[d]
  BY CallGoesOn
<1>2. span' = IF call[c].tasks = 0 THEN [span EXCEPT ![c] = "ended"] ELSE span
  BY DEF DropsSpan
<1>3. TowerTyped'
  BY <1>1, <1>2 DEF TowerTyped
<1>4. SpanAheadOfResponse'
  BY <1>1, <1>2 DEF TowerTyped, SpanAheadOfResponse
<1> QED
  BY <1>1, <1>3, <1>4

LEMMA DroppedPreserves ==
    ASSUME TowerInv, NEW c \in Calls, Dropped(c)
    PROVE  TowerInv'
<1> DEFINE r == [call[c] EXCEPT !.at = "dropped"]
<1>1. Shaped(call[c]) /\ call[c].at = "running"
  BY DEF Dropped, TowerInv, TowerTyped
<1>2. /\ Shaped(r) /\ r.at = "dropped" /\ r.coldStart = call[c].coldStart
      /\ r.event = call[c].event /\ r.fields = call[c].fields
      /\ r.spawned = call[c].spawned /\ r.tasks = call[c].tasks
  BY <1>1 DEF Shaped, Places
<1>3. call' = [call EXCEPT ![c] = r] /\ DropsSpan(c) /\ UNCHANGED <<config, cold, logs>>
  BY DEF Dropped, TowerInv, TowerTyped
<1> HIDE DEF r
<1> QED
  BY <1>1, <1>2, <1>3, EndPreserves

LEMMA ReadyPreserves ==
    ASSUME TowerInv, NEW c \in Calls, NEW result \in {"ok", "error"}, Ready(c, result)
    PROVE  TowerInv'
<1> DEFINE fields == call[c].fields \cup Recorded(StatusFields(result))
           at == IF config.flush /\ (config.tracer \/ config.logger)
                 THEN "tracer" ELSE "returned"
           r == [call[c] EXCEPT !.fields = fields, !.at = at]
<1>1. Shaped(call[c]) /\ call[c].at = "running"
  BY DEF Ready, TowerInv, TowerTyped
<1>2. call' = [call EXCEPT ![c] = r] /\ DropsSpan(c) /\ UNCHANGED <<config, cold, logs>>
  BY DEF Ready, TowerInv, TowerTyped
<1>3. at \in {"tracer", "returned"} /\ call[c].fields \subseteq fields
  OBVIOUS
<1> HIDE DEF fields, at
<1>4. /\ Shaped(r) /\ r.at = at /\ r.coldStart = call[c].coldStart /\ r.event = call[c].event
      /\ r.fields = fields /\ r.spawned = call[c].spawned /\ r.tasks = call[c].tasks
  BY <1>1, <1>3 DEF Shaped, Places
<1> HIDE DEF r
<1> QED
  BY <1>1, <1>2, <1>3, <1>4, EndPreserves

\* A flush takes what was ended, of every call.
LEMMA FlushPreserves ==
    ASSUME TowerInv, NEW c \in Calls, NEW ok \in BOOLEAN, FlushTracer(c, ok) \/ FlushLogger(c, ok)
    PROVE  TowerInv'
<1> USE DEF TowerInv
<1>1. Shaped(call[c]) /\ call[c].at \in {"tracer", "logger"}
  BY DEF FlushTracer, FlushLogger, TowerTyped
<1>2. PICK at \in {"logger", "returned"} :
        /\ call' = [call EXCEPT ![c] = [call[c] EXCEPT !.at = at]]
        /\ UNCHANGED <<config, cold>>
        /\ at = "logger" =>
              /\ call[c].at = "tracer" /\ logs' = logs
              /\ span' = IF config.tracer THEN Flushed(span, "ended", ok) ELSE span
        /\ at = "returned" =>
              /\ span' = span
              /\ logs' = IF config.logger THEN Flushed(logs, "buffered", ok) ELSE logs
  BY DEF FlushTracer, FlushLogger, TowerTyped
<1> DEFINE r == [call[c] EXCEPT !.at = at]
<1>3. /\ Shaped(r) /\ r.at = at /\ r.coldStart = call[c].coldStart /\ r.event = call[c].event
      /\ r.fields = call[c].fields /\ r.spawned = call[c].spawned /\ r.tasks = call[c].tasks
  BY <1>1 DEF Shaped, Places
<1> HIDE DEF r
<1>4. /\ ColdStartTaken' /\ EventAttributesReachSpan'
      /\ DOMAIN call' = Calls /\ call' = [d \in Calls |-> call'[d]]
      /\ \A d \in Calls : Shaped(call'[d])
      /\ call'[c] = r /\ \A d \in Calls \ {c} : call'[d] = call[d]
  BY <1>1, <1>2, <1>3, CallGoesOn DEF r
<1>5. TowerTyped'
  BY <1>2, <1>4 DEF TowerTyped, Flushed
<1>6. SpanAheadOfResponse'
  <2>1. CASE at = "logger"
    <3>1. \A d \in Calls : span'[d] = span[d] \/ (span[d] = "ended" /\ span'[d] \in {"exported", "lost"})
      BY <1>2, <2>1 DEF TowerTyped, Flushed
    <3>2. config.tracer => \A d \in Calls : span'[d] # "ended"
      BY <1>2, <2>1 DEF TowerTyped, Flushed
    <3> QED
      BY <1>2, <1>3, <1>4, <2>1, <3>1, <3>2 DEF SpanAheadOfResponse
  <2>2. CASE at = "returned"
    BY <1>2, <1>3, <1>4, <2>2 DEF SpanAheadOfResponse
  <2> QED
    BY <2>1, <2>2
<1> QED
  BY <1>4, <1>5, <1>6

LEMMA StepPreservesTowerInv == TowerInv /\ [TowerNext]_towerVars => TowerInv'
<1> SUFFICES ASSUME TowerInv, [TowerNext]_towerVars PROVE TowerInv'
  OBVIOUS
<1>1. CASE UNCHANGED towerVars
  BY <1>1 DEF towerVars, TowerInv, TowerTyped, ColdStartTaken, FirstCalls, Begun,
              SpanAheadOfResponse, EventAttributesReachSpan
<1> QED
  BY <1>1, CallPreserves, LogsPreserves, SpawnPreserves, TaskEndPreserves,
     DroppedPreserves, ReadyPreserves, FlushPreserves DEF TowerNext

\* The inductive invariant holds in every reachable state.
THEOREM TowerInvariant == TowerSpec => []TowerInv
<1> QED
  BY InitEstablishesTowerInv, StepPreservesTowerInv, PTL DEF TowerSpec

\* However many calls begin at once, one of them sees the cold start, and none does with
\* provisioned concurrency (cold_start.rs:19-26).
THEOREM ColdStartSeenOnce == TowerSpec => []OneColdStart
<1>1. TowerInv => OneColdStart
  <2> SUFFICES ASSUME TowerInv PROVE OneColdStart
    OBVIOUS
  <2>1. FirstCalls \subseteq Begun
    BY DEF FirstCalls
  <2>2. CASE config.provisioned \/ Begun = {}
    <3>1. FirstCalls = {}
      BY <2>1, <2>2 DEF TowerInv, ColdStartTaken
    <3> QED
      BY <2>2, <3>1, FS_EmptySet DEF OneColdStart, FirstCalls
  <2>3. CASE ~config.provisioned /\ Begun # {}
    <3>1. PICK c \in Begun : FirstCalls = {c}
      BY <2>3 DEF TowerInv, ColdStartTaken
    <3>2. Cardinality(FirstCalls) = 1
      BY <3>1, FS_Singleton
    <3> QED
      BY <2>3, <3>2 DEF OneColdStart, FirstCalls
  <2> QED
    BY <2>2, <2>3
<1> QED
  BY <1>1, TowerInvariant, PTL

\* Whatever the extractors record of an event of any kind has a declared field, and
\* reaches the span (service.rs:96).
THEOREM AttributesReachSpan == TowerSpec => []EventAttributesReachSpan
<1>1. TowerInv => EventAttributesReachSpan
  BY DEF TowerInv
<1> QED
  BY <1>1, TowerInvariant, PTL

\* A response is let out only when the span and the logs of its call have left the
\* providers, whatever the other calls do meanwhile (future.rs:26-28).
THEOREM ResponseWaitsForFlush == TowerSpec => FlushedBeforeResponse
<1>1. TowerInv /\ [TowerNext]_towerVars =>
        [ \A c \in Calls :
            (config.flush /\ call[c].at # "returned" /\ call'[c].at = "returned")
            => /\ config.tracer => span'[c] \notin {"open", "ended"} \/ call[c].spawned
               /\ config.logger => logs'[c] # "buffered" ]_towerVars
  <2> SUFFICES ASSUME TowerInv, TowerNext, NEW c \in Calls,
                      config.flush, call[c].at # "returned", call'[c].at = "returned"
               PROVE  /\ config.tracer => span'[c] \notin {"open", "ended"} \/ call[c].spawned
                      /\ config.logger => logs'[c] # "buffered"
    OBVIOUS
  <2> USE DEF TowerInv, TowerTyped
  <2>1. PICK d \in Calls :
          \/ \E event \in Events : Call(d, event)
          \/ Logs(d) \/ SpawnsTask(d) \/ TaskEnds(d) \/ Dropped(d)
          \/ \E result \in {"ok", "error"} : Ready(d, result)
          \/ \E ok \in BOOLEAN : FlushTracer(d, ok) \/ FlushLogger(d, ok)
    BY DEF TowerNext
  <2>2. CASE \E ok \in BOOLEAN : FlushLogger(d, ok)
    <3>1. d = c /\ call[c].at = "logger" /\ span' = span
      BY <2>2 DEF FlushLogger
    <3>2. config.logger => logs'[c] # "buffered"
      BY <2>2 DEF FlushLogger, Flushed
    <3> QED
      BY <3>1, <3>2 DEF SpanAheadOfResponse
  <2>3. ASSUME NEW result \in {"ok", "error"}, Ready(d, result)
        PROVE  ~config.tracer /\ ~config.logger
    <3>1. d = c
      BY <2>3 DEF Ready
    <3>2. Shaped(call[c])
      OBVIOUS
    <3>3. call'[c].at = IF config.flush /\ (config.tracer \/ config.logger)
                        THEN "tracer" ELSE "returned"
      BY <2>3, <3>1, <3>2 DEF Ready, Shaped
    <3> QED
      BY <3>3
  <2>4. CASE \E event \in Events : Call(d, event)
    BY <2>4, CallPreserves
  <2>5. CASE Logs(d) \/ SpawnsTask(d) \/ TaskEnds(d) \/ Dropped(d)
    BY <2>5 DEF Logs, SpawnsTask, TaskEnds, Dropped, Shaped
  <2>6. CASE \E ok \in BOOLEAN : FlushTracer(d, ok)
    BY <2>6 DEF FlushTracer, Shaped
  <2> QED
    BY <2>1, <2>2, <2>3, <2>4, <2>5, <2>6
<1> QED
  BY <1>1, TowerInvariant, PTL DEF TowerSpec, FlushedBeforeResponse

-----------------------------------------------------------------------------
(* Trace context: what the readers make of an X-Ray header. *)

\* An empty header has no part of any name.
LEMMA NothingNamed ==
    ASSUME NEW key PROVE LastValue(<< >>, key) = None
BY DEF LastValue, Named

\* None is no id.
LEMMA IdsAreIds ==
    /\ ~IsHex(None) /\ ~IsValid(NoContext) /\ RootToTraceId(None) = None
    /\ \A id \in Ids : IsHex(id) /\ RootToTraceId(id) = id /\ id \notin {None, "zero"}
BY IdsAssumption DEF IsHex, IsValid, NoContext, RootToTraceId, None

\* What a well-formed header says.
Says(header) == IF header = << >> THEN NoContext ELSE Meaning(header)

\* parse_xray_trace_header of the SQS and SNS extractors.
LEMMA MessagesAreRead ==
    ASSUME NEW header, IsHeader(header), WellFormed(header)
    PROVE  MessageContext(header) = Says(header)
<1>1. CASE header = << >>
  BY <1>1, NothingNamed, IdsAreIds DEF MessageContext, Says
<1>2. CASE header # << >>
  <2> DEFINE m == Meaning(header)
             context == [trace   |-> RootToTraceId(LastValue(header, "Root")),
                         span    |-> LastValue(header, "Parent"),
                         sampled |-> SomeSampled(header)]
  <2>1. Canonical(header)
    BY <1>2 DEF WellFormed
  <2>2. m.trace \in Ids /\ m.span \in Ids /\ m.sampled \in BOOLEAN
        /\ LastValue(header, "Root") = m.trace /\ LastValue(header, "Parent") = m.span
        /\ m = [trace |-> m.trace, span |-> m.span, sampled |-> m.sampled]
    BY <2>1, CanonicalMeans
  <2>3. SomeSampled(header) = m.sampled
    <3>1. SomeSampled(header) <=> m.sampled
      BY <2>1, CanonicalMeans
    <3>2. SomeSampled(header) \in BOOLEAN
      BY DEF SomeSampled
    <3> QED
      BY <2>2, <3>1, <3>2
  <2>4. RootToTraceId(m.trace) = m.trace /\ IsHex(m.trace) /\ IsHex(m.span)
    BY <2>2, IdsAreIds
  <2> HIDE DEF m
  <2>5. context = m
    BY <2>2, <2>3, <2>4
  <2>6. IsHex(context.trace) /\ IsHex(context.span)
    BY <2>2, <2>4
  <2>7. MessageContext(header) = context
    BY <2>6 DEF MessageContext
  <2> QED
    BY <1>2, <2>5, <2>7 DEF Says, m
<1> QED
  BY <1>1, <1>2

\* convert_xray_to_traceparent reads the parts without white space: of these, all.
LEMMA EnvironmentIsRead ==
    ASSUME NEW header, IsHeader(header), WellFormed(header)
    PROVE  /\ HttpContext(header) = Says(header)
           /\ header # << >> => IsValid(Says(header))
<1>1. CASE header = << >>
  <2>1. \A key : LastValue(Untrimmed(header), key) = None
    <3>1. DOMAIN Untrimmed(header) = {}
      BY <1>1 DEF Untrimmed
    <3> QED
      BY <3>1 DEF LastValue, Named
  <2> QED
    BY <1>1, <2>1, IdsAreIds DEF HttpContext, Says
<1>2. CASE header # << >>
  <2> DEFINE m == Meaning(header)
             parts == Untrimmed(header)
             context == [trace   |-> RootToTraceId(LastValue(parts, "Root")),
                         span    |-> LastValue(parts, "Parent"),
                         sampled |-> SomeSampled(parts)]
  <2>1. Canonical(header)
    BY <1>2 DEF WellFormed
  <2>2. m.trace \in Ids /\ m.span \in Ids /\ m.sampled \in BOOLEAN
        /\ LastValue(header, "Root") = m.trace /\ LastValue(header, "Parent") = m.span
        /\ m = [trace |-> m.trace, span |-> m.span, sampled |-> m.sampled]
    BY <2>1, CanonicalMeans
  <2>3. DOMAIN parts = DOMAIN header /\ \A i \in DOMAIN header : parts[i] = header[i]
    BY <2>1 DEF Untrimmed, Canonical
  <2>4. ASSUME NEW key \in {"Root", "Parent"}
        PROVE  LastValue(parts, key) = LastValue(header, key)
    <3>1. PICK i \in DOMAIN header : Named(header, key) = {i}
      BY <2>1 DEF Canonical
    <3>2. Named(parts, key) = {i} /\ parts[i] = header[i] /\ i \in Nat
      BY <2>3, <3>1 DEF Named, IsHeader
    <3> QED
      BY <3>1, <3>2, LastOfOne
  <2>5. SomeSampled(parts) = m.sampled
    <3>1. SomeSampled(header) <=> m.sampled
      BY <2>1, CanonicalMeans
    <3>2. SomeSampled(parts) <=> SomeSampled(header)
      BY <2>3 DEF SomeSampled
    <3>3. SomeSampled(parts) \in BOOLEAN
      BY DEF SomeSampled
    <3> QED
      BY <2>2, <3>1, <3>2, <3>3
  <2>6. RootToTraceId(m.trace) = m.trace /\ IsHex(m.trace) /\ IsHex(m.span) /\ IsValid(m)
    BY <2>2, IdsAreIds DEF IsValid
  <2> HIDE DEF m, parts
  <2>7. context = m
    BY <2>2, <2>4, <2>5, <2>6
  <2>8. IsHex(context.trace) /\ IsHex(context.span) /\ IsValid(context)
    BY <2>2, <2>6, <2>7
  <2>9. HttpContext(header) = context
    BY <2>8 DEF HttpContext, parts
  <2> QED
    BY <1>2, <2>6, <2>7, <2>9 DEF Says, m
<1> QED
  BY <1>1, <1>2

\* With the W3C propagator: the sender's headers first, then what X-Ray says.
LEMMA ParentIsTheSenders ==
    ASSUME NEW event \in Events, event.kind \in HttpKinds, config.propagator = "w3c",
           WellFormed(event.env)
    PROVE  ExtractContext(event) = Sent(event.carrier, event.env)
<1> DEFINE carrier == event.carrier
           made == [format |-> "w3c", context |-> HttpContext(event.env)]
<1>1. IsHeader(event.env)
  BY DEF TowerAssumption, EventsOK
<1>2. ExtractContext(event) = HttpParent(event)
  BY DEF ExtractContext
<1>3. CASE carrier.format = "w3c" /\ IsValid(carrier.context)
  <2>1. Propagated(carrier) = carrier.context /\ carrier.context # NoContext
    BY <1>3, IdsAreIds DEF Propagated
  <2> QED
    BY <1>2, <1>3, <2>1 DEF HttpParent, Sent
<1>4. CASE ~(carrier.format = "w3c" /\ IsValid(carrier.context))
  <2>1. Propagated(carrier) = NoContext
    BY <1>4 DEF Propagated
  <2>2. HttpParent(event) = FromEnvironment(event)
    BY <2>1 DEF HttpParent
  <2>3. FromEnvironment(event) = Says(event.env)
    <3>1. HttpContext(event.env) = Says(event.env)
      BY <1>1, EnvironmentIsRead
    <3>2. made.format = config.propagator /\ made.context = Says(event.env)
      BY <3>1
    <3>3. CASE event.env = << >>
      BY <3>2, <3>3 DEF FromEnvironment, Propagated, Says
    <3>4. CASE event.env # << >>
      <4>1. IsValid(Says(event.env))
        BY <1>1, <3>4, EnvironmentIsRead
      <4> QED
        BY <3>2, <4>1 DEF FromEnvironment, Propagated
    <3> QED
      BY <3>3, <3>4
  <2> QED
    BY <1>2, <1>4, <2>2, <2>3 DEF Sent, Says
<1> QED
  BY <1>3, <1>4

\* And the same for each message.
LEMMA LinkIsTheSenders ==
    ASSUME NEW message, IsHeader(message.header), WellFormed(message.header),
           config.propagator = "w3c"
    PROVE  MessageLink(message) = Sent(message.carrier, message.header)
<1> DEFINE carrier == message.carrier
<1>1. MessageContext(message.header) = Says(message.header)
  BY MessagesAreRead
<1>2. CASE carrier.format = "w3c" /\ IsValid(carrier.context)
  <2>1. Propagated(carrier) = carrier.context /\ carrier.context # NoContext
    BY <1>2, IdsAreIds DEF Propagated
  <2> QED
    BY <1>2, <2>1 DEF MessageLink, Sent
<1>3. CASE ~(carrier.format = "w3c" /\ IsValid(carrier.context))
  <2>1. Propagated(carrier) = NoContext
    BY <1>3 DEF Propagated
  <2> QED
    BY <1>1, <1>3, <2>1 DEF MessageLink, Sent, Says
<1> QED
  BY <1>2, <1>3

LEMMA LinksAreTheSenders ==
    ASSUME NEW event \in Events, event.kind \notin HttpKinds, config.propagator = "w3c",
           \A i \in DOMAIN event.records : WellFormed(event.records[i].header)
    PROVE  ExtractLinks(event) = Linked(SentAll(event))
<1>1. event.kind \in MessageKinds
  BY DEF TowerAssumption, EventsOK
<1>2. \A i \in DOMAIN event.records : IsHeader(event.records[i].header)
  BY <1>1 DEF TowerAssumption, EventsOK
<1>3. ASSUME NEW i \in DOMAIN event.records
      PROVE  MessageLink(event.records[i])
                 = Sent(event.records[i].carrier, event.records[i].header)
  BY <1>2, LinkIsTheSenders
<1>4. [i \in DOMAIN event.records |-> MessageLink(event.records[i])] = SentAll(event)
  BY <1>3 DEF SentAll
<1> QED
  BY <1>4, Zenon DEF ExtractLinks

-----------------------------------------------------------------------------
(* Trace context: it stays what it was made. *)

\* After its beginning a call keeps its event, its parent and its links.
LEMMA ContextStays ==
    ASSUME TowerInv, NEW d \in Calls,
           \/ Logs(d) \/ SpawnsTask(d) \/ TaskEnds(d) \/ Dropped(d)
           \/ \E result \in {"ok", "error"} : Ready(d, result)
           \/ \E ok \in BOOLEAN : FlushTracer(d, ok) \/ FlushLogger(d, ok),
           NEW c \in Calls, call'[c].at # "idle"
    PROVE  /\ call[c].at # "idle" /\ config' = config
           /\ call'[c].event = call[c].event /\ call'[c].parent = call[c].parent
           /\ call'[c].links = call[c].links
<1>1. Shaped(call[c]) /\ Shaped(call[d]) /\ DOMAIN call = Calls
  BY DEF TowerInv, TowerTyped
<1>2. CASE Logs(d)
  BY <1>2 DEF Logs
<1>3. CASE SpawnsTask(d)
  BY <1>1, <1>3 DEF SpawnsTask, Shaped
<1>4. CASE TaskEnds(d)
  BY <1>1, <1>4 DEF TaskEnds, Shaped
<1>5. CASE Dropped(d)
  BY <1>1, <1>5 DEF Dropped, Shaped
<1>6. ASSUME NEW result \in {"ok", "error"}, Ready(d, result)
      PROVE  /\ call[c].at # "idle" /\ config' = config
             /\ call'[c].event = call[c].event /\ call'[c].parent = call[c].parent
             /\ call'[c].links = call[c].links
  <2> DEFINE fields == call[d].fields \cup Recorded(StatusFields(result))
             at == IF config.flush /\ (config.tracer \/ config.logger)
                   THEN "tracer" ELSE "returned"
             r == [call[d] EXCEPT !.fields = fields, !.at = at]
  <2>1. call' = [call EXCEPT ![d] = r] /\ config' = config /\ call[d].at = "running"
    BY <1>1, <1>6 DEF Ready
  <2> HIDE DEF fields, at
  <2>2. /\ r.event = call[d].event /\ r.parent = call[d].parent /\ r.links = call[d].links
    BY <1>1 DEF Shaped
  <2> HIDE DEF r
  <2> QED
    BY <1>1, <2>1, <2>2
<1>7. ASSUME NEW ok \in BOOLEAN, FlushTracer(d, ok) \/ FlushLogger(d, ok)
      PROVE  /\ call[c].at # "idle" /\ config' = config
             /\ call'[c].event = call[c].event /\ call'[c].parent = call[c].parent
             /\ call'[c].links = call[c].links
  BY <1>1, <1>7 DEF FlushTracer, FlushLogger, Shaped
<1> QED
  BY <1>2, <1>3, <1>4, <1>5, <1>6, <1>7

\* A new call gets the context of its event.
LEMMA ContextIsMade ==
    ASSUME TowerInv, ContextIsTheSenders, NEW c \in Calls, NEW event \in Events, Call(c, event)
    PROVE  ContextIsTheSenders'
<1>1. /\ Shaped(call[c]) /\ DOMAIN call = Calls /\ config' = config
      /\ \A d \in Calls \ {c} : call'[d] = call[d]
  BY CallPreserves DEF TowerInv, TowerTyped, Call
<1>2. PICK first \in BOOLEAN :
        call' = [call EXCEPT ![c] =
              [NoCall EXCEPT !.at = "running", !.event = event, !.coldStart = first,
                             !.parent = ExtractContext(event), !.links = ExtractLinks(event),
                             !.fields = InitialFields
                                 \cup Recorded(EventAttributes(event) \cup ContextAttributes)]]
  BY DEF Call
<1>3. /\ call'[c].event = event /\ call'[c].parent = ExtractContext(event)
      /\ call'[c].links = ExtractLinks(event)
  BY <1>1, <1>2 DEF NoCall
<1>4. SUFFICES ASSUME NEW d \in Begun', config'.propagator = "w3c"
               PROVE  LET e == call'[d].event
                      IN  IF e.kind \in HttpKinds
                          THEN /\ WellFormed(e.env) => call'[d].parent = Sent(e.carrier, e.env)
                               /\ call'[d].links = << >>
                          ELSE /\ call'[d].parent = NoContext
                               /\ (\A i \in DOMAIN e.records : WellFormed(e.records[i].header))
                                  => call'[d].links = Linked(SentAll(e))
  BY DEF ContextIsTheSenders
<1>5. CASE d = c
  <2>1. CASE event.kind \in HttpKinds
    BY <1>1, <1>3, <1>4, <1>5, <2>1, ParentIsTheSenders DEF ExtractLinks
  <2>2. CASE event.kind \notin HttpKinds
    BY <1>1, <1>3, <1>4, <1>5, <2>2, LinksAreTheSenders DEF ExtractContext
  <2> QED
    BY <2>1, <2>2
<1>6. CASE d # c
  <2>1. d \in Begun /\ call'[d] = call[d]
    BY <1>1, <1>6 DEF Begun
  <2> QED
    BY <1>1, <1>4, <2>1 DEF ContextIsTheSenders
<1> QED
  BY <1>5, <1>6

LEMMA StepPreservesContext ==
    TowerInv /\ ContextIsTheSenders /\ [TowerNext]_towerVars => ContextIsTheSenders'
<1> SUFFICES ASSUME TowerInv, ContextIsTheSenders, [TowerNext]_towerVars
             PROVE  ContextIsTheSenders'
  OBVIOUS
<1>1. CASE UNCHANGED towerVars
  BY <1>1 DEF towerVars, ContextIsTheSenders, Begun
<1>2. CASE \E c \in Calls, event \in Events : Call(c, event)
  BY <1>2, ContextIsMade
<1>3. ASSUME NEW d \in Calls,
             \/ Logs(d) \/ SpawnsTask(d) \/ TaskEnds(d) \/ Dropped(d)
             \/ \E result \in {"ok", "error"} : Ready(d, result)
             \/ \E ok \in BOOLEAN : FlushTracer(d, ok) \/ FlushLogger(d, ok)
      PROVE  ContextIsTheSenders'
  <2>1. ASSUME NEW c \in Begun'
        PROVE  /\ c \in Begun /\ config' = config
               /\ call'[c].event = call[c].event /\ call'[c].parent = call[c].parent
               /\ call'[c].links = call[c].links
    BY <1>3, <2>1, ContextStays DEF Begun
  <2> QED
    BY <2>1 DEF ContextIsTheSenders
<1> QED
  BY <1>1, <1>2, <1>3 DEF TowerNext

\* With the W3C propagator a span has the parent that its sender named and a link to
\* each message that has a trace, whatever valid parts an X-Ray header carries, in any
\* order (the extractors of http.rs, lambda_http.rs, sqs.rs, sns.rs).
THEOREM ContextAlwaysTheSenders == TowerSpec => []ContextIsTheSenders
<1>1. TowerInit => ContextIsTheSenders
  <2> SUFFICES ASSUME TowerInit PROVE Begun = {}
    BY DEF ContextIsTheSenders
  <2> QED
    BY NoCallShaped DEF TowerInit, Begun
<1> QED
  BY <1>1, StepPreservesContext, TowerInvariant, PTL DEF TowerSpec
=============================================================================
