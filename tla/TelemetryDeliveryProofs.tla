----------------------- MODULE TelemetryDeliveryProofs -----------------------
(***************************************************************************)
(* What TLAPS proves of TelemetryDelivery, for any number of extensions,   *)
(* subscriptions and events and every buffer: what a full buffer keeps,    *)
(* when an event may be delivered twice, and in which order events come.   *)
(***************************************************************************)
EXTENDS TelemetryDelivery, FiniteSetTheorems, SequenceTheorems, TLAPS

USE DeliveryAssumption

-----------------------------------------------------------------------------
(* The inductive invariant. *)

Tasks == [ext : Extensions, at : {"ticking", "drained", "posting", "aborted"},
          batch : Seq(Events)]

Flushes == [todo : SUBSET Extensions, to : SUBSET Extensions, batch : Seq(Events),
            attempts : 0 .. MaxAttempts - 1]

EventsShape ==
    /\ emitted \in 0 .. MaxEvents /\ policy \in Policies
    /\ captured \in Seq(Events) /\ Len(captured) <= MaxCaptured
    /\ delayed \subseteq Events /\ waiting \subseteq Events

BuffersShape ==
    /\ wants \in [Extensions -> {"unsubscribed", "platform", "other"}]
    /\ subscribing \subseteq Extensions
    /\ DOMAIN buffer \subseteq Extensions
    /\ \A e \in DOMAIN buffer : buffer[e] \in Seq(Events)
    /\ pushed \in [Extensions -> Seq(Events)]

TasksShape ==
    /\ tasks \in Seq(Tasks) /\ handle \in [Extensions -> 0 .. Len(tasks)]
    /\ \A t \in DOMAIN tasks : tasks[t].ext \in DOMAIN buffer

FlushShape ==
    /\ flush \in Flushes
    /\ flush.todo \subseteq DOMAIN buffer /\ flush.to \subseteq flush.todo
    /\ phase \in {"running", "flushing", "told", "over"}
    /\ phase # "flushing" => flush.todo = {}
    /\ received \in [Extensions -> Seq(Events)]

Shape == EventsShape /\ BuffersShape /\ TasksShape /\ FlushShape

\* s is what p ends with.
EndsWith(p, s) ==
    Len(s) <= Len(p) /\ \A i \in 1 .. Len(s) : s[i] = p[Len(p) - Len(s) + i]

NewestWait ==
    \A e \in DOMAIN buffer : Len(buffer[e]) <= MaxItems /\ EndsWith(pushed[e], buffer[e])

\* Events that are in no buffer yet.
Unsent == (Events \ 1 .. emitted) \cup delayed \cup waiting

Buffered(e) == IF e \in DOMAIN buffer THEN ToSet(buffer[e]) ELSE {}

Received(e) == ToSet(received[e])

Carried(t) == ToSet(tasks[t].batch)

\* An event that has not been buffered is nowhere.
UnsentIsNowhere ==
    /\ delayed \cap waiting = {} /\ delayed \cup waiting \subseteq 1 .. emitted
    /\ \A e \in Extensions : Received(e) \cap Unsent = {} /\ Buffered(e) \cap Unsent = {}
    /\ \A t \in DOMAIN tasks : Carried(t) \cap Unsent = {}
    /\ ToSet(flush.batch) \cap Unsent = {}

\* An event is in one place of its way to an extension: in the buffer, in one task's
\* hands, in the flush's, or received; a flush that tries again may have delivered it.
OnePlace ==
    /\ \A e \in Extensions : Buffered(e) \cap Received(e) = {}
    /\ \A t \in DOMAIN tasks :
          Carried(t) \cap Received(tasks[t].ext) = {} /\ Carried(t) \cap Buffered(tasks[t].ext) = {}
    /\ \A t, u \in DOMAIN tasks :
          t # u /\ tasks[t].ext = tasks[u].ext => Carried(t) \cap Carried(u) = {}
    /\ \A e \in flush.to :
          /\ ToSet(flush.batch) \cap Buffered(e) = {}
          /\ flush.attempts = 0 => ToSet(flush.batch) \cap Received(e) = {}
          /\ \A t \in DOMAIN tasks :
                tasks[t].ext = e => ToSet(flush.batch) \cap Carried(t) = {}

\* x was buffered before y.
Before(p, x, y) == \E a, b \in DOMAIN p : a < b /\ p[a] = x /\ p[b] = y

InOrder(s, p) == \A i, j \in DOMAIN s : i < j => Before(p, s[i], s[j])

AllBefore(s, t, p) == \A x \in ToSet(s), y \in ToSet(t) : Before(p, x, y)

From(s, p) == ToSet(s) \subseteq ToSet(p)

OneTask(e) == \A t, u \in DOMAIN tasks : tasks[t].ext = e /\ tasks[u].ext = e => t = u

\* With one task what is received, then what the task holds, then what is buffered
\* are in the order of the buffering.
TaskInTurn(e, t) ==
    /\ InOrder(tasks[t].batch, pushed[e]) /\ From(tasks[t].batch, pushed[e])
    /\ AllBefore(received[e], tasks[t].batch, pushed[e])
    /\ AllBefore(tasks[t].batch, buffer[e], pushed[e])
    /\ AllBefore(received[e], buffer[e], pushed[e])

TurnOf(e) ==
    /\ received[e] # << >> => \E t \in DOMAIN tasks : tasks[t].ext = e
    /\ OneTask(e) =>
          /\ InOrder(received[e], pushed[e]) /\ From(received[e], pushed[e])
          /\ \A t \in DOMAIN tasks : tasks[t].ext = e => TaskInTurn(e, t)

InTurn == phase = "running" => \A e \in Extensions : TurnOf(e)

DeliveryInv == Shape /\ NewestWait /\ UnsentIsNowhere /\ OnePlace /\ InTurn

-----------------------------------------------------------------------------
(* Sequences of events: their elements, and what a buffer loses and keeps. *)

LEMMA Places ==
    ASSUME NEW s \in Seq(Events), NEW x
    PROVE  x \in ToSet(s) <=> \E i \in 1 .. Len(s) : s[i] = x
<1>1. DOMAIN s = 1 .. Len(s)
  OBVIOUS
<1> QED
  BY Zenon, <1>1 DEF ToSet

LEMMA LastOrBefore ==
    ASSUME NEW m \in Nat, NEW l, l = m + 1, NEW i \in 1 .. l
    PROVE  i \in 1 .. m \/ i = m + 1
OBVIOUS

LEMMA OneFewer ==
    ASSUME NEW m \in Nat, m >= 1
    PROVE  (IF 2 <= m THEN m - 2 + 1 ELSE 0) = m - 1
OBVIOUS

LEMMA NothingInEmpty ==
    << >> \in Seq(Events) /\ Len(<< >>) = 0 /\ ToSet(<< >>) = {}
BY DEF ToSet

LEMMA ConcatAdds ==
    ASSUME NEW s \in Seq(Events), NEW t \in Seq(Events), NEW r, r = s \o t
    PROVE  /\ r \in Seq(Events) /\ Len(r) = Len(s) + Len(t)
           /\ \A i \in 1 .. Len(r) : r[i] = IF i <= Len(s) THEN s[i] ELSE t[i - Len(s)]
           /\ ToSet(r) = ToSet(s) \cup ToSet(t)
<1>1. /\ r \in Seq(Events) /\ Len(r) = Len(s) + Len(t) /\ Len(s) \in Nat /\ Len(t) \in Nat
      /\ \A i \in 1 .. Len(r) : r[i] = IF i <= Len(s) THEN s[i] ELSE t[i - Len(s)]
  OBVIOUS
<1>2. ASSUME NEW x \in ToSet(r) PROVE x \in ToSet(s) \cup ToSet(t)
  <2>1. PICK i \in 1 .. Len(r) : r[i] = x
    BY <1>1, <1>2, Places
  <2>2. CASE i <= Len(s)
    <3>1. i \in 1 .. Len(s) /\ s[i] = x
      BY <1>1, <2>1, <2>2
    <3> QED
      BY <3>1, Places
  <2>3. CASE ~(i <= Len(s))
    <3>1. i - Len(s) \in 1 .. Len(t) /\ t[i - Len(s)] = x
      BY <1>1, <2>1, <2>3
    <3> QED
      BY <3>1, Places
  <2> QED
    BY <2>2, <2>3
<1>3. ASSUME NEW x \in ToSet(s) PROVE x \in ToSet(r)
  <2>1. PICK i \in 1 .. Len(s) : s[i] = x
    BY <1>3, Places
  <2>2. i \in 1 .. Len(r) /\ r[i] = x
    BY <1>1, <2>1
  <2> QED
    BY <1>1, <2>2, Places
<1>4. ASSUME NEW x \in ToSet(t) PROVE x \in ToSet(r)
  <2>1. PICK i \in 1 .. Len(t) : t[i] = x
    BY <1>4, Places
  <2>2. /\ Len(s) + i \in 1 .. Len(r) /\ ~(Len(s) + i <= Len(s))
        /\ (Len(s) + i) - Len(s) = i
    BY <1>1
  <2>3. r[Len(s) + i] = x
    BY <1>1, <2>1, <2>2
  <2> QED
    BY <1>1, <2>2, <2>3, Places
<1>5. ToSet(r) = ToSet(s) \cup ToSet(t)
  BY <1>2, <1>3, <1>4
<1> QED
  BY <1>1, <1>5

LEMMA AppendAdds ==
    ASSUME NEW s \in Seq(Events), NEW n \in Events, NEW r, r = Append(s, n)
    PROVE  /\ r \in Seq(Events) /\ Len(r) = Len(s) + 1 /\ r[Len(s) + 1] = n
           /\ \A i \in 1 .. Len(s) : r[i] = s[i]
           /\ ToSet(r) = ToSet(s) \cup {n}
<1>1. /\ r \in Seq(Events) /\ Len(r) = Len(s) + 1 /\ r[Len(s) + 1] = n /\ Len(s) \in Nat
      /\ \A i \in 1 .. Len(s) : r[i] = s[i]
  OBVIOUS
<1>2. ASSUME NEW x \in ToSet(r) PROVE x \in ToSet(s) \cup {n}
  <2>1. PICK i \in 1 .. Len(r) : r[i] = x
    BY <1>1, <1>2, Places
  <2>2. CASE i \in 1 .. Len(s)
    BY <1>1, <2>1, <2>2, Places
  <2>3. CASE i = Len(s) + 1
    BY <1>1, <2>1, <2>3
  <2> QED
    BY <1>1, <2>2, <2>3
<1>3. ASSUME NEW x \in ToSet(s) PROVE x \in ToSet(r)
  <2>1. PICK i \in 1 .. Len(s) : s[i] = x
    BY <1>3, Places
  <2>2. i \in 1 .. Len(r) /\ r[i] = x
    BY <1>1, <2>1
  <2> QED
    BY <1>1, <2>2, Places
<1>4. n \in ToSet(r)
  <2>1. Len(s) + 1 \in 1 .. Len(r)
    BY <1>1
  <2> QED
    BY <1>1, <2>1, Places
<1>5. ToSet(r) = ToSet(s) \cup {n}
  BY <1>2, <1>3, <1>4
<1> QED
  BY <1>1, <1>5

\* A drain takes the whole of a buffer that holds no more than max_items.
LEMMA DrainTakesAll ==
    ASSUME NEW s \in Seq(Events), NEW c, c = Len(s)
    PROVE  SubSeq(s, 1, c) = s /\ SubSeq(s, c + 1, Len(s)) = << >>
<1>1. Len(s) \in Nat /\ \A i \in 1 .. Len(s) : s[i] \in Events
  OBVIOUS
<1> DEFINE r == SubSeq(s, 1, c)
<1>2. /\ r \in Seq(Events)
      /\ Len(r) = IF 1 <= c THEN c - 1 + 1 ELSE 0
      /\ \A i \in 1 .. c - 1 + 1 : r[i] = s[1 + i - 1]
  BY <1>1, SubSeqProperties
<1> HIDE DEF r
<1>3. Len(r) = Len(s)
  BY <1>1, <1>2
<1>4. ASSUME NEW i \in 1 .. Len(r) PROVE r[i] = s[i]
  <2>1. i \in 1 .. c - 1 + 1 /\ 1 + i - 1 = i
    BY <1>1, <1>3
  <2> QED
    BY <1>2, <2>1
<1>5. r = s
  BY <1>2, <1>3, <1>4, SeqEqual
<1>6. SubSeq(s, c + 1, Len(s)) = << >>
  BY <1>1, SubSeqEmpty
<1> QED
  BY <1>5, <1>6 DEF r

\* What a buffer holds is what came last, also after one more event with overflow.
LEMMA NewestIsKept ==
    ASSUME NEW s \in Seq(Events), NEW p \in Seq(Events), NEW n \in Events,
           Len(s) <= MaxItems, EndsWith(p, s),
           NEW k, k = KeepNewest(s, n), NEW q, q = Append(p, n)
    PROVE  /\ k \in Seq(Events) /\ Len(k) <= MaxItems
           /\ EndsWith(q, k)
           /\ ToSet(k) \subseteq ToSet(s) \cup {n}
<1> DEFINE d == IF Len(s) >= MaxItems THEN 1 ELSE 0
           r == IF Len(s) >= MaxItems THEN SubSeq(s, Len(s) - MaxItems + 2, Len(s)) ELSE s
<1>1. /\ Len(s) \in Nat /\ Len(p) \in Nat /\ MaxItems \in Nat \ {0} /\ d \in Nat
      /\ Len(s) - d \in Nat /\ Len(s) - d + 1 <= MaxItems
      /\ \A i \in 1 .. Len(s) : s[i] \in Events
  BY DEF DeliveryAssumption
<1>2. /\ r \in Seq(Events) /\ Len(r) = Len(s) - d
      /\ \A i \in 1 .. Len(r) : r[i] = s[d + i]
  <2>1. CASE Len(s) >= MaxItems
    <3>1. Len(s) - MaxItems + 2 = 2 /\ d = 1 /\ r = SubSeq(s, 2, Len(s)) /\ Len(s) >= 1
      BY <1>1, <2>1
    <3>2. \A i \in 2 .. Len(s) : s[i] \in Events
      BY <1>1
    <3>3. /\ r \in Seq(Events)
          /\ Len(r) = IF 2 <= Len(s) THEN Len(s) - 2 + 1 ELSE 0
          /\ \A i \in 1 .. Len(s) - 2 + 1 : r[i] = s[2 + i - 1]
      BY SMTT(30), <1>1, <3>1, <3>2, SubSeqProperties
    <3> HIDE DEF r, d
    <3>4. Len(r) = Len(s) - d
      <4>1. Len(s) \in Nat /\ Len(s) >= 1 /\ d = 1
        BY <1>1, <3>1
      <4>2. Len(r) = IF 2 <= Len(s) THEN Len(s) - 2 + 1 ELSE 0
        BY <3>3
      <4> QED
        BY <4>1, <4>2, OneFewer
    <3>5. ASSUME NEW i \in 1 .. Len(r) PROVE r[i] = s[d + i]
      <4>1. i \in 1 .. Len(s) - 2 + 1 /\ 2 + i - 1 = d + i
        BY <1>1, <3>1, <3>4
      <4> QED
        BY <3>3, <4>1
    <3> QED
      BY <3>3, <3>4, <3>5
  <2>2. CASE ~(Len(s) >= MaxItems)
    BY <1>1, <2>2
  <2> QED
    BY <2>1, <2>2
<1>3. k = Append(r, n)
  BY DEF KeepNewest
<1> HIDE DEF r, d
<1>4. /\ k \in Seq(Events) /\ Len(k) = Len(s) - d + 1 /\ k[Len(r) + 1] = n
      /\ \A i \in 1 .. Len(r) : k[i] = r[i]
      /\ ToSet(k) = ToSet(r) \cup {n}
  <2>1. /\ k \in Seq(Events) /\ Len(k) = Len(r) + 1 /\ k[Len(r) + 1] = n
        /\ \A i \in 1 .. Len(r) : k[i] = r[i]
        /\ ToSet(k) = ToSet(r) \cup {n}
    <3>1. r \in Seq(Events)
      BY <1>2
    <3> QED
      BY <1>3, <3>1, AppendAdds
  <2> QED
    BY <1>2, <2>1
<1>5. /\ q \in Seq(Events) /\ Len(q) = Len(p) + 1 /\ q[Len(p) + 1] = n
      /\ \A i \in 1 .. Len(p) : q[i] = p[i]
  BY AppendAdds
<1>6. ASSUME NEW i \in 1 .. Len(k) PROVE k[i] = q[Len(q) - Len(k) + i]
  <2>1. CASE i \in 1 .. Len(r)
    <3>1. d + i \in 1 .. Len(s)
      BY <1>1, <1>2, <2>1
    <3>2. s[d + i] = p[Len(p) - Len(s) + (d + i)] /\ Len(s) <= Len(p)
      BY <3>1 DEF EndsWith
    <3>3. /\ Len(p) - Len(s) + (d + i) = Len(q) - Len(k) + i
          /\ Len(q) - Len(k) + i \in 1 .. Len(p)
      <4>1. /\ Len(k) = Len(s) - d + 1 /\ Len(q) = Len(p) + 1 /\ Len(r) = Len(s) - d
            /\ Len(s) \in Nat /\ Len(p) \in Nat /\ d \in Nat
            /\ i \in 1 .. Len(r) /\ Len(s) <= Len(p)
        BY <1>1, <1>2, <1>4, <1>5, <2>1, <3>2
      <4> QED
        BY <4>1
    <3>4. k[i] = s[d + i]
      BY <1>2, <1>4, <2>1
    <3> QED
      BY <1>5, <3>2, <3>3, <3>4
  <2>2. CASE i = Len(r) + 1
    <3>1. Len(q) - Len(k) + i = Len(p) + 1
      BY <1>1, <1>2, <1>4, <1>5, <2>2
    <3> QED
      BY <1>4, <1>5, <2>2, <3>1
  <2>3. Len(k) = Len(r) + 1 /\ Len(r) \in Nat
    BY <1>1, <1>2, <1>4
  <2> QED
    BY <2>1, <2>2, <2>3, LastOrBefore
<1>7. Len(k) <= Len(q)
  BY <1>1, <1>4, <1>5 DEF EndsWith
<1>8. ToSet(r) \subseteq ToSet(s)
  <2> SUFFICES ASSUME NEW x \in ToSet(r) PROVE x \in ToSet(s)
    OBVIOUS
  <2>1. PICK i \in 1 .. Len(r) : r[i] = x
    BY <1>2, Places
  <2>2. d + i \in 1 .. Len(s) /\ s[d + i] = x
    BY <1>1, <1>2, <2>1
  <2> QED
    BY <2>2, Places
<1> QED
  BY <1>1, <1>4, <1>6, <1>7, <1>8 DEF EndsWith

LEMMA OverflowKeepsNewest ==
    ASSUME NEW s \in Seq(Events), NEW p \in Seq(Events), NEW n \in Events,
           Len(s) <= MaxItems, EndsWith(p, s)
    PROVE  /\ KeepNewest(s, n) \in Seq(Events) /\ Len(KeepNewest(s, n)) <= MaxItems
           /\ EndsWith(Append(p, n), KeepNewest(s, n))
           /\ ToSet(KeepNewest(s, n)) \subseteq ToSet(s) \cup {n}
BY ZenonT(40), NewestIsKept

\* s is what p ends with, as SequencesExt has it.
LEMMA EndIsSuffix ==
    ASSUME NEW s \in Seq(Events), NEW p \in Seq(Events), EndsWith(p, s)
    PROVE  IsSuffix(s, p)
<1> DEFINE rs == Reverse(s)
           rp == Reverse(p)
<1>1. Len(s) \in Nat /\ Len(p) \in Nat /\ Len(s) <= Len(p)
  BY DEF EndsWith
<1>2. /\ rs = [i \in 1 .. Len(s) |-> s[(Len(s) - i) + 1]]
      /\ rp = [i \in 1 .. Len(p) |-> p[(Len(p) - i) + 1]]
  BY DEF Reverse
<1>3. \A i \in 1 .. Len(s) : s[(Len(s) - i) + 1] \in Events
  <2> SUFFICES ASSUME NEW i \in 1 .. Len(s) PROVE s[(Len(s) - i) + 1] \in Events
    OBVIOUS
  <2>1. (Len(s) - i) + 1 \in 1 .. Len(s)
    BY <1>1
  <2> QED
    BY <2>1
<1>4. \A i \in 1 .. Len(p) : p[(Len(p) - i) + 1] \in Events
  <2> SUFFICES ASSUME NEW i \in 1 .. Len(p) PROVE p[(Len(p) - i) + 1] \in Events
    OBVIOUS
  <2>1. (Len(p) - i) + 1 \in 1 .. Len(p)
    BY <1>1
  <2> QED
    BY <2>1
<1>5. /\ rs \in [1 .. Len(s) -> Events] /\ rp \in [1 .. Len(p) -> Events]
      /\ \A i \in 1 .. Len(s) : rs[i] = s[(Len(s) - i) + 1]
      /\ \A i \in 1 .. Len(p) : rp[i] = p[(Len(p) - i) + 1]
  BY <1>2, <1>3, <1>4
<1> HIDE DEF rs, rp
<1>6. rs \in Seq(Events) /\ rp \in Seq(Events)
  <2>1. /\ rs \in UNION {[1 .. n -> Events] : n \in Nat}
        /\ rp \in UNION {[1 .. n -> Events] : n \in Nat}
    BY Zenon, <1>1, <1>5
  <2> QED
    BY Zenon, <2>1, SeqDef
<1>7. Len(rs) = Len(s) /\ Len(rp) = Len(p)
  BY <1>1, <1>5, <1>6
<1>8. ASSUME NEW i \in 1 .. Len(s) PROVE rs[i] = rp[i]
  <2>1. /\ (Len(s) - i) + 1 \in 1 .. Len(s) /\ i \in 1 .. Len(p)
        /\ Len(p) - Len(s) + ((Len(s) - i) + 1) = (Len(p) - i) + 1
    BY <1>1
  <2>2. s[(Len(s) - i) + 1] = p[Len(p) - Len(s) + ((Len(s) - i) + 1)]
    BY <2>1 DEF EndsWith
  <2> QED
    BY <1>5, <2>1, <2>2
<1>9. SubSeq(rs, 1, Len(s)) = SubSeq(rp, 1, Len(s))
  <2> DEFINE a == SubSeq(rs, 1, Len(s))
             b == SubSeq(rp, 1, Len(s))
  <2>1. \A i \in 1 .. Len(s) : rs[i] \in Events /\ rp[i] \in Events
    BY <1>1, <1>5
  <2>2. /\ a \in Seq(Events) /\ Len(a) = IF 1 <= Len(s) THEN Len(s) - 1 + 1 ELSE 0
        /\ \A i \in 1 .. Len(s) - 1 + 1 : a[i] = rs[1 + i - 1]
    BY <1>1, <2>1, SubSeqProperties
  <2>3. /\ b \in Seq(Events) /\ Len(b) = IF 1 <= Len(s) THEN Len(s) - 1 + 1 ELSE 0
        /\ \A i \in 1 .. Len(s) - 1 + 1 : b[i] = rp[1 + i - 1]
    BY <1>1, <2>1, SubSeqProperties
  <2> HIDE DEF a, b
  <2>4. Len(a) = Len(s) /\ Len(b) = Len(s)
    BY <1>1, <2>2, <2>3
  <2>5. ASSUME NEW i \in 1 .. Len(a) PROVE a[i] = b[i]
    <3>1. i \in 1 .. Len(s) - 1 + 1 /\ 1 + i - 1 = i /\ i \in 1 .. Len(s)
      BY <1>1, <2>4
    <3>2. a[i] = rs[i] /\ b[i] = rp[i]
      BY <2>2, <2>3, <3>1
    <3> QED
      BY <1>8, <3>1, <3>2
  <2>6. a = b
    BY <2>2, <2>3, <2>4, <2>5, SeqEqual
  <2> QED
    BY <2>6 DEF a, b
<1> QED
  BY <1>1, <1>7, <1>9 DEF IsSuffix, IsPrefix, rs, rp

-----------------------------------------------------------------------------
(* The order of the buffering. *)

LEMMA EndIsInOrder ==
    ASSUME NEW s \in Seq(Events), NEW p \in Seq(Events), EndsWith(p, s)
    PROVE  InOrder(s, p) /\ From(s, p)
<1>1. /\ Len(s) \in Nat /\ Len(p) \in Nat /\ Len(s) <= Len(p)
      /\ DOMAIN s = 1 .. Len(s) /\ DOMAIN p = 1 .. Len(p)
  BY DEF EndsWith
<1>2. ASSUME NEW i \in 1 .. Len(s)
      PROVE  Len(p) - Len(s) + i \in 1 .. Len(p) /\ p[Len(p) - Len(s) + i] = s[i]
  <2>1. Len(p) - Len(s) + i \in 1 .. Len(p)
    BY <1>1
  <2> QED
    BY <2>1 DEF EndsWith
<1>3. InOrder(s, p)
  <2> SUFFICES ASSUME NEW i \in 1 .. Len(s), NEW j \in 1 .. Len(s), i < j
               PROVE  Before(p, s[i], s[j])
    BY <1>1 DEF InOrder
  <2>1. Len(p) - Len(s) + i < Len(p) - Len(s) + j
    BY <1>1
  <2>2. \E a, b \in 1 .. Len(p) : a < b /\ p[a] = s[i] /\ p[b] = s[j]
    BY <1>2, <2>1
  <2> QED
    BY <1>1, <2>2 DEF Before
<1>4. From(s, p)
  <2> SUFFICES ASSUME NEW x \in ToSet(s) PROVE x \in ToSet(p)
    BY DEF From
  <2>1. PICK i \in 1 .. Len(s) : s[i] = x
    BY Places
  <2> QED
    BY <1>2, <2>1, Places
<1> QED
  BY <1>3, <1>4

LEMMA BeforeGrows ==
    ASSUME NEW p \in Seq(Events), NEW n \in Events, NEW q, q = Append(p, n)
    PROVE  /\ \A x, y : Before(p, x, y) => Before(q, x, y)
           /\ \A x \in ToSet(p) : Before(q, x, n)
<1>1. /\ Len(p) \in Nat /\ DOMAIN p = 1 .. Len(p) /\ DOMAIN q = 1 .. Len(p) + 1
      /\ \A i \in 1 .. Len(p) : q[i] = p[i]
      /\ q[Len(p) + 1] = n
  <2>1. /\ q \in Seq(Events) /\ Len(q) = Len(p) + 1 /\ q[Len(p) + 1] = n
        /\ \A i \in 1 .. Len(p) : q[i] = p[i]
    BY AppendAdds
  <2> QED
    BY <2>1
<1>2. ASSUME NEW x, NEW y, Before(p, x, y) PROVE Before(q, x, y)
  <2>1. PICK a \in 1 .. Len(p), b \in 1 .. Len(p) : a < b /\ p[a] = x /\ p[b] = y
    BY <1>1, <1>2 DEF Before
  <2>2. /\ a \in 1 .. Len(p) + 1 /\ b \in 1 .. Len(p) + 1
        /\ a < b /\ q[a] = x /\ q[b] = y
    BY <1>1, <2>1
  <2> QED
    BY <1>1, <2>2 DEF Before
<1>3. ASSUME NEW x \in ToSet(p) PROVE Before(q, x, n)
  <2>1. PICK a \in 1 .. Len(p) : p[a] = x
    BY <1>3, Places
  <2>2. /\ a \in 1 .. Len(p) + 1 /\ Len(p) + 1 \in 1 .. Len(p) + 1
        /\ a < Len(p) + 1 /\ q[a] = x
    BY <1>1, <2>1
  <2> QED
    BY <1>1, <2>2 DEF Before
<1> QED
  BY <1>2, <1>3

\* What one more event at the end of p leaves in order.
LEMMA OrderGrows ==
    ASSUME NEW p \in Seq(Events), NEW n \in Events, NEW q, q = Append(p, n), NEW s
    PROVE  /\ InOrder(s, p) => InOrder(s, q)
           /\ From(s, p) => From(s, q)
           /\ \A t : AllBefore(s, t, p) => AllBefore(s, t, q)
           /\ \A t, k : AllBefore(s, t, p) /\ From(s, p) /\ ToSet(k) \subseteq ToSet(t) \cup {n}
                        => AllBefore(s, k, q)
<1>1. /\ \A x, y : Before(p, x, y) => Before(q, x, y)
      /\ \A x \in ToSet(p) : Before(q, x, n)
  BY BeforeGrows
<1>2. ToSet(q) = ToSet(p) \cup {n}
  BY AppendAdds
<1>3. InOrder(s, p) => InOrder(s, q)
  BY Zenon, <1>1 DEF InOrder
<1>4. From(s, p) => From(s, q)
  BY <1>2 DEF From
<1>5. \A t : AllBefore(s, t, p) => AllBefore(s, t, q)
  BY Zenon, <1>1 DEF AllBefore
<1>6. ASSUME NEW t, NEW k, AllBefore(s, t, p), From(s, p), ToSet(k) \subseteq ToSet(t) \cup {n}
      PROVE  AllBefore(s, k, q)
  <2> SUFFICES ASSUME NEW x \in ToSet(s), NEW y \in ToSet(k) PROVE Before(q, x, y)
    BY DEF AllBefore
  <2>1. CASE y \in ToSet(t)
    BY <1>1, <1>6, <2>1 DEF AllBefore
  <2>2. CASE y = n
    BY <1>1, <1>6, <2>2 DEF From
  <2> QED
    BY <1>6, <2>1, <2>2
<1> QED
  BY <1>3, <1>4, <1>5, <1>6

\* What is in order stays so when what follows it is put at its end.
LEMMA ConcatInOrder ==
    ASSUME NEW s \in Seq(Events), NEW t \in Seq(Events), NEW p, NEW r, r = s \o t,
           InOrder(s, p), InOrder(t, p), AllBefore(s, t, p)
    PROVE  InOrder(r, p)
<1>1. /\ r \in Seq(Events) /\ Len(r) = Len(s) + Len(t)
      /\ \A i \in 1 .. Len(r) : r[i] = IF i <= Len(s) THEN s[i] ELSE t[i - Len(s)]
  BY ConcatAdds
<1>2. /\ Len(s) \in Nat /\ Len(t) \in Nat
      /\ DOMAIN s = 1 .. Len(s) /\ DOMAIN t = 1 .. Len(t) /\ DOMAIN r = 1 .. Len(r)
  BY <1>1
<1>3. ASSUME NEW i \in 1 .. Len(r), i <= Len(s) PROVE i \in 1 .. Len(s) /\ r[i] = s[i]
  BY <1>1, <1>2, <1>3
<1>4. ASSUME NEW i \in 1 .. Len(r), ~(i <= Len(s))
      PROVE  i - Len(s) \in 1 .. Len(t) /\ r[i] = t[i - Len(s)]
  <2>1. Len(r) = Len(s) + Len(t)
    BY <1>1
  <2>2. i - Len(s) \in 1 .. Len(t)
    BY <1>2, <1>4, <2>1
  <2> QED
    BY <1>1, <1>4, <2>2
<1> SUFFICES ASSUME NEW i \in 1 .. Len(r), NEW j \in 1 .. Len(r), i < j
             PROVE  Before(p, r[i], r[j])
  BY <1>2 DEF InOrder
<1>5. CASE j <= Len(s)
  <2>1. i <= Len(s)
    BY <1>2, <1>5
  <2> QED
    BY <1>2, <1>3, <1>5, <2>1 DEF InOrder
<1>6. CASE ~(i <= Len(s))
  <2>1. ~(j <= Len(s)) /\ i - Len(s) < j - Len(s)
    BY <1>2, <1>6
  <2>2. /\ i - Len(s) \in 1 .. Len(t) /\ r[i] = t[i - Len(s)]
        /\ j - Len(s) \in 1 .. Len(t) /\ r[j] = t[j - Len(s)]
    BY <1>4, <1>6, <2>1
  <2> QED
    BY <1>2, <2>1, <2>2 DEF InOrder
<1>7. CASE i <= Len(s) /\ ~(j <= Len(s))
  <2>1. r[i] \in ToSet(s)
    BY <1>3, <1>7, Places
  <2>2. r[j] \in ToSet(t)
    BY <1>4, <1>7, Places
  <2> QED
    BY <2>1, <2>2 DEF AllBefore
<1> QED
  BY <1>5, <1>6, <1>7

LEMMA NothingIsInOrder ==
    ASSUME NEW p, NEW s, NEW t, s = << >>
    PROVE  InOrder(s, p) /\ From(s, p) /\ AllBefore(s, t, p) /\ AllBefore(t, s, p)
<1>1. ToSet(s) = {} /\ DOMAIN s = {}
  BY NothingInEmpty
<1> QED
  BY <1>1 DEF InOrder, From, AllBefore

-----------------------------------------------------------------------------
(* Types. *)

LEMMA ShapeIsTyped == Shape => DeliveryTypeOK
<1> SUFFICES ASSUME Shape PROVE DeliveryTypeOK
  OBVIOUS
<1>1. \A t \in DOMAIN tasks : tasks[t] \in Tasks
  BY DEF Shape, TasksShape
<1>2. \A t \in DOMAIN tasks :
          /\ tasks[t].at \in {"ticking", "drained", "posting", "aborted"}
          /\ tasks[t].batch \in Seq(Events)
  BY <1>1 DEF Tasks
<1>3. flush.attempts \in 0 .. MaxAttempts - 1
  BY DEF Shape, FlushShape, Flushes
<1>4. \A e \in Extensions : received[e] \in Seq(Events) /\ pushed[e] \in Seq(Events)
  BY DEF Shape, BuffersShape, FlushShape
<1> QED
  BY <1>2, <1>3, <1>4
     DEF Shape, EventsShape, BuffersShape, TasksShape, FlushShape, DeliveryTypeOK

LEMMA ShapeInit == DeliveryInit => Shape
<1> SUFFICES ASSUME DeliveryInit PROVE Shape
  OBVIOUS
<1>1. EventsShape
  BY DEF DeliveryInit, EventsShape, DeliveryAssumption
<1>2. BuffersShape
  BY DEF DeliveryInit, BuffersShape
<1>3. TasksShape
  BY DEF DeliveryInit, TasksShape
<1>4. IdleFlush \in Flushes /\ IdleFlush.todo = {} /\ IdleFlush.to = {}
  BY DEF IdleFlush, Flushes, DeliveryAssumption
<1>5. FlushShape
  BY <1>4 DEF DeliveryInit, FlushShape
<1> QED
  BY <1>1, <1>2, <1>3, <1>5 DEF Shape

LEMMA EmitKeepsEvents ==
    ASSUME EventsShape, Emit
    PROVE  /\ EventsShape' /\ emitted' = emitted + 1 /\ emitted' \in Events
<1>1. emitted' = emitted + 1 /\ emitted' \in Events /\ emitted' \in 0 .. MaxEvents
  BY DEF EventsShape, Emit, Events, DeliveryAssumption
<1>2. captured' \in Seq(Events) /\ Len(captured') <= MaxCaptured
  <2>1. CASE Len(captured) >= MaxCaptured
    <3>1. captured # << >> /\ Len(captured) = MaxCaptured /\ MaxCaptured \in Nat \ {0}
      BY <2>1 DEF EventsShape, DeliveryAssumption
    <3>2. Tail(captured) \in Seq(Events) /\ Len(Tail(captured)) = MaxCaptured - 1
      BY <3>1 DEF EventsShape
    <3>3. captured' = Append(Tail(captured), emitted')
      BY <2>1 DEF Emit, Capture
    <3> QED
      BY <1>1, <3>1, <3>2, <3>3
  <2>2. CASE ~(Len(captured) >= MaxCaptured)
    <3>1. captured' = Append(captured, emitted')
      BY <2>2 DEF Emit, Capture
    <3>2. Len(captured) \in Nat /\ MaxCaptured \in Nat
      BY DEF EventsShape, DeliveryAssumption
    <3> QED
      BY <1>1, <2>2, <3>1, <3>2 DEF EventsShape
  <2> QED
    BY <2>1, <2>2
<1>3. delayed' \subseteq Events /\ waiting' \subseteq Events /\ policy' = policy
  BY <1>1 DEF Emit, EventsShape
<1> QED
  BY <1>1, <1>2, <1>3 DEF EventsShape

LEMMA EventsStep ==
    ASSUME EventsShape, [DeliveryNext]_deliveryVars
    PROVE  EventsShape'
<1>1. CASE Broadcast \/ \E e \in Extensions : SubscribeEnds(e)
  BY <1>1, EmitKeepsEvents DEF Broadcast, SubscribeEnds
<1>2. CASE \E n \in Events : DelayElapses(n) \/ BufferEvent(n)
  BY <1>2 DEF DelayElapses, BufferEvent, EventsShape
<1>3. CASE \E p \in Policies : SetPolicy(p)
  BY <1>3 DEF SetPolicy, EventsShape
<1>4. CASE UNCHANGED eventVars
  BY <1>4 DEF eventVars, EventsShape
<1>5. CASE \/ \E e \in Extensions, request \in Requests : SubscribeBegins(e, request)
           \/ \E t \in DOMAIN tasks : TaskStep(t)
           \/ ShutdownBegins \/ FlushStep \/ ShutdownEnds \/ UNCHANGED deliveryVars
  BY <1>4, <1>5 DEF SubscribeBegins, TaskStep, Tick, TakeSubscriptions, PostEnds, ShutdownBegins,
     FlushStep, FlushBegins, FlushTakes, FlushAttempt, ShutdownEnds, deliveryVars
<1> QED
  BY <1>1, <1>2, <1>3, <1>5 DEF DeliveryNext

\* A tick empties the buffer into the task's hands.
LEMMA TickMoves ==
    ASSUME Shape, NewestWait, NEW t \in DOMAIN tasks, Tick(t)
    PROVE  /\ tasks[t].ext \in DOMAIN buffer
           /\ buffer' = [buffer EXCEPT ![tasks[t].ext] = << >>]
           /\ tasks' = [tasks EXCEPT ![t].at = "drained", ![t].batch = buffer[tasks[t].ext]]
<1> DEFINE e == tasks[t].ext
           count == IF Len(buffer[e]) < MaxItems THEN Len(buffer[e]) ELSE MaxItems
<1>1. e \in DOMAIN buffer /\ buffer[e] \in Seq(Events)
  BY DEF Shape, BuffersShape, TasksShape
<1>2. count = Len(buffer[e])
  BY <1>1 DEF NewestWait, DeliveryAssumption
<1>3. /\ tasks' = [tasks EXCEPT ![t].at = "drained", ![t].batch = SubSeq(buffer[e], 1, count)]
      /\ buffer' = [buffer EXCEPT ![e] = SubSeq(@, count + 1, Len(@))]
  BY DEF Tick
<1>4. /\ SubSeq(buffer[e], 1, count) = buffer[e]
      /\ SubSeq(buffer[e], count + 1, Len(buffer[e])) = << >>
  BY <1>1, <1>2, DrainTakesAll
<1> QED
  BY <1>1, <1>3, <1>4

LEMMA SubscriptionAddsBuffer ==
    ASSUME NEW e \in Extensions, SubscribeEnds(e)
    PROVE  /\ DOMAIN buffer' = DOMAIN buffer \cup {e}
           /\ \A d \in DOMAIN buffer' : buffer'[d] = IF d = e THEN << >> ELSE buffer[d]
BY DEF SubscribeEnds

LEMMA AcceptedIsBatch ==
    ASSUME NEW outcome \in Outcomes, NEW b \in Seq(Events)
    PROVE  /\ Accepted(outcome, b) \in Seq(Events)
           /\ Accepted(outcome, b) = << >> \/ Accepted(outcome, b) = b
           /\ ToSet(Accepted(outcome, b)) \subseteq ToSet(b)
BY NothingInEmpty DEF Accepted

LEMMA BuffersStep ==
    ASSUME Shape, NewestWait, [DeliveryNext]_deliveryVars
    PROVE  BuffersShape' /\ DOMAIN buffer \subseteq DOMAIN buffer'
<1> USE DEF Shape
<1>1. CASE \E n \in Events : BufferEvent(n)
  <2>1. PICK n \in Events : BufferEvent(n)
    BY <1>1
  <2>2. DOMAIN buffer' = DOMAIN buffer
    BY <2>1 DEF BufferEvent
  <2>3. ASSUME NEW e \in DOMAIN buffer PROVE buffer'[e] \in Seq(Events)
    <3>1. buffer[e] \in Seq(Events) /\ pushed[e] \in Seq(Events)
          /\ Len(buffer[e]) <= MaxItems /\ EndsWith(pushed[e], buffer[e])
      BY DEF BuffersShape, NewestWait
    <3>2. KeepNewest(buffer[e], n) \in Seq(Events)
      BY <3>1, OverflowKeepsNewest
    <3>3. buffer'[e] = KeepNewest(buffer[e], n) \/ buffer'[e] = buffer[e]
      BY <2>1 DEF BufferEvent
    <3> QED
      BY <3>1, <3>2, <3>3
  <2>4. pushed' \in [Extensions -> Seq(Events)]
    <3>1. ASSUME NEW e \in Extensions PROVE Append(pushed[e], n) \in Seq(Events)
      BY DEF BuffersShape
    <3> QED
      BY <2>1, <3>1 DEF BufferEvent, BuffersShape
  <2> QED
    BY <2>1, <2>2, <2>3, <2>4 DEF BufferEvent, BuffersShape
<1>2. CASE \E e \in Extensions, request \in Requests : SubscribeBegins(e, request)
  <2>1. PICK e \in Extensions, request \in Requests : SubscribeBegins(e, request)
    BY <1>2
  <2>2. request.types \in {"platform", "other"}
    BY DEF Requests
  <2> QED
    BY <2>1, <2>2 DEF SubscribeBegins, BuffersShape
<1>3. CASE \E e \in Extensions : SubscribeEnds(e)
  <2>1. PICK e \in Extensions : SubscribeEnds(e)
    BY <1>3
  <2>2. /\ DOMAIN buffer' = DOMAIN buffer \cup {e}
        /\ \A d \in DOMAIN buffer' : buffer'[d] = IF d = e THEN << >> ELSE buffer[d]
    BY <2>1, SubscriptionAddsBuffer
  <2>3. \A d \in DOMAIN buffer' : buffer'[d] \in Seq(Events)
    BY <2>2, NothingInEmpty DEF BuffersShape
  <2>4. pushed' \in [Extensions -> Seq(Events)]
    BY <2>1 DEF SubscribeEnds, BuffersShape
  <2> QED
    BY <2>1, <2>2, <2>3, <2>4 DEF SubscribeEnds, BuffersShape
<1>4. CASE \E t \in DOMAIN tasks : Tick(t)
  <2>1. PICK t \in DOMAIN tasks : Tick(t)
    BY <1>4
  <2>2. /\ tasks[t].ext \in DOMAIN buffer
        /\ buffer' = [buffer EXCEPT ![tasks[t].ext] = << >>]
    BY <2>1, TickMoves
  <2>3. \A e \in DOMAIN buffer' : buffer'[e] \in Seq(Events)
    BY <2>2, NothingInEmpty DEF BuffersShape
  <2> QED
    BY <2>1, <2>2, <2>3 DEF Tick, BuffersShape
<1>5. CASE \E e \in flush.todo : FlushTakes(e)
  BY <1>5 DEF FlushTakes, BuffersShape, FlushShape
<1>6. CASE UNCHANGED bufferVars
  BY <1>6 DEF bufferVars, BuffersShape
<1>7. CASE \/ Broadcast \/ (\E n \in Events : DelayElapses(n)) \/ (\E p \in Policies : SetPolicy(p))
           \/ (\E t \in DOMAIN tasks : \/ TakeSubscriptions(t)
                                       \/ \E outcome \in Outcomes : PostEnds(t, outcome))
           \/ ShutdownBegins \/ FlushBegins \/ (\E outcome \in Outcomes : FlushAttempt(outcome))
           \/ ShutdownEnds \/ UNCHANGED deliveryVars
  BY <1>6, <1>7 DEF Broadcast, DelayElapses, SetPolicy, TakeSubscriptions, PostEnds, ShutdownBegins,
     FlushBegins, FlushAttempt, ShutdownEnds, deliveryVars
<1> QED
  BY <1>1, <1>2, <1>3, <1>4, <1>5, <1>7 DEF DeliveryNext, TaskStep, FlushStep

LEMMA AbortEmptiesHands ==
    ASSUME NEW k \in Tasks
    PROVE  /\ Aborted(k) \in Tasks /\ Aborted(k).ext = k.ext
           /\ Aborted(k).batch = << >>
<1> DEFINE a == [k EXCEPT !.at = "aborted"]
<1>1. a \in Tasks /\ a.ext = k.ext
  BY DEF Tasks
<1>2. Aborted(k) = [a EXCEPT !.batch = << >>]
  BY DEF Aborted
<1> HIDE DEF a
<1> QED
  BY <1>1, <1>2, NothingInEmpty DEF Tasks

\* The tasks after the simulator's shutdown.
LEMMA AbortKeepsTasks ==
    ASSUME TasksShape, AbortTasks
    PROVE  /\ tasks' \in Seq(Tasks) /\ DOMAIN tasks' = DOMAIN tasks /\ Len(tasks') = Len(tasks)
           /\ \A t \in DOMAIN tasks :
                 /\ tasks'[t].ext = tasks[t].ext
                 /\ tasks'[t].batch = << >> \/ tasks'[t].batch = tasks[t].batch
<1>1. DOMAIN tasks = 1 .. Len(tasks) /\ Len(tasks) \in Nat /\ \A t \in DOMAIN tasks : tasks[t] \in Tasks
  BY DEF TasksShape
<1>2. \A t \in DOMAIN tasks : tasks'[t] = Aborted(tasks[t]) \/ tasks'[t] = tasks[t]
  BY DEF AbortTasks
<1>3. \A t \in DOMAIN tasks : tasks'[t] \in Tasks
  BY <1>1, <1>2, AbortEmptiesHands
<1>4. tasks' \in [1 .. Len(tasks) -> Tasks]
  BY <1>1, <1>3 DEF AbortTasks
<1>5. tasks' \in Seq(Tasks) /\ Len(tasks') = Len(tasks)
  <2>1. tasks' \in UNION {[1 .. n -> Tasks] : n \in Nat}
    BY Zenon, <1>1, <1>4
  <2>2. tasks' \in Seq(Tasks)
    BY Zenon, <2>1, SeqDef
  <2> QED
    BY <1>1, <1>4, <2>2
<1> QED
  BY <1>1, <1>2, <1>4, <1>5, AbortEmptiesHands

LEMMA TaskChanges ==
    ASSUME tasks \in Seq(Tasks), NEW t \in DOMAIN tasks,
           NEW a \in {"ticking", "drained", "posting", "aborted"}, NEW b \in Seq(Events),
           tasks' = [tasks EXCEPT ![t].at = a, ![t].batch = b]
    PROVE  /\ tasks' \in Seq(Tasks) /\ Len(tasks') = Len(tasks) /\ DOMAIN tasks' = DOMAIN tasks
           /\ tasks'[t].ext = tasks[t].ext /\ tasks'[t].at = a /\ tasks'[t].batch = b
           /\ \A u \in DOMAIN tasks : u # t => tasks'[u] = tasks[u]
           /\ \A u \in DOMAIN tasks : tasks'[u].ext = tasks[u].ext
<1>1. tasks[t] \in Tasks /\ DOMAIN tasks = 1 .. Len(tasks) /\ Len(tasks) \in Nat
  OBVIOUS
<1> DEFINE new == [[tasks[t] EXCEPT !.at = a] EXCEPT !.batch = b]
<1>2. /\ new \in Tasks /\ new.ext = tasks[t].ext /\ new.at = a /\ new.batch = b
  BY <1>1 DEF Tasks
<1>3. tasks' = [tasks EXCEPT ![t] = new]
  BY <1>1
<1> HIDE DEF new
<1>4. /\ tasks' \in Seq(Tasks) /\ Len(tasks') = Len(tasks)
      /\ \A j \in 1 .. Len(tasks) : tasks'[j] = IF j = t THEN new ELSE tasks[j]
  <2>1. t \in 1 .. Len(tasks) /\ new \in Tasks
    BY <1>1, <1>2
  <2>2. /\ [tasks EXCEPT ![t] = new] \in Seq(Tasks)
        /\ Len([tasks EXCEPT ![t] = new]) = Len(tasks)
        /\ \A j \in 1 .. Len(tasks) : [tasks EXCEPT ![t] = new][j] = IF j = t THEN new ELSE tasks[j]
    BY <2>1, ExceptSeq
  <2> QED
    BY <1>3, <2>2
<1> QED
  BY <1>1, <1>2, <1>4

LEMMA TaskMoves ==
    ASSUME tasks \in Seq(Tasks), NEW t \in DOMAIN tasks,
           NEW a \in {"ticking", "drained", "posting", "aborted"},
           tasks' = [tasks EXCEPT ![t].at = a]
    PROVE  /\ tasks' \in Seq(Tasks) /\ Len(tasks') = Len(tasks) /\ DOMAIN tasks' = DOMAIN tasks
           /\ \A u \in DOMAIN tasks :
                 tasks'[u].ext = tasks[u].ext /\ tasks'[u].batch = tasks[u].batch
<1>1. tasks[t] \in Tasks /\ DOMAIN tasks = 1 .. Len(tasks) /\ Len(tasks) \in Nat
  OBVIOUS
<1> DEFINE new == [tasks[t] EXCEPT !.at = a]
<1>2. new \in Tasks /\ new.ext = tasks[t].ext /\ new.batch = tasks[t].batch
  BY <1>1 DEF Tasks
<1>3. tasks' = [tasks EXCEPT ![t] = new]
  BY <1>1
<1> HIDE DEF new
<1>4. /\ tasks' \in Seq(Tasks) /\ Len(tasks') = Len(tasks)
      /\ \A j \in 1 .. Len(tasks) : tasks'[j] = IF j = t THEN new ELSE tasks[j]
  <2>1. t \in 1 .. Len(tasks) /\ new \in Tasks
    BY <1>1, <1>2
  <2>2. /\ [tasks EXCEPT ![t] = new] \in Seq(Tasks)
        /\ Len([tasks EXCEPT ![t] = new]) = Len(tasks)
        /\ \A j \in 1 .. Len(tasks) : [tasks EXCEPT ![t] = new][j] = IF j = t THEN new ELSE tasks[j]
    BY <2>1, ExceptSeq
  <2> QED
    BY <1>3, <2>2
<1> QED
  BY <1>1, <1>2, <1>4

LEMMA TasksStep ==
    ASSUME Shape, NewestWait, [DeliveryNext]_deliveryVars
    PROVE  TasksShape'
<1> USE DEF Shape
<1>0. DOMAIN buffer \subseteq DOMAIN buffer'
  BY BuffersStep
<1>1. CASE \E e \in Extensions : SubscribeEnds(e)
  <2>1. PICK e \in Extensions : SubscribeEnds(e)
    BY <1>1
  <2> DEFINE new == [ext |-> e, at |-> "ticking", batch |-> << >>]
  <2>2. new \in Tasks /\ new.ext = e
    BY NothingInEmpty DEF Tasks
  <2> HIDE DEF new
  <2>3. tasks' = Append(tasks, new) /\ e \in DOMAIN buffer'
    BY <2>1 DEF SubscribeEnds, new
  <2>4. /\ tasks' \in Seq(Tasks) /\ Len(tasks') = Len(tasks) + 1 /\ Len(tasks) \in Nat
        /\ tasks'[Len(tasks) + 1] = new /\ \A t \in 1 .. Len(tasks) : tasks'[t] = tasks[t]
    BY <2>2, <2>3 DEF TasksShape
  <2>5. handle' \in [Extensions -> 0 .. Len(tasks')]
    <3>1. 0 .. Len(tasks) \subseteq 0 .. Len(tasks') /\ Len(tasks') \in 0 .. Len(tasks')
      BY <2>4
    <3> QED
      BY <2>1, <3>1 DEF SubscribeEnds, TasksShape
  <2>6. ASSUME NEW t \in DOMAIN tasks' PROVE tasks'[t].ext \in DOMAIN buffer'
    <3>1. t \in 1 .. Len(tasks') /\ DOMAIN tasks = 1 .. Len(tasks)
      BY <2>4 DEF TasksShape
    <3>2. CASE t \in 1 .. Len(tasks)
      BY <1>0, <2>4, <3>1, <3>2 DEF TasksShape
    <3>3. CASE t = Len(tasks) + 1
      BY <2>2, <2>3, <2>4, <3>3
    <3> QED
      BY <2>4, <3>1, <3>2, <3>3, LastOrBefore
  <2> QED
    BY <2>4, <2>5, <2>6 DEF TasksShape
<1>2. CASE \E t \in DOMAIN tasks : TaskStep(t)
  <2>1. PICK t \in DOMAIN tasks : TaskStep(t)
    BY <1>2
  <2>2. /\ tasks' \in Seq(Tasks) /\ Len(tasks') = Len(tasks) /\ DOMAIN tasks' = DOMAIN tasks
        /\ \A u \in DOMAIN tasks : tasks'[u].ext = tasks[u].ext
        /\ handle' = handle
    <3>1. CASE Tick(t)
      <4>1. /\ buffer[tasks[t].ext] \in Seq(Events)
            /\ tasks' = [tasks EXCEPT ![t].at = "drained", ![t].batch = buffer[tasks[t].ext]]
        BY <3>1, TickMoves DEF BuffersShape
      <4>2. "drained" \in {"ticking", "drained", "posting", "aborted"}
        OBVIOUS
      <4>3. tasks \in Seq(Tasks) /\ handle' = handle
        BY <3>1 DEF TasksShape, Tick
      <4> QED
        BY <4>1, <4>2, <4>3, TaskChanges
    <3>2. CASE TakeSubscriptions(t)
      <4>1. tasks' = [tasks EXCEPT ![t].at = "posting"] /\ handle' = handle
        BY <3>2 DEF TakeSubscriptions
      <4>2. "posting" \in {"ticking", "drained", "posting", "aborted"} /\ tasks \in Seq(Tasks)
        BY DEF TasksShape
      <4> QED
        BY <4>1, <4>2, TaskMoves
    <3>3. CASE \E outcome \in Outcomes : PostEnds(t, outcome)
      <4>1. /\ tasks' = [tasks EXCEPT ![t].at = "ticking", ![t].batch = << >>]
            /\ handle' = handle
        BY <3>3 DEF PostEnds
      <4>2. /\ "ticking" \in {"ticking", "drained", "posting", "aborted"}
            /\ << >> \in Seq(Events) /\ tasks \in Seq(Tasks)
        BY NothingInEmpty DEF TasksShape
      <4> QED
        BY <4>1, <4>2, TaskChanges
    <3> QED
      BY <2>1, <3>1, <3>2, <3>3 DEF TaskStep
  <2> QED
    BY <1>0, <2>2 DEF TasksShape
<1>3. CASE ShutdownEnds
  <2>1. /\ tasks' \in Seq(Tasks) /\ DOMAIN tasks' = DOMAIN tasks /\ Len(tasks') = Len(tasks)
        /\ \A t \in DOMAIN tasks : tasks'[t].ext = tasks[t].ext
    BY <1>3, AbortKeepsTasks DEF ShutdownEnds
  <2>2. handle' \in [Extensions -> 0 .. Len(tasks')]
    <3>1. 0 \in 0 .. Len(tasks')
      BY <2>1
    <3> QED
      BY <1>3, <3>1 DEF ShutdownEnds, AbortTasks
  <2> QED
    BY <1>0, <2>1, <2>2 DEF TasksShape
<1>4. CASE UNCHANGED taskVars
  BY <1>0, <1>4 DEF taskVars, TasksShape
<1>5. CASE \/ Broadcast \/ (\E n \in Events : DelayElapses(n) \/ BufferEvent(n))
           \/ (\E p \in Policies : SetPolicy(p))
           \/ (\E e \in Extensions, request \in Requests : SubscribeBegins(e, request))
           \/ ShutdownBegins \/ FlushStep \/ UNCHANGED deliveryVars
  BY <1>4, <1>5 DEF Broadcast, DelayElapses, BufferEvent, SetPolicy, SubscribeBegins,
     ShutdownBegins, FlushStep, FlushBegins, FlushTakes, FlushAttempt, deliveryVars
<1> QED
  BY <1>1, <1>2, <1>3, <1>5 DEF DeliveryNext

\* flush_all between two extensions.
LEMMA FlushIdles ==
    ASSUME NEW d \in SUBSET Extensions, NEW f, f = [IdleFlush EXCEPT !.todo = d]
    PROVE  f \in Flushes /\ f.todo = d /\ f.to = {} /\ f.batch = << >> /\ f.attempts = 0
<1> DEFINE i == IdleFlush
<1>1. i \in Flushes /\ i.to = {} /\ i.batch = << >> /\ i.attempts = 0
  BY NothingInEmpty DEF IdleFlush, Flushes, DeliveryAssumption
<1> HIDE DEF i
<1>2. f = [i EXCEPT !.todo = d]
  BY DEF i
<1> QED
  BY <1>1, <1>2 DEF Flushes

LEMMA FlushTries ==
    ASSUME flush \in Flushes, NEW e \in Extensions, NEW b \in Seq(Events),
           flush' = [flush EXCEPT !.to = {e}, !.batch = b, !.attempts = 0]
    PROVE  /\ flush' \in Flushes /\ flush'.todo = flush.todo
           /\ flush'.to = {e} /\ flush'.batch = b /\ flush'.attempts = 0
<1> DEFINE h == [flush EXCEPT !.to = {e}]
           k == [h EXCEPT !.batch = b]
<1>1. h \in Flushes /\ h.todo = flush.todo /\ h.to = {e}
  BY DEF Flushes
<1> HIDE DEF h
<1>2. k \in Flushes /\ k.todo = flush.todo /\ k.to = {e} /\ k.batch = b
  BY <1>1 DEF Flushes
<1>3. flush' = [k EXCEPT !.attempts = 0]
  BY DEF h, k
<1> HIDE DEF k
<1> QED
  BY <1>2, <1>3 DEF Flushes, DeliveryAssumption

LEMMA FlushRetries ==
    ASSUME NEW f \in Flushes, f.attempts + 1 < MaxAttempts,
           NEW g, g = [f EXCEPT !.attempts = @ + 1]
    PROVE  /\ g \in Flushes /\ g.todo = f.todo /\ g.to = f.to /\ g.batch = f.batch
           /\ g.attempts # 0
<1>1. f.attempts \in 0 .. MaxAttempts - 1 /\ MaxAttempts \in Nat
  BY DEF Flushes, DeliveryAssumption
<1>2. f.attempts + 1 \in 0 .. MaxAttempts - 1 /\ f.attempts + 1 # 0
  BY <1>1
<1> QED
  BY <1>2 DEF Flushes

\* An attempt of the flush: it is tried again, or the extension is done with.
LEMMA AttemptEnds ==
    ASSUME FlushShape, DOMAIN buffer \subseteq Extensions, NEW outcome \in Outcomes,
           FlushAttempt(outcome)
    PROVE  \/ /\ flush' \in Flushes /\ flush'.todo = flush.todo /\ flush'.to = flush.to
              /\ flush'.batch = flush.batch /\ flush'.attempts # 0 /\ phase' = phase
           \/ /\ flush' \in Flushes /\ flush'.todo = flush.todo \ flush.to /\ flush'.to = {}
              /\ flush'.batch = << >>
              /\ phase' = IF flush.todo \ flush.to = {} THEN "told" ELSE phase
<1>1. CASE outcome # "ok" /\ flush.attempts + 1 < MaxAttempts
  <2>1. flush' = [flush EXCEPT !.attempts = @ + 1] /\ phase' = phase /\ flush \in Flushes
    BY <1>1 DEF FlushAttempt, FlushShape
  <2> QED
    BY <1>1, <2>1, FlushRetries
<1>2. CASE ~(outcome # "ok" /\ flush.attempts + 1 < MaxAttempts)
  <2> DEFINE left == flush.todo \ flush.to
  <2>1. flush' = [IdleFlush EXCEPT !.todo = left] /\ phase' = IF left = {} THEN "told" ELSE phase
    BY <1>2 DEF FlushAttempt
  <2>2. left \in SUBSET Extensions
    BY DEF FlushShape
  <2> HIDE DEF left
  <2>3. flush' \in Flushes /\ flush'.todo = left /\ flush'.to = {} /\ flush'.batch = << >>
    BY <2>1, <2>2, FlushIdles
  <2> QED
    BY <2>1, <2>3 DEF left
<1> QED
  BY <1>1, <1>2

LEMMA FlushStepShape ==
    ASSUME Shape, NewestWait, [DeliveryNext]_deliveryVars
    PROVE  FlushShape'
<1> USE DEF Shape
<1>0. DOMAIN buffer \subseteq DOMAIN buffer' /\ DOMAIN buffer \subseteq Extensions
  BY BuffersStep DEF BuffersShape
<1>1. CASE \E t \in DOMAIN tasks, outcome \in Outcomes : PostEnds(t, outcome)
  <2>1. PICK t \in DOMAIN tasks, outcome \in Outcomes : PostEnds(t, outcome)
    BY <1>1
  <2>2. tasks[t].batch \in Seq(Events)
    <3>1. tasks[t] \in Tasks
      BY DEF TasksShape
    <3> QED
      BY <3>1 DEF Tasks
  <2>3. Accepted(outcome, tasks[t].batch) \in Seq(Events)
    BY <2>2, AcceptedIsBatch
  <2>4. received' \in [Extensions -> Seq(Events)]
    <3>1. \A e \in Extensions : received[e] \o Accepted(outcome, tasks[t].batch) \in Seq(Events)
      BY <2>3 DEF FlushShape
    <3> QED
      BY <2>1, <3>1 DEF PostEnds, FlushShape
  <2> QED
    BY <1>0, <2>1, <2>4 DEF PostEnds, FlushShape, bufferVars
<1>2. CASE ShutdownBegins \/ ShutdownEnds
  BY <1>0, <1>2 DEF ShutdownBegins, ShutdownEnds, FlushShape, bufferVars
<1>3. CASE FlushBegins
  <2>1. /\ phase = "flushing" /\ DOMAIN buffer' = DOMAIN buffer /\ received' = received
    BY <1>3 DEF FlushBegins, bufferVars
  <2>2. CASE ToFlush = {}
    <3>1. phase' = "told" /\ flush' = flush /\ flush.todo = {}
      BY <1>3, <2>2 DEF FlushBegins, SubscriptionsFree, FlushHolds
    <3> QED
      BY <2>1, <3>1 DEF FlushShape
  <2>3. CASE ToFlush # {}
    <3>1. ToFlush \in SUBSET Extensions /\ ToFlush \subseteq DOMAIN buffer
      BY <1>0 DEF ToFlush
    <3>2. flush' = [IdleFlush EXCEPT !.todo = ToFlush] /\ phase' = phase
      BY <1>3, <2>3 DEF FlushBegins
    <3>3. flush' \in Flushes /\ flush'.todo = ToFlush /\ flush'.to = {}
      BY <3>1, <3>2, FlushIdles
    <3> QED
      BY <2>1, <3>1, <3>2, <3>3 DEF FlushShape
  <2> QED
    BY <2>2, <2>3
<1>4. CASE \E e \in flush.todo : FlushTakes(e)
  <2>1. PICK e \in flush.todo : FlushTakes(e)
    BY <1>4
  <2>2. e \in Extensions /\ buffer[e] \in Seq(Events) /\ flush \in Flushes
    BY <1>0 DEF FlushShape, BuffersShape
  <2>3. flush' = [flush EXCEPT !.to = {e}, !.batch = buffer[e], !.attempts = 0]
    BY <2>1 DEF FlushTakes
  <2>4. flush' \in Flushes /\ flush'.todo = flush.todo /\ flush'.to = {e}
    BY <2>2, <2>3, FlushTries
  <2> QED
    BY <1>0, <2>1, <2>4 DEF FlushTakes, FlushShape
<1>5. CASE \E outcome \in Outcomes : FlushAttempt(outcome)
  <2>1. PICK outcome \in Outcomes : FlushAttempt(outcome)
    BY <1>5
  <2>2. /\ flush' \in Flushes /\ flush'.todo \subseteq flush.todo /\ flush'.to \subseteq flush'.todo
        /\ phase' \in {"running", "flushing", "told", "over"}
        /\ phase' # "flushing" => flush'.todo = {}
    BY <1>0, <2>1, AttemptEnds DEF FlushShape
  <2>3. flush.batch \in Seq(Events)
    BY DEF FlushShape, Flushes
  <2>4. received' \in [Extensions -> Seq(Events)]
    <3>1. Accepted(outcome, flush.batch) \in Seq(Events) /\ << >> \in Seq(Events)
      BY <2>3, AcceptedIsBatch, NothingInEmpty
    <3>2. ASSUME NEW e \in Extensions
          PROVE  received[e] \o (IF e \in flush.to THEN Accepted(outcome, flush.batch) ELSE << >>)
                 \in Seq(Events)
      BY <3>1 DEF FlushShape
    <3> QED
      BY <2>1, <3>2 DEF FlushAttempt
  <2>5. buffer' = buffer
    BY <2>1 DEF FlushAttempt, bufferVars
  <2> QED
    BY <2>2, <2>4, <2>5 DEF FlushShape
<1>6. CASE UNCHANGED <<flush, phase, received>>
  BY <1>0, <1>6 DEF FlushShape
<1>7. CASE \/ Broadcast \/ (\E n \in Events : DelayElapses(n) \/ BufferEvent(n))
           \/ (\E p \in Policies : SetPolicy(p))
           \/ (\E e \in Extensions, request \in Requests : SubscribeBegins(e, request))
           \/ (\E e \in Extensions : SubscribeEnds(e))
           \/ (\E t \in DOMAIN tasks : Tick(t) \/ TakeSubscriptions(t))
           \/ UNCHANGED deliveryVars
  BY <1>6, <1>7 DEF Broadcast, DelayElapses, BufferEvent, SetPolicy, SubscribeBegins,
     SubscribeEnds, Tick, TakeSubscriptions, deliveryVars
<1> QED
  BY <1>1, <1>2, <1>3, <1>4, <1>5, <1>7 DEF DeliveryNext, TaskStep, FlushStep

LEMMA ShapeStep ==
    ASSUME Shape, NewestWait, [DeliveryNext]_deliveryVars
    PROVE  Shape'
BY EventsStep, BuffersStep, TasksStep, FlushStepShape DEF Shape

-----------------------------------------------------------------------------
(* What a full buffer keeps. *)

LEMMA NothingIsNewest ==
    ASSUME NEW s, s = << >>, NEW p \in Seq(Events)
    PROVE  Len(s) <= MaxItems /\ EndsWith(p, s)
BY DEF EndsWith, DeliveryAssumption

LEMMA NewestStep ==
    ASSUME Shape, NewestWait, [DeliveryNext]_deliveryVars
    PROVE  NewestWait'
<1> USE DEF Shape
<1>0. \A e \in DOMAIN buffer : /\ e \in Extensions /\ buffer[e] \in Seq(Events)
                               /\ pushed[e] \in Seq(Events)
                               /\ Len(buffer[e]) <= MaxItems /\ EndsWith(pushed[e], buffer[e])
  BY DEF BuffersShape, NewestWait
<1>1. CASE \E n \in Events : BufferEvent(n)
  <2>1. PICK n \in Events : BufferEvent(n)
    BY <1>1
  <2>2. DOMAIN buffer' = DOMAIN buffer
    BY <2>1 DEF BufferEvent
  <2>3. ASSUME NEW e \in DOMAIN buffer
        PROVE  Len(buffer'[e]) <= MaxItems /\ EndsWith(pushed'[e], buffer'[e])
    <3>1. CASE e \in Matching
      <4>1. buffer'[e] = KeepNewest(buffer[e], n) /\ pushed'[e] = Append(pushed[e], n)
        BY <1>0, <2>1, <3>1 DEF BufferEvent
      <4> QED
        BY <1>0, <4>1, OverflowKeepsNewest
    <3>2. CASE e \notin Matching
      <4>1. buffer'[e] = buffer[e] /\ pushed'[e] = pushed[e]
        BY <1>0, <2>1, <3>2 DEF BufferEvent
      <4> QED
        BY <1>0, <4>1
    <3> QED
      BY <3>1, <3>2
  <2> QED
    BY <2>2, <2>3 DEF NewestWait
<1>2. CASE \E e \in Extensions : SubscribeEnds(e)
  <2>1. PICK e \in Extensions : SubscribeEnds(e)
    BY <1>2
  <2>2. pushed'[e] = << >> /\ \A d \in Extensions \ {e} : pushed'[d] = pushed[d]
    BY <2>1 DEF SubscribeEnds, BuffersShape
  <2>3. ASSUME NEW d \in DOMAIN buffer'
        PROVE  Len(buffer'[d]) <= MaxItems /\ EndsWith(pushed'[d], buffer'[d])
    <3>1. CASE d = e
      <4>1. buffer'[d] = << >> /\ << >> \in Seq(Events)
        BY <2>1, <3>1, SubscriptionAddsBuffer, NothingInEmpty
      <4> QED
        BY <2>2, <3>1, <4>1, NothingIsNewest
    <3>2. CASE d # e
      <4>1. d \in DOMAIN buffer /\ buffer'[d] = buffer[d]
        BY <2>1, <3>2, SubscriptionAddsBuffer
      <4> QED
        BY <1>0, <2>2, <3>2, <4>1
    <3> QED
      BY <3>1, <3>2
  <2> QED
    BY <2>3 DEF NewestWait
<1>3. ASSUME NEW e \in DOMAIN buffer, buffer' = [buffer EXCEPT ![e] = << >>], pushed' = pushed
      PROVE  NewestWait'
  <2>1. DOMAIN buffer' = DOMAIN buffer
    BY <1>3
  <2>2. ASSUME NEW d \in DOMAIN buffer
        PROVE  Len(buffer'[d]) <= MaxItems /\ EndsWith(pushed'[d], buffer'[d])
    <3>1. CASE d = e
      <4>1. buffer'[d] = << >>
        BY <1>3, <3>1
      <4> QED
        BY <1>0, <1>3, <4>1, NothingIsNewest
    <3>2. CASE d # e
      BY <1>0, <1>3, <3>2
    <3> QED
      BY <3>1, <3>2
  <2> QED
    BY <2>1, <2>2 DEF NewestWait
<1>4. CASE \E t \in DOMAIN tasks : Tick(t)
  BY <1>3, <1>4, TickMoves DEF Tick
<1>5. CASE \E e \in flush.todo : FlushTakes(e)
  BY <1>3, <1>5 DEF FlushTakes, FlushShape
<1>6. CASE UNCHANGED <<buffer, pushed>>
  BY <1>6 DEF NewestWait
<1>7. CASE \/ Broadcast \/ (\E n \in Events : DelayElapses(n)) \/ (\E p \in Policies : SetPolicy(p))
           \/ (\E e \in Extensions, request \in Requests : SubscribeBegins(e, request))
           \/ (\E t \in DOMAIN tasks : \/ TakeSubscriptions(t)
                                       \/ \E outcome \in Outcomes : PostEnds(t, outcome))
           \/ ShutdownBegins \/ FlushBegins \/ (\E outcome \in Outcomes : FlushAttempt(outcome))
           \/ ShutdownEnds \/ UNCHANGED deliveryVars
  BY <1>6, <1>7 DEF Broadcast, DelayElapses, SetPolicy, SubscribeBegins, TakeSubscriptions, PostEnds,
     ShutdownBegins, FlushBegins, FlushAttempt, ShutdownEnds, bufferVars, deliveryVars
<1> QED
  BY <1>1, <1>2, <1>4, <1>5, <1>7 DEF DeliveryNext, TaskStep, FlushStep

-----------------------------------------------------------------------------
(* Where events are. *)

\* A step that gives nobody an event keeps the events where they are, or drops them.
LEMMA PlacesShrink ==
    ASSUME UnsentIsNowhere, OnePlace, TasksShape, BuffersShape, TasksShape', BuffersShape',
           FlushShape', delayed' \cap waiting' = {}, delayed' \cup waiting' \subseteq 1 .. emitted',
           Unsent' \subseteq Unsent,
           \A e \in Extensions : Received(e)' = Received(e) /\ Buffered(e)' \subseteq Buffered(e),
           \A t \in DOMAIN tasks' :
               \/ Carried(t)' = {}
               \/ /\ t \in DOMAIN tasks /\ tasks'[t].ext = tasks[t].ext
                  /\ Carried(t)' \subseteq Carried(t),
           ToSet(flush'.batch) \subseteq ToSet(flush.batch),
           \/ flush'.to = {}
           \/ flush'.to = flush.to /\ (flush'.attempts = 0 => flush.attempts = 0)
    PROVE  UnsentIsNowhere' /\ OnePlace'
<1>1. /\ \A t \in DOMAIN tasks' : tasks'[t].ext \in Extensions
      /\ \A e \in flush'.to : e \in Extensions
  BY DEF TasksShape, BuffersShape, FlushShape
<1>2. UnsentIsNowhere'
  <2>1. \A e \in Extensions : Received(e)' \cap Unsent' = {} /\ Buffered(e)' \cap Unsent' = {}
    BY DEF UnsentIsNowhere
  <2>2. \A t \in DOMAIN tasks' : Carried(t)' \cap Unsent' = {}
    BY DEF UnsentIsNowhere
  <2>3. ToSet(flush'.batch) \cap Unsent' = {}
    BY DEF UnsentIsNowhere
  <2> QED
    BY <2>1, <2>2, <2>3 DEF UnsentIsNowhere
<1>3. \A e \in Extensions : Buffered(e)' \cap Received(e)' = {}
  BY DEF OnePlace
<1>4. ASSUME NEW t \in DOMAIN tasks'
      PROVE  /\ Carried(t)' \cap Received(tasks[t].ext)' = {}
             /\ Carried(t)' \cap Buffered(tasks[t].ext)' = {}
  <2>1. CASE Carried(t)' = {}
    BY <2>1
  <2>2. CASE t \in DOMAIN tasks /\ tasks'[t].ext = tasks[t].ext /\ Carried(t)' \subseteq Carried(t)
    <3>1. PICK e \in Extensions : e = tasks[t].ext /\ e = tasks'[t].ext
      BY <1>1, <2>2
    <3>2. Carried(t)' \cap Received(e)' = {} /\ Carried(t)' \cap Buffered(e)' = {}
      BY <2>2, <3>1 DEF OnePlace
    <3> QED
      BY <3>1, <3>2
  <2> QED
    BY <2>1, <2>2
<1>5. \A t, u \in DOMAIN tasks' :
          t # u /\ tasks'[t].ext = tasks'[u].ext => Carried(t)' \cap Carried(u)' = {}
  BY DEF OnePlace
<1>6. ASSUME NEW e \in flush'.to
      PROVE  /\ ToSet(flush'.batch) \cap Buffered(e)' = {}
             /\ flush'.attempts = 0 => ToSet(flush'.batch) \cap Received(e)' = {}
             /\ \A t \in DOMAIN tasks' :
                   tasks'[t].ext = e => ToSet(flush'.batch) \cap Carried(t)' = {}
  <2>1. e \in flush.to /\ e \in Extensions /\ (flush'.attempts = 0 => flush.attempts = 0)
    BY <1>1
  <2> QED
    BY <2>1 DEF OnePlace
<1> QED
  BY <1>2, <1>3, <1>4, <1>5, <1>6 DEF OnePlace

\* Events on their way to a buffer: broadcast, delayed, waiting, in this order.
LEMMA UnsentAfterEmit ==
    ASSUME EventsShape, UnsentIsNowhere, Emit
    PROVE  /\ delayed' \cap waiting' = {} /\ delayed' \cup waiting' \subseteq 1 .. emitted'
           /\ Unsent' \subseteq Unsent
<1>1. /\ emitted' = emitted + 1 /\ emitted' \in Events /\ emitted \in Nat
  BY EmitKeepsEvents DEF EventsShape
<1>2. delayed \cup waiting \subseteq 1 .. emitted /\ delayed \cap waiting = {}
  BY DEF UnsentIsNowhere
<1>3. /\ 1 .. emitted \subseteq 1 .. emitted' /\ emitted' \in 1 .. emitted'
      /\ emitted' \notin 1 .. emitted
  BY <1>1
<1>4. /\ delayed' = delayed \/ delayed' = delayed \cup {emitted'}
      /\ waiting' = waiting \/ waiting' = waiting \cup {emitted'}
      /\ delayed' = delayed \/ waiting' = waiting
  BY DEF Emit
<1> QED
  BY <1>1, <1>2, <1>3, <1>4 DEF Unsent

LEMMA UnsentStep ==
    ASSUME EventsShape, UnsentIsNowhere, [DeliveryNext]_deliveryVars
    PROVE  /\ delayed' \cap waiting' = {} /\ delayed' \cup waiting' \subseteq 1 .. emitted'
           /\ Unsent' \subseteq Unsent
<1>1. CASE Broadcast \/ \E e \in Extensions : SubscribeEnds(e)
  BY <1>1, UnsentAfterEmit DEF Broadcast, SubscribeEnds
<1>2. CASE \E n \in Events : DelayElapses(n) \/ BufferEvent(n)
  BY <1>2 DEF DelayElapses, BufferEvent, UnsentIsNowhere, Unsent
<1>3. CASE UNCHANGED <<emitted, delayed, waiting>>
  BY <1>3 DEF UnsentIsNowhere, Unsent
<1>4. CASE \/ \E p \in Policies : SetPolicy(p)
           \/ \E e \in Extensions, request \in Requests : SubscribeBegins(e, request)
           \/ \E t \in DOMAIN tasks : TaskStep(t)
           \/ ShutdownBegins \/ FlushStep \/ ShutdownEnds \/ UNCHANGED deliveryVars
  BY <1>3, <1>4 DEF SetPolicy, SubscribeBegins, TaskStep, Tick, TakeSubscriptions, PostEnds,
     ShutdownBegins, FlushStep, FlushBegins, FlushTakes, FlushAttempt, ShutdownEnds, eventVars,
     deliveryVars
<1> QED
  BY <1>1, <1>2, <1>3, <1>4 DEF DeliveryNext

\* The steps that give nobody an event.
QuietStep ==
    \/ Broadcast \/ \E n \in Events : DelayElapses(n)
    \/ \E p \in Policies : SetPolicy(p)
    \/ \E e \in Extensions, request \in Requests : SubscribeBegins(e, request)
    \/ \E e \in Extensions : SubscribeEnds(e)
    \/ \E t \in DOMAIN tasks : TakeSubscriptions(t)
    \/ ShutdownBegins \/ FlushBegins \/ ShutdownEnds
    \/ UNCHANGED deliveryVars

LEMMA QuietIsQuiet ==
    ASSUME Shape, QuietStep
    PROVE  /\ \A e \in Extensions : Received(e)' = Received(e) /\ Buffered(e)' \subseteq Buffered(e)
           /\ \A t \in DOMAIN tasks' :
                 \/ Carried(t)' = {}
                 \/ /\ t \in DOMAIN tasks /\ tasks'[t].ext = tasks[t].ext
                    /\ Carried(t)' \subseteq Carried(t)
           /\ ToSet(flush'.batch) \subseteq ToSet(flush.batch)
           /\ \/ flush'.to = {}
              \/ flush'.to = flush.to /\ (flush'.attempts = 0 => flush.attempts = 0)
<1> USE DEF Shape
<1>1. received' = received
  BY DEF QuietStep, Broadcast, DelayElapses, SetPolicy, SubscribeBegins, SubscribeEnds,
     TakeSubscriptions, ShutdownBegins, FlushBegins, ShutdownEnds, deliveryVars
<1>2. \A e \in Extensions : Received(e)' = Received(e)
  BY <1>1 DEF Received
<1>3. \A e \in Extensions : Buffered(e)' \subseteq Buffered(e)
  <2>1. CASE \E e \in Extensions : SubscribeEnds(e)
    <3>1. PICK e \in Extensions : SubscribeEnds(e)
      BY <2>1
    <3>2. /\ DOMAIN buffer' = DOMAIN buffer \cup {e}
          /\ \A d \in DOMAIN buffer' : buffer'[d] = IF d = e THEN << >> ELSE buffer[d]
      BY <3>1, SubscriptionAddsBuffer
    <3> SUFFICES ASSUME NEW d \in Extensions PROVE Buffered(d)' \subseteq Buffered(d)
      OBVIOUS
    <3>3. CASE d = e
      BY <3>2, <3>3, NothingInEmpty DEF Buffered
    <3>4. CASE d # e
      BY <3>2, <3>4 DEF Buffered
    <3> QED
      BY <3>3, <3>4
  <2>2. CASE buffer' = buffer
    BY <2>2 DEF Buffered
  <2> QED
    BY <2>1, <2>2 DEF QuietStep, Broadcast, DelayElapses, SetPolicy, SubscribeBegins,
       TakeSubscriptions, ShutdownBegins, FlushBegins, ShutdownEnds, bufferVars, deliveryVars
<1>4. \A t \in DOMAIN tasks' :
          \/ Carried(t)' = {}
          \/ /\ t \in DOMAIN tasks /\ tasks'[t].ext = tasks[t].ext
             /\ Carried(t)' \subseteq Carried(t)
  <2>1. CASE \E e \in Extensions : SubscribeEnds(e)
    <3>1. PICK e \in Extensions : SubscribeEnds(e)
      BY <2>1
    <3> DEFINE new == [ext |-> e, at |-> "ticking", batch |-> << >>]
    <3>2. new \in Tasks /\ new.batch = << >>
      BY NothingInEmpty DEF Tasks
    <3> HIDE DEF new
    <3>3. tasks' = Append(tasks, new)
      BY <3>1 DEF SubscribeEnds, new
    <3>4. /\ DOMAIN tasks' = 1 .. Len(tasks) + 1 /\ Len(tasks) \in Nat
          /\ DOMAIN tasks = 1 .. Len(tasks)
          /\ tasks'[Len(tasks) + 1] = new /\ \A t \in 1 .. Len(tasks) : tasks'[t] = tasks[t]
      BY <3>2, <3>3 DEF TasksShape
    <3> SUFFICES ASSUME NEW t \in DOMAIN tasks'
                 PROVE  \/ Carried(t)' = {}
                        \/ /\ t \in DOMAIN tasks /\ tasks'[t].ext = tasks[t].ext
                           /\ Carried(t)' \subseteq Carried(t)
      OBVIOUS
    <3>5. CASE t \in 1 .. Len(tasks)
      BY <3>4, <3>5 DEF Carried
    <3>6. CASE t = Len(tasks) + 1
      BY <3>2, <3>4, <3>6, NothingInEmpty DEF Carried
    <3> QED
      BY <3>4, <3>5, <3>6, LastOrBefore
  <2>2. CASE \E t \in DOMAIN tasks : TakeSubscriptions(t)
    <3>1. PICK t \in DOMAIN tasks : tasks' = [tasks EXCEPT ![t].at = "posting"]
      BY <2>2 DEF TakeSubscriptions
    <3>2. /\ DOMAIN tasks' = DOMAIN tasks
          /\ \A u \in DOMAIN tasks :
                tasks'[u].ext = tasks[u].ext /\ tasks'[u].batch = tasks[u].batch
      BY <3>1, TaskMoves DEF TasksShape
    <3> QED
      BY <3>2 DEF Carried
  <2>3. CASE ShutdownEnds
    <3>1. /\ DOMAIN tasks' = DOMAIN tasks
          /\ \A t \in DOMAIN tasks :
                /\ tasks'[t].ext = tasks[t].ext
                /\ tasks'[t].batch = << >> \/ tasks'[t].batch = tasks[t].batch
      BY <2>3, AbortKeepsTasks DEF ShutdownEnds
    <3> QED
      BY <3>1, NothingInEmpty DEF Carried
  <2>4. CASE tasks' = tasks
    BY <2>4 DEF Carried
  <2> QED
    BY <2>1, <2>2, <2>3, <2>4 DEF QuietStep, Broadcast, DelayElapses, SetPolicy, SubscribeBegins,
       ShutdownBegins, FlushBegins, taskVars, deliveryVars
<1>5. /\ ToSet(flush'.batch) \subseteq ToSet(flush.batch)
      /\ \/ flush'.to = {}
         \/ flush'.to = flush.to /\ (flush'.attempts = 0 => flush.attempts = 0)
  <2>1. CASE FlushBegins /\ ToFlush # {}
    <3>1. flush' = [IdleFlush EXCEPT !.todo = ToFlush] /\ ToFlush \in SUBSET Extensions
      BY <2>1 DEF FlushBegins, ToFlush, BuffersShape
    <3>2. flush'.to = {} /\ flush'.batch = << >>
      BY <3>1, FlushIdles
    <3> QED
      BY <3>2, NothingInEmpty
  <2>2. CASE flush' = flush
    BY <2>2
  <2> QED
    BY <2>1, <2>2 DEF QuietStep, Broadcast, DelayElapses, SetPolicy, SubscribeBegins, SubscribeEnds,
       TakeSubscriptions, ShutdownBegins, FlushBegins, ShutdownEnds, deliveryVars
<1> QED
  BY <1>2, <1>3, <1>4, <1>5

\* The steps that move events, as sets of events.
LEMMA BufferMoves ==
    ASSUME Shape, NewestWait, NEW n \in Events, BufferEvent(n)
    PROVE  /\ \A e \in Extensions : /\ Received(e)' = Received(e)
                                    /\ Buffered(e)' \subseteq Buffered(e) \cup {n}
           /\ tasks' = tasks /\ flush' = flush
<1>1. received' = received /\ tasks' = tasks /\ flush' = flush /\ DOMAIN buffer' = DOMAIN buffer
  BY DEF BufferEvent, taskVars
<1>2. ASSUME NEW e \in DOMAIN buffer PROVE ToSet(buffer'[e]) \subseteq ToSet(buffer[e]) \cup {n}
  <2>1. /\ buffer[e] \in Seq(Events) /\ pushed[e] \in Seq(Events)
        /\ Len(buffer[e]) <= MaxItems /\ EndsWith(pushed[e], buffer[e])
    BY DEF Shape, BuffersShape, NewestWait
  <2>2. ToSet(KeepNewest(buffer[e], n)) \subseteq ToSet(buffer[e]) \cup {n}
    BY <2>1, OverflowKeepsNewest
  <2>3. buffer'[e] = KeepNewest(buffer[e], n) \/ buffer'[e] = buffer[e]
    BY DEF BufferEvent
  <2> QED
    BY <2>2, <2>3
<1>3. \A e \in Extensions : Buffered(e)' \subseteq Buffered(e) \cup {n}
  BY <1>1, <1>2 DEF Buffered
<1>4. \A e \in Extensions : Received(e)' = Received(e)
  BY <1>1 DEF Received
<1> QED
  BY <1>1, <1>3, <1>4

LEMMA TickMovesEvents ==
    ASSUME Shape, NewestWait, NEW t \in DOMAIN tasks, Tick(t)
    PROVE  /\ \A e \in Extensions : Received(e)' = Received(e)
           /\ \A e \in Extensions : Buffered(e)' = IF e = tasks[t].ext THEN {} ELSE Buffered(e)
           /\ DOMAIN tasks' = DOMAIN tasks
           /\ \A u \in DOMAIN tasks :
                 /\ tasks'[u].ext = tasks[u].ext
                 /\ Carried(u)' = IF u = t THEN Buffered(tasks[t].ext) ELSE Carried(u)
           /\ flush' = flush /\ flush.to = {}
<1> DEFINE e == tasks[t].ext
<1>1. /\ e \in DOMAIN buffer /\ buffer[e] \in Seq(Events)
      /\ buffer' = [buffer EXCEPT ![e] = << >>]
      /\ tasks' = [tasks EXCEPT ![t].at = "drained", ![t].batch = buffer[e]]
  BY TickMoves DEF Shape, BuffersShape
<1>2. /\ DOMAIN tasks' = DOMAIN tasks /\ tasks'[t].batch = buffer[e]
      /\ \A u \in DOMAIN tasks : u # t => tasks'[u] = tasks[u]
      /\ \A u \in DOMAIN tasks : tasks'[u].ext = tasks[u].ext
  BY <1>1, TaskChanges DEF Shape, TasksShape
<1>3. received' = received /\ flush' = flush /\ flush.to = {}
  BY DEF Tick, BuffersFree, FlushHolds, Shape, FlushShape
<1>4. \A d \in Extensions : Buffered(d)' = IF d = e THEN {} ELSE Buffered(d)
  BY <1>1, NothingInEmpty DEF Buffered
<1>5. \A u \in DOMAIN tasks :
          /\ tasks'[u].ext = tasks[u].ext
          /\ Carried(u)' = IF u = t THEN Buffered(tasks[t].ext) ELSE Carried(u)
  BY <1>1, <1>2 DEF Carried, Buffered
<1>6. \A d \in Extensions : Received(d)' = Received(d)
  BY <1>3 DEF Received
<1> QED
  BY <1>2, <1>3, <1>4, <1>5, <1>6

LEMMA PostMoves ==
    ASSUME Shape, NEW t \in DOMAIN tasks, NEW outcome \in Outcomes, PostEnds(t, outcome)
    PROVE  /\ \A e \in Extensions :
                 /\ Received(e)' \subseteq
                       IF e = tasks[t].ext THEN Received(e) \cup Carried(t) ELSE Received(e)
                 /\ Buffered(e)' = Buffered(e)
           /\ DOMAIN tasks' = DOMAIN tasks
           /\ \A u \in DOMAIN tasks :
                 /\ tasks'[u].ext = tasks[u].ext
                 /\ Carried(u)' = IF u = t THEN {} ELSE Carried(u)
           /\ flush' = flush
<1> DEFINE e == tasks[t].ext
           a == Accepted(outcome, tasks[t].batch)
<1>1. /\ e \in Extensions /\ tasks[t].batch \in Seq(Events)
  <2>1. tasks[t] \in Tasks
    BY DEF Shape, TasksShape
  <2> QED
    BY <2>1 DEF Tasks
<1>2. /\ received' = [received EXCEPT ![e] = @ \o a]
      /\ tasks' = [tasks EXCEPT ![t].at = "ticking", ![t].batch = << >>]
      /\ buffer' = buffer /\ flush' = flush
  BY DEF PostEnds, bufferVars
<1>3. a \in Seq(Events) /\ ToSet(a) \subseteq Carried(t)
  BY <1>1, AcceptedIsBatch DEF Carried
<1> HIDE DEF a
<1>4. /\ DOMAIN tasks' = DOMAIN tasks /\ tasks'[t].batch = << >>
      /\ \A u \in DOMAIN tasks : u # t => tasks'[u] = tasks[u]
      /\ \A u \in DOMAIN tasks : tasks'[u].ext = tasks[u].ext
  BY <1>2, TaskChanges, NothingInEmpty DEF Shape, TasksShape
<1>5. \A u \in DOMAIN tasks : Carried(u)' = IF u = t THEN {} ELSE Carried(u)
  BY <1>4, NothingInEmpty DEF Carried
<1>6. \A d \in Extensions : Buffered(d)' = Buffered(d)
  BY <1>2 DEF Buffered
<1>7. received[e] \in Seq(Events) /\ ToSet(received[e] \o a) = Received(e) \cup ToSet(a)
  <2>1. received[e] \in Seq(Events)
    BY <1>1 DEF Shape, FlushShape
  <2>2. ToSet(received[e] \o a) = ToSet(received[e]) \cup ToSet(a)
    <3> DEFINE s == received[e]
    <3>1. s \in Seq(Events) /\ a \in Seq(Events)
      BY <1>3, <2>1
    <3> HIDE DEF s
    <3>2. ToSet(s \o a) = ToSet(s) \cup ToSet(a)
      BY <3>1, ConcatAdds
    <3> QED
      BY <3>2 DEF s
  <2> QED
    BY <2>1, <2>2 DEF Received
<1>8. \A d \in Extensions :
          Received(d)' \subseteq IF d = e THEN Received(d) \cup Carried(t) ELSE Received(d)
  <2> SUFFICES ASSUME NEW d \in Extensions
               PROVE  Received(d)' \subseteq IF d = e THEN Received(d) \cup Carried(t) ELSE Received(d)
    OBVIOUS
  <2>1. CASE d = e
    <3>1. Received(d)' = ToSet(received[e] \o a)
      BY <1>1, <1>2, <2>1 DEF Received, Shape, FlushShape
    <3> QED
      BY <1>3, <1>7, <2>1, <3>1
  <2>2. CASE d # e
    BY <1>2, <2>2 DEF Received, Shape, FlushShape
  <2> QED
    BY <2>1, <2>2
<1> QED
  BY <1>2, <1>4, <1>5, <1>6, <1>8

LEMMA TakeMoves ==
    ASSUME Shape, NEW e \in flush.todo, FlushTakes(e)
    PROVE  /\ \A d \in Extensions : /\ Received(d)' = Received(d)
                                    /\ Buffered(d)' = IF d = e THEN {} ELSE Buffered(d)
           /\ tasks' = tasks /\ e \in Extensions
           /\ flush'.to = {e} /\ ToSet(flush'.batch) = Buffered(e)
<1>1. e \in DOMAIN buffer /\ e \in Extensions /\ buffer[e] \in Seq(Events) /\ flush \in Flushes
  BY DEF Shape, BuffersShape, FlushShape
<1>2. /\ flush' = [flush EXCEPT !.to = {e}, !.batch = buffer[e], !.attempts = 0]
      /\ buffer' = [buffer EXCEPT ![e] = << >>]
      /\ received' = received /\ tasks' = tasks
  BY DEF FlushTakes, taskVars
<1>3. flush'.to = {e} /\ flush'.batch = buffer[e]
  BY <1>1, <1>2, FlushTries
<1>4. \A d \in Extensions : Buffered(d)' = IF d = e THEN {} ELSE Buffered(d)
  BY <1>1, <1>2, NothingInEmpty DEF Buffered
<1>5. \A d \in Extensions : Received(d)' = Received(d)
  BY <1>2 DEF Received
<1> QED
  BY <1>1, <1>2, <1>3, <1>4, <1>5 DEF Buffered

LEMMA AttemptMoves ==
    ASSUME Shape, NEW outcome \in Outcomes, FlushAttempt(outcome)
    PROVE  /\ \A e \in Extensions :
                 /\ Received(e)' \subseteq
                       IF e \in flush.to THEN Received(e) \cup ToSet(flush.batch) ELSE Received(e)
                 /\ Buffered(e)' = Buffered(e)
           /\ tasks' = tasks
           /\ \/ flush'.to = {} /\ ToSet(flush'.batch) = {}
              \/ flush'.to = flush.to /\ flush'.batch = flush.batch /\ flush'.attempts # 0
<1> DEFINE a == Accepted(outcome, flush.batch)
<1>1. flush.batch \in Seq(Events)
  BY DEF Shape, FlushShape, Flushes
<1>2. a \in Seq(Events) /\ ToSet(a) \subseteq ToSet(flush.batch)
  BY <1>1, AcceptedIsBatch
<1>3. /\ received' = [e \in Extensions |-> received[e] \o IF e \in flush.to THEN a ELSE << >>]
      /\ buffer' = buffer /\ tasks' = tasks
  BY DEF FlushAttempt, bufferVars, taskVars
<1> HIDE DEF a
<1>4. \A e \in Extensions :
          Received(e)' \subseteq
             IF e \in flush.to THEN Received(e) \cup ToSet(flush.batch) ELSE Received(e)
  <2> SUFFICES ASSUME NEW e \in Extensions
               PROVE  Received(e)' \subseteq
                         IF e \in flush.to THEN Received(e) \cup ToSet(flush.batch) ELSE Received(e)
    OBVIOUS
  <2> DEFINE b == IF e \in flush.to THEN a ELSE << >>
  <2>1. b \in Seq(Events) /\ received[e] \in Seq(Events)
    BY <1>2, NothingInEmpty DEF Shape, FlushShape
  <2>2. Received(e)' = ToSet(received[e] \o b)
    BY <1>3 DEF Received
  <2> HIDE DEF b
  <2>3. Received(e)' = Received(e) \cup ToSet(b)
    BY <2>1, <2>2, ConcatAdds DEF Received
  <2> QED
    BY <1>2, <2>3, NothingInEmpty DEF b
<1>5. \A e \in Extensions : Buffered(e)' = Buffered(e)
  BY <1>3 DEF Buffered
<1>6. \/ flush'.to = {} /\ ToSet(flush'.batch) = {}
      \/ flush'.to = flush.to /\ flush'.batch = flush.batch /\ flush'.attempts # 0
  BY AttemptEnds, NothingInEmpty DEF Shape, BuffersShape
<1> QED
  BY <1>3, <1>4, <1>5, <1>6

LEMMA PlacesStep ==
    ASSUME Shape, NewestWait, UnsentIsNowhere, OnePlace, [DeliveryNext]_deliveryVars
    PROVE  UnsentIsNowhere' /\ OnePlace'
<1>1. /\ delayed' \cap waiting' = {} /\ delayed' \cup waiting' \subseteq 1 .. emitted'
      /\ Unsent' \subseteq Unsent
  BY UnsentStep DEF Shape
<1>2. TasksShape /\ BuffersShape /\ TasksShape' /\ BuffersShape' /\ FlushShape /\ FlushShape'
  BY ShapeStep DEF Shape
<1>3. /\ \A t \in DOMAIN tasks : tasks[t].ext \in Extensions
      /\ flush.to \subseteq Extensions
  BY <1>2 DEF TasksShape, BuffersShape, FlushShape
<1>4. CASE QuietStep
  BY <1>1, <1>2, <1>4, QuietIsQuiet, PlacesShrink
<1>5. CASE \E n \in Events : BufferEvent(n)
  <2>1. PICK n \in Events : BufferEvent(n)
    BY <1>5
  <2>2. /\ \A e \in Extensions : /\ Received(e)' = Received(e)
                                 /\ Buffered(e)' \subseteq Buffered(e) \cup {n}
        /\ tasks' = tasks /\ flush' = flush
    BY <2>1, BufferMoves
  <2>3. \A t \in DOMAIN tasks : Carried(t)' = Carried(t)
    BY <2>2 DEF Carried
  <2>4. n \in Unsent /\ n \notin Unsent'
    BY <2>1 DEF BufferEvent, Unsent, UnsentIsNowhere
  <2>5. UnsentIsNowhere'
    BY <1>1, <1>3, <2>2, <2>3, <2>4 DEF UnsentIsNowhere
  <2>6. /\ \A e \in Extensions : n \notin Received(e)
        /\ \A t \in DOMAIN tasks : n \notin Carried(t)
        /\ n \notin ToSet(flush.batch)
    BY <2>4 DEF UnsentIsNowhere
  <2>7. OnePlace'
    BY <1>3, <2>2, <2>3, <2>6 DEF OnePlace
  <2> QED
    BY <2>5, <2>7
<1>6. CASE \E t \in DOMAIN tasks : Tick(t)
  <2>1. PICK t \in DOMAIN tasks : Tick(t)
    BY <1>6
  <2>2. PICK e \in Extensions : e = tasks[t].ext
    BY <1>3
  <2>3. /\ \A d \in Extensions : Received(d)' = Received(d)
        /\ \A d \in Extensions : Buffered(d)' = IF d = e THEN {} ELSE Buffered(d)
        /\ DOMAIN tasks' = DOMAIN tasks
        /\ \A u \in DOMAIN tasks : tasks'[u].ext = tasks[u].ext
        /\ \A u \in DOMAIN tasks : Carried(u)' = IF u = t THEN Buffered(e) ELSE Carried(u)
        /\ flush' = flush /\ flush.to = {}
    BY <2>1, <2>2, TickMovesEvents
  <2>4. UnsentIsNowhere'
    BY <1>1, <1>3, <2>3 DEF UnsentIsNowhere
  <2>5. \A d \in Extensions : Buffered(d)' \cap Received(d)' = {}
    BY <2>3 DEF OnePlace
  <2>6. ASSUME NEW u \in DOMAIN tasks, NEW d \in Extensions, d = tasks[u].ext
        PROVE  Carried(u)' \cap Received(d)' = {} /\ Carried(u)' \cap Buffered(d)' = {}
    BY <2>2, <2>3, <2>6 DEF OnePlace
  <2>7. ASSUME NEW u \in DOMAIN tasks, NEW v \in DOMAIN tasks, u # v, tasks[u].ext = tasks[v].ext
        PROVE  Carried(u)' \cap Carried(v)' = {}
    <3>1. CASE u = t
      BY <2>2, <2>3, <2>7, <3>1 DEF OnePlace
    <3>2. CASE v = t
      BY <2>2, <2>3, <2>7, <3>2 DEF OnePlace
    <3>3. CASE u # t /\ v # t
      BY <2>3, <2>7, <3>3 DEF OnePlace
    <3> QED
      BY <3>1, <3>2, <3>3
  <2>8. OnePlace'
    <3>1. \A u \in DOMAIN tasks' :
              /\ Carried(u)' \cap Received(tasks[u].ext)' = {}
              /\ Carried(u)' \cap Buffered(tasks[u].ext)' = {}
      BY <1>3, <2>3, <2>6
    <3> QED
      BY <2>3, <2>5, <2>7, <3>1 DEF OnePlace
  <2> QED
    BY <2>4, <2>8
<1>7. CASE \E t \in DOMAIN tasks, outcome \in Outcomes : PostEnds(t, outcome)
  <2>1. PICK t \in DOMAIN tasks, outcome \in Outcomes : PostEnds(t, outcome)
    BY <1>7
  <2>2. PICK e \in Extensions : e = tasks[t].ext
    BY <1>3
  <2>3. /\ \A d \in Extensions :
              Received(d)' \subseteq IF d = e THEN Received(d) \cup Carried(t) ELSE Received(d)
        /\ \A d \in Extensions : Buffered(d)' = Buffered(d)
        /\ DOMAIN tasks' = DOMAIN tasks
        /\ \A u \in DOMAIN tasks : tasks'[u].ext = tasks[u].ext
        /\ \A u \in DOMAIN tasks : Carried(u)' = IF u = t THEN {} ELSE Carried(u)
        /\ flush' = flush
    BY <2>1, <2>2, PostMoves
  <2>4. UnsentIsNowhere'
    <3>1. \A d \in Extensions : Received(d)' \cap Unsent' = {} /\ Buffered(d)' \cap Unsent' = {}
      BY <1>1, <2>3 DEF UnsentIsNowhere
    <3>2. \A u \in DOMAIN tasks : Carried(u)' \cap Unsent' = {}
      BY <1>1, <2>3 DEF UnsentIsNowhere
    <3> QED
      BY <1>1, <2>3, <3>1, <3>2 DEF UnsentIsNowhere
  <2>5. \A d \in Extensions : Buffered(d)' \cap Received(d)' = {}
    BY <2>2, <2>3 DEF OnePlace
  <2>6. ASSUME NEW u \in DOMAIN tasks, NEW d \in Extensions, d = tasks[u].ext
        PROVE  Carried(u)' \cap Received(d)' = {} /\ Carried(u)' \cap Buffered(d)' = {}
    <3>1. CASE u = t
      BY <2>3, <3>1
    <3>2. CASE u # t
      BY <2>2, <2>3, <2>6, <3>2 DEF OnePlace
    <3> QED
      BY <3>1, <3>2
  <2>7. \A u, v \in DOMAIN tasks' :
            u # v /\ tasks'[u].ext = tasks'[v].ext => Carried(u)' \cap Carried(v)' = {}
    BY <2>3 DEF OnePlace
  <2>8. ASSUME NEW d \in flush.to
        PROVE  /\ ToSet(flush.batch) \cap Buffered(d)' = {}
               /\ flush.attempts = 0 => ToSet(flush.batch) \cap Received(d)' = {}
               /\ \A u \in DOMAIN tasks :
                     tasks[u].ext = d => ToSet(flush.batch) \cap Carried(u)' = {}
    BY <1>3, <2>2, <2>3 DEF OnePlace
  <2>9. OnePlace'
    <3>1. \A u \in DOMAIN tasks' :
              /\ Carried(u)' \cap Received(tasks[u].ext)' = {}
              /\ Carried(u)' \cap Buffered(tasks[u].ext)' = {}
      BY <1>3, <2>3, <2>6
    <3> QED
      BY <2>3, <2>5, <2>7, <2>8, <3>1 DEF OnePlace
  <2> QED
    BY <2>4, <2>9
<1>8. CASE \E e \in flush.todo : FlushTakes(e)
  <2>1. PICK e \in flush.todo : FlushTakes(e)
    BY <1>8
  <2>2. /\ \A d \in Extensions : Received(d)' = Received(d)
        /\ \A d \in Extensions : Buffered(d)' = IF d = e THEN {} ELSE Buffered(d)
        /\ tasks' = tasks /\ e \in Extensions
        /\ flush'.to = {e} /\ ToSet(flush'.batch) = Buffered(e)
    BY <2>1, TakeMoves
  <2>3. \A t \in DOMAIN tasks : Carried(t)' = Carried(t)
    BY <2>2 DEF Carried
  <2>4. UnsentIsNowhere'
    BY <1>1, <2>2, <2>3 DEF UnsentIsNowhere
  <2>5. OnePlace'
    BY <1>3, <2>2, <2>3 DEF OnePlace
  <2> QED
    BY <2>4, <2>5
<1>9. CASE \E outcome \in Outcomes : FlushAttempt(outcome)
  <2>1. PICK outcome \in Outcomes : FlushAttempt(outcome)
    BY <1>9
  <2>2. /\ \A e \in Extensions :
              Received(e)' \subseteq
                 IF e \in flush.to THEN Received(e) \cup ToSet(flush.batch) ELSE Received(e)
        /\ \A e \in Extensions : Buffered(e)' = Buffered(e)
        /\ tasks' = tasks
        /\ \/ flush'.to = {} /\ ToSet(flush'.batch) = {}
           \/ flush'.to = flush.to /\ flush'.batch = flush.batch /\ flush'.attempts # 0
    BY <2>1, AttemptMoves
  <2>3. \A t \in DOMAIN tasks : Carried(t)' = Carried(t)
    BY <2>2 DEF Carried
  <2>4. UnsentIsNowhere'
    <3>1. \A e \in Extensions : Received(e)' \cap Unsent' = {} /\ Buffered(e)' \cap Unsent' = {}
      BY <1>1, <2>2 DEF UnsentIsNowhere
    <3> QED
      BY <1>1, <2>2, <2>3, <3>1 DEF UnsentIsNowhere
  <2>5. OnePlace'
    <3>1. \A e \in Extensions : Buffered(e)' \cap Received(e)' = {}
      BY <2>2 DEF OnePlace
    <3>2. ASSUME NEW t \in DOMAIN tasks, NEW e \in Extensions, e = tasks[t].ext
          PROVE  Carried(t)' \cap Received(e)' = {} /\ Carried(t)' \cap Buffered(e)' = {}
      BY <2>2, <2>3, <3>2 DEF OnePlace
    <3>3. \A t \in DOMAIN tasks' :
              /\ Carried(t)' \cap Received(tasks[t].ext)' = {}
              /\ Carried(t)' \cap Buffered(tasks[t].ext)' = {}
      BY <1>3, <2>2, <3>2
    <3>4. \A t, u \in DOMAIN tasks' :
              t # u /\ tasks'[t].ext = tasks'[u].ext => Carried(t)' \cap Carried(u)' = {}
      BY <2>2, <2>3 DEF OnePlace
    <3>5. ASSUME NEW e \in flush'.to
          PROVE  /\ ToSet(flush'.batch) \cap Buffered(e)' = {}
                 /\ flush'.attempts # 0
                 /\ \A t \in DOMAIN tasks :
                       tasks[t].ext = e => ToSet(flush'.batch) \cap Carried(t)' = {}
      BY <1>3, <2>2, <2>3 DEF OnePlace
    <3> QED
      BY <2>2, <3>1, <3>3, <3>4, <3>5 DEF OnePlace
  <2> QED
    BY <2>4, <2>5
<1> QED
  BY <1>4, <1>5, <1>6, <1>7, <1>8, <1>9 DEF DeliveryNext, TaskStep, FlushStep, QuietStep

-----------------------------------------------------------------------------
(* In which order events come. *)

\* What a step does not touch of an extension stays in order.
LEMMA TurnStays ==
    ASSUME NEW e \in Extensions, TurnOf(e), DOMAIN tasks' = DOMAIN tasks,
           received'[e] = received[e], pushed'[e] = pushed[e],
           \A t \in DOMAIN tasks :
               /\ tasks'[t].ext = tasks[t].ext
               /\ tasks[t].ext = e => tasks'[t].batch = tasks[t].batch /\ buffer'[e] = buffer[e]
    PROVE  TurnOf(e)'
<1>1. received'[e] # << >> => \E t \in DOMAIN tasks' : tasks'[t].ext = e
  BY DEF TurnOf
<1>2. OneTask(e)' => OneTask(e)
  BY DEF OneTask
<1>3. ASSUME NEW t \in DOMAIN tasks, tasks[t].ext = e, TaskInTurn(e, t) PROVE TaskInTurn(e, t)'
  BY <1>3 DEF TaskInTurn
<1> QED
  BY <1>1, <1>2, <1>3 DEF TurnOf

LEMMA TurnOfSubscription ==
    ASSUME Shape, \A d \in Extensions : TurnOf(d), NEW e \in Extensions, SubscribeEnds(e),
           NEW d \in Extensions
    PROVE  TurnOf(d)'
<1> DEFINE new == [ext |-> e, at |-> "ticking", batch |-> << >>]
<1>1. new \in Tasks /\ new.ext = e /\ new.batch = << >>
  BY NothingInEmpty DEF Tasks
<1> HIDE DEF new
<1>2. tasks' = Append(tasks, new) /\ received' = received
  BY DEF SubscribeEnds, new
<1>3. /\ DOMAIN tasks' = 1 .. Len(tasks) + 1 /\ Len(tasks) \in Nat
      /\ DOMAIN tasks = 1 .. Len(tasks)
      /\ tasks'[Len(tasks) + 1] = new /\ \A t \in 1 .. Len(tasks) : tasks'[t] = tasks[t]
  BY <1>1, <1>2 DEF Shape, TasksShape
<1>4. /\ 1 .. Len(tasks) \subseteq DOMAIN tasks' /\ Len(tasks) + 1 \in DOMAIN tasks'
      /\ \A t \in DOMAIN tasks' : t \in 1 .. Len(tasks) \/ t = Len(tasks) + 1
      /\ \A t \in 1 .. Len(tasks) : t # Len(tasks) + 1
  BY <1>3
<1>5. TurnOf(d)
  OBVIOUS
<1>6. CASE d # e
  <2>1. received'[d] = received[d] /\ pushed'[d] = pushed[d]
    BY <1>2, <1>6 DEF SubscribeEnds, Shape, BuffersShape
  <2>2. received'[d] # << >> => \E t \in DOMAIN tasks' : tasks'[t].ext = d
    BY <1>3, <1>4, <1>5, <2>1 DEF TurnOf
  <2>3. OneTask(d)' => OneTask(d)
    BY <1>3, <1>4 DEF OneTask
  <2>4. ASSUME NEW t \in DOMAIN tasks', tasks'[t].ext = d, OneTask(d) PROVE TaskInTurn(d, t)'
    <3>1. t \in DOMAIN tasks /\ tasks'[t] = tasks[t] /\ tasks[t].ext = d
      BY <1>1, <1>3, <1>4, <1>6, <2>4
    <3>2. d \in DOMAIN buffer /\ buffer'[d] = buffer[d]
      BY <1>6, <3>1, SubscriptionAddsBuffer DEF Shape, TasksShape
    <3>3. TaskInTurn(d, t)
      BY <1>5, <2>4, <3>1 DEF TurnOf
    <3> QED
      BY <2>1, <3>1, <3>2, <3>3 DEF TaskInTurn
  <2> QED
    BY <1>5, <2>1, <2>2, <2>3, <2>4 DEF TurnOf
<1>7. CASE d = e
  <2>1. received'[d] # << >> => \E t \in DOMAIN tasks' : tasks'[t].ext = d
    BY <1>1, <1>3, <1>4, <1>7
  <2>2. ASSUME OneTask(d)' PROVE received'[d] = << >>
    <3>1. ASSUME NEW t \in DOMAIN tasks, tasks[t].ext = d PROVE FALSE
      BY <1>1, <1>3, <1>4, <1>7, <2>2, <3>1 DEF OneTask
    <3> QED
      BY <1>2, <1>5, <3>1 DEF TurnOf
  <2>3. ASSUME OneTask(d)', NEW t \in DOMAIN tasks', tasks'[t].ext = d PROVE tasks'[t].batch = << >>
    BY <1>1, <1>3, <1>4, <1>7, <2>3 DEF OneTask
  <2>4. OneTask(d)' =>
           /\ InOrder(received'[d], pushed'[d]) /\ From(received'[d], pushed'[d])
           /\ \A t \in DOMAIN tasks' : tasks'[t].ext = d => TaskInTurn(d, t)'
    BY <2>2, <2>3, NothingIsInOrder DEF TaskInTurn
  <2> QED
    BY <2>1, <2>4 DEF TurnOf
<1> QED
  BY <1>6, <1>7

LEMMA TurnOfEvent ==
    ASSUME Shape, NewestWait, NEW n \in Events, BufferEvent(n), NEW e \in Extensions, TurnOf(e)
    PROVE  TurnOf(e)'
<1>1. received' = received /\ tasks' = tasks
  BY DEF BufferEvent, taskVars
<1>2. CASE e \in Matching
  <2>1. e \in DOMAIN buffer /\ buffer[e] \in Seq(Events) /\ pushed[e] \in Seq(Events)
        /\ Len(buffer[e]) <= MaxItems /\ EndsWith(pushed[e], buffer[e])
    BY <1>2 DEF Matching, Shape, BuffersShape, NewestWait
  <2>2. buffer'[e] = KeepNewest(buffer[e], n) /\ pushed'[e] = Append(pushed[e], n)
    BY <1>2, <2>1 DEF BufferEvent
  <2>3. ToSet(buffer'[e]) \subseteq ToSet(buffer[e]) \cup {n}
    BY <2>1, <2>2, OverflowKeepsNewest
  <2>4. ASSUME NEW s
        PROVE  /\ InOrder(s, pushed[e]) => InOrder(s, pushed'[e])
               /\ From(s, pushed[e]) => From(s, pushed'[e])
               /\ \A t : AllBefore(s, t, pushed[e]) => AllBefore(s, t, pushed'[e])
               /\ AllBefore(s, buffer[e], pushed[e]) /\ From(s, pushed[e])
                  => AllBefore(s, buffer'[e], pushed'[e])
    BY <2>1, <2>2, <2>3, OrderGrows
  <2>5. ASSUME NEW t \in DOMAIN tasks, TaskInTurn(e, t), From(received[e], pushed[e])
        PROVE  TaskInTurn(e, t)'
    BY <1>1, <2>4, <2>5 DEF TaskInTurn
  <2>6. OneTask(e)' => OneTask(e)
    BY <1>1 DEF OneTask
  <2>7. received'[e] # << >> => \E t \in DOMAIN tasks' : tasks'[t].ext = e
    BY <1>1 DEF TurnOf
  <2>8. OneTask(e) => InOrder(received'[e], pushed'[e]) /\ From(received'[e], pushed'[e])
    BY <1>1, <2>4 DEF TurnOf
  <2>9. ASSUME OneTask(e), NEW t \in DOMAIN tasks', tasks'[t].ext = e PROVE TaskInTurn(e, t)'
    BY <1>1, <2>5, <2>9 DEF TurnOf
  <2> QED
    BY <2>6, <2>7, <2>8, <2>9 DEF TurnOf
<1>3. CASE e \notin Matching
  <2>1. pushed'[e] = pushed[e] /\ (e \in DOMAIN buffer => buffer'[e] = buffer[e])
    BY <1>3 DEF BufferEvent
  <2>2. \A t \in DOMAIN tasks : tasks[t].ext = e => e \in DOMAIN buffer
    BY DEF Shape, TasksShape
  <2> QED
    BY <1>1, <2>1, <2>2, TurnStays
<1> QED
  BY <1>2, <1>3

LEMMA TurnOfTick ==
    ASSUME Shape, NewestWait, NEW t \in DOMAIN tasks, Tick(t), NEW e \in Extensions, TurnOf(e)
    PROVE  TurnOf(e)'
<1> DEFINE f == tasks[t].ext
<1>1. /\ f \in DOMAIN buffer /\ buffer[f] \in Seq(Events)
      /\ buffer' = [buffer EXCEPT ![f] = << >>]
      /\ tasks' = [tasks EXCEPT ![t].at = "drained", ![t].batch = buffer[f]]
  BY TickMoves DEF Shape, BuffersShape
<1>2. /\ DOMAIN tasks' = DOMAIN tasks /\ tasks'[t].batch = buffer[f]
      /\ \A u \in DOMAIN tasks : u # t => tasks'[u] = tasks[u]
      /\ \A u \in DOMAIN tasks : tasks'[u].ext = tasks[u].ext
  BY <1>1, TaskChanges DEF Shape, TasksShape
<1>3. received' = received /\ pushed' = pushed
  BY DEF Tick
<1>4. CASE e # f
  <2>1. \A u \in DOMAIN tasks :
            /\ tasks'[u].ext = tasks[u].ext
            /\ tasks[u].ext = e => tasks'[u].batch = tasks[u].batch /\ buffer'[e] = buffer[e]
    BY <1>1, <1>2, <1>4
  <2> QED
    BY <1>2, <1>3, <2>1, TurnStays
<1>5. CASE e = f
  <2>1. EndsWith(pushed[e], buffer[e]) /\ pushed[e] \in Seq(Events)
    BY <1>1, <1>5 DEF NewestWait, Shape, BuffersShape
  <2>2. InOrder(buffer[e], pushed[e]) /\ From(buffer[e], pushed[e])
    BY <1>1, <1>5, <2>1, EndIsInOrder
  <2>3. buffer'[e] = << >>
    BY <1>1, <1>5
  <2>4. OneTask(e)' => OneTask(e)
    BY <1>2 DEF OneTask
  <2>5. ASSUME OneTask(e), NEW u \in DOMAIN tasks', tasks'[u].ext = e PROVE TaskInTurn(e, u)'
    <3>1. u = t /\ TaskInTurn(e, t)
      BY <1>2, <1>5, <2>5 DEF OneTask, TurnOf
    <3>2. tasks'[u].batch = buffer[e]
      BY <1>2, <1>5, <3>1
    <3>3. AllBefore(received[e], buffer[e], pushed[e])
      BY <3>1 DEF TaskInTurn
    <3>4. /\ AllBefore(buffer[e], buffer'[e], pushed[e])
          /\ AllBefore(received[e], buffer'[e], pushed[e])
      BY <2>3, NothingIsInOrder
    <3> QED
      BY <1>3, <2>2, <3>2, <3>3, <3>4 DEF TaskInTurn
  <2>6. received'[e] # << >> => \E u \in DOMAIN tasks' : tasks'[u].ext = e
    BY <1>2, <1>3 DEF TurnOf
  <2> QED
    BY <1>3, <2>4, <2>5, <2>6 DEF TurnOf
<1> QED
  BY <1>4, <1>5

LEMMA TurnOfPost ==
    ASSUME Shape, NEW t \in DOMAIN tasks, NEW outcome \in Outcomes, PostEnds(t, outcome),
           NEW e \in Extensions, TurnOf(e)
    PROVE  TurnOf(e)'
<1> DEFINE f == tasks[t].ext
           a == Accepted(outcome, tasks[t].batch)
<1>1. f \in Extensions /\ tasks[t].batch \in Seq(Events)
  <2>1. tasks[t] \in Tasks
    BY DEF Shape, TasksShape
  <2> QED
    BY <2>1 DEF Tasks
<1>2. /\ received' = [received EXCEPT ![f] = @ \o a]
      /\ tasks' = [tasks EXCEPT ![t].at = "ticking", ![t].batch = << >>]
      /\ buffer' = buffer /\ pushed' = pushed
  BY DEF PostEnds, bufferVars
<1>3. a \in Seq(Events) /\ (a = << >> \/ a = tasks[t].batch)
  BY <1>1, AcceptedIsBatch
<1> HIDE DEF a
<1>4. /\ DOMAIN tasks' = DOMAIN tasks /\ tasks'[t].batch = << >>
      /\ \A u \in DOMAIN tasks : u # t => tasks'[u] = tasks[u]
      /\ \A u \in DOMAIN tasks : tasks'[u].ext = tasks[u].ext
  BY <1>2, TaskChanges, NothingInEmpty DEF Shape, TasksShape
<1>5. CASE e # f
  <2>1. received'[e] = received[e]
    BY <1>2, <1>5 DEF Shape, FlushShape
  <2>2. \A u \in DOMAIN tasks :
            /\ tasks'[u].ext = tasks[u].ext
            /\ tasks[u].ext = e => tasks'[u].batch = tasks[u].batch /\ buffer'[e] = buffer[e]
    BY <1>2, <1>4, <1>5
  <2> QED
    BY <1>2, <1>4, <2>1, <2>2, TurnStays
<1>6. CASE e = f
  <2>1. received'[e] = received[e] \o a /\ received[e] \in Seq(Events)
    BY <1>2, <1>6 DEF Shape, FlushShape
  <2>2. received'[e] # << >> => \E u \in DOMAIN tasks' : tasks'[u].ext = e
    BY <1>4, <1>6
  <2>3. OneTask(e)' => OneTask(e)
    BY <1>4 DEF OneTask
  <2>4. ASSUME OneTask(e)
        PROVE  /\ InOrder(received'[e], pushed[e]) /\ From(received'[e], pushed[e])
               /\ AllBefore(received'[e], buffer[e], pushed[e])
    <3> DEFINE r == received[e]
               q == received'[e]
               p == pushed[e]
    <3>1. TaskInTurn(e, t) /\ InOrder(r, p) /\ From(r, p)
      BY <1>6, <2>4 DEF TurnOf
    <3>2. /\ InOrder(a, p) /\ From(a, p) /\ AllBefore(r, a, p)
          /\ AllBefore(a, buffer[e], p) /\ AllBefore(r, buffer[e], p)
      BY <1>3, <3>1, NothingIsInOrder DEF TaskInTurn
    <3>3. r \in Seq(Events) /\ q = r \o a
      BY <2>1
    <3> HIDE DEF r, q, p
    <3>4. InOrder(q, p)
      BY <1>3, <3>1, <3>2, <3>3, ConcatInOrder
    <3>5. ToSet(q) = ToSet(r) \cup ToSet(a)
      BY <1>3, <3>3, ConcatAdds
    <3>6. From(q, p) /\ AllBefore(q, buffer[e], p)
      BY <3>1, <3>2, <3>5 DEF From, AllBefore
    <3> QED
      BY <3>4, <3>6 DEF p, q
  <2>5. ASSUME OneTask(e), NEW u \in DOMAIN tasks', tasks'[u].ext = e PROVE TaskInTurn(e, u)'
    <3>1. u = t
      BY <1>4, <1>6, <2>5 DEF OneTask
    <3>2. tasks'[u].batch = << >>
      BY <1>4, <3>1
    <3>3. /\ InOrder(tasks'[u].batch, pushed[e]) /\ From(tasks'[u].batch, pushed[e])
          /\ AllBefore(received'[e], tasks'[u].batch, pushed[e])
          /\ AllBefore(tasks'[u].batch, buffer[e], pushed[e])
      BY <3>2, NothingIsInOrder
    <3> QED
      BY <1>2, <2>4, <2>5, <3>3 DEF TaskInTurn
  <2> QED
    BY <1>2, <2>2, <2>3, <2>4, <2>5 DEF TurnOf
<1> QED
  BY <1>5, <1>6

LEMMA TurnStep ==
    ASSUME Shape, NewestWait, InTurn, [DeliveryNext]_deliveryVars
    PROVE  InTurn'
<1> SUFFICES ASSUME phase' = "running", NEW e \in Extensions PROVE TurnOf(e)'
  BY DEF InTurn
<1>1. phase = "running"
  BY AttemptEnds DEF DeliveryNext, Broadcast, DelayElapses, BufferEvent, SetPolicy, SubscribeBegins,
     SubscribeEnds, TaskStep, Tick, TakeSubscriptions, PostEnds, ShutdownBegins, FlushStep,
     FlushBegins, FlushTakes, FlushAttempt, ShutdownEnds, deliveryVars, Shape, FlushShape
<1>2. \A d \in Extensions : TurnOf(d)
  BY <1>1 DEF InTurn
<1>3. ~(ShutdownBegins \/ FlushStep \/ ShutdownEnds)
  <2>1. flush.todo = {} /\ flush.to = {}
    BY <1>1 DEF Shape, FlushShape
  <2> QED
    BY <1>1, <2>1 DEF ShutdownBegins, FlushStep, FlushBegins, FlushTakes, FlushAttempt, ShutdownEnds
<1>4. CASE \E d \in Extensions : SubscribeEnds(d)
  BY <1>2, <1>4, TurnOfSubscription
<1>5. CASE \E n \in Events : BufferEvent(n)
  BY <1>2, <1>5, TurnOfEvent
<1>6. CASE \E t \in DOMAIN tasks : Tick(t)
  BY <1>2, <1>6, TurnOfTick
<1>7. CASE \E t \in DOMAIN tasks, outcome \in Outcomes : PostEnds(t, outcome)
  BY <1>2, <1>7, TurnOfPost
<1>8. CASE \E t \in DOMAIN tasks : TakeSubscriptions(t)
  <2>1. PICK t \in DOMAIN tasks : TakeSubscriptions(t)
    BY <1>8
  <2>2. /\ tasks' = [tasks EXCEPT ![t].at = "posting"]
        /\ received' = received /\ pushed' = pushed /\ buffer' = buffer
    BY <2>1 DEF TakeSubscriptions, bufferVars
  <2>3. /\ DOMAIN tasks' = DOMAIN tasks
        /\ \A u \in DOMAIN tasks :
              tasks'[u].ext = tasks[u].ext /\ tasks'[u].batch = tasks[u].batch
    BY <2>2, TaskMoves DEF Shape, TasksShape
  <2> QED
    BY <1>2, <2>2, <2>3, TurnStays
<1>9. CASE UNCHANGED <<tasks, received, pushed, buffer>>
  BY <1>2, <1>9, TurnStays
<1>10. CASE \/ Broadcast \/ (\E n \in Events : DelayElapses(n)) \/ (\E p \in Policies : SetPolicy(p))
            \/ (\E d \in Extensions, request \in Requests : SubscribeBegins(d, request))
            \/ UNCHANGED deliveryVars
  BY <1>9, <1>10 DEF Broadcast, DelayElapses, SetPolicy, SubscribeBegins, bufferVars, taskVars,
     deliveryVars
<1> QED
  BY <1>3, <1>4, <1>5, <1>6, <1>7, <1>8, <1>10 DEF DeliveryNext, TaskStep

-----------------------------------------------------------------------------
(* The theorems. *)

LEMMA InvInit == DeliveryInit => DeliveryInv
<1> SUFFICES ASSUME DeliveryInit PROVE DeliveryInv
  OBVIOUS
<1>1. Shape
  BY ShapeInit
<1>2. DOMAIN buffer = {} /\ DOMAIN tasks = {}
  BY DEF DeliveryInit
<1>3. NewestWait
  BY <1>2 DEF NewestWait
<1>4. \A e \in Extensions : Received(e) = {} /\ Buffered(e) = {}
  BY <1>2, NothingInEmpty DEF DeliveryInit, Received, Buffered
<1>5. IdleFlush.to = {} /\ IdleFlush.batch = << >>
  BY DEF IdleFlush
<1>6. UnsentIsNowhere
  BY <1>2, <1>4, <1>5, NothingInEmpty DEF DeliveryInit, UnsentIsNowhere
<1>7. OnePlace
  BY <1>2, <1>4, <1>5 DEF DeliveryInit, OnePlace
<1>8. InTurn
  BY <1>2, NothingIsInOrder DEF DeliveryInit, InTurn, TurnOf
<1> QED
  BY <1>1, <1>3, <1>6, <1>7, <1>8 DEF DeliveryInv

LEMMA InvStep == DeliveryInv /\ [DeliveryNext]_deliveryVars => DeliveryInv'
BY ShapeStep, NewestStep, PlacesStep, TurnStep DEF DeliveryInv

\* The invariant behind the theorems below: what every buffer, task and flush of
\* telemetry_state.rs holds of the events, and in which order, in every reachable state.
THEOREM DeliveryInvariant == DeliverySpec => []DeliveryInv
BY InvInit, InvStep, PTL DEF DeliverySpec

\* The types of the simulator's telemetry state.
THEOREM DeliveryTyped == DeliverySpec => []DeliveryTypeOK
<1>1. DeliveryInv => DeliveryTypeOK
  BY ShapeIsTyped DEF DeliveryInv
<1> QED
  BY <1>1, DeliveryInvariant, PTL

LEMMA NewestIsSuffix == DeliveryInv => BufferIsNewest
<1> SUFFICES ASSUME DeliveryInv, NEW e \in DOMAIN buffer
             PROVE  Len(buffer[e]) <= MaxItems /\ IsSuffix(buffer[e], pushed[e])
  BY DEF BufferIsNewest
<1>1. buffer[e] \in Seq(Events) /\ pushed[e] \in Seq(Events)
  BY DEF DeliveryInv, Shape, BuffersShape
<1>2. Len(buffer[e]) <= MaxItems /\ EndsWith(pushed[e], buffer[e])
  BY DEF DeliveryInv, NewestWait
<1> QED
  BY <1>1, <1>2, EndIsSuffix

\* What waits in a buffer is the newest of what was buffered for the extension, in order
\* and no more than max_items of it (buffer_event, telemetry_state.rs), whatever the
\* number of extensions, subscriptions and events and the size of the buffer.
THEOREM BufferKeepsNewest == DeliverySpec => []BufferIsNewest
BY DeliveryInvariant, NewestIsSuffix, PTL

LEMMA OccursInside ==
    ASSUME NEW s, NEW n, Occurrences(n, s) >= 1
    PROVE  n \in ToSet(s)
<1> SUFFICES ASSUME n \notin ToSet(s) PROVE FALSE
  OBVIOUS
<1>1. {i \in DOMAIN s : s[i] = n} = {}
  BY DEF ToSet
<1>2. Occurrences(n, s) = 0
  BY <1>1, FS_EmptySet DEF Occurrences
<1> QED
  BY <1>2

LEMMA OccursMore ==
    ASSUME NEW s \in Seq(Events), NEW t \in Seq(Events), NEW r, r = s \o t, NEW n,
           Occurrences(n, r) > Occurrences(n, s)
    PROVE  n \in ToSet(t)
<1> SUFFICES ASSUME n \notin ToSet(t) PROVE FALSE
  OBVIOUS
<1>1. /\ r \in Seq(Events) /\ Len(r) = Len(s) + Len(t) /\ Len(s) \in Nat /\ Len(t) \in Nat
      /\ \A i \in 1 .. Len(r) : r[i] = IF i <= Len(s) THEN s[i] ELSE t[i - Len(s)]
  BY ConcatAdds
<1>2. ASSUME NEW i \in 1 .. Len(r), r[i] = n PROVE i \in 1 .. Len(s) /\ s[i] = n
  <2>1. CASE i <= Len(s)
    BY <1>1, <1>2, <2>1
  <2>2. CASE ~(i <= Len(s))
    <3>1. i - Len(s) \in 1 .. Len(t) /\ t[i - Len(s)] = n
      BY <1>1, <1>2, <2>2
    <3> QED
      BY <3>1, Places
  <2> QED
    BY <2>1, <2>2
<1>3. ASSUME NEW i \in 1 .. Len(s), s[i] = n PROVE i \in 1 .. Len(r) /\ r[i] = n
  BY <1>1, <1>3
<1>4. DOMAIN s = 1 .. Len(s) /\ DOMAIN r = 1 .. Len(r)
  BY <1>1
<1>5. {i \in DOMAIN r : r[i] = n} = {i \in DOMAIN s : s[i] = n}
  BY <1>2, <1>3, <1>4
<1>6. Occurrences(n, r) = Occurrences(n, s)
  BY <1>5 DEF Occurrences
<1>7. IsFiniteSet({i \in DOMAIN s : s[i] = n})
  <2>1. IsFiniteSet(1 .. Len(s))
    BY <1>1, FS_Interval
  <2> QED
    BY <1>4, <2>1, FS_Subset
<1>8. Occurrences(n, s) \in Nat
  BY <1>7, FS_CardinalityType DEF Occurrences
<1> QED
  BY <1>6, <1>8

LEMMA NotMore ==
    ASSUME NEW s \in Seq(Events), NEW n
    PROVE  ~(Occurrences(n, s) > Occurrences(n, s))
<1>1. IsFiniteSet({i \in DOMAIN s : s[i] = n})
  <2>1. DOMAIN s = 1 .. Len(s) /\ Len(s) \in Nat
    OBVIOUS
  <2>2. IsFiniteSet(DOMAIN s)
    BY <2>1, FS_Interval
  <2> QED
    BY <2>2, FS_Subset
<1>2. Occurrences(n, s) \in Nat
  BY <1>1, FS_CardinalityType DEF Occurrences
<1> QED
  BY <1>2

LEMMA StepDeliversOnce ==
    ASSUME DeliveryInv, [DeliveryNext]_deliveryVars, NEW e \in Extensions, NEW n \in Events,
           Occurrences(n, received[e]) >= 1,
           Occurrences(n, received'[e]) > Occurrences(n, received[e])
    PROVE  e \in flush.to /\ flush.attempts > 0
<1> USE DEF DeliveryInv, Shape
<1>1. n \in Received(e) /\ received[e] \in Seq(Events)
  BY OccursInside DEF Received, FlushShape
<1>2. CASE \E t \in DOMAIN tasks, outcome \in Outcomes : PostEnds(t, outcome)
  <2>1. PICK t \in DOMAIN tasks, outcome \in Outcomes : PostEnds(t, outcome)
    BY <1>2
  <2> DEFINE a == Accepted(outcome, tasks[t].batch)
  <2>2. received' = [received EXCEPT ![tasks[t].ext] = @ \o a]
    BY <2>1 DEF PostEnds
  <2>3. a \in Seq(Events) /\ ToSet(a) \subseteq Carried(t)
    <3>1. tasks[t] \in Tasks
      BY DEF TasksShape
    <3>2. tasks[t].batch \in Seq(Events)
      BY <3>1 DEF Tasks
    <3> QED
      BY <3>2, AcceptedIsBatch DEF Carried
  <2> HIDE DEF a
  <2>4. CASE e = tasks[t].ext
    <3>1. received'[e] = received[e] \o a
      BY <2>2, <2>4 DEF FlushShape
    <3>2. n \in ToSet(a)
      BY <1>1, <2>3, <3>1, OccursMore
    <3> QED
      BY <1>1, <2>3, <2>4, <3>2 DEF OnePlace
  <2>5. CASE e # tasks[t].ext
    BY <1>1, <2>2, <2>5, NotMore DEF FlushShape
  <2> QED
    BY <2>4, <2>5
<1>3. CASE \E outcome \in Outcomes : FlushAttempt(outcome)
  <2>1. PICK outcome \in Outcomes : FlushAttempt(outcome)
    BY <1>3
  <2> DEFINE a == Accepted(outcome, flush.batch)
  <2>2. received' = [d \in Extensions |-> received[d] \o IF d \in flush.to THEN a ELSE << >>]
    BY <2>1 DEF FlushAttempt
  <2>3. a \in Seq(Events) /\ ToSet(a) \subseteq ToSet(flush.batch)
    <3>1. flush.batch \in Seq(Events)
      BY DEF FlushShape, Flushes
    <3> QED
      BY <3>1, AcceptedIsBatch
  <2> HIDE DEF a
  <2>4. CASE e \in flush.to
    <3>1. received'[e] = received[e] \o a
      BY <2>2, <2>4
    <3>2. n \in ToSet(a)
      BY <1>1, <2>3, <3>1, OccursMore
    <3>3. flush.attempts # 0
      BY <1>1, <2>3, <2>4, <3>2 DEF OnePlace
    <3> QED
      BY <2>4, <3>3 DEF FlushShape, Flushes
  <2>5. CASE e \notin flush.to
    <3>1. received'[e] = received[e] \o << >> /\ << >> \in Seq(Events)
      BY <2>2, <2>5, NothingInEmpty
    <3>2. n \in ToSet(<< >>)
      BY <1>1, <3>1, OccursMore
    <3> QED
      BY <3>2, NothingInEmpty
  <2> QED
    BY <2>4, <2>5
<1>4. CASE received' = received
  BY <1>1, <1>4, NotMore
<1> QED
  BY <1>2, <1>3, <1>4 DEF DeliveryNext, Broadcast, DelayElapses, BufferEvent, SetPolicy,
     SubscribeBegins, SubscribeEnds, TaskStep, Tick, TakeSubscriptions, ShutdownBegins, FlushStep,
     FlushBegins, FlushTakes, ShutdownEnds, deliveryVars

\* Nothing is both sent and left to be sent again by the next tick, by the task of an
\* earlier subscription or by flush_all: only a retry of flush_all (telemetry_state.rs)
\* gives an extension an event that it has.
THEOREM OnlyRetriesDuplicate == DeliverySpec => DuplicateOnlyOnRetry
<1>1. DeliveryInv /\ [DeliveryNext]_deliveryVars =>
         [\A e \in Extensions, n \in Events :
             (Occurrences(n, received[e]) >= 1
                /\ Occurrences(n, received'[e]) > Occurrences(n, received[e]))
             => (e \in flush.to /\ flush.attempts > 0)]_deliveryVars
  BY StepDeliversOnce
<1> QED
  BY <1>1, DeliveryInvariant, PTL DEF DeliverySpec, DuplicateOnlyOnRetry

LEMMA OneMember ==
    ASSUME NEW S, Cardinality(S) = 1, IsFiniteSet(S), NEW x \in S, NEW y \in S
    PROVE  x = y
<1>1. S # {}
  OBVIOUS
<1>2. Cardinality(S \ {x}) = 0 /\ IsFiniteSet(S \ {x})
  BY FS_RemoveElement
<1>3. S \ {x} = {}
  BY <1>2, FS_EmptySet
<1> QED
  BY <1>3

LEMMA TurnIsOrder == DeliveryInv => OneTaskKeepsOrder
<1> SUFFICES ASSUME DeliveryInv, NEW e \in DOMAIN buffer, phase = "running",
                    Cardinality({t \in DOMAIN tasks : tasks[t].ext = e}) = 1,
                    NEW i \in DOMAIN received[e], NEW j \in DOMAIN received[e], i < j
             PROVE  \E a, b \in DOMAIN pushed[e] :
                       a < b /\ pushed[e][a] = received[e][i] /\ pushed[e][b] = received[e][j]
  BY DEF OneTaskKeepsOrder
<1>1. e \in Extensions
  BY DEF DeliveryInv, Shape, BuffersShape
<1> DEFINE own == {t \in DOMAIN tasks : tasks[t].ext = e}
<1>2. IsFiniteSet(own)
  <2>1. DOMAIN tasks = 1 .. Len(tasks) /\ Len(tasks) \in Nat
    BY DEF DeliveryInv, Shape, TasksShape
  <2>2. IsFiniteSet(DOMAIN tasks)
    BY <2>1, FS_Interval
  <2> QED
    BY <2>2, FS_Subset
<1>3. OneTask(e)
  <2>1. ASSUME NEW t \in own, NEW u \in own PROVE t = u
    <3> HIDE DEF own
    <3> QED
      BY <1>2, OneMember DEF own
  <2> QED
    BY <2>1 DEF OneTask
<1>4. InOrder(received[e], pushed[e])
  BY <1>1, <1>3 DEF DeliveryInv, InTurn, TurnOf
<1> QED
  BY <1>4 DEF InOrder, Before

\* The delivery task of an extension that subscribed once delivers in the order of the
\* buffering until the flush (start_delivery_task, telemetry_state.rs), though events
\* overflow and batches are lost.
THEOREM DeliveryKeepsOrder == DeliverySpec => []OneTaskKeepsOrder
BY DeliveryInvariant, TurnIsOrder, PTL
-----------------------------------------------------------------------------
(* Delivery tasks after the shutdown. *)

\* Until the shutdown the handle of an extension is that of its newest task.
HandlesNewest ==
    phase # "over" =>
        /\ \A t \in DOMAIN tasks : t <= handle[tasks[t].ext]
        /\ \A e \in Extensions : handle[e] # 0 => tasks[handle[e]].ext = e

\* A step of a delivery task leaves every task its extension, and an aborted one takes none.
LEMMA TaskStepKeepsOwners ==
    ASSUME Shape, NewestWait, NEW t \in DOMAIN tasks, TaskStep(t)
    PROVE  /\ DOMAIN tasks' = DOMAIN tasks /\ handle' = handle /\ phase' = phase
           /\ \A u \in DOMAIN tasks : tasks'[u].ext = tasks[u].ext
           /\ tasks[t].at # "aborted"
           /\ \A u \in DOMAIN tasks : u # t => tasks'[u] = tasks[u]
<1>1. tasks \in Seq(Tasks) /\ {"ticking", "drained", "posting"} \subseteq
        {"ticking", "drained", "posting", "aborted"}
  BY DEF Shape, TasksShape
<1>2. CASE Tick(t)
  <2>1. /\ buffer[tasks[t].ext] \in Seq(Events)
        /\ tasks' = [tasks EXCEPT ![t].at = "drained", ![t].batch = buffer[tasks[t].ext]]
    BY <1>2, TickMoves DEF Shape, BuffersShape
  <2> QED
    BY <1>1, <1>2, <2>1, TaskChanges DEF Tick
<1>3. CASE TakeSubscriptions(t)
  <2>1. tasks' = [tasks EXCEPT ![t].at = "posting"]
    BY <1>3 DEF TakeSubscriptions
  <2> QED
    BY <1>1, <1>3, <2>1, TaskMoves DEF TakeSubscriptions
<1>4. CASE \E outcome \in Outcomes : PostEnds(t, outcome)
  <2>1. tasks' = [tasks EXCEPT ![t].at = "ticking", ![t].batch = << >>]
    BY <1>4 DEF PostEnds
  <2> QED
    BY <1>1, <1>4, <2>1, NothingInEmpty, TaskChanges DEF PostEnds
<1> QED
  BY <1>2, <1>3, <1>4 DEF TaskStep

LEMMA HandlesStep ==
    ASSUME Shape, NewestWait, HandlesNewest, SurvivorsWereReplaced, [DeliveryNext]_deliveryVars
    PROVE  HandlesNewest' /\ SurvivorsWereReplaced'
<1>0. /\ DOMAIN tasks = 1 .. Len(tasks) /\ Len(tasks) \in Nat
      /\ handle \in [Extensions -> 0 .. Len(tasks)]
      /\ \A t \in DOMAIN tasks : tasks[t] \in Tasks /\ tasks[t].ext \in Extensions
  <2>1. /\ DOMAIN tasks = 1 .. Len(tasks) /\ Len(tasks) \in Nat
        /\ handle \in [Extensions -> 0 .. Len(tasks)]
        /\ \A t \in DOMAIN tasks : tasks[t] \in Tasks
    BY DEF Shape, TasksShape
  <2> QED
    BY <2>1 DEF Tasks
<1>1. CASE \E e \in Extensions : SubscribeEnds(e)
  <2>1. PICK e \in Extensions : SubscribeEnds(e)
    BY <1>1
  <2> DEFINE new == [ext |-> e, at |-> "ticking", batch |-> << >>]
             n == Len(tasks) + 1
  <2>2. new \in Tasks /\ new.ext = e
    BY NothingInEmpty DEF Tasks
  <2> HIDE DEF new
  <2>3. phase # "over" /\ phase' = phase /\ tasks' = Append(tasks, new)
        /\ handle' = [handle EXCEPT ![e] = Len(tasks')]
    BY <2>1 DEF SubscribeEnds, new
  <2>4. /\ Len(tasks') = n /\ DOMAIN tasks' = 1 .. n
        /\ tasks'[n] = new /\ \A t \in 1 .. Len(tasks) : tasks'[t] = tasks[t]
    BY <2>2, <2>3 DEF Shape, TasksShape
  <2>5. handle'[e] = n /\ \A d \in Extensions \ {e} : handle'[d] = handle[d]
    BY <1>0, <2>3, <2>4
  <2>6. ASSUME NEW t \in 1 .. n PROVE t <= handle'[tasks'[t].ext]
    <3>1. CASE t = n
      BY <1>0, <2>2, <2>4, <2>5, <3>1
    <3>2. CASE t \in 1 .. Len(tasks)
      <4>1. t <= handle[tasks[t].ext] /\ t <= n /\ tasks'[t] = tasks[t] /\ tasks[t].ext \in Extensions
        BY <1>0, <2>3, <2>4, <3>2 DEF HandlesNewest
      <4> QED
        BY <2>5, <4>1
    <3> QED
      BY <1>0, <3>1, <3>2
  <2>7. ASSUME NEW d \in Extensions, handle'[d] # 0 PROVE tasks'[handle'[d]].ext = d
    <3>1. CASE d = e
      BY <2>2, <2>4, <2>5, <3>1
    <3>2. CASE d # e
      <4>1. handle'[d] = handle[d] /\ handle[d] \in 1 .. Len(tasks)
        BY <1>0, <2>5, <2>7, <3>2
      <4> QED
        BY <2>3, <2>4, <2>7, <4>1 DEF HandlesNewest
    <3> QED
      BY <3>1, <3>2
  <2> QED
    BY <2>3, <2>4, <2>6, <2>7 DEF HandlesNewest, SurvivorsWereReplaced
<1>2. CASE \E t \in DOMAIN tasks : TaskStep(t)
  <2>1. PICK t \in DOMAIN tasks : TaskStep(t)
    BY <1>2
  <2>2. /\ DOMAIN tasks' = DOMAIN tasks /\ handle' = handle /\ phase' = phase
        /\ \A u \in DOMAIN tasks : tasks'[u].ext = tasks[u].ext
        /\ tasks[t].at # "aborted"
        /\ \A u \in DOMAIN tasks : u # t => tasks'[u] = tasks[u]
    BY <2>1, TaskStepKeepsOwners
  <2>3. HandlesNewest'
    <3>1. ASSUME NEW d \in Extensions, handle[d] # 0 PROVE handle[d] \in DOMAIN tasks
      BY <1>0, <3>1
    <3> QED
      BY <2>2, <3>1 DEF HandlesNewest
  <2>4. SurvivorsWereReplaced'
    <3> SUFFICES ASSUME phase = "over", NEW u \in DOMAIN tasks, tasks'[u].at # "aborted"
                 PROVE  \E v \in DOMAIN tasks : v > u /\ tasks'[v].ext = tasks'[u].ext
      BY <2>2 DEF SurvivorsWereReplaced
    <3>1. tasks[u].at # "aborted"
      BY <2>2
    <3>2. PICK v \in DOMAIN tasks : v > u /\ tasks[v].ext = tasks[u].ext
      BY <3>1 DEF SurvivorsWereReplaced
    <3> QED
      BY <2>2, <3>2
  <2> QED
    BY <2>3, <2>4
<1>3. CASE ShutdownEnds
  <2>1. /\ phase # "over" /\ phase' = "over" /\ AbortTasks
        /\ tasks' = [t \in DOMAIN tasks |->
                        IF handle[tasks[t].ext] = t THEN Aborted(tasks[t]) ELSE tasks[t]]
    BY <1>3 DEF ShutdownEnds, AbortTasks
  <2>2. DOMAIN tasks' = DOMAIN tasks /\ \A t \in DOMAIN tasks : tasks'[t].ext = tasks[t].ext
    BY <2>1, AbortKeepsTasks DEF Shape
  <2>3. ASSUME NEW t \in DOMAIN tasks, tasks'[t].at # "aborted"
        PROVE  \E u \in DOMAIN tasks : u > t /\ tasks[u].ext = tasks[t].ext
    <3> DEFINE u == handle[tasks[t].ext]
    <3>1. u # t
      <4>1. Aborted(tasks[t]).at = "aborted"
        BY <1>0 DEF Aborted, Tasks
      <4> QED
        BY <2>1, <2>3, <4>1
    <3>2. t <= u /\ u \in 0 .. Len(tasks) /\ t \in 1 .. Len(tasks) /\ tasks[t].ext \in Extensions
      BY <1>0, <2>1 DEF HandlesNewest
    <3>3. u > t /\ u \in DOMAIN tasks /\ u # 0
      BY <1>0, <3>1, <3>2
    <3>4. tasks[u].ext = tasks[t].ext
      BY <2>1, <3>2, <3>3 DEF HandlesNewest
    <3> QED
      BY <3>3, <3>4
  <2>4. SurvivorsWereReplaced'
    BY <2>2, <2>3 DEF SurvivorsWereReplaced
  <2> QED
    BY <2>1, <2>4 DEF HandlesNewest
<1>4. CASE UNCHANGED taskVars /\ (phase' = "over" <=> phase = "over")
  BY <1>4 DEF taskVars, HandlesNewest, SurvivorsWereReplaced
<1>5. CASE \/ Broadcast \/ (\E n \in Events : DelayElapses(n) \/ BufferEvent(n))
           \/ (\E p \in Policies : SetPolicy(p))
           \/ (\E e \in Extensions, request \in Requests : SubscribeBegins(e, request))
           \/ ShutdownBegins \/ FlushStep \/ UNCHANGED deliveryVars
  <2>1. FlushStep => UNCHANGED taskVars /\ (phase' = "over" <=> phase = "over")
    <3>1. FlushBegins => UNCHANGED taskVars /\ (phase' = "over" <=> phase = "over")
      BY DEF FlushBegins
    <3>2. (\E e \in flush.todo : FlushTakes(e)) =>
            UNCHANGED taskVars /\ (phase' = "over" <=> phase = "over")
      BY DEF FlushTakes
    <3>3. ASSUME NEW outcome \in Outcomes, FlushAttempt(outcome)
          PROVE  UNCHANGED taskVars /\ (phase' = "over" <=> phase = "over")
      <4>1. phase = "flushing"
        BY <3>3 DEF FlushAttempt, Shape, FlushShape
      <4>2. UNCHANGED taskVars /\ phase' \in {phase, "told"}
        BY <3>3 DEF FlushAttempt
      <4> QED
        BY <4>1, <4>2
    <3> QED
      BY <3>1, <3>2, <3>3 DEF FlushStep
  <2> QED
    BY <1>4, <1>5, <2>1 DEF Broadcast, DelayElapses, BufferEvent, SetPolicy, SubscribeBegins,
       ShutdownBegins, deliveryVars, taskVars
<1> QED
  BY <1>1, <1>2, <1>3, <1>5 DEF DeliveryNext

\* TelemetryState::shutdown aborts the newest task of every extension; what runs on is the
\* task of a subscription that another one replaced.
THEOREM OnlyReplacedSurvive == DeliverySpec => []SurvivorsWereReplaced
<1>1. DeliveryInit => HandlesNewest /\ SurvivorsWereReplaced
  BY DEF DeliveryInit, HandlesNewest, SurvivorsWereReplaced
<1>2. DeliveryInv /\ HandlesNewest /\ SurvivorsWereReplaced /\ [DeliveryNext]_deliveryVars
        => HandlesNewest' /\ SurvivorsWereReplaced'
  BY HandlesStep DEF DeliveryInv
<1> QED
  BY <1>1, <1>2, DeliveryInvariant, PTL DEF DeliverySpec
=============================================================================
