------------------------- MODULE FreezeStateProofs -------------------------
(***************************************************************************)
(* What TLAPS proves of FreezeState: that freezing and thawing leave the   *)
(* right processes running as long as the two do not overlap.  The number  *)
(* of processes, of report tasks and of invocations is arbitrary.          *)
(***************************************************************************)
EXTENDS FreezeState, FiniteSetTheorems, TLAPS

USE FreezeAssumption DEF FreezeAssumption

-----------------------------------------------------------------------------
(* The inductive invariant of operations that do not overlap. *)

ReportTask == [at : {"idle", "scheduled", "checked", "stopping"},
               epoch : Nat, next : Positions, any : BOOLEAN]

Thaw == [at : {"idle", "bumped", "continuing"},
         next : Positions, forced : BOOLEAN, failed : BOOLEAN]

\* The types, but for the bounds that Cardinality would be needed for.
Typed ==
    /\ epoch \in Nat /\ isFrozen \in BOOLEAN /\ work \in Nat
    /\ stopped \subseteq Pids \ gone /\ reaped \subseteq gone
    /\ freezer \in [Freezers -> ReportTask]
    /\ thawer \in [Thawers -> Thaw]
    /\ shut \in {"no", "begun", "reported"}

Stopping == {f \in Freezers : freezer[f].at = "stopping"}

Continuing == {t \in Thawers : thawer[t].at = "continuing"}

\* A thaw excludes every other operation, and one report task at most has the flag.
Separate ==
    /\ \A t, u \in Thawing : t = u
    /\ \A f \in Freezing, t \in Thawers : thawer[t].at = "idle"
    /\ \A f, g \in Stopping : f = g

\* The epoch that a report task captured: never ahead, and current once it is checked.
EpochsCaptured ==
    /\ \A f \in Freezers : freezer[f].epoch <= epoch
    /\ \A f \in Freezing : freezer[f].epoch = epoch

Stilled(p) == p \in stopped \cup gone

\* What the flag tells while the signals go out one by one, and processes end: a report
\* task at its SIGSTOPs has stilled those it has passed, and a thaw those it has not.
FlagFollowsSignals ==
    /\ \A f \in Freezers : freezer[f].at \in {"scheduled", "checked"} => freezer[f].next = 1
    /\ \A f \in Stopping :
          /\ isFrozen /\ (stopped # {} => freezer[f].any)
          /\ \A p \in Pids : p < freezer[f].next => Stilled(p)
    /\ \A t \in Thawers : thawer[t].at # "continuing" => thawer[t].next = 1
    /\ \A t \in Continuing : ~isFrozen /\ \A p \in stopped : p >= thawer[t].next
    /\ Stopping = {} /\ Continuing = {} =>
          (stopped # {} => isFrozen) /\ (isFrozen => \A p \in Pids : Stilled(p))

\* Between force_unfreeze and the next report task nothing can be stopped again.
ShutdownClears ==
    shut = "begun" =>
        /\ \A f \in Freezers : freezer[f].at # "idle" => freezer[f].epoch < epoch
        /\ \A t \in Thawing : thawer[t].forced
        /\ Thawing = {} => stopped = {}

FreezeInv == Typed /\ Separate /\ EpochsCaptured /\ FlagFollowsSignals /\ ShutdownClears

-----------------------------------------------------------------------------
(* The records. *)

LEMMA IdleRecords ==
    /\ IdleFreezer \in ReportTask /\ IdleThawer \in Thaw
    /\ IdleFreezer.at = "idle" /\ IdleFreezer.epoch = 0
    /\ IdleFreezer.next = 1 /\ ~IdleFreezer.any
    /\ IdleThawer.at = "idle"
    /\ IdleThawer.next = 1 /\ ~IdleThawer.forced /\ ~IdleThawer.failed
BY DEF IdleFreezer, IdleThawer, ReportTask, Thaw, Positions

\* One signal more from a report task, and from a thaw.
LEMMA NextStop ==
    ASSUME NEW r \in ReportTask, NEW b \in BOOLEAN, r.next \in Pids
    PROVE  /\ [r EXCEPT !.next = @ + 1, !.any = b] \in ReportTask
           /\ [r EXCEPT !.next = @ + 1, !.any = b].at = r.at
           /\ [r EXCEPT !.next = @ + 1, !.any = b].epoch = r.epoch
           /\ [r EXCEPT !.next = @ + 1, !.any = b].any = b
           /\ [r EXCEPT !.next = @ + 1, !.any = b].next = r.next + 1
<1>1. r.next + 1 \in Positions
  BY DEF Positions, Pids
<1> QED
  BY <1>1 DEF ReportTask

LEMMA NextContinue ==
    ASSUME NEW r \in Thaw, NEW b \in BOOLEAN, r.next \in Pids
    PROVE  /\ [r EXCEPT !.next = @ + 1, !.failed = b] \in Thaw
           /\ [r EXCEPT !.next = @ + 1, !.failed = b].at = r.at
           /\ [r EXCEPT !.next = @ + 1, !.failed = b].next = r.next + 1
           /\ [r EXCEPT !.next = @ + 1, !.failed = b].forced = r.forced
<1>1. r.next + 1 \in Positions
  BY DEF Positions, Pids
<1> QED
  BY <1>1 DEF Thaw

\* A report task at work on its own record leaves the others' alone.
LEMMA OneFreezer ==
    ASSUME Typed, NEW f \in Freezers, NEW next \in ReportTask,
           freezer' = [freezer EXCEPT ![f] = next]
    PROVE  /\ freezer' \in [Freezers -> ReportTask]
           /\ freezer'[f] = next
           /\ \A g \in Freezers \ {f} : freezer'[g] = freezer[g]
BY DEF Typed

LEMMA OneThawer ==
    ASSUME Typed, NEW t \in Thawers, NEW next \in Thaw,
           thawer' = [thawer EXCEPT ![t] = next]
    PROVE  /\ thawer' \in [Thawers -> Thaw]
           /\ thawer'[t] = next
           /\ \A u \in Thawers \ {t} : thawer'[u] = thawer[u]
BY DEF Typed

-----------------------------------------------------------------------------
LEMMA InitEstablishesFreezeInv == FreezeInit => FreezeInv
<1> SUFFICES ASSUME FreezeInit PROVE FreezeInv
  OBVIOUS
<1> USE DEF FreezeInit, IdleFreezer, IdleThawer
<1>1. Typed
  <2>1. epoch \in Nat /\ work \in Nat /\ stopped \subseteq Pids \ gone /\ reaped \subseteq gone
        /\ shut \in {"no", "begun", "reported"}
    OBVIOUS
  <2>2. isFrozen \in BOOLEAN
    BY Zenon
  <2>3. IdleFreezer \in ReportTask /\ IdleThawer \in Thaw
    BY DEF ReportTask, Thaw, Positions
  <2> QED
    BY <2>1, <2>2, <2>3 DEF Typed
<1>2. Freezing = {} /\ Thawing = {} /\ Stopping = {} /\ Continuing = {}
  BY DEF Freezing, Thawing, Stopping, Continuing
<1> QED
  BY <1>1, <1>2 DEF FreezeInv, Separate, EpochsCaptured, FlagFollowsSignals, ShutdownClears

\* A process ends, stopped or not, and its status is taken: it stays stilled.
LEMMA ExitPreserves ==
    ASSUME FreezeInv, NEW p \in Pids, ProcessExits(p) \/ ProcessReaped(p)
    PROVE  FreezeInv'
<1>1. /\ UNCHANGED <<epoch, isFrozen, freezer, thawer, enqueued, work, shut>>
      /\ stopped' \subseteq stopped /\ \A q : Stilled(q) => Stilled(q)'
  BY DEF ProcessExits, ProcessReaped, Stilled
<1>2. Typed'
  BY <1>1 DEF FreezeInv, Typed, ProcessExits, ProcessReaped
<1>3. Separate' /\ EpochsCaptured' /\ ShutdownClears'
  BY <1>1 DEF FreezeInv, Separate, EpochsCaptured, ShutdownClears, Freezing, Thawing, Stopping
<1>4. FlagFollowsSignals'
  BY <1>1 DEF FreezeInv, FlagFollowsSignals, Stopping, Continuing
<1> QED
  BY <1>2, <1>3, <1>4 DEF FreezeInv

LEMMA ReportPreserves ==
    ASSUME FreezeInv, NEW f \in Freezers, ReportScheduled(f)
    PROVE  FreezeInv'
<1> DEFINE captured == [IdleFreezer EXCEPT !.at = "scheduled", !.epoch = epoch]
<1> USE DEF FreezeInv, ReportScheduled
<1>1. /\ captured \in ReportTask /\ captured.at = "scheduled"
      /\ captured.epoch = epoch /\ captured.next = 1
  BY IdleRecords DEF ReportTask, Typed
<1>2. freezer' = [freezer EXCEPT ![f] = captured]
  OBVIOUS
<1> HIDE DEF captured
<1>3. /\ freezer' \in [Freezers -> ReportTask] /\ freezer'[f] = captured
      /\ \A g \in Freezers \ {f} : freezer'[g] = freezer[g]
  BY <1>1, <1>2, OneFreezer
<1>4. Typed'
  BY <1>3 DEF Typed
<1>5. Separate' /\ EpochsCaptured'
  BY <1>1, <1>3 DEF Typed, Separate, EpochsCaptured, Freezing, Thawing, Stopping
<1>6. FlagFollowsSignals'
  BY <1>1, <1>3 DEF Typed, FlagFollowsSignals, Stilled, Stopping, Continuing
<1>7. ShutdownClears'
  BY <1>1, <1>3 DEF Typed, ShutdownClears, Thawing
<1> QED
  BY <1>4, <1>5, <1>6, <1>7

\* Only a report task of the current epoch goes on to freeze, and no thaw is under way.
LEMMA CheckPreserves ==
    ASSUME ~Overlap, FreezeInv, NEW f \in Freezers, CheckEpoch(f)
    PROVE  FreezeInv'
<1> DEFINE next == IF freezer[f].epoch = epoch THEN [freezer[f] EXCEPT !.at = "checked"]
                                               ELSE IdleFreezer
<1> USE DEF FreezeInv, CheckEpoch, MayFreeze
<1>1. /\ next \in ReportTask
      /\ \/ next.at = "idle" /\ next.epoch = 0
         \/ /\ next.at = "checked" /\ next.epoch = epoch /\ freezer[f].epoch = epoch
            /\ next.next = freezer[f].next
  BY IdleRecords DEF ReportTask, Typed
<1>2. freezer' = [freezer EXCEPT ![f] = next]
  BY DEF Typed
<1> HIDE DEF next
<1>3. /\ freezer' \in [Freezers -> ReportTask] /\ freezer'[f] = next
      /\ \A g \in Freezers \ {f} : freezer'[g] = freezer[g]
  BY <1>1, <1>2, OneFreezer
<1>4. Typed'
  BY <1>3 DEF Typed
<1>5. Separate' /\ EpochsCaptured'
  BY <1>1, <1>3 DEF Typed, Separate, EpochsCaptured, Freezing, Thawing, Stopping
<1>6. FlagFollowsSignals'
  BY <1>1, <1>3 DEF Typed, FlagFollowsSignals, Stilled, Stopping, Continuing
<1>7. ShutdownClears'
  BY <1>1, <1>3 DEF Typed, ShutdownClears, Thawing
<1> QED
  BY <1>4, <1>5, <1>6, <1>7

\* Whoever sets the flag finds no process stopped, and is alone in stopping them.
LEMMA TakeFlagPreserves ==
    ASSUME FreezeInv, NEW f \in Freezers, TakeFlag(f)
    PROVE  FreezeInv'
<1> DEFINE next == IF isFrozen THEN IdleFreezer ELSE [freezer[f] EXCEPT !.at = "stopping"]
<1> USE DEF FreezeInv, TakeFlag
<1>1. /\ next \in ReportTask
      /\ isFrozen => next.at = "idle" /\ next.epoch = 0
      /\ ~isFrozen => next.at = "stopping" /\ next.epoch = freezer[f].epoch
                        /\ next.next = freezer[f].next
  BY IdleRecords DEF ReportTask, Typed
<1>2. freezer' = [freezer EXCEPT ![f] = next]
  BY DEF Typed
<1> HIDE DEF next
<1>3. /\ freezer' \in [Freezers -> ReportTask] /\ freezer'[f] = next
      /\ \A g \in Freezers \ {f} : freezer'[g] = freezer[g]
  BY <1>1, <1>2, OneFreezer
<1>4. Typed'
  <2>1. isFrozen' \in BOOLEAN
    BY Zenon
  <2> QED
    BY <1>3, <2>1 DEF Typed
<1>5. Separate' /\ EpochsCaptured'
  BY <1>1, <1>3 DEF Typed, Separate, EpochsCaptured, FlagFollowsSignals, Freezing, Thawing,
                    Stopping
<1>6. FlagFollowsSignals'
  BY <1>1, <1>3 DEF Typed, Separate, FlagFollowsSignals, Stilled, Freezing, Thawing,
                    Stopping, Continuing, Pids
<1>7. ShutdownClears'
  BY <1>1, <1>3 DEF Typed, ShutdownClears, Thawing
<1> QED
  BY <1>4, <1>5, <1>6, <1>7

\* SIGSTOP to one process: the report task remembers whether it stopped any.
LEMMA StopPreserves ==
    ASSUME FreezeInv, NEW f \in Freezers, Stop(f)
    PROVE  FreezeInv'
<1> DEFINE any == freezer[f].any \/ freezer[f].next \notin reaped
           next == [freezer[f] EXCEPT !.next = @ + 1, !.any = any]
<1> USE DEF FreezeInv, Stop
<1>1. freezer[f] \in ReportTask /\ freezer[f].next \in Pids /\ f \in Stopping /\ f \in Freezing
  BY DEF Typed, Stopping, Freezing
<1>2. /\ next \in ReportTask
      /\ next.at = "stopping" /\ next.epoch = freezer[f].epoch
      /\ next.any = any /\ next.next = freezer[f].next + 1
  <2>1. any \in BOOLEAN
    BY Zenon
  <2> QED
    BY ZenonT(40), <1>1, <2>1, NextStop DEF Stopping
<1>3. freezer' = [freezer EXCEPT ![f] = next]
  BY DEF Typed
<1> HIDE DEF next
<1>4. /\ freezer' \in [Freezers -> ReportTask] /\ freezer'[f] = next
      /\ \A g \in Freezers \ {f} : freezer'[g] = freezer[g]
  BY <1>2, <1>3, OneFreezer
<1>5. Typed'
  BY <1>1, <1>4 DEF Typed
<1>6. Separate' /\ EpochsCaptured'
  BY <1>1, <1>2, <1>4 DEF Typed, Separate, EpochsCaptured, Freezing, Thawing, Stopping
<1>7. stopped' # {} => any
  <2>1. stopped # {} => freezer[f].any
    BY <1>1 DEF FlagFollowsSignals
  <2>2. freezer[f].next \in reaped => freezer[f].next \in gone
    BY DEF Typed
  <2>3. stopped' = stopped \cup ({freezer[f].next} \ gone)
    OBVIOUS
  <2> QED
    BY Zenon, <2>1, <2>2, <2>3
<1>8. FlagFollowsSignals'
  <2>1. Stopping' = {f} /\ Continuing' = {}
    BY <1>1, <1>2, <1>4 DEF Separate, Stopping, Continuing
  <2>2. \A g \in Freezers : freezer'[g].at \in {"scheduled", "checked"} => freezer'[g].next = 1
    BY <1>2, <1>4 DEF FlagFollowsSignals
  <2>3. isFrozen' /\ (stopped' # {} => freezer'[f].any)
    BY <1>1, <1>2, <1>4, <1>7 DEF FlagFollowsSignals
  <2>4. ASSUME NEW p \in Pids, p < freezer'[f].next PROVE Stilled(p)'
    <3>1. p < freezer[f].next \/ p = freezer[f].next
      BY <1>1, <1>2, <1>4, <2>4 DEF Pids
    <3>2. Stilled(p) => Stilled(p)'
      BY DEF Stilled
    <3> QED
      BY <1>1, <3>1, <3>2 DEF FlagFollowsSignals, Stilled
  <2>5. \A t \in Thawers : thawer'[t].at # "continuing" => thawer'[t].next = 1
    BY DEF FlagFollowsSignals
  <2> QED
    BY <2>1, <2>2, <2>3, <2>4, <2>5 DEF FlagFollowsSignals
<1>9. ShutdownClears'
  BY <1>1, <1>2, <1>4 DEF Typed, EpochsCaptured, ShutdownClears, Thawing, Freezing
<1> QED
  BY <1>5, <1>6, <1>8, <1>9

\* The report task leaves the flag set if it stopped a process that still is, and then all
\* that live are stopped; if no signal was accepted it takes the flag back.
LEMMA FreezeEndPreserves ==
    ASSUME FreezeInv, NEW f \in Freezers, FreezeEnds(f)
    PROVE  FreezeInv'
<1> USE DEF FreezeInv, FreezeEnds
<1>1. f \in Stopping /\ f \in Freezing
  BY DEF Stopping, Freezing
<1>2. /\ freezer' \in [Freezers -> ReportTask] /\ freezer'[f] = IdleFreezer
      /\ \A g \in Freezers \ {f} : freezer'[g] = freezer[g]
  BY IdleRecords, OneFreezer
<1>3. (stopped # {} => isFrozen') /\ \A p \in Pids : Stilled(p)
  <2>1. freezer[f].next = NumPids + 1
    BY DEF Typed, ReportTask, Positions, Pids
  <2>2. /\ stopped # {} => isFrozen /\ freezer[f].any
        /\ \A p \in Pids : p < freezer[f].next => Stilled(p)
    BY <1>1 DEF FlagFollowsSignals
  <2>3. stopped # {} => isFrozen'
    BY Zenon, <2>2
  <2>4. \A p \in Pids : p < NumPids + 1
    BY DEF Pids
  <2> QED
    BY <2>1, <2>2, <2>3, <2>4
<1>4. Typed'
  <2>1. isFrozen' \in BOOLEAN
    BY Zenon
  <2> QED
    BY <1>2, <2>1 DEF Typed
<1>5. Separate' /\ EpochsCaptured'
  BY <1>2, IdleRecords DEF Typed, Separate, EpochsCaptured, Freezing, Thawing, Stopping
<1>6. FlagFollowsSignals'
  BY <1>1, <1>2, <1>3, IdleRecords DEF Typed, Separate, FlagFollowsSignals, Stilled, Freezing,
                                       Thawing, Stopping, Continuing
<1>7. ShutdownClears'
  BY <1>2, IdleRecords DEF Typed, ShutdownClears, Thawing
<1> QED
  BY <1>4, <1>5, <1>6, <1>7

-----------------------------------------------------------------------------
(* The steps of a thaw. *)

\* The new epoch: what report tasks have captured is out of date from here on.
LEMMA ThawBeginPreserves ==
    ASSUME ~Overlap, FreezeInv, NEW t \in Thawers, EnqueueBegins(t) \/ ShutdownBegins(t)
    PROVE  FreezeInv'
<1> USE DEF FreezeInv, EnqueueBegins, ShutdownBegins, MayThaw
<1>1. Freezing = {} /\ Thawing = {} /\ Stopping = {} /\ Continuing = {} /\ shut = "no"
  BY DEF Freezing, Thawing, Stopping, Continuing
<1>2. PICK next \in Thaw : /\ thawer' = [thawer EXCEPT ![t] = next]
                           /\ next.at = "bumped" /\ next.next = thawer[t].next
                           /\ shut' = "begun" => next.forced
  <2>1. CASE EnqueueBegins(t)
    <3> DEFINE next == [thawer[t] EXCEPT !.at = "bumped"]
    <3>1. next \in Thaw /\ next.at = "bumped" /\ next.next = thawer[t].next
      BY DEF Typed, Thaw
    <3>2. thawer' = [thawer EXCEPT ![t] = next] /\ shut' = "no"
      BY <1>1, <2>1
    <3> QED
      BY <3>1, <3>2
  <2>2. CASE ShutdownBegins(t)
    <3> DEFINE next == [thawer[t] EXCEPT !.at = "bumped", !.forced = TRUE]
    <3>1. next \in Thaw /\ next.at = "bumped" /\ next.next = thawer[t].next /\ next.forced
      BY DEF Typed, Thaw
    <3>2. thawer' = [thawer EXCEPT ![t] = next]
      BY <2>2
    <3> QED
      BY <3>1, <3>2
  <2> QED
    BY <2>1, <2>2
<1>3. /\ thawer' \in [Thawers -> Thaw] /\ thawer'[t] = next
      /\ \A u \in Thawers \ {t} : thawer'[u] = thawer[u]
  BY <1>2, OneThawer
<1>4. epoch' = epoch + 1 /\ shut' \in {"no", "begun"}
      /\ UNCHANGED <<isFrozen, stopped, gone, reaped, freezer, work>>
  BY <1>1
<1>5. Typed'
  BY <1>3, <1>4 DEF Typed
<1>6. Separate' /\ EpochsCaptured'
  BY <1>1, <1>2, <1>3, <1>4 DEF Typed, ReportTask, Separate, EpochsCaptured, Freezing, Thawing,
                                Stopping
<1>7. FlagFollowsSignals'
  <2>1. Stopping' = {} /\ Continuing' = {}
    BY <1>1, <1>2, <1>3, <1>4 DEF Stopping, Continuing
  <2>2. \A u \in Thawers : thawer'[u].next = 1
    BY <1>1, <1>2, <1>3 DEF FlagFollowsSignals, Continuing
  <2> QED
    BY <1>1, <1>4, <2>1, <2>2 DEF FlagFollowsSignals, Stilled
<1>8. ShutdownClears'
  <2>1. \A f \in Freezers : freezer[f].epoch < epoch'
    BY <1>4 DEF Typed, ReportTask, EpochsCaptured
  <2>2. Thawing' = {t}
    BY <1>1, <1>2, <1>3 DEF Thawing
  <2> QED
    BY <1>2, <1>3, <1>4, <2>1, <2>2 DEF ShutdownClears
<1> QED
  BY <1>5, <1>6, <1>7, <1>8

\* The flag goes down before the signals: without it there is nobody to continue.
LEMMA SwapPreserves ==
    ASSUME FreezeInv, NEW t \in Thawers, SwapFlag(t)
    PROVE  FreezeInv'
<1> DEFINE goesOn == isFrozen \/ thawer[t].forced
           next == IF goesOn THEN [thawer[t] EXCEPT !.at = "continuing"] ELSE IdleThawer
<1> USE DEF FreezeInv, SwapFlag
<1>1. t \in Thawing /\ Freezing = {} /\ Stopping = {} /\ Continuing = {}
  BY DEF Typed, Separate, Thawing, Freezing, Stopping, Continuing
<1>2. /\ next \in Thaw
      /\ goesOn => next.at = "continuing" /\ next.next = thawer[t].next
                     /\ next.forced = thawer[t].forced
      /\ ~goesOn => next.at = "idle" /\ next.next = 1
  BY IdleRecords DEF Typed, Thaw
<1>3. thawer' = [thawer EXCEPT ![t] = next]
  BY DEF Typed
<1>4. ~goesOn => stopped = {}
  BY <1>1 DEF FlagFollowsSignals
<1>5. ~isFrozen' /\ work' \in Nat /\ UNCHANGED <<epoch, stopped, gone, reaped, freezer, shut>>
  BY DEF Typed
<1>6. thawer[t].next = 1
  BY DEF FlagFollowsSignals
<1> HIDE DEF next, goesOn
<1>7. /\ thawer' \in [Thawers -> Thaw] /\ thawer'[t] = next
      /\ \A u \in Thawers \ {t} : thawer'[u] = thawer[u]
  BY <1>2, <1>3, OneThawer
<1>8. Typed'
  <2>1. isFrozen' \in BOOLEAN
    BY Zenon
  <2> QED
    BY <1>5, <1>7, <2>1 DEF Typed
<1>9. Separate' /\ EpochsCaptured'
  BY <1>1, <1>2, <1>5, <1>7 DEF Typed, Separate, EpochsCaptured, Freezing, Thawing, Stopping
<1>10. FlagFollowsSignals'
  <2>0. Stopping' = {} /\ Continuing' \subseteq {t}
    BY <1>1, <1>5, <1>7 DEF Stopping, Continuing
  <2>1. ~goesOn => Continuing' = {}
    BY <2>0, <1>2, <1>7 DEF Continuing
  <2>2. \A u \in Thawers : thawer'[u].next = 1
    BY <1>1, <1>2, <1>6, <1>7, IdleRecords DEF FlagFollowsSignals, Continuing
  <2>3. \A p \in stopped' : p >= 1
    BY <1>5 DEF Typed, Pids
  <2>4. goesOn => Continuing' = {t}
    BY <1>1, <1>2, <1>7 DEF Continuing
  <2> QED
    BY <1>4, <1>5, <2>0, <2>1, <2>2, <2>3, <2>4 DEF FlagFollowsSignals
<1>11. ShutdownClears'
  BY <1>1, <1>2, <1>4, <1>5, <1>7 DEF Typed, ShutdownClears, Thawing
<1> QED
  BY <1>8, <1>9, <1>10, <1>11

\* SIGCONT to one process: those before the next one are running.
LEMMA ContinuePreserves ==
    ASSUME FreezeInv, NEW t \in Thawers, Continue(t)
    PROVE  FreezeInv'
<1> DEFINE failed == thawer[t].failed \/ thawer[t].next \in reaped
           next == [thawer[t] EXCEPT !.next = @ + 1, !.failed = failed]
<1> USE DEF FreezeInv, Continue
<1>1. /\ t \in Thawing /\ t \in Continuing /\ Freezing = {} /\ Stopping = {}
      /\ thawer[t] \in Thaw /\ thawer[t].next \in Pids
  BY DEF Typed, Separate, Thawing, Freezing, Stopping, Continuing
<1>2. /\ next \in Thaw /\ next.at = "continuing" /\ next.next = thawer[t].next + 1
      /\ next.forced = thawer[t].forced
  <2>1. failed \in BOOLEAN
    BY Zenon
  <2> QED
    BY <1>1, <2>1, NextContinue DEF Continuing
<1>3. thawer' = [thawer EXCEPT ![t] = next]
  BY DEF Typed
<1> HIDE DEF next
<1>4. /\ thawer' \in [Thawers -> Thaw] /\ thawer'[t] = next
      /\ \A u \in Thawers \ {t} : thawer'[u] = thawer[u]
  BY <1>2, <1>3, OneThawer
<1>5. Typed'
  BY <1>4 DEF Typed
<1>6. Separate' /\ EpochsCaptured'
  BY <1>1, <1>2, <1>4 DEF Typed, Separate, EpochsCaptured, Freezing, Thawing, Stopping
<1>7. \A p \in stopped' : p >= thawer[t].next + 1
  BY <1>1 DEF FlagFollowsSignals, Typed, Pids
<1>8. FlagFollowsSignals'
  BY <1>1, <1>2, <1>4, <1>7 DEF Typed, FlagFollowsSignals, Stopping, Continuing, Separate, Thawing
<1>9. ShutdownClears'
  BY <1>1, <1>2, <1>4 DEF Typed, ShutdownClears, Thawing
<1> QED
  BY <1>5, <1>6, <1>8, <1>9

\* When every process has had its signal, none is stopped.
LEMMA ThawEndPreserves ==
    ASSUME FreezeInv, NEW t \in Thawers, ThawEnds(t)
    PROVE  FreezeInv' /\ stopped' = {}
<1> USE DEF FreezeInv, ThawEnds
<1>1. t \in Thawing /\ t \in Continuing /\ Freezing = {} /\ Stopping = {}
  BY DEF Typed, Separate, Thawing, Freezing, Stopping, Continuing
<1>2. thawer[t].next = NumPids + 1
  BY DEF Typed, Thaw, Positions, Pids
<1>3. stopped = {}
  BY <1>1, <1>2 DEF FlagFollowsSignals, Typed, Pids
<1>4. /\ thawer' \in [Thawers -> Thaw] /\ thawer'[t] = IdleThawer
      /\ \A u \in Thawers \ {t} : thawer'[u] = thawer[u]
  BY IdleRecords, OneThawer
<1>5. Typed'
  BY <1>4 DEF Typed
<1>6. Separate' /\ EpochsCaptured'
  BY <1>1, <1>4, IdleRecords DEF Typed, Separate, EpochsCaptured, Freezing, Thawing, Stopping
<1>7. FlagFollowsSignals'
  BY <1>1, <1>3, <1>4, IdleRecords DEF Typed, FlagFollowsSignals, Stopping, Continuing, Separate,
                                       Thawing
<1>8. ShutdownClears'
  BY <1>3, <1>4, IdleRecords DEF Typed, ShutdownClears, Thawing
<1> QED
  BY <1>3, <1>5, <1>6, <1>7, <1>8

LEMMA StepPreservesFreezeInv ==
    ASSUME ~Overlap
    PROVE  FreezeInv /\ [FreezeNext]_freezeVars => FreezeInv'
<1> SUFFICES ASSUME FreezeInv, [FreezeNext]_freezeVars
             PROVE  FreezeInv'
  OBVIOUS
<1>1. CASE \E p \in Pids : ProcessExits(p) \/ ProcessReaped(p)
  BY <1>1, ExitPreserves
<1>2. ASSUME NEW f \in Freezers,
             ReportScheduled(f) \/ CheckEpoch(f) \/ TakeFlag(f) \/ Stop(f) \/ FreezeEnds(f)
      PROVE  FreezeInv'
  BY <1>2, ReportPreserves, CheckPreserves, TakeFlagPreserves, StopPreserves, FreezeEndPreserves
<1>3. ASSUME NEW t \in Thawers,
             EnqueueBegins(t) \/ ShutdownBegins(t) \/ SwapFlag(t) \/ Continue(t) \/ ThawEnds(t)
      PROVE  FreezeInv'
  BY <1>3, ThawBeginPreserves, SwapPreserves, ContinuePreserves, ThawEndPreserves
<1>4. CASE UNCHANGED freezeVars
  BY <1>4 DEF freezeVars, FreezeInv, Typed, Separate, EpochsCaptured, FlagFollowsSignals,
              Stilled, ShutdownClears, Freezing, Thawing, Stopping, Continuing
<1> QED
  BY <1>1, <1>2, <1>3, <1>4 DEF FreezeNext

\* The inductive invariant holds in every reachable state.
THEOREM FreezeInvariant ==
    ASSUME ~Overlap
    PROVE  FreezeSpec => []FreezeInv
<1>1. FreezeInit => FreezeInv
  BY InitEstablishesFreezeInv
<1>2. FreezeInv /\ [FreezeNext]_freezeVars => FreezeInv'
  BY StepPreservesFreezeInv
<1> QED
  BY <1>1, <1>2, PTL DEF FreezeSpec

\* Between operations no process is stopped with the flag clear, and none that lives runs
\* with the flag set (freeze.rs:155), for every number of processes and of pending
\* invocations, and whichever of the processes end, stopped or not, in whatever order.
THEOREM FlagIsTrue ==
    ASSUME ~Overlap
    PROVE  FreezeSpec => []FlagTellsTruth
<1>1. FreezeInv => FlagTellsTruth
  BY DEF FreezeInv, FlagFollowsSignals, Stilled, FlagTellsTruth, Stopping, Continuing,
         Freezing, Thawing
<1> QED
  BY <1>1, FreezeInvariant, PTL

\* force_unfreeze leaves every process running, and the report tasks that were waiting
\* when it came stop none (freeze.rs, force_unfreeze; simulator.rs, graceful_shutdown).
THEOREM ShutdownThaws ==
    ASSUME ~Overlap
    PROVE  FreezeSpec => []ShutdownLeavesRunning
<1>1. FreezeInv => ShutdownLeavesRunning
  BY DEF FreezeInv, ShutdownClears, ShutdownLeavesRunning, Freezing, Thawing
<1> QED
  BY <1>1, FreezeInvariant, PTL
-----------------------------------------------------------------------------
(* One invocation at a time. *)

\* From the beginning of a thaw for an invocation to the end of the one before it there is
\* nothing to do, and a report task that may still freeze was spawned in that time.
OneAtATime ==
    /\ work <= 1
    /\ \A t \in Thawing : ~thawer[t].forced => work = 0
    /\ \A f \in Freezers :
          (freezer[f].at # "idle" /\ freezer[f].epoch = epoch) =>
             work = 0 /\ \A t \in Thawing : thawer[t].forced
    /\ NoStopWithWork

LEMMA InitOneAtATime == FreezeInit => OneAtATime
BY DEF FreezeInit, IdleFreezer, IdleThawer, OneAtATime, NoStopWithWork, Thawing

\* A report task's own step gives it no newer epoch, and stops nothing while there is work.
LEMMA FreezerKeepsOneAtATime ==
    ASSUME ~Overlap, FreezeInv, OneAtATime, NEW f \in Freezers,
           ReportScheduled(f) \/ CheckEpoch(f) \/ TakeFlag(f) \/ Stop(f) \/ FreezeEnds(f)
    PROVE  OneAtATime'
<1> USE DEF FreezeInv
<1>1. CASE ReportScheduled(f)
  <2>1. work = 1 /\ work' = 0 /\ UNCHANGED <<epoch, thawer, stopped>>
    BY <1>1 DEF ReportScheduled, OneAtATime, Typed
  <2>2. \A t \in Thawing : thawer[t].forced
    BY <2>1 DEF OneAtATime
  <2> QED
    BY <2>1, <2>2 DEF OneAtATime, NoStopWithWork, Thawing
<1>2. CASE CheckEpoch(f) \/ TakeFlag(f) \/ Stop(f) \/ FreezeEnds(f)
  <2>1. UNCHANGED <<epoch, work, thawer>>
    BY <1>2 DEF CheckEpoch, TakeFlag, Stop, FreezeEnds
  <2>2. \A g \in Freezers : freezer'[g].at # "idle" =>
           freezer[g].at # "idle" /\ freezer'[g].epoch = freezer[g].epoch
    BY <1>2, IdleRecords DEF CheckEpoch, TakeFlag, Stop, FreezeEnds, Typed, ReportTask
  <2>3. NoStopWithWork'
    <3>1. CASE Stop(f)
      <4>1. freezer[f].epoch = epoch
        BY <3>1 DEF Stop, EpochsCaptured, Freezing
      <4>2. work = 0
        BY <3>1, <4>1 DEF Stop, OneAtATime
      <4> QED
        BY <2>1, <4>2 DEF NoStopWithWork
    <3>2. CASE CheckEpoch(f) \/ TakeFlag(f) \/ FreezeEnds(f)
      BY <2>1, <3>2 DEF CheckEpoch, TakeFlag, FreezeEnds, OneAtATime, NoStopWithWork, Thawing
    <3> QED
      BY <1>2, <3>1, <3>2
  <2> QED
    BY <2>1, <2>2, <2>3 DEF OneAtATime, Thawing
<1> QED
  BY <1>1, <1>2

\* A thaw puts every epoch captured so far out of date, and hands over work when it ends.
LEMMA ThawerKeepsOneAtATime ==
    ASSUME ~Overlap, MaxPending <= 1, FreezeInv, OneAtATime, NEW t \in Thawers,
           EnqueueBegins(t) \/ ShutdownBegins(t) \/ SwapFlag(t) \/ Continue(t) \/ ThawEnds(t)
    PROVE  OneAtATime'
<1> USE DEF FreezeInv
<1>1. CASE EnqueueBegins(t) \/ ShutdownBegins(t)
  <2>1. Thawing = {} /\ epoch' = epoch + 1 /\ UNCHANGED <<work, freezer, stopped>>
    BY <1>1 DEF EnqueueBegins, ShutdownBegins, MayThaw
  <2>2. \A f \in Freezers : freezer'[f].epoch # epoch'
    BY <2>1 DEF EpochsCaptured, Typed, ReportTask
  <2>3. Thawing' = {t}
    BY <1>1, <2>1 DEF EnqueueBegins, ShutdownBegins, Thawing, Typed, Thaw
  <2>4. ~thawer'[t].forced => work = 0
    <3>1. CASE EnqueueBegins(t)
      <4>1. Cardinality(Thawing) = 0
        BY <2>1, FS_EmptySet
      <4> QED
        BY <3>1, <4>1 DEF EnqueueBegins, Typed
    <3>2. CASE ShutdownBegins(t)
      BY <3>2 DEF ShutdownBegins, Typed, Thaw
    <3> QED
      BY <1>1, <3>1, <3>2
  <2> QED
    BY <2>1, <2>2, <2>3, <2>4 DEF OneAtATime, NoStopWithWork
<1>2. CASE Continue(t)
  <2>1. /\ UNCHANGED <<epoch, work, freezer>> /\ thawer'[t].at = thawer[t].at
        /\ thawer'[t].forced = thawer[t].forced
        /\ \A u \in Thawers \ {t} : thawer'[u] = thawer[u]
    BY <1>2 DEF Continue, Typed, Thaw
  <2>2. t \in Thawing
    BY <1>2 DEF Continue, Thawing
  <2>3. Thawing' = Thawing /\ \A u \in Thawing : thawer'[u].forced = thawer[u].forced
    BY <2>1 DEF Thawing
  <2> QED
    BY <2>1, <2>2, <2>3 DEF OneAtATime, NoStopWithWork
<1>3. CASE SwapFlag(t)
  <2>1. t \in Thawing /\ Thawing = {t} /\ UNCHANGED <<epoch, freezer, stopped>>
    BY <1>3 DEF SwapFlag, Thawing, Separate
  <2>2. CASE isFrozen \/ thawer[t].forced
    <3>1. UNCHANGED work /\ thawer'[t].at # "idle" /\ thawer'[t].forced = thawer[t].forced
      BY <1>3, <2>2 DEF SwapFlag, Typed, Thaw
    <3>2. Thawing' = {t}
      BY <1>3, <2>1, <2>2, <3>1 DEF SwapFlag, Typed, Thawing
    <3> QED
      BY <2>1, <3>1, <3>2 DEF OneAtATime, NoStopWithWork
  <2>3. CASE ~isFrozen /\ ~thawer[t].forced
    <3>1. work' = 1
      BY <1>3, <2>1, <2>3 DEF SwapFlag, OneAtATime
    <3>2. Thawing' = {}
      BY <1>3, <2>1, <2>3, IdleRecords DEF SwapFlag, Typed, Thawing
    <3>3. \A f \in Freezers : freezer[f].at # "idle" => freezer[f].epoch # epoch
      BY <2>1, <2>3 DEF OneAtATime
    <3>4. Stopping = {} /\ Continuing = {}
      BY <1>3, <2>1 DEF SwapFlag, Separate, Stopping, Continuing, Thawing, Freezing
    <3>5. stopped = {}
      BY <2>3, <3>4 DEF FlagFollowsSignals
    <3> QED
      BY <2>1, <3>1, <3>2, <3>3, <3>5 DEF OneAtATime, NoStopWithWork
  <2> QED
    BY <2>2, <2>3
<1>4. CASE ThawEnds(t)
  <2>1. t \in Thawing /\ Thawing = {t} /\ UNCHANGED <<epoch, freezer>>
    BY <1>4 DEF ThawEnds, Thawing, Separate
  <2>2. Thawing' = {} /\ stopped' = {}
    BY <1>4, <2>1, IdleRecords, ThawEndPreserves DEF ThawEnds, Typed, Thawing
  <2>3. \/ work' = work
        \/ ~thawer[t].forced /\ work' = work + 1
    BY <1>4 DEF ThawEnds
  <2>4. ~thawer[t].forced =>
           work = 0 /\ \A f \in Freezers : freezer[f].at # "idle" => freezer[f].epoch # epoch
    BY <2>1 DEF OneAtATime
  <2> QED
    BY <2>1, <2>2, <2>3, <2>4 DEF OneAtATime, NoStopWithWork, Typed
<1> QED
  BY <1>1, <1>2, <1>3, <1>4

\* No process is stopped while the invocation that was enqueued waits for it, although
\* the report task of the one before it may still be about to freeze (freeze.rs:65-67).
\* One invocation is pending at a time: of two, the report task of the first captures
\* an epoch to which the second belongs already.
THEOREM WorkFindsProcessesRunning ==
    ASSUME ~Overlap, MaxPending <= 1
    PROVE  FreezeSpec => []NoStopWithWork
<1>1. FreezeInit => OneAtATime
  BY InitOneAtATime
<1>2. FreezeInv /\ OneAtATime /\ [FreezeNext]_freezeVars => OneAtATime'
  <2> SUFFICES ASSUME FreezeInv, OneAtATime, [FreezeNext]_freezeVars
               PROVE  OneAtATime'
    OBVIOUS
  <2>1. CASE \E p \in Pids : ProcessExits(p) \/ ProcessReaped(p)
    BY <2>1 DEF ProcessExits, ProcessReaped, OneAtATime, NoStopWithWork, Thawing
  <2>2. CASE UNCHANGED freezeVars
    BY <2>2 DEF freezeVars, OneAtATime, NoStopWithWork, Thawing
  <2> QED
    BY <2>1, <2>2, FreezerKeepsOneAtATime, ThawerKeepsOneAtATime DEF FreezeNext
<1>3. OneAtATime => NoStopWithWork
  BY DEF OneAtATime
<1> QED
  BY <1>1, <1>2, <1>3, FreezeInvariant, PTL DEF FreezeSpec
=============================================================================
