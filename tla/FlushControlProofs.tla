------------------------- MODULE FlushControlProofs -------------------------
(***************************************************************************)
(* What TLAPS proves of FlushControl: the handler's deadlines, for every   *)
(* budget, timeout, backoff, interval, strategy and answer of the          *)
(* collector, however the signals and the ticks fall.                      *)
(***************************************************************************)
EXTENDS FlushControl, TLAPS

USE ControlAssumption, ManagerAssumption, ExporterAssumption

-----------------------------------------------------------------------------
(* The inductive invariant. *)

ExportRecord == [at : {"idle", "head", "attempt", "backoff", "done"}, attempt : Nat,
                 backoff : Nat, due : Nat, deadline : Nat, result : Results]

Windows == [since : Nat, until : Nat, limit : Nat]

Timed ==
    /\ now \in Nat /\ endpoint \in BOOLEAN /\ export \in ExportRecord
    /\ lastFlush \in Nat \cup {Never} /\ lastFlush <= now
    /\ pc \in {"parked", "hold", "settle", "flush", "processing", "final", "gone"}
    /\ after \in {"parked", "hold"}
    /\ pending \in Nat /\ oldest \in Nat \cup {Never}
    /\ wake \in Nat \cup {Never} /\ deadline \in Nat
    /\ window \in Windows \cup {NoWindow}

\* An export is of the flush in progress, and waits no longer than that may take.
ExportInTime ==
    /\ export.at # "idle" => pc \in {"flush", "final"} /\ export.deadline = deadline
    /\ Waiting => now <= export.due /\ export.due <= deadline

DeadlineKept ==
    /\ pc \in {"flush", "final"} => now <= deadline
    /\ pc = "processing" => now <= wake /\ wake <= deadline

Holds == pc \in {"hold", "settle"} \/ (pc = "flush" /\ after = "hold")

\* The window leaves a flush budget before the function's deadline.  It may be over when
\* a flush returns, and then no tick is due: the next flush is the last.
WindowKept ==
    /\ Holds => window # NoWindow
    /\ pc = "parked" => window = NoWindow
    /\ window # NoWindow =>
          /\ window.until + FlushBudget <= window.limit
          /\ pc = "hold" => /\ now <= window.limit
                            /\ now <= window.until \/ wake = Never \/ now < wake
          /\ pc = "settle" => now <= wake /\ wake <= window.limit + Settle
          /\ pc = "flush" /\ after = "hold" => deadline <= window.limit
          /\ pc = "flush" => deadline <= window.limit + Settle + FlushBudget

Periodic == strategy \in {"periodic", "continuous"}

Patience == Most(Interval, TickFloor)

\* The tick comes when the interval is over, and before the oldest signal is too old.
TickInTime ==
    pc = "hold" /\ Periodic =>
        /\ wake # Never /\ now <= wake /\ wake <= now + Patience
        /\ lastFlush # Never => lastFlush + Interval <= wake
        /\ pending > 0 => wake <= Most(oldest, window.since) + Patience

ControlInv == Timed /\ ExportInTime /\ DeadlineKept /\ WindowKept /\ TickInTime

-----------------------------------------------------------------------------
(* Constants, records, ticks. *)

LEMMA Numbers ==
    /\ FlushBudget \in Nat /\ Settle \in Nat /\ ShutdownMargin \in Nat
    /\ ProcessingCap \in Nat /\ TickFloor \in Nat /\ TickFloor > 0
    /\ MinBudget \in Nat /\ MinBudget > 0 /\ Timeout \in Nat /\ InitialBackoff \in Nat
    /\ Interval \in Nat /\ Interval > 0 /\ Patience \in Nat /\ Never = -1 /\ Never \notin Nat
BY DEF ControlAssumption, ManagerAssumption, ExporterAssumption, Patience, Most, Never

LEMMA IdleIsExport == Idle \in ExportRecord /\ Idle.at = "idle"
BY Numbers DEF Idle, ExportRecord, Results

LEMMA NoWindowIsNone == NoWindow \notin Windows
<1>1. NoWindow.since \notin Nat
  BY Numbers DEF NoWindow
<1> QED
  BY <1>1 DEF Windows

\* time_until_periodic_flush never asks for the current instant.
LEMMA TickAhead ==
    ASSUME Timed
    PROVE  /\ NextTick \in Nat \cup {Never}
           /\ ~Periodic => NextTick = Never
           /\ Periodic => /\ NextTick > now /\ NextTick <= now + Patience
                          /\ lastFlush # Never => lastFlush + Interval <= NextTick
<1>1. now \in Nat /\ lastFlush \in Nat \cup {Never} /\ lastFlush <= now
  BY DEF Timed
<1>2. /\ TimeUntilNextFlush(now) \in Nat /\ TimeUntilNextFlush(now) <= Interval
      /\ lastFlush # Never => lastFlush + Interval <= now + TimeUntilNextFlush(now)
  BY <1>1, Numbers DEF TimeUntilNextFlush, IntervalElapsed
<1>3. CASE Periodic
  <2>1. NextTick = now + Most(TimeUntilNextFlush(now), TickFloor)
    BY <1>3 DEF Periodic, NextTick
  <2>2. /\ Most(TimeUntilNextFlush(now), TickFloor) \in Nat
        /\ Most(TimeUntilNextFlush(now), TickFloor) >= TickFloor
        /\ Most(TimeUntilNextFlush(now), TickFloor) >= TimeUntilNextFlush(now)
        /\ Most(TimeUntilNextFlush(now), TickFloor) <= Patience
    BY <1>2, Numbers DEF Most, Patience
  <2> HIDE DEF Patience
  <2> QED
    BY <1>1, <1>2, <1>3, <2>1, <2>2, Numbers
<1>4. CASE ~Periodic
  BY <1>4, Numbers DEF Periodic, NextTick
<1> QED
  BY <1>3, <1>4

LEMMA InitEstablishesControlInv == ControlInit => ControlInv
<1> SUFFICES ASSUME ControlInit PROVE ControlInv
  OBVIOUS
<1> USE DEF ControlInit, ExporterInit, ManagerInit
<1>1. Timed
  BY IdleIsExport, Numbers DEF Timed
<1>2. ExportInTime /\ DeadlineKept /\ WindowKept /\ TickInTime
  BY IdleIsExport DEF ExportInTime, DeadlineKept, WindowKept, TickInTime, Holds, Waiting
<1> QED
  BY <1>1, <1>2 DEF ControlInv

-----------------------------------------------------------------------------
(* Time, signals, completion. *)

\* Time stops at whatever the handler waits for.
LEMMA PassPreserves ==
    ASSUME ControlInv, Pass
    PROVE  ControlInv'
<1> USE DEF ControlInv
<1>1. /\ now' = now + 1 /\ now \in Nat
      /\ UNCHANGED <<endpoint, export, strategy, lastFlush, pending, oldest, after, deadline,
                     window, pc, wake>>
  BY DEF Pass, managerVars, signalVars, flushVars, holdVars, Timed
<1>2. /\ pc # "gone"
      /\ pc = "hold" => now < window.until /\ now # wake
      /\ pc \in {"settle", "processing"} => now < wake
      /\ pc \in {"flush", "final"} => Waiting /\ now < export.due
  BY DEF Pass, Timed
<1>3. Timed'
  BY <1>1, Numbers DEF Timed
<1>4. export.due \in Nat /\ deadline \in Nat
  BY DEF Timed, ExportRecord
<1>5. Waiting => pc \in {"flush", "final"}
  BY DEF ExportInTime, Waiting
<1>6. ExportInTime' /\ DeadlineKept'
  BY <1>1, <1>2, <1>4, <1>5, Numbers DEF Timed, ExportInTime, DeadlineKept, Waiting
<1>7. WindowKept'
  <2>1. CASE window = NoWindow
    BY <1>1, <2>1 DEF WindowKept, Holds
  <2>2. CASE window # NoWindow
    <3>1. window.until \in Nat /\ window.limit \in Nat
      BY <2>2 DEF Timed, Windows
    <3> QED
      BY <1>1, <1>2, <2>2, <3>1, Numbers DEF Timed, WindowKept, Holds
  <2> QED
    BY <2>1, <2>2
<1>8. TickInTime'
  BY <1>1, <1>2, Numbers DEF Timed, TickInTime, Periodic
<1> QED
  BY <1>3, <1>6, <1>7, <1>8

\* A signal that arrives in a hold is young enough for the tick that is set.
LEMMA SignalPreserves ==
    ASSUME ControlInv, SignalArrives
    PROVE  ControlInv'
<1> USE DEF ControlInv
<1>1. /\ pending' = pending + 1 /\ oldest' = IF pending = 0 THEN now ELSE oldest
      /\ UNCHANGED <<now, endpoint, export, strategy, lastFlush, after, deadline, window, pc,
                     wake>>
  BY DEF SignalArrives, clockVars, managerVars, flushVars, holdVars
<1>2. Timed'
  BY <1>1 DEF Timed
<1>3. ExportInTime' /\ DeadlineKept' /\ WindowKept'
  BY <1>1 DEF ExportInTime, DeadlineKept, WindowKept, Holds, Waiting
<1>4. TickInTime'
  <2> SUFFICES ASSUME pc = "hold", Periodic
               PROVE  wake <= Most(oldest', window.since) + Patience
    BY <1>1 DEF TickInTime, Periodic
  <2>1. window \in Windows
    BY DEF Timed, WindowKept, Holds
  <2>2. window.since \in Nat /\ wake \in Nat
    BY <2>1, Numbers DEF Windows, Timed, TickInTime
  <2>3. CASE pending = 0
    <3>1. oldest' = now /\ wake <= now + Patience
      BY <1>1, <2>3 DEF TickInTime
    <3> QED
      BY <2>2, <3>1, Numbers DEF Most, Timed
  <2>4. CASE pending # 0
    BY <1>1, <2>4 DEF TickInTime, Timed
  <2> QED
    BY <2>3, <2>4
<1> QED
  BY <1>2, <1>3, <1>4

\* Nothing but the clock, the handler's place and what it waits for matters here.
LEMMA OthersPreserve ==
    ASSUME ControlInv, CompletionArrives \/ UNCHANGED controlVars
    PROVE  ControlInv'
<1>1. UNCHANGED <<now, endpoint, export, strategy, lastFlush, pending, oldest, after, deadline,
                  window, pc, wake>>
  BY DEF CompletionArrives, controlVars, clockVars, managerVars, signalVars, flushVars, holdVars
<1> QED
  BY <1>1 DEF ControlInv, Timed, ExportInTime, DeadlineKept, WindowKept, TickInTime, Holds,
              Waiting, Periodic

-----------------------------------------------------------------------------
(* The hold and the flush after it. *)

\* The head of the hold's loop, wherever it is entered from: the tick is set, and the
\* oldest signal is not older than the hold if ticks are to flush it.
LEMMA HoldBegins ==
    ASSUME ControlInv, export.at = "idle",
           UNCHANGED <<now, endpoint, export, strategy, lastFlush>>,
           pc' = "hold", wake' = NextTick, after' \in {"parked", "hold"},
           pending' \in Nat, oldest' \in Nat \cup {Never}, deadline' \in Nat,
           window' \in Windows, window'.until + FlushBudget <= window'.limit,
           now <= window'.limit,
           Periodic /\ pending' > 0 => now <= Most(oldest', window'.since)
    PROVE  ControlInv'
<1>1. Timed
  BY DEF ControlInv
<1>2. /\ NextTick \in Nat \cup {Never}
      /\ ~Periodic => NextTick = Never
      /\ Periodic => /\ NextTick > now /\ NextTick <= now + Patience
                     /\ lastFlush # Never => lastFlush + Interval <= NextTick
  BY <1>1, TickAhead
<1>3. Timed'
  BY <1>1, <1>2 DEF Timed
<1>4. ExportInTime' /\ DeadlineKept'
  BY DEF ExportInTime, DeadlineKept, Waiting
<1>5. WindowKept'
  <2>1. window' # NoWindow
    BY NoWindowIsNone
  <2>2. now <= window'.until \/ NextTick = Never \/ now < NextTick
    BY <1>1, <1>2
  <2> QED
    BY <2>1, <2>2 DEF WindowKept, Holds
<1>6. TickInTime'
  <2> SUFFICES ASSUME Periodic
               PROVE  /\ NextTick # Never /\ now <= NextTick /\ NextTick <= now + Patience
                      /\ lastFlush # Never => lastFlush + Interval <= NextTick
                      /\ pending' > 0
                         => NextTick <= Most(oldest', window'.since) + Patience
    BY DEF TickInTime, Periodic
  <2>1. now \in Nat /\ window'.since \in Nat
    BY <1>1 DEF Timed, Windows
  <2>2. Most(oldest', window'.since) \in Int
    BY <2>1, Numbers DEF Most
  <2> QED
    BY <1>2, <2>1, <2>2, Numbers
<1> QED
  BY <1>3, <1>4, <1>5, <1>6 DEF ControlInv

\* The flush after an invocation begins a settle delay after its deadline at the latest.
LEMMA PostInvokePreserves ==
    ASSUME ControlInv, pc \in {"parked", "hold", "settle"},
           window # NoWindow => now <= window.limit + Settle,
           PostInvokeFlush, UNCHANGED <<now, endpoint, export, strategy, lastFlush>>
    PROVE  ControlInv'
<1> USE DEF ControlInv
<1>1. export.at = "idle"
  BY DEF ExportInTime
<1>2. now \in Nat /\ now + FlushBudget \in Nat
  BY Numbers DEF Timed
<1>3. CASE pending > 0 /\ WantsPostInvokeFlush
  <2>1. /\ pc' = "flush" /\ after' = "parked" /\ wake' = Never /\ pending' = 0
        /\ oldest' = Never /\ deadline' = now + FlushBudget /\ window' = window
    BY <1>3 DEF PostInvokeFlush, Drain, holdVars
  <2>2. Timed'
    BY <1>2, <2>1, Numbers DEF Timed
  <2>3. ExportInTime' /\ DeadlineKept'
    BY <1>1, <1>2, <2>1, Numbers DEF ExportInTime, DeadlineKept, Waiting
  <2>4. WindowKept'
    <3>1. window # NoWindow => window.limit \in Nat
      BY DEF Timed, Windows
    <3> QED
      BY <1>2, <2>1, <3>1, Numbers DEF WindowKept, Holds
  <2>5. TickInTime'
    BY <2>1 DEF TickInTime
  <2> QED
    BY <2>2, <2>3, <2>4, <2>5
<1>4. CASE ~(pending > 0 /\ WantsPostInvokeFlush)
  <2>1. /\ pc' = "parked" /\ after' = "parked" /\ wake' = Never /\ window' = NoWindow
        /\ UNCHANGED <<pending, oldest, deadline>>
    BY <1>4 DEF PostInvokeFlush, Park, signalVars
  <2>2. Timed'
    BY <2>1 DEF Timed
  <2>3. ExportInTime' /\ DeadlineKept' /\ WindowKept' /\ TickInTime'
    BY <1>1, <2>1 DEF ExportInTime, DeadlineKept, WindowKept, TickInTime, Waiting, Holds
  <2> QED
    BY <2>2, <2>3
<1> QED
  BY <1>3, <1>4

\* hold_deadline leaves a flush budget before the function's deadline.
LEMMA WindowFits ==
    ASSUME NEW allowance \in Nat, NEW cap \in Nat \cup {Never},
           HoldWindow(allowance, cap) > 0
    PROVE  /\ HoldWindow(allowance, cap) \in Nat
           /\ HoldWindow(allowance, cap) + FlushBudget <= allowance
BY Numbers DEF HoldWindow, Most, Least

LEMMA InvokePreserves ==
    ASSUME ControlInv, NEW allowance \in Allowances, NEW cap \in Caps, NEW hold \in BOOLEAN,
           Invoke(allowance, cap, hold)
    PROVE  ControlInv'
<1>1. /\ pc = "parked" /\ UNCHANGED <<now, endpoint, export, strategy, lastFlush>>
      /\ allowance \in Nat /\ cap \in Nat \cup {Never}
  BY DEF Invoke, RecordInvocation, clockVars, ControlAssumption
<1>2. Timed /\ window = NoWindow /\ export.at = "idle"
  BY <1>1 DEF ControlInv, WindowKept, ExportInTime
<1>3. CASE HoldWindow(allowance, cap) > 0 /\ hold
  <2> DEFINE w == [since |-> now, until |-> now + HoldWindow(allowance, cap),
                   limit |-> now + allowance]
  <2>1. /\ pc' = "hold" /\ wake' = NextTick /\ window' = w
        /\ UNCHANGED <<after, pending, oldest, deadline>>
    BY <1>3 DEF Invoke, HoldIn, signalVars, flushVars
  <2>2. /\ HoldWindow(allowance, cap) \in Nat
        /\ HoldWindow(allowance, cap) + FlushBudget <= allowance
    BY <1>1, <1>3, WindowFits
  <2>3. now \in Nat
    BY <1>2 DEF Timed
  <2>4. w \in Windows /\ w.since = now /\ now <= w.limit
        /\ w.until + FlushBudget <= w.limit
    BY <1>1, <2>2, <2>3, Numbers DEF Windows
  <2>5. ASSUME pending' > 0 PROVE now <= Most(oldest', w.since)
    BY <1>2, <2>1, <2>3, <2>4, Numbers DEF Most, Timed
  <2>6. /\ after' \in {"parked", "hold"} /\ pending' \in Nat
        /\ oldest' \in Nat \cup {Never} /\ deadline' \in Nat
    BY <1>2, <2>1 DEF Timed
  <2> HIDE DEF w
  <2> QED
    BY <1>1, <1>2, <2>1, <2>4, <2>5, <2>6, HoldBegins
<1>4. CASE ~(HoldWindow(allowance, cap) > 0 /\ hold)
  <2>1. PostInvokeFlush
    BY <1>4 DEF Invoke
  <2> QED
    BY <1>1, <1>2, <2>1, PostInvokePreserves
<1> QED
  BY <1>3, <1>4

LEMMA HoldCompletesPreserves ==
    ASSUME ControlInv, HoldCompletes
    PROVE  ControlInv'
<1> USE DEF ControlInv
<1>1. /\ pc = "hold" /\ pc' = "settle" /\ wake' = now + Settle
      /\ UNCHANGED <<now, endpoint, export, strategy, lastFlush, pending, oldest, after,
                     deadline, window>>
  BY DEF HoldCompletes, clockVars, managerVars, signalVars, flushVars, holdVars
<1>2. now \in Nat /\ export.at = "idle"
  BY <1>1 DEF Timed, ExportInTime
<1>3. Timed'
  BY <1>1, <1>2, Numbers DEF Timed
<1>4. ExportInTime' /\ DeadlineKept' /\ TickInTime'
  BY <1>1, <1>2 DEF ExportInTime, DeadlineKept, TickInTime, Waiting
<1>5. WindowKept'
  <2>1. window # NoWindow /\ window.limit \in Nat /\ now <= window.limit
    BY <1>1 DEF Timed, Windows, WindowKept, Holds
  <2> QED
    BY <1>1, <1>2, <2>1, Numbers DEF WindowKept, Holds
<1> QED
  BY <1>3, <1>4, <1>5

LEMMA SettledOrExpiredPreserves ==
    ASSUME ControlInv, SettledOrExpired
    PROVE  ControlInv'
<1>1. /\ pc \in {"settle", "hold"} /\ PostInvokeFlush
      /\ UNCHANGED <<now, endpoint, export, strategy, lastFlush>>
  BY DEF SettledOrExpired, clockVars, managerVars
<1>2. now <= window.limit + Settle
  <2>1. Timed /\ WindowKept /\ window # NoWindow /\ window.limit \in Nat
    BY <1>1 DEF ControlInv, Timed, Windows, WindowKept, Holds
  <2>2. CASE pc = "hold"
    BY <2>1, <2>2, Numbers DEF WindowKept, Timed
  <2>3. CASE pc = "settle"
    BY <2>1, <2>3, Numbers DEF WindowKept, Timed
  <2> QED
    BY <1>1, <2>2, <2>3
<1> QED
  BY <1>1, <1>2, PostInvokePreserves

\* A tick within the window leaves the flush its budget; a tick that flushes nothing has
\* nothing to flush, because the interval is over.
LEMMA HoldTicksPreserves ==
    ASSUME ControlInv, HoldTicks
    PROVE  ControlInv'
<1> USE DEF ControlInv
<1>1. /\ pc = "hold" /\ now = wake /\ now \in Nat /\ export.at = "idle"
      /\ UNCHANGED <<now, endpoint, export, strategy, lastFlush>>
  BY DEF HoldTicks, clockVars, managerVars, Timed, ExportInTime
<1>2. window \in Windows /\ window # NoWindow
  BY <1>1 DEF Timed, WindowKept, Holds
<1>3. window.until \in Nat /\ window.limit \in Nat
  BY <1>2 DEF Windows
<1>4. now <= window.until /\ window.until + FlushBudget <= window.limit
  BY <1>1, <1>2, Numbers DEF WindowKept
<1>5. CASE ShouldFlush(now, Never, pending, FALSE) # "none"
  <2>1. /\ pc' = "flush" /\ after' = "hold" /\ wake' = Never /\ pending' = 0
        /\ oldest' = Never /\ deadline' = now + FlushBudget /\ window' = window
    BY <1>5 DEF HoldTicks, Drain
  <2>2. deadline' \in Nat /\ now <= deadline' /\ deadline' <= window.limit
    BY <1>1, <1>3, <1>4, <2>1, Numbers
  <2>3. Timed'
    BY <1>1, <2>1, <2>2 DEF Timed
  <2>4. ExportInTime' /\ DeadlineKept' /\ TickInTime'
    BY <1>1, <2>1, <2>2 DEF ExportInTime, DeadlineKept, TickInTime, Waiting
  <2>5. deadline' <= window.limit + Settle + FlushBudget
    BY <1>3, <2>2, Numbers
  <2>6. WindowKept'
    BY <1>2, <1>4, <2>1, <2>2, <2>5 DEF WindowKept, Holds
  <2> QED
    BY <2>3, <2>4, <2>6
<1>6. CASE ~(ShouldFlush(now, Never, pending, FALSE) # "none")
  <2>1. /\ pc' = "hold" /\ wake' = NextTick /\ window' = window
        /\ UNCHANGED <<after, pending, oldest, deadline>>
    BY <1>6 DEF HoldTicks, HoldIn, signalVars, flushVars
  <2>2. now <= window.limit
    BY <1>1, <1>3, <1>4, Numbers
  <2>3. Periodic => pending = 0
    <3> SUFFICES ASSUME Periodic PROVE pending = 0
      OBVIOUS
    <3>1. IntervalElapsed(now)
      BY <1>1, Numbers DEF IntervalElapsed, TickInTime, Timed
    <3>2. EffectiveStrategy \in {"periodic", "continuous"}
      BY DEF EffectiveStrategy, Periodic
    <3> QED
      BY <1>6, <3>1, <3>2 DEF ShouldFlush
  <2>4. /\ after' \in {"parked", "hold"} /\ pending' \in Nat
        /\ oldest' \in Nat \cup {Never} /\ deadline' \in Nat
    BY <2>1 DEF Timed
  <2>5. Periodic /\ pending' > 0 => now <= Most(oldest', window'.since)
    BY <2>1, <2>3
  <2> QED
    BY <1>1, <1>2, <1>4, <2>1, <2>2, <2>4, <2>5, HoldBegins
<1> QED
  BY <1>5, <1>6

-----------------------------------------------------------------------------
(* flush_all and final_flush. *)

\* SHUTDOWN waits for processing no longer than is left until its deadline.
LEMMA ShutdownPreserves ==
    ASSUME ControlInv, NEW allowance \in Allowances, Shutdown(allowance)
    PROVE  ControlInv'
<1> USE DEF ControlInv
<1> DEFINE remaining == Most(allowance - ShutdownMargin, 0)
<1>1. /\ pc = "parked" /\ pc' = "processing" /\ deadline' = now + remaining
      /\ wake' = now + Least(remaining \div 4, ProcessingCap)
      /\ UNCHANGED <<now, endpoint, export, strategy, lastFlush, pending, oldest, after, window>>
  BY DEF Shutdown, clockVars, managerVars, signalVars, holdVars
<1>2. remaining \in Nat
  BY Numbers DEF Most, ControlAssumption
<1> HIDE DEF remaining
<1>3. /\ Least(remaining \div 4, ProcessingCap) \in Nat
      /\ Least(remaining \div 4, ProcessingCap) <= remaining
  BY <1>2, Numbers DEF Least
<1>4. now \in Nat /\ export.at = "idle" /\ window = NoWindow
  BY <1>1 DEF Timed, ExportInTime, WindowKept
<1>5. Timed'
  BY <1>1, <1>2, <1>3, <1>4 DEF Timed
<1>6. ExportInTime' /\ DeadlineKept'
  BY <1>1, <1>2, <1>3, <1>4, Numbers DEF ExportInTime, DeadlineKept, Waiting
<1>7. WindowKept' /\ TickInTime'
  BY <1>1, <1>4 DEF WindowKept, TickInTime, Holds
<1> QED
  BY <1>5, <1>6, <1>7

\* Steps of a flush that leave the handler where it is, or end the final flush: what the
\* windows and the ticks depend on does not change.
LEMMA FlushGoesOn ==
    ASSUME ControlInv, pc \in {"flush", "final"},
           UNCHANGED <<now, endpoint, strategy, after, deadline, window, wake>>,
           pc' = pc \/ (pc = "final" /\ pc' = "gone"),
           pending' \in Nat, oldest' \in Nat \cup {Never},
           lastFlush' \in {lastFlush, now},
           export' \in ExportRecord, ExportInTime'
    PROVE  ControlInv'
<1> USE DEF ControlInv
<1>1. Timed'
  BY DEF Timed
<1>2. DeadlineKept'
  BY DEF DeadlineKept
<1>3. WindowKept'
  BY DEF WindowKept, Holds
<1>4. TickInTime'
  BY DEF TickInTime
<1> QED
  BY <1>1, <1>2, <1>3, <1>4

LEMMA FinalFlushBeginsPreserves ==
    ASSUME ControlInv, FinalFlushBegins
    PROVE  ControlInv'
<1> USE DEF ControlInv
<1>1. /\ pc = "processing" /\ pc' = "final" /\ wake' = Never /\ deadline' = deadline
      /\ pending' = 0 /\ oldest' = Never
      /\ UNCHANGED <<now, endpoint, export, strategy, lastFlush, after, window>>
  BY DEF FinalFlushBegins, Drain, clockVars, managerVars, holdVars
<1>2. now <= deadline /\ export.at = "idle"
  BY <1>1, Numbers DEF DeadlineKept, ExportInTime, Timed
<1>3. Timed'
  BY <1>1 DEF Timed
<1>4. ExportInTime' /\ DeadlineKept' /\ WindowKept' /\ TickInTime'
  BY <1>1, <1>2 DEF ExportInTime, DeadlineKept, WindowKept, TickInTime, Waiting, Holds
<1> QED
  BY <1>3, <1>4

\* An export begins with the deadline of its flush.
LEMMA ExportNextPreserves ==
    ASSUME ControlInv, ExportNext
    PROVE  ControlInv'
<1>1. /\ pc \in {"flush", "final"} /\ Export(deadline)
      /\ UNCHANGED <<now, endpoint, strategy, lastFlush, pending, oldest, after, deadline,
                     window, pc, wake>>
  BY DEF ExportNext, clockVars, managerVars, signalVars, holdVars
<1>2. deadline \in Nat /\ pending \in Nat /\ oldest \in Nat \cup {Never}
  BY DEF ControlInv, Timed
<1>3. /\ export' \in ExportRecord /\ export'.at \in {"head", "done"}
      /\ export'.deadline = deadline
  BY <1>1, <1>2, Numbers DEF Export, Idle, ExportRecord, Results
<1>4. ExportInTime'
  BY <1>1, <1>3 DEF ExportInTime, Waiting
<1> QED
  BY <1>1, <1>2, <1>3, <1>4, FlushGoesOn

\* An attempt and a backoff are over when the export's deadline comes.
LEMMA ExportingPreserves ==
    ASSUME ControlInv, Exporting
    PROVE  ControlInv'
<1>1. /\ ExportStep
      /\ UNCHANGED <<now, endpoint, strategy, lastFlush, pending, oldest, after, deadline,
                     window, pc, wake>>
  BY DEF Exporting, clockVars, managerVars, signalVars, flushVars, holdVars
<1>2. /\ now \in Nat /\ deadline \in Nat /\ pending \in Nat /\ oldest \in Nat \cup {Never}
      /\ export \in ExportRecord
  BY DEF ControlInv, Timed
<1>3. export.at # "idle"
  BY <1>1 DEF ExportStep, BeginAttempt, AttemptTimesOut, AttemptAnswered, BackoffEnds
<1>4. pc \in {"flush", "final"} /\ export.deadline = deadline /\ now <= deadline
  BY <1>3 DEF ControlInv, ExportInTime, DeadlineKept
<1>5. /\ export.attempt \in Nat /\ export.backoff \in Nat /\ export.due \in Nat
      /\ export.deadline \in Nat
  BY <1>2 DEF ExportRecord
<1>6. ASSUME NEW result \in Results
      PROVE  /\ Finished(result) \in ExportRecord /\ Finished(result).at = "done"
             /\ Finished(result).deadline = deadline
  BY <1>2, <1>4 DEF Finished, ExportRecord
<1>7. ASSUME NEW large \in BOOLEAN PROVE EmitToStdout(large) \in Results
  BY DEF EmitToStdout, Results
<1> DEFINE Kept == /\ export' \in ExportRecord /\ export'.at # "idle"
                   /\ export'.deadline = deadline
                   /\ export'.at \in {"attempt", "backoff"}
                      => now <= export'.due /\ export'.due <= deadline
<1>8. ASSUME NEW large \in BOOLEAN, FailOrRetry(large) PROVE Kept
  <2>1. CASE MayRetry
    <3>1. export' = [export EXCEPT !.at = "backoff", !.due = now + export.backoff]
      BY <1>8, <2>1 DEF FailOrRetry
    <3>2. now + export.backoff \in Nat /\ now + export.backoff <= deadline
      BY <1>2, <1>4, <1>5, <2>1, Numbers DEF MayRetry
    <3>3. now <= now + export.backoff
      BY <1>2, <1>5
    <3> QED
      BY <1>2, <1>4, <3>1, <3>2, <3>3 DEF ExportRecord
  <2>2. CASE ~MayRetry
    <3>1. export' = Finished(EmitToStdout(large))
      BY <1>8, <2>2 DEF FailOrRetry
    <3> QED
      BY <1>6, <1>7, <3>1
  <2> QED
    BY <2>1, <2>2
<1>9. ASSUME NEW large \in BOOLEAN, BeginAttempt(large) PROVE Kept
  <2>1. CASE Remaining < MinBudget
    <3>1. export' = Finished(EmitToStdout(large))
      BY <1>9, <2>1 DEF BeginAttempt
    <3> QED
      BY <1>6, <1>7, <3>1
  <2>2. CASE ~(Remaining < MinBudget)
    <3>1. export' = [export EXCEPT !.at = "attempt", !.due = now + AttemptTimeout]
      BY <1>9, <2>2 DEF BeginAttempt
    <3>2. now + AttemptTimeout \in Nat /\ now + AttemptTimeout <= deadline
      BY <1>2, <1>4, Numbers DEF AttemptTimeout, Remaining
    <3>3. now <= now + AttemptTimeout
      BY <1>2, <1>4, Numbers DEF AttemptTimeout, Remaining
    <3> QED
      BY <1>2, <1>4, <3>1, <3>2, <3>3 DEF ExportRecord
  <2> QED
    BY <2>1, <2>2
<1>10. ASSUME NEW large \in BOOLEAN, NEW status \in Answers, AttemptAnswered(status, large)
       PROVE  Kept
  <2>1. CASE FailOrRetry(large)
    BY <1>8, <2>1
  <2>2. CASE export' = Finished("Success") \/ export' = Finished(EmitToStdout(large))
    BY <1>6, <1>7, <2>2 DEF Results
  <2> QED
    BY <1>10, <2>1, <2>2 DEF AttemptAnswered
<1>11. ASSUME NEW large \in BOOLEAN, AttemptTimesOut(large) PROVE Kept
  BY <1>8, <1>11 DEF AttemptTimesOut
<1>12. ASSUME BackoffEnds PROVE Kept
  <2>1. export' = [export EXCEPT !.at = "head", !.attempt = @ + 1, !.backoff = 2 * @]
    BY <1>12 DEF BackoffEnds
  <2>2. export.attempt + 1 \in Nat /\ 2 * export.backoff \in Nat
    BY <1>5
  <2> QED
    BY <1>2, <1>4, <2>1, <2>2 DEF ExportRecord
<1>13. Kept
  BY <1>1, <1>9, <1>10, <1>11, <1>12 DEF ExportStep
<1>14. ExportInTime'
  BY <1>1, <1>4, <1>13 DEF ExportInTime, Waiting
<1> QED
  BY <1>1, <1>2, <1>4, <1>13, <1>14, FlushGoesOn

LEMMA ExportReturnsPreserves ==
    ASSUME ControlInv, ExportReturns
    PROVE  ControlInv'
<1>1. /\ export.at = "done" /\ export' = Idle
      /\ UNCHANGED <<now, endpoint, strategy, pending, oldest, after, deadline, window, pc, wake>>
  BY DEF ExportReturns, RecordFlush, RecordFlushTimeout, clockVars, managerVars, signalVars,
         flushVars, holdVars
<1>2. lastFlush' \in {lastFlush, now}
  BY DEF ExportReturns, RecordFlush, RecordFlushTimeout, managerVars
<1>3. pc \in {"flush", "final"} /\ pending \in Nat /\ oldest \in Nat \cup {Never}
  BY <1>1 DEF ControlInv, ExportInTime, Timed
<1>4. ExportInTime'
  BY <1>1, IdleIsExport DEF ExportInTime, Waiting
<1> QED
  BY <1>1, <1>2, <1>3, <1>4, IdleIsExport, FlushGoesOn

\* The hold goes on with the flush's end as its beginning.
LEMMA FlushReturnsPreserves ==
    ASSUME ControlInv, FlushReturns
    PROVE  ControlInv'
<1>1. /\ pc = "flush" /\ export.at = "idle" /\ after' = "parked" /\ deadline' = 0
      /\ UNCHANGED <<now, endpoint, export, strategy, lastFlush, pending, oldest>>
  BY DEF FlushReturns, clockVars, managerVars, signalVars
<1>2. Timed /\ WindowKept /\ now \in Nat /\ now <= deadline /\ deadline \in Nat
  BY <1>1 DEF ControlInv, Timed, DeadlineKept
<1>3. CASE after = "hold"
  <2> DEFINE w == [window EXCEPT !.since = now]
  <2>1. pc' = "hold" /\ wake' = NextTick /\ window' = w
    BY <1>3 DEF FlushReturns, HoldIn
  <2>2. window \in Windows /\ window # NoWindow
    BY <1>1, <1>2, <1>3 DEF WindowKept, Holds, Timed
  <2>3. window.until + FlushBudget <= window.limit /\ now <= window.limit
    <3>1. window.limit \in Nat /\ deadline <= window.limit
      BY <1>1, <1>2, <1>3, <2>2 DEF WindowKept, Windows
    <3> QED
      BY <1>2, <2>2, <3>1 DEF WindowKept
  <2>4. /\ w \in Windows /\ w.since = now /\ w.until = window.until
        /\ w.limit = window.limit
    BY <1>2, <2>2 DEF Windows
  <2> HIDE DEF w
  <2>5. pending \in Nat /\ oldest \in Nat \cup {Never}
    BY <1>2 DEF Timed
  <2>6. now <= Most(oldest', w.since)
    BY <1>1, <1>2, <2>4, <2>5, Numbers DEF Most
  <2>7. window' \in Windows /\ window'.until + FlushBudget <= window'.limit
        /\ now <= window'.limit
    BY <2>1, <2>3, <2>4
  <2> QED
    BY <1>1, <2>1, <2>5, <2>6, <2>7, HoldBegins
<1>4. CASE after # "hold"
  <2>1. pc' = "parked" /\ window' = NoWindow /\ wake' = Never
    BY <1>4 DEF FlushReturns, Park
  <2>2. Timed'
    BY <1>1, <1>2, <2>1 DEF Timed
  <2>3. ExportInTime' /\ DeadlineKept' /\ WindowKept' /\ TickInTime'
    BY <1>1, <2>1 DEF ExportInTime, DeadlineKept, WindowKept, TickInTime, Waiting, Holds
  <2> QED
    BY <2>2, <2>3 DEF ControlInv
<1> QED
  BY <1>3, <1>4

LEMMA FinalFlushEndsPreserves ==
    ASSUME ControlInv, FinalFlushDrains \/ FinalFlushAbandons
    PROVE  ControlInv'
<1>1. /\ pc = "final" /\ pc' \in {"final", "gone"} /\ export.at = "idle"
      /\ UNCHANGED <<now, endpoint, export, strategy, lastFlush, after, deadline, window, wake>>
  BY DEF FinalFlushDrains, FinalFlushAbandons, Drain, clockVars, managerVars, signalVars,
         holdVars
<1>2. pending' \in Nat /\ oldest' \in Nat \cup {Never} /\ export \in ExportRecord
  BY DEF FinalFlushDrains, FinalFlushAbandons, Drain, signalVars, ControlInv, Timed
<1>3. ExportInTime'
  BY <1>1 DEF ExportInTime, Waiting
<1> QED
  BY <1>1, <1>2, <1>3, FlushGoesOn

-----------------------------------------------------------------------------
LEMMA StepPreservesControlInv == ControlInv /\ [ControlNext]_controlVars => ControlInv'
BY PassPreserves, SignalPreserves, OthersPreserve, InvokePreserves, ShutdownPreserves,
   HoldCompletesPreserves, SettledOrExpiredPreserves, HoldTicksPreserves,
   FinalFlushBeginsPreserves, ExportNextPreserves, ExportingPreserves, ExportReturnsPreserves,
   FlushReturnsPreserves, FinalFlushEndsPreserves
   DEF ControlNext, FlushStep

\* The handler's timing invariant: an export is of the flush in progress and waits no
\* longer than its deadline; a hold's window leaves a flush budget before the function's
\* deadline; the tick comes before the oldest signal is too old.
THEOREM ControlInvariant == ControlSpec => []ControlInv
<1>1. ControlInit => ControlInv
  BY InitEstablishesControlInv
<1>2. ControlInv /\ [ControlNext]_controlVars => ControlInv'
  BY StepPreservesControlInv
<1> QED
  BY <1>1, <1>2, PTL DEF ControlSpec

\* flush_all and final_flush hand one deadline to every export: however many batches and
\* attempts there are, and whatever the collector answers, they are over when it comes.
THEOREM DeadlinesAreKept == ControlSpec => []FlushKeepsItsDeadline
<1>1. ControlInv => FlushKeepsItsDeadline
  BY DEF ControlInv, DeadlineKept, FlushKeepsItsDeadline
<1> QED
  BY <1>1, ControlInvariant, PTL

\* hold_and_flush and post_invoke_flush return one flush budget and one settle delay
\* after the function's deadline at the latest.
THEOREM HoldReturnsInTime == ControlSpec => []HoldPathBounded
<1>1. ControlInv => HoldPathBounded
  <2> SUFFICES ASSUME ControlInv, pc \in InvokePath, window # NoWindow
               PROVE  now <= window.limit + FlushBudget + Settle
    BY DEF HoldPathBounded
  <2> USE DEF ControlInv
  <2>1. now \in Nat /\ deadline \in Nat /\ window.limit \in Nat
    BY DEF Timed, Windows
  <2>2. CASE pc = "hold"
    BY <2>1, <2>2, Numbers DEF WindowKept
  <2>3. CASE pc = "settle"
    BY <2>1, <2>3, Numbers DEF WindowKept, Timed
  <2>4. CASE pc = "flush"
    BY <2>1, <2>4, Numbers DEF WindowKept, DeadlineKept
  <2> QED
    BY <2>2, <2>3, <2>4 DEF InvokePath
<1> QED
  BY <1>1, ControlInvariant, PTL

\* The ticks of time_until_periodic_flush: while an invocation is held, no signal waits
\* longer than the interval, or the shortest tick, from its arrival or the last flush.
THEOREM TicksKeepSignalsFresh == ControlSpec => []HeldSignalsFresh
<1>1. ControlInv => HeldSignalsFresh
  <2> SUFFICES ASSUME ControlInv, pc = "hold", Periodic, pending # 0
               PROVE  now - Most(oldest, window.since) <= Most(Interval, TickFloor)
    BY DEF HeldSignalsFresh, Periodic
  <2> USE DEF ControlInv
  <2>1. window \in Windows
    BY DEF Timed, WindowKept, Holds
  <2>2. now \in Nat /\ wake \in Nat /\ window.since \in Nat
    BY <2>1, Numbers DEF Windows, Timed, TickInTime
  <2>3. Most(oldest, window.since) \in Int
    BY <2>2, Numbers DEF Timed, Most
  <2>4. now <= wake /\ wake <= Most(oldest, window.since) + Patience
    BY DEF TickInTime, Timed
  <2> QED
    BY <2>2, <2>3, <2>4, Numbers DEF Patience
<1> QED
  BY <1>1, ControlInvariant, PTL

\* FlushStrategy::End: when an invocation ends the handler parks on /next only with an
\* empty aggregator, because post_invoke_flush wants whatever is pending.
THEOREM EndParksWithNothing == ControlSpec => EndLeavesNothing
<1> DEFINE Parks == (/\ pc \in {"parked", "hold", "settle"} /\ pc' = "parked"
                     /\ (history' # history \/ pc # "parked")
                     /\ strategy = "end" /\ ~Escalated)
                    => pending' = 0
<1>1. ASSUME ControlInv, ControlNext PROVE Parks
  <2> SUFFICES ASSUME pc \in {"parked", "hold", "settle"}, pc' = "parked",
                      history' # history \/ pc # "parked", strategy = "end", ~Escalated
               PROVE  pending' = 0
    OBVIOUS
  <2>1. pending \in Nat /\ export.at = "idle"
    BY <1>1 DEF ControlInv, Timed, ExportInTime
  <2>2. ASSUME PostInvokeFlush PROVE pending' = 0
    <3>1. ~(pending > 0 /\ WantsPostInvokeFlush) /\ pending' = pending
      BY <2>2 DEF PostInvokeFlush, signalVars
    <3>2. pending > 0 => WantsPostInvokeFlush
      BY DEF WantsPostInvokeFlush, ShouldFlushOnInvocationEnd, EffectiveStrategy
    <3> QED
      BY <2>1, <3>1, <3>2
  <2>3. ASSUME NEW allowance \in Allowances, NEW cap \in Caps, NEW hold \in BOOLEAN,
               Invoke(allowance, cap, hold)
        PROVE  pending' = 0
    BY <2>2, <2>3 DEF Invoke, HoldIn
  <2>4. ~Pass /\ ~SignalArrives /\ ~CompletionArrives
    BY DEF Pass, SignalArrives, CompletionArrives, managerVars
  <2>5. /\ ~HoldCompletes /\ ~HoldTicks /\ ~FinalFlushBegins
        /\ \A allowance \in Allowances : ~Shutdown(allowance)
    BY DEF HoldCompletes, HoldTicks, HoldIn, FinalFlushBegins, Shutdown
  <2>6. ~FlushStep
    BY <2>1 DEF FlushStep, ExportNext, Exporting, ExportStep, BeginAttempt, AttemptTimesOut,
                AttemptAnswered, BackoffEnds, ExportReturns, FlushReturns, FinalFlushDrains,
                FinalFlushAbandons
  <2> QED
    BY <1>1, <2>2, <2>3, <2>4, <2>5, <2>6 DEF ControlNext, SettledOrExpired
<1>2. ControlInv /\ [ControlNext]_controlVars => [Parks]_controlVars
  BY <1>1
<1> QED
  BY <1>2, ControlInvariant, PTL DEF ControlSpec, EndLeavesNothing
=============================================================================
