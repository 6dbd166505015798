---------------------- MODULE SimulatorLifecycleProofs ----------------------
(***************************************************************************)
(* What TLAPS proves of SimulatorLifecycle for every set of extensions and *)
(* subscriptions and every number of invocations.                          *)
(***************************************************************************)
EXTENDS SimulatorLifecycle, TLAPS

USE SimulatorAssumption

\* The last invocation the runtime has taken from the queue.
Taken == enqueued - Len(pending)

\* Invocations are taken in the order of their enqueue, and a response belongs to the
\* one taken last; so when the newest one is done, it is the one completed last.
OrderKept ==
    /\ current = enqueued
    /\ \A i \in 1 .. Len(pending) : pending[i] = Taken + i
    /\ Taken \in Nat
    /\ runtime.got \in {NoRequest, Taken}
    /\ \A r \in Requests : task[r] # "none" => status[r] = "Completed" /\ r <= Taken
    /\ \A r \in Requests : task[r] = "recorded" => runtime.at = "away" /\ runtime.got = r
    /\ \A r \in Requests : readiness[r].done => task[r] # "none"
    /\ \A r \in Requests \cap {current} : readiness[r].done => last = r

\* Only an extension that has registered sleeps in a poll.
SleepersRegistered == \A e \in Extensions : extension[e].at = "asleep" => e \in registered

SimulatorInv ==
    /\ SimulatorTypeOK
    /\ OrderKept
    /\ SleepersRegistered
    /\ ReadinessEarned
    /\ NewestKeepsReadiness

-----------------------------------------------------------------------------
LEMMA InitEstablishesSimulatorInv == SimulatorInit => SimulatorInv
<1> SUFFICES ASSUME SimulatorInit PROVE SimulatorInv
  OBVIOUS
<1>1. RuntimeTypeOK
  <2>1. pending \in Seq(1 .. enqueued)
    <3>1. <<>> \in Seq(1 .. enqueued)
      OBVIOUS
    <3> QED
      BY <3>1 DEF SimulatorInit
  <2>2. runtime \in [at : {"away", "checking", "asleep", "starting"}, got : 0 .. enqueued]
    BY DEF SimulatorInit, NoRequest
  <2>3. /\ status \in [Requests -> {"Unknown", "Pending", "InProgress", "Completed"}]
        /\ task \in [Requests -> {"none", "recorded", "waiting", "reporting", "reported"}]
    BY DEF SimulatorInit
  <2>4. available \in BOOLEAN
    BY Zenon DEF SimulatorInit
  <2> QED
    BY <2>1, <2>2, <2>3, <2>4 DEF RuntimeTypeOK
<1>2. OrderKept
  BY DEF SimulatorInit, OrderKept, Taken, Requests, NoRequest, Untracked
<1>3. SleepersRegistered /\ ReadinessEarned /\ NewestKeepsReadiness
  BY DEF SimulatorInit, SleepersRegistered, ReadinessEarned, NewestKeepsReadiness, Untracked
<1>4. ExtensionTypeOK
  <2>1. [at |-> "away", queue |-> <<>>, permit |-> FALSE, delivered |-> NoRequest] \in Handlers
    BY DEF SimulatorInit, Handlers, NoRequest
  <2> QED
    BY <2>1 DEF SimulatorInit, ExtensionTypeOK
<1>5. ReadinessTypeOK
  BY DEF SimulatorInit, ReadinessTypeOK, Tracking, NoRequest, Untracked
<1> QED
  BY <1>1, <1>2, <1>3, <1>4, <1>5 DEF SimulatorInv, SimulatorInit, SimulatorTypeOK

-----------------------------------------------------------------------------
(* What a step leaves alone. *)

LEMMA ExtensionsUntouched ==
    ASSUME SimulatorInv, UNCHANGED <<extensionVars, enqueued>>
    PROVE  ExtensionTypeOK' /\ SleepersRegistered'
BY DEF SimulatorInv, SimulatorTypeOK, ExtensionTypeOK, SleepersRegistered, extensionVars,
       Handlers, Events

LEMMA ReadinessUntouched ==
    ASSUME SimulatorInv, UNCHANGED <<readinessVars, polled, enqueued>>
    PROVE  ReadinessTypeOK' /\ ReadinessEarned' /\ NewestKeepsReadiness'
<1>1. ReadinessTypeOK'
  BY DEF SimulatorInv, SimulatorTypeOK, ReadinessTypeOK, readinessVars
<1>2. ReadinessEarned'
  BY DEF SimulatorInv, ReadinessEarned, readinessVars, Polled
<1>3. NewestKeepsReadiness'
  BY DEF SimulatorInv, NewestKeepsReadiness, readinessVars, Polled
<1> QED
  BY <1>1, <1>2, <1>3

\* The order is kept by a step that takes nothing, records no response and does not
\* finish an invocation.
LEMMA OrderUntouched ==
    ASSUME SimulatorInv, UNCHANGED <<enqueued, current, last, pending, status, runtime>>,
           \A r \in Requests : task'[r] # "none" <=> task[r] # "none",
           \A r \in Requests : task'[r] = "recorded" => task[r] = "recorded",
           \A r \in Requests : readiness'[r].done => readiness[r].done
    PROVE  OrderKept'
BY DEF SimulatorInv, OrderKept, Taken, NoRequest

-----------------------------------------------------------------------------
(* The report task. *)

LEMMA ReportWaitPreserves ==
    ASSUME SimulatorInv, NEW r \in Requests, ReportWhenReady(r) \/ ReportTimesOut(r)
    PROVE  SimulatorInv'
<1> USE DEF ReportWhenReady, ReportTimesOut, runtimeVars
<1>1. UNCHANGED <<phase, sim, enqueued, pending, status, runtime, available, extensionVars,
                  readinessVars>>
  OBVIOUS
<1>2. task[r] = "waiting" /\ task' = [task EXCEPT ![r] = "reporting"]
  OBVIOUS
<1>3. RuntimeTypeOK'
  BY <1>1, <1>2 DEF SimulatorInv, SimulatorTypeOK, RuntimeTypeOK
<1>4. OrderKept'
  BY <1>1, <1>2, OrderUntouched DEF SimulatorInv, SimulatorTypeOK, RuntimeTypeOK, readinessVars
<1> QED
  BY <1>1, <1>3, <1>4, ExtensionsUntouched, ReadinessUntouched
  DEF SimulatorInv, SimulatorTypeOK, extensionVars

LEMMA ReportEndPreserves ==
    ASSUME SimulatorInv, NEW r \in Requests, ReportEnds(r)
    PROVE  SimulatorInv'
<1> USE DEF ReportEnds, runtimeVars
<1>1. RuntimeTypeOK'
  BY DEF SimulatorInv, SimulatorTypeOK, RuntimeTypeOK
<1>2. readiness \in [Requests -> Tracking] /\ Untracked \in Tracking
  BY DEF SimulatorInv, SimulatorTypeOK, ReadinessTypeOK, Untracked, Tracking
<1>3. ReadinessTypeOK'
  BY <1>2 DEF SimulatorInv, SimulatorTypeOK, ReadinessTypeOK, Tracking
<1>4. \A q \in Requests : readiness'[q] = readiness[q] \/ readiness'[q] = Untracked
  BY <1>2
<1>5. OrderKept'
  BY <1>4, OrderUntouched DEF SimulatorInv, SimulatorTypeOK, RuntimeTypeOK, Untracked
<1>6. ReadinessEarned' /\ NewestKeepsReadiness'
  BY <1>4 DEF SimulatorInv, ReadinessEarned, NewestKeepsReadiness, Untracked, Polled,
              extensionVars
<1> QED
  BY <1>1, <1>3, <1>5, <1>6, ExtensionsUntouched DEF SimulatorInv, SimulatorTypeOK

-----------------------------------------------------------------------------
(* The runtime. *)

LEMMA RuntimePollPreserves ==
    ASSUME SimulatorInv, RuntimePolls \/ RuntimeSleeps \/ RuntimeStarts
    PROVE  SimulatorInv'
<1> USE DEF RuntimePolls, RuntimeSleeps, RuntimeStarts
<1>1. RuntimeTypeOK'
  <2>1. runtime' \in [at : {"away", "checking", "asleep", "starting"}, got : 0 .. enqueued]
    BY DEF SimulatorInv, SimulatorTypeOK, RuntimeTypeOK, NoRequest
  <2>2. available' \in BOOLEAN
    BY DEF SimulatorInv, SimulatorTypeOK, RuntimeTypeOK
  <2>3. UNCHANGED <<pending, status, task, enqueued>>
    OBVIOUS
  <2> QED
    BY <2>1, <2>2, <2>3 DEF SimulatorInv, SimulatorTypeOK, RuntimeTypeOK
<1>2. OrderKept'
  BY DEF SimulatorInv, SimulatorTypeOK, RuntimeTypeOK, OrderKept, Taken, NoRequest,
         readinessVars
<1> QED
  BY <1>1, <1>2, ExtensionsUntouched, ReadinessUntouched
  DEF SimulatorInv, SimulatorTypeOK, extensionVars

LEMMA RuntimeTakePreserves ==
    ASSUME SimulatorInv, RuntimeTakes
    PROVE  SimulatorInv'
<1> USE DEF RuntimeTakes
<1>1. /\ pending \in Seq(1 .. enqueued) /\ pending # <<>> /\ pending' = Tail(pending)
      /\ enqueued \in Nat /\ UNCHANGED <<enqueued, task, readiness, current, last>>
      /\ runtime' = [at |-> "starting", got |-> Head(pending)]
      /\ status' = [status EXCEPT ![Head(pending)] = "InProgress"]
  BY DEF SimulatorInv, SimulatorTypeOK, RuntimeTypeOK, readinessVars
<1>2. /\ Len(pending) \in Nat \ {0} /\ Len(pending') = Len(pending) - 1
      /\ \A i \in 1 .. Len(pending') : i + 1 \in 1 .. Len(pending) /\ pending'[i] = pending[i + 1]
      /\ Head(pending) = pending[1] /\ Head(pending) \in 1 .. enqueued
      /\ pending' \in Seq(1 .. enqueued)
  BY <1>1
<1>3. Head(pending) = Taken + 1 /\ Taken' = Taken + 1 /\ Taken \in Nat
  BY <1>1, <1>2 DEF SimulatorInv, OrderKept, Taken
<1>4. RuntimeTypeOK'
  <2>1. runtime' \in [at : {"away", "checking", "asleep", "starting"}, got : 0 .. enqueued]
    BY <1>1, <1>2
  <2> QED
    BY <1>1, <1>2, <2>1 DEF SimulatorInv, SimulatorTypeOK, RuntimeTypeOK
<1>5. OrderKept'
  <2>1. \A i \in 1 .. Len(pending') : pending'[i] = Taken' + i
    BY <1>1, <1>2, <1>3 DEF SimulatorInv, OrderKept
  <2>2. \A r \in Requests : task[r] # "recorded"
    BY DEF SimulatorInv, OrderKept
  <2>3. \A r \in Requests : task'[r] # "none" => status'[r] = "Completed" /\ r <= Taken'
    BY <1>1, <1>3 DEF SimulatorInv, SimulatorTypeOK, RuntimeTypeOK, OrderKept, Requests
  <2> QED
    BY <1>1, <1>3, <2>1, <2>2, <2>3 DEF SimulatorInv, OrderKept
<1> QED
  BY <1>4, <1>5, ExtensionsUntouched, ReadinessUntouched
  DEF SimulatorInv, SimulatorTypeOK, extensionVars

LEMMA RecordPreserves ==
    ASSUME SimulatorInv, NEW r \in Requests, RecordResponse(r)
    PROVE  SimulatorInv'
<1> USE DEF RecordResponse
<1>1. RuntimeTypeOK'
  BY DEF SimulatorInv, SimulatorTypeOK, RuntimeTypeOK
<1>2. OrderKept'
  BY DEF SimulatorInv, SimulatorTypeOK, RuntimeTypeOK, OrderKept, Taken, NoRequest, Requests,
         readinessVars
<1> QED
  BY <1>1, <1>2, ExtensionsUntouched, ReadinessUntouched
  DEF SimulatorInv, SimulatorTypeOK, extensionVars

LEMMA RuntimeDonePreserves ==
    ASSUME SimulatorInv, NEW r \in Requests, RuntimeDone(r)
    PROVE  SimulatorInv'
<1> DEFINE old == readiness[r]
           ended == IF old.tracked
                    THEN [old EXCEPT !.done = TRUE, !.ready = @ \cup old.early, !.early = {}]
                    ELSE old
<1>1. /\ task[r] = "recorded" /\ task' = [task EXCEPT ![r] = "waiting"] /\ last' = r
      /\ UNCHANGED <<phase, sim, enqueued, pending, status, runtime, available, extensionVars,
                     current>>
  BY DEF RuntimeDone, MarkRuntimeDone, runtimeVars
<1>2. /\ readiness \in [Requests -> Tracking] /\ old \in Tracking
      /\ task \in [Requests -> {"none", "recorded", "waiting", "reporting", "reported"}]
  BY DEF SimulatorInv, SimulatorTypeOK, ReadinessTypeOK, RuntimeTypeOK
<1>3. readiness' = [readiness EXCEPT ![r] = ended]
  BY <1>2 DEF RuntimeDone, MarkRuntimeDone, Tracking
<1>4. ended \in Tracking
  BY <1>2 DEF Tracking
<1>5. /\ readiness'[r] = ended /\ task'[r] = "waiting"
      /\ \A q \in Requests \ {r} : readiness'[q] = readiness[q] /\ task'[q] = task[q]
  BY <1>1, <1>2, <1>3
<1>6. r \in 1 .. enqueued /\ r = Taken
  BY <1>1 DEF SimulatorInv, SimulatorTypeOK, RuntimeTypeOK, OrderKept, Requests, NoRequest
<1>7. RuntimeTypeOK' /\ ReadinessTypeOK'
  <2>1. RuntimeTypeOK'
    BY <1>1 DEF SimulatorInv, SimulatorTypeOK, RuntimeTypeOK
  <2>2. ReadinessTypeOK'
    BY <1>1, <1>2, <1>3, <1>4, <1>6
    DEF SimulatorInv, SimulatorTypeOK, ReadinessTypeOK
  <2> QED
    BY <2>1, <2>2
<1>8. OrderKept'
  <2>1. \A q \in Requests : task'[q] # "none" => status'[q] = "Completed" /\ q <= Taken'
    BY <1>1, <1>5 DEF SimulatorInv, OrderKept, Taken
  <2>2. \A q \in Requests : task'[q] = "recorded" => runtime'.at = "away" /\ runtime'.got = q
    BY <1>1, <1>5 DEF SimulatorInv, OrderKept
  <2>3. \A q \in Requests : readiness'[q].done => task'[q] # "none"
    BY <1>1, <1>5 DEF SimulatorInv, OrderKept
  <2>4. \A q \in Requests \cap {current'} : readiness'[q].done => last' = q
    <3> SUFFICES ASSUME NEW q \in Requests, q = current, readiness'[q].done, q # r
                 PROVE  FALSE
      BY <1>1
    <3>1. task[q] # "none" /\ q <= Taken /\ current = enqueued
      BY <1>5 DEF SimulatorInv, OrderKept
    <3>2. r <= enqueued /\ Taken <= enqueued
      BY <1>6
    <3> QED
      BY <3>1, <3>2, <1>6 DEF Requests
  <2> QED
    BY <1>1, <2>1, <2>2, <2>3, <2>4 DEF SimulatorInv, OrderKept, Taken
<1>9. ReadinessEarned'
  <2>1. /\ ended.ready \cup ended.early \subseteq {e \in Extensions : Polled(e, r)}
        /\ IF ended.done THEN ended.early = {} ELSE ended.ready = {}
    BY <1>2 DEF SimulatorInv, ReadinessEarned, Tracking
  <2>2. \A e \in Extensions, q \in Requests : Polled(e, q)' <=> Polled(e, q)
    BY <1>1 DEF Polled, extensionVars
  <2> QED
    BY ZenonT(40), <1>5, <2>1, <2>2 DEF SimulatorInv, ReadinessEarned
<1>10. NewestKeepsReadiness'
  <2>1. ended.expected = old.expected /\ ended.tracked = old.tracked
        /\ old.ready \cup old.early \subseteq ended.ready \cup ended.early
    BY <1>2 DEF Tracking
  <2>2. \A e \in Extensions, q \in Requests : Polled(e, q)' <=> Polled(e, q)
    BY <1>1 DEF Polled, extensionVars
  <2>3. \A q \in Requests : readiness[q].expected \subseteq Extensions
    BY <1>2 DEF Tracking
  <2> SUFFICES ASSUME NEW q \in Requests, q = current, readiness'[q].tracked,
                      NEW e \in readiness'[q].expected, Polled(e, q)'
               PROVE  e \in readiness'[q].ready \cup readiness'[q].early
    BY <1>1 DEF NewestKeepsReadiness
  <2>4. /\ readiness'[q].tracked = readiness[q].tracked
        /\ readiness'[q].expected = readiness[q].expected
        /\ readiness[q].ready \cup readiness[q].early
             \subseteq readiness'[q].ready \cup readiness'[q].early
    <3>1. CASE q = r
      BY <1>5, <2>1, <3>1
    <3>2. CASE q # r
      BY <1>5, <3>2
    <3> QED
      BY <3>1, <3>2
  <2>5. e \in readiness[q].ready \cup readiness[q].early
    BY <2>2, <2>3, <2>4 DEF SimulatorInv, NewestKeepsReadiness
  <2> QED
    BY <2>4, <2>5
<1> QED
  BY <1>1, <1>7, <1>8, <1>9, <1>10, ExtensionsUntouched DEF SimulatorInv, SimulatorTypeOK

-----------------------------------------------------------------------------
(* The extensions. *)

LEMMA RegisterPreserves ==
    ASSUME SimulatorInv, NEW e \in Extensions, Register(e)
    PROVE  SimulatorInv'
<1> USE DEF Register
<1>1. RuntimeTypeOK'
  BY DEF SimulatorInv, SimulatorTypeOK, RuntimeTypeOK, runtimeVars
<1>2. OrderKept'
  BY DEF SimulatorInv, OrderKept, Taken, runtimeVars, readinessVars
<1>3. ExtensionTypeOK' /\ SleepersRegistered'
  <2>1. /\ registered' \subseteq Extensions /\ acknowledged' \subseteq registered'
        /\ polled' \subseteq (Extensions \X Events)' /\ (Extensions \X Events)' = Extensions \X Events
    BY DEF SimulatorInv, SimulatorTypeOK, ExtensionTypeOK, Events
  <2>2. extension' \in [Extensions -> Handlers']
    BY DEF SimulatorInv, SimulatorTypeOK, ExtensionTypeOK, Handlers, Events
  <2>3. SleepersRegistered'
    BY DEF SimulatorInv, SleepersRegistered
  <2> QED
    BY <2>1, <2>2, <2>3 DEF ExtensionTypeOK
<1> QED
  BY <1>1, <1>2, <1>3, ReadinessUntouched DEF SimulatorInv, SimulatorTypeOK

\* A look at the queue delivers its first event, or puts the extension to sleep.
LEMMA LookPreserves ==
    ASSUME ExtensionTypeOK, SleepersRegistered, enqueued \in 0 .. Invocations,
           NEW e \in Extensions, e \in registered,
           NEW x \in Handlers, Look(e, x),
           UNCHANGED <<registered, enqueued>>,
           polled' \subseteq Extensions \X Events
    PROVE  ExtensionTypeOK' /\ SleepersRegistered'
<1>1. Events' = Events /\ Handlers' = Handlers /\ (Extensions \X Events)' = Extensions \X Events
  BY DEF Events, Handlers
<1>2. PICK y \in Handlers : extension' = [extension EXCEPT ![e] = y]
  <2>1. CASE x.queue = <<>>
    <3> DEFINE y == [x EXCEPT !.at = "asleep", !.permit = FALSE]
    <3>1. y \in Handlers
      BY DEF Handlers
    <3> QED
      BY <2>1, <3>1 DEF Look
  <2>2. CASE x.queue # <<>>
    <3> DEFINE event == Head(x.queue)
               y == [x EXCEPT !.at = "away", !.queue = Tail(@),
                              !.delivered = IF event = Shutdown THEN @ ELSE event]
    <3>1. x.queue \in Seq(Events) /\ x.delivered \in 0 .. enqueued
      BY DEF Handlers
    <3>2. event \in Events /\ Tail(x.queue) \in Seq(Events)
      BY <2>2, <3>1
    <3>3. (IF event = Shutdown THEN x.delivered ELSE event) \in 0 .. enqueued
      BY <3>1, <3>2 DEF Events
    <3>4. y \in Handlers
      BY <3>2, <3>3 DEF Handlers
    <3> QED
      BY <2>2, <3>4 DEF Look
  <2> QED
    BY <2>1, <2>2
<1>3. acknowledged' \subseteq registered'
  BY DEF Look, ExtensionTypeOK
<1>4. extension \in [Extensions -> Handlers] /\ registered' \subseteq Extensions
  BY DEF ExtensionTypeOK
<1>5. SleepersRegistered'
  BY <1>2, <1>4 DEF SleepersRegistered
<1> QED
  BY <1>1, <1>2, <1>3, <1>4, <1>5 DEF ExtensionTypeOK

LEMMA WakePreserves ==
    ASSUME SimulatorInv, NEW e \in Extensions, ExtensionWakes(e)
    PROVE  SimulatorInv'
<1> USE DEF ExtensionWakes
<1> DEFINE x == [extension[e] EXCEPT !.permit = FALSE]
<1>1. x \in Handlers /\ e \in registered
  BY DEF SimulatorInv, SimulatorTypeOK, ExtensionTypeOK, SleepersRegistered, Handlers
<1>2. polled' \subseteq Extensions \X Events
  BY DEF SimulatorInv, SimulatorTypeOK, ExtensionTypeOK
<1>3. ExtensionTypeOK' /\ SleepersRegistered'
  BY <1>1, <1>2, LookPreserves DEF SimulatorInv, SimulatorTypeOK
<1>4. RuntimeTypeOK'
  BY DEF SimulatorInv, SimulatorTypeOK, RuntimeTypeOK, runtimeVars
<1>5. OrderKept'
  BY DEF SimulatorInv, OrderKept, Taken, runtimeVars, readinessVars
<1> QED
  BY <1>3, <1>4, <1>5, ReadinessUntouched DEF SimulatorInv, SimulatorTypeOK

\* What MarkExtensionReady does to the invocation d, where d was delivered to e.
LEMMA MarkProperties ==
    ASSUME SimulatorInv, NEW e \in Extensions, NEW d \in 0 .. enqueued,
           MarkExtensionReady(e, d), NEW q \in Requests
    PROVE  /\ readiness' \in [Requests -> Tracking]
           /\ readiness'[q].tracked = readiness[q].tracked
           /\ readiness'[q].expected = readiness[q].expected
           /\ readiness'[q].done = readiness[q].done
           /\ readiness'[q].ready = readiness[q].ready
                \cup (IF q = d /\ CountsForLast(d) THEN {e} ELSE {})
           /\ readiness'[q].early = readiness[q].early
                \cup (IF q = d /\ CountsForCurrent(e, d) THEN {e} ELSE {})
<1>1. readiness \in [Requests -> Tracking]
  BY DEF SimulatorInv, SimulatorTypeOK, ReadinessTypeOK
<1>2. CASE d = NoRequest
  BY <1>1, <1>2 DEF MarkExtensionReady, Requests, NoRequest
<1>3. CASE d # NoRequest
  <2>1. d \in Requests
    BY <1>3 DEF Requests, NoRequest, SimulatorInv, SimulatorTypeOK
  <2> DEFINE marked ==
        [readiness[d] EXCEPT !.ready = @ \cup (IF CountsForLast(d) THEN {e} ELSE {}),
                             !.early = @ \cup (IF CountsForCurrent(e, d) THEN {e} ELSE {})]
  <2>2. readiness[d] \in Tracking /\ marked \in Tracking
    BY <1>1, <2>1 DEF Tracking
  <2>3. readiness' = [readiness EXCEPT ![d] = marked]
    BY <1>1, <1>3, <2>1, <2>2 DEF MarkExtensionReady, Tracking
  <2>4. readiness' \in [Requests -> Tracking]
    BY <1>1, <2>1, <2>2, <2>3
  <2>5. CASE q = d
    BY <1>1, <2>1, <2>2, <2>3, <2>4, <2>5 DEF Tracking
  <2>6. CASE q # d
    BY <1>1, <2>3, <2>4, <2>6
  <2> QED
    BY <2>5, <2>6
<1> QED
  BY <1>2, <1>3

LEMMA PollPreserves ==
    ASSUME SimulatorInv, NEW e \in Extensions, ExtensionPolls(e)
    PROVE  SimulatorInv'
<1> DEFINE d == extension[e].delivered
<1>1. /\ MarkExtensionReady(e, d) /\ Look(e, extension[e]) /\ e \in registered
      /\ polled' = polled \cup ({e} \X ThroughWith(e))
      /\ UNCHANGED <<phase, sim, enqueued, runtimeVars, registered, current, last, task>>
  BY DEF ExtensionPolls
<1>2. extension[e] \in Handlers /\ d \in 0 .. enqueued /\ enqueued \in 0 .. Invocations
  BY DEF SimulatorInv, SimulatorTypeOK, ExtensionTypeOK, Handlers
<1>3. ThroughWith(e) \subseteq Events
  BY <1>2 DEF ThroughWith, Events, NoRequest
<1>4. polled' \subseteq Extensions \X Events
  BY <1>1, <1>3 DEF SimulatorInv, SimulatorTypeOK, ExtensionTypeOK
<1>5. ExtensionTypeOK' /\ SleepersRegistered'
  BY <1>1, <1>2, <1>4, LookPreserves DEF SimulatorInv, SimulatorTypeOK
<1>6. RuntimeTypeOK'
  BY <1>1 DEF SimulatorInv, SimulatorTypeOK, RuntimeTypeOK, runtimeVars
<1>7. \A q \in Requests :
        /\ readiness' \in [Requests -> Tracking]
        /\ readiness'[q].tracked = readiness[q].tracked
        /\ readiness'[q].expected = readiness[q].expected
        /\ readiness'[q].done = readiness[q].done
        /\ readiness'[q].ready = readiness[q].ready
             \cup (IF q = d /\ CountsForLast(d) THEN {e} ELSE {})
        /\ readiness'[q].early = readiness[q].early
             \cup (IF q = d /\ CountsForCurrent(e, d) THEN {e} ELSE {})
  BY <1>1, <1>2, MarkProperties
<1>8. OrderKept'
  BY <1>1, <1>7 DEF SimulatorInv, OrderKept, Taken, runtimeVars
<1>9. ReadinessTypeOK'
  <2>1. readiness' \in [Requests -> Tracking]
    <3>1. CASE d = NoRequest
      BY <1>1, <3>1 DEF MarkExtensionReady, SimulatorInv, SimulatorTypeOK, ReadinessTypeOK
    <3>2. CASE d # NoRequest
      BY <1>2, <1>7, <3>2 DEF Requests, NoRequest
    <3> QED
      BY <3>1, <3>2
  <2> QED
    BY <1>1, <2>1 DEF SimulatorInv, SimulatorTypeOK, ReadinessTypeOK
<1>10. \A q \in Requests : \A f \in Extensions :
         Polled(f, q)' <=> Polled(f, q) \/ (f = e /\ q = d)
  BY <1>1, <1>2 DEF Polled, ThroughWith, Requests, NoRequest, Shutdown, SimulatorInv,
                    SimulatorTypeOK
<1>11. ReadinessEarned'
  BY <1>7, <1>10 DEF SimulatorInv, ReadinessEarned, CountsForLast, CountsForCurrent
<1>12. NewestKeepsReadiness'
  <2> SUFFICES ASSUME NEW q \in Requests, q = current, readiness[q].tracked,
                      NEW f \in readiness[q].expected, Polled(f, q)'
               PROVE  f \in readiness'[q].ready \cup readiness'[q].early
    BY <1>1, <1>7 DEF NewestKeepsReadiness
  <2>1. f \in Extensions
    BY DEF SimulatorInv, SimulatorTypeOK, ReadinessTypeOK, Tracking
  <2>2. CASE Polled(f, q)
    BY <1>7, <2>2 DEF SimulatorInv, NewestKeepsReadiness
  <2>3. CASE f = e /\ q = d
    <3>1. q # NoRequest
      BY DEF Requests, NoRequest
    <3>2. CASE readiness[q].done
      <4>1. q = last
        BY <3>2 DEF SimulatorInv, OrderKept
      <4>2. CASE AllReady(q)
        BY <1>7, <4>2 DEF AllReady
      <4>3. CASE ~AllReady(q)
        BY <1>7, <2>3, <3>1, <3>2, <4>1, <4>3 DEF CountsForLast
      <4> QED
        BY <4>2, <4>3
    <3>3. CASE ~readiness[q].done
      BY <1>7, <2>3, <3>1, <3>3 DEF CountsForCurrent
    <3> QED
      BY <3>2, <3>3
  <2> QED
    BY <1>10, <2>1, <2>2, <2>3
<1> QED
  BY <1>1, <1>5, <1>6, <1>8, <1>9, <1>11, <1>12 DEF SimulatorInv, SimulatorTypeOK

-----------------------------------------------------------------------------
(* The owner. *)

\* A broadcast appends one event to some queues and keeps everything else.
LEMMA BroadcastPreserves ==
    ASSUME extension \in [Extensions -> Handlers], SleepersRegistered,
           enqueued \in Nat, enqueued' \in Nat, enqueued <= enqueued',
           NEW event \in Events', NEW subscribers, Broadcast(event, subscribers),
           registered' = registered
    PROVE  extension' \in [Extensions -> Handlers'] /\ SleepersRegistered'
<1>1. Events \subseteq Events' /\ 0 .. enqueued \subseteq 0 .. enqueued'
  BY DEF Events
<1>2. \A e \in Extensions :
        extension[e] \in Handlers' /\ extension'[e].at = extension[e].at
                                  /\ extension'[e] \in Handlers'
  <2> SUFFICES ASSUME NEW e \in Extensions
               PROVE  extension[e] \in Handlers' /\ extension'[e].at = extension[e].at
                                                /\ extension'[e] \in Handlers'
    OBVIOUS
  <2>1. extension[e] \in Handlers
    OBVIOUS
  <2>2. extension[e].queue \in Seq(Events')
    <3>1. extension[e].queue \in Seq(Events)
      BY <2>1 DEF Handlers
    <3> QED
      BY <1>1, <3>1
  <2>3. extension[e] \in Handlers'
    BY <1>1, <2>1, <2>2 DEF Handlers
  <2>4. Append(extension[e].queue, event) \in Seq(Events')
    BY <2>2
  <2>5. [extension[e] EXCEPT !.queue = Append(@, event), !.permit = TRUE] \in Handlers'
    BY <2>3, <2>4 DEF Handlers
  <2>6. extension'[e] = IF e \in registered \cap subscribers
                        THEN [extension[e] EXCEPT !.queue = Append(@, event), !.permit = TRUE]
                        ELSE extension[e]
    BY DEF Broadcast
  <2>7. extension'[e].at = extension[e].at
    BY <2>1, <2>6 DEF Handlers
  <2> QED
    BY <2>3, <2>5, <2>6, <2>7
<1>3. SleepersRegistered'
  BY <1>2 DEF SleepersRegistered
<1> QED
  BY <1>2, <1>3 DEF Broadcast

LEMMA ShutdownPreserves ==
    ASSUME SimulatorInv,
           ShutdownBegins \/ ShutdownAcknowledged \/ ShutdownTimesOut \/ ShutdownAtOnce
    PROVE  SimulatorInv'
<1>1. /\ UNCHANGED <<enqueued, runtimeVars, extensionVars, readinessVars, task>>
      /\ phase' \in {phase, "ShuttingDown"}
      /\ sim' \in {"flushing", "acknowledged", "timedOut", "stopped"}
  BY DEF ShutdownBegins, ShutdownAcknowledged, ShutdownTimesOut, ShutdownAtOnce
<1>2. RuntimeTypeOK'
  BY <1>1 DEF SimulatorInv, SimulatorTypeOK, RuntimeTypeOK, runtimeVars
<1>3. OrderKept'
  BY <1>1 DEF SimulatorInv, OrderKept, Taken, runtimeVars, readinessVars
<1> QED
  BY <1>1, <1>2, <1>3, ExtensionsUntouched, ReadinessUntouched
  DEF SimulatorInv, SimulatorTypeOK, extensionVars

LEMMA ShutdownSentPreserves ==
    ASSUME SimulatorInv, ShutdownSent
    PROVE  SimulatorInv'
<1>1. /\ UNCHANGED <<phase, enqueued, runtimeVars, registered, polled, readinessVars, task>>
      /\ sim' \in {"stopped", "waiting"}
      /\ acknowledged' \subseteq acknowledged
  BY DEF ShutdownSent
<1>2. RuntimeTypeOK'
  BY <1>1 DEF SimulatorInv, SimulatorTypeOK, RuntimeTypeOK, runtimeVars
<1>3. OrderKept'
  BY <1>1 DEF SimulatorInv, OrderKept, Taken, runtimeVars, readinessVars
<1>4. Events' = Events /\ Handlers' = Handlers /\ (Extensions \X Events)' = Extensions \X Events
  BY <1>1 DEF Events, Handlers
<1>5. extension' \in [Extensions -> Handlers'] /\ SleepersRegistered'
  <2>1. CASE extension' = extension
    BY <1>1, <1>4, <2>1 DEF SimulatorInv, SimulatorTypeOK, ExtensionTypeOK, SleepersRegistered
  <2>2. CASE Broadcast(Shutdown, ShutdownSubscribers)
    <3>1. enqueued \in Nat /\ enqueued' = enqueued /\ Shutdown \in Events'
      BY <1>1 DEF SimulatorInv, SimulatorTypeOK, Events
    <3> QED
      BY <1>1, <2>2, <3>1, BroadcastPreserves DEF SimulatorInv, SimulatorTypeOK, ExtensionTypeOK
  <2> QED
    BY <2>1, <2>2 DEF ShutdownSent
<1>6. ExtensionTypeOK'
  BY <1>1, <1>4, <1>5 DEF SimulatorInv, SimulatorTypeOK, ExtensionTypeOK
<1> QED
  BY <1>1, <1>2, <1>3, <1>5, <1>6, ReadinessUntouched DEF SimulatorInv, SimulatorTypeOK

LEMMA SeqWidens ==
    ASSUME NEW S, NEW T, S \subseteq T, NEW s \in Seq(S)
    PROVE  s \in Seq(T)
OBVIOUS

LEMMA EnqueuePreserves ==
    ASSUME SimulatorInv, Enqueue
    PROVE  SimulatorInv'
<1> DEFINE r == enqueued + 1
           fresh == [Untracked EXCEPT !.tracked = TRUE,
                                      !.expected = registered \cap InvokeSubscribers]
<1>1. /\ enqueued' = r /\ current' = r /\ available' = TRUE
      /\ readiness' = [readiness EXCEPT ![r] = fresh]
      /\ status' = [status EXCEPT ![r] = "Pending"]
      /\ pending' = Append(pending, r)
      /\ Broadcast(r, InvokeSubscribers)
      /\ UNCHANGED <<phase, sim, runtime, registered, acknowledged, polled, last, task>>
  BY DEF Enqueue
<1>2. r \in Requests /\ enqueued \in Nat /\ r <= Invocations
  BY DEF Enqueue, Requests, SimulatorInv, SimulatorTypeOK
<1>3. /\ readiness \in [Requests -> Tracking] /\ registered \subseteq Extensions
      /\ pending \in Seq(1 .. enqueued) /\ polled \subseteq Extensions \X Events
  BY DEF SimulatorInv, SimulatorTypeOK, ReadinessTypeOK, RuntimeTypeOK, ExtensionTypeOK
<1>4. fresh \in Tracking /\ fresh.ready = {} /\ fresh.early = {} /\ ~fresh.done
  BY <1>3 DEF Tracking, Untracked
<1>5. /\ readiness' \in [Requests -> Tracking] /\ readiness'[r] = fresh
      /\ \A q \in Requests \ {r} : readiness'[q] = readiness[q]
  BY <1>1, <1>2, <1>3, <1>4
<1>6. /\ pending' \in Seq(1 .. r) /\ Len(pending') = Len(pending) + 1
      /\ Len(pending) \in Nat
      /\ \A i \in 1 .. Len(pending') :
            pending'[i] = IF i <= Len(pending) THEN pending[i] ELSE r
  <2>1. pending \in Seq(1 .. r)
    <3>1. 1 .. enqueued \subseteq 1 .. r
      BY <1>2
    <3> QED
      BY <1>3, <3>1, SeqWidens
  <2> QED
    BY <1>1, <1>2, <2>1
<1>7. Taken' = Taken /\ Taken \in Nat /\ Taken + Len(pending) = enqueued
  BY <1>1, <1>2, <1>6 DEF SimulatorInv, OrderKept, Taken
<1>8. RuntimeTypeOK'
  <2>1. runtime' \in [at : {"away", "checking", "asleep", "starting"}, got : 0 .. enqueued']
    BY <1>1, <1>2 DEF SimulatorInv, SimulatorTypeOK, RuntimeTypeOK
  <2> QED
    BY <1>1, <1>2, <1>6, <2>1 DEF SimulatorInv, SimulatorTypeOK, RuntimeTypeOK
<1>9. task[r] = "none" /\ \A q \in Requests : task[q] # "none" => q # r
  BY <1>2, <1>7, <1>6 DEF SimulatorInv, OrderKept
<1>10. OrderKept'
  <2>1. \A i \in 1 .. Len(pending') : pending'[i] = Taken' + i
    <3> SUFFICES ASSUME NEW i \in 1 .. Len(pending') PROVE pending'[i] = Taken + i
      BY <1>7
    <3>1. CASE i \in 1 .. Len(pending)
      BY <1>6, <3>1 DEF SimulatorInv, OrderKept
    <3>2. CASE i = Len(pending) + 1
      BY <1>2, <1>6, <1>7, <3>2
    <3> QED
      BY <1>6, <3>1, <3>2
  <2>2. \A q \in Requests : task'[q] # "none" => status'[q] = "Completed" /\ q <= Taken'
    BY <1>1, <1>2, <1>7, <1>9 DEF SimulatorInv, SimulatorTypeOK, RuntimeTypeOK, OrderKept
  <2>3. \A q \in Requests : readiness'[q].done => task'[q] # "none"
    BY <1>1, <1>4, <1>5 DEF SimulatorInv, OrderKept
  <2>4. \A q \in Requests \cap {current'} : readiness'[q].done => last' = q
    BY <1>1, <1>4, <1>5
  <2>5. runtime' = runtime /\ task' = task /\ current' = enqueued'
    BY <1>1
  <2> QED
    BY <1>7, <2>1, <2>2, <2>3, <2>4, <2>5 DEF SimulatorInv, OrderKept
<1>11. ExtensionTypeOK' /\ SleepersRegistered'
  <2>1. extension' \in [Extensions -> Handlers'] /\ SleepersRegistered'
    <3>1. enqueued' \in Nat /\ enqueued <= enqueued' /\ r \in Events'
      BY <1>1, <1>2 DEF Events
    <3> QED
      BY <1>1, <1>2, <3>1, BroadcastPreserves DEF SimulatorInv, SimulatorTypeOK, ExtensionTypeOK
  <2>2. Events \subseteq Events'
    BY <1>1, <1>2 DEF Events
  <2> QED
    BY <1>1, <1>3, <2>1, <2>2 DEF SimulatorInv, SimulatorTypeOK, ExtensionTypeOK
<1>12. ReadinessTypeOK'
  BY <1>1, <1>2, <1>5 DEF SimulatorInv, SimulatorTypeOK, ReadinessTypeOK
<1>13. ReadinessEarned'
  BY <1>1, <1>4, <1>5 DEF SimulatorInv, ReadinessEarned, Polled
<1>14. NewestKeepsReadiness'
  <2>1. \A e \in Extensions : <<e, r>> \notin polled'
    BY SMTT(30), <1>1, <1>2, <1>3 DEF Events, Shutdown
  <2>2. fresh.expected \subseteq Extensions
    BY <1>4 DEF Tracking
  <2> QED
    BY <1>1, <1>5, <2>1, <2>2 DEF NewestKeepsReadiness, Polled
<1> QED
  BY <1>1, <1>2, <1>8, <1>10, <1>11, <1>12, <1>13, <1>14
  DEF SimulatorInv, SimulatorTypeOK

-----------------------------------------------------------------------------
LEMMA SimulatorStepPreserves ==
    ASSUME SimulatorInv, [SimulatorNext]_simulatorVars
    PROVE  SimulatorInv'
<1>1. ASSUME NEW e \in Extensions, Register(e) \/ ExtensionPolls(e) \/ ExtensionWakes(e)
      PROVE  SimulatorInv'
  BY <1>1, RegisterPreserves, PollPreserves, WakePreserves
<1>2. CASE RuntimePolls \/ RuntimeHandler
  BY <1>2, RuntimePollPreserves, RuntimeTakePreserves DEF RuntimeHandler
<1>3. ASSUME NEW r \in Requests, RecordResponse(r) \/ Report(r)
      PROVE  SimulatorInv'
  BY <1>3, RecordPreserves, RuntimeDonePreserves, ReportWaitPreserves, ReportEndPreserves
  DEF Report
<1>4. CASE Enqueue
  BY <1>4, EnqueuePreserves
<1>5. CASE ShutdownBegins \/ GracefulShutdown \/ ShutdownAtOnce
  BY <1>5, ShutdownPreserves, ShutdownSentPreserves DEF GracefulShutdown
<1>6. CASE UNCHANGED simulatorVars
  <2>1. RuntimeTypeOK' /\ OrderKept'
    BY <1>6 DEF SimulatorInv, SimulatorTypeOK, RuntimeTypeOK, OrderKept, Taken,
                simulatorVars, runtimeVars, readinessVars
  <2> QED
    BY <1>6, <2>1, ExtensionsUntouched, ReadinessUntouched
    DEF SimulatorInv, SimulatorTypeOK, simulatorVars, extensionVars
<1> QED
  BY <1>1, <1>2, <1>3, <1>4, <1>5, <1>6 DEF SimulatorNext

-----------------------------------------------------------------------------
(* The theorems. *)

THEOREM SimulatorInvariant == SimulatorSpec => []SimulatorInv
BY InitEstablishesSimulatorInv, SimulatorStepPreserves, PTL DEF SimulatorSpec

\* Every variable keeps its type: queues hold only events that have been broadcast, a
\* SHUTDOWN is acknowledged by registered extensions only.
THEOREM SimulatorTyped == SimulatorSpec => []SimulatorTypeOK
<1>1. SimulatorInv => SimulatorTypeOK
  BY DEF SimulatorInv
<1> QED
  BY <1>1, SimulatorInvariant, PTL

\* An extension counts as ready for an invocation only after it has polled again, and
\* only once the runtime is done.
THEOREM ReadinessIsEarned == SimulatorSpec => []ReadinessEarned
<1>1. SimulatorInv => ReadinessEarned
  BY DEF SimulatorInv
<1> QED
  BY <1>1, SimulatorInvariant, PTL

\* No poll about the newest invocation is lost, before or after the runtime is done.
THEOREM NewestReadinessKept == SimulatorSpec => []NewestKeepsReadiness
<1>1. SimulatorInv => NewestKeepsReadiness
  BY DEF SimulatorInv
<1> QED
  BY <1>1, SimulatorInvariant, PTL

\* A reported invocation takes no second response: its status left "InProgress" when
\* the first was recorded, and nothing puts it back.
THEOREM ReportedAtMostOnce == SimulatorSpec => ReportedOnce
<1> DEFINE Once == \A r \in Requests : task[r] = "reported" => task'[r] = "reported"
<1>1. ASSUME SimulatorInv, [SimulatorNext]_simulatorVars
      PROVE  Once
  <2>1. task \in [Requests -> {"none", "recorded", "waiting", "reporting", "reported"}]
    BY <1>1 DEF SimulatorInv, SimulatorTypeOK, RuntimeTypeOK
  <2>2. ASSUME NEW r \in Requests, RecordResponse(r)
        PROVE  Once
    BY <1>1, <2>1, <2>2 DEF SimulatorInv, OrderKept, RecordResponse
  <2>3. ASSUME NEW r \in Requests, Report(r)
        PROVE  Once
    BY <2>1, <2>3 DEF Report, RuntimeDone, ReportWhenReady, ReportTimesOut, ReportEnds
  <2>4. ASSUME UNCHANGED task
        PROVE  Once
    BY <2>4
  <2> QED
    BY <1>1, <2>2, <2>3, <2>4
    DEF SimulatorNext, Register, ExtensionPolls, ExtensionWakes, RuntimePolls,
        RuntimeHandler, RuntimeTakes, RuntimeSleeps, RuntimeStarts, Enqueue,
        ShutdownBegins, GracefulShutdown, ShutdownSent, ShutdownAcknowledged,
        ShutdownTimesOut, ShutdownAtOnce, simulatorVars
<1> QED
  BY <1>1, SimulatorInvariant, PTL DEF SimulatorSpec, ReportedOnce
=============================================================================
