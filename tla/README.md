# A TLA+ model of lambda-observability

`lambda-observability` has four parts that keep state while other things happen:
an **extension** that collects telemetry beside an AWS Lambda function and holds
the environment open until the invocation is really over, a **simulator** of the
Lambda service for tests, a **Tower layer** that traces handlers, and small
**handler wrappers** for Node.js and Python. These modules model the state machines
of all of them, check them with TLC on small instances, and prove most of their safety
properties with TLAPS for every value of the constants.

Paths below are relative to `src/crates/`; `ext` is `opentelemetry-lambda-extension/src`,
`sim` is `lambda-simulator/src`, and `tower` is `opentelemetry-lambda-tower/src`.

## 1. The system

### 1.1 The extension

| Component | State it keeps | Operations | What is hard |
|---|---|---|---|
| Completion tracker, `ext/completion.rs` | the slot of the invocation in flight (request id, hold deadline, watch channel), the memory of recently completed request ids (at most 16), the counter of consecutive hold timeouts | `begin`, `complete`, `wait_for_completion`, `should_hold` | signals that come before their INVOKE, twice, late, without an id, for an invocation that is not in flight; a wait that is cancelled and started again at each tick |
| Signal aggregator, `ext/aggregator.rs` | three FIFO queues behind one tokio mutex, the sum of their bytes, the count of dropped signals | `add` with its eviction loop, three getters, `get_all_batches` | two budgets at once, mixed kinds and sizes; the mutex is free between the batches of one drain |
| Event handler, `ext/service.rs` | the processing lock, the tracker, the aggregator, the flush manager; which await the handler is in | INVOKE: hold, periodic flushes, post-invocation flush; SHUTDOWN: wait for processing, final flush | holding back the re-poll of `/next` is what keeps the environment from freezing, so a hold must end, and not too early |
| Receiver and forwarder, `ext/receiver.rs`, `ext/runtime.rs` | a bounded channel | OTLP endpoints (`try_send`), the completion endpoint, the forwarder into the aggregator | a full channel; what is in the channel at SHUTDOWN |
| Telemetry processing, `ext/service.rs`, `ext/telemetry.rs`, `ext/conversion.rs` | read lock on the processing lock; `pending_starts` | `process_telemetry`, `process_events` | events of one request in several batches, batches twice; its metrics must be in the aggregator before `runtimeDone` ends the hold |
| Flush manager, `ext/flush.rs` | last flush, invocation history, consecutive timeouts | `should_flush`, `should_flush_on_invocation_end`, `time_until_next_flush` | escalation, rates, periods; the handler reads the configured strategy, the manager the effective one |
| OTLP exporter, `ext/exporter.rs` | none between exports | `export_with_retry` | attempt timeout, backoff and deadline budget interact |
| Configuration, `ext/config.rs` | none after start-up | `Config::load`, `OtlpExporter::new` | four sources, field names that contain the separator, values that are not known |
| Trace headers, `ext/tracing.rs`, `ext/conversion.rs` | none | parse, convert | parts in any order, invalid ids |

### 1.2 The simulator

| Component | State it keeps | Operations | What is hard |
|---|---|---|---|
| Runtime API and state, `sim/runtime_api.rs`, `sim/state.rs` | queue of pending invocations, status of each, phase, the `Notify` of the long poll | `/next`, `/response`, `/error`, the report task | first response wins; long polls and left-over permits; a report must follow even when an extension is silent |
| Extensions API, `sim/extension.rs`, `sim/extensions_api.rs` | registered extensions, an event queue and a `Notify` for each, delivered INVOKEs, acknowledgements of SHUTDOWN | register, `/next`, broadcast | the poll that follows an INVOKE is what says its work is over |
| Readiness, `sim/extension_readiness.rs` | for each invocation the extensions expected, ready, and ready early; the invocation started last and the one completed last | `start_invocation`, `mark_extension_ready`, `mark_runtime_done`, `wait_for_all_ready` | polls before and after the runtime is done; two invocations at a time |
| Freeze control, `sim/freeze.rs` | an epoch, a flag, the PIDs | `freeze_at_epoch`, `unfreeze`, `force_unfreeze` | nothing makes an operation atomic as a whole; processes exit |
| Telemetry API, `sim/telemetry_state.rs`, `sim/telemetry_api.rs` | subscriptions, a buffer and a delivery task for each, captured events, delivery policies | subscribe, broadcast, buffer, deliver, `flush_all`, `shutdown` | a lock held across a POST, retries, overflow, a second subscription |
| Façade, `sim/simulator.rs`, `sim/process.rs` | handles of all of the above | `enqueue`, waits, two shutdowns | shutdown against everything that still runs |

### 1.3 The Tower layer and the wrappers

`tower/service.rs` makes a span for each event from what the extractors find in it,
`tower/future.rs` is a poll state machine (handler, end of the span, flush, result),
`tower/cold_start.rs` one atomic flag that all calls share. The wrappers in
`src/wrappers/` post one completion signal after the handler, on a best-effort basis.

### 1.4 How the parts interact

- The wrapper, and the `runtimeDone` event of the Telemetry API, complete an
  invocation at the tracker; the handler waits there, flushes the aggregator,
  and polls `/next` again, which lets Lambda freeze the environment.
- OTLP data goes receiver → channel → forwarder → aggregator → batches → exporter;
  platform telemetry goes Telemetry API → `process_telemetry` → aggregator.
- The flush manager tells the handler when to flush, and learns from the handler which
  flushes failed; the exporter keeps within the deadline the handler gives it.
- In the simulator, `enqueue` thaws, starts readiness tracking, queues the
  invocation and broadcasts INVOKE. The response handler records the result, marks
  the runtime done and spawns a report task, which waits for the extensions (or for
  a timeout), sends `platform.report`, and freezes at the epoch it captured.
- Every step of the Runtime API broadcasts telemetry, which waits for the lock that a
  delivery task holds while it posts.
- The Tower layer's service, its future and the tasks a handler leaves behind share
  the span; concurrent calls share the providers and the cold-start flag.

### 1.5 What makes each part correct

*Tracker*: one story per request id, told by the first source; a fair count of
timeouts; waits end. *Aggregator*: budgets, order, counted losses, complete drains.
*Handler*: a hold ends for the right reason and does end, in bounded time; degraded
environments pay once; a flush finds what it must and ends by its deadline.
*Processing*: a span joins the events of one request, and a completion follows its
metrics. *Configuration*: the highest source that speaks wins. *Readiness*: only a poll
after the INVOKE counts, and none that should count is lost. *Queues*: sleepers are
woken, responses are reported. *Freeze*: nothing is stopped while there is work.
*Telemetry delivery*: order, no duplicates without a retry, progress whatever the
extensions answer. *Tower*: one cold start, the sender's trace, and a span that is
exported before the response is let out. The hazards, each at its line, are in
`PROJECT.json`.

## 2. The modules

| Module | Models | Composes |
|---|---|---|
| `CompletionTracker` | `ext/completion.rs` | |
| `SignalAggregator` | `ext/aggregator.rs` | refines `LossyBuffer` |
| `LossyBuffer` | abstract: what a caller of the aggregator may rely on | |
| `ExtensionLifecycle` | `ext/service.rs`, with the channel, the forwarder and the completion endpoint; the runtime, the wrapper and the Telemetry API are its environment | extends `CompletionTracker`; the aggregator appears as a set |
| `OtlpExporter` | `ext/exporter.rs` | |
| `FlushManager` | `ext/flush.rs` | |
| `FlushControl` | the handler of `ext/service.rs` against the clock | extends `OtlpExporter` and `FlushManager` |
| `XRayHeader` | the X-Ray header readers of `ext/tracing.rs`, `tower/extractors/*` | |
| `TelemetryProcessor` | `process_telemetry`, `process_events` and the converters of `ext/conversion.rs` | extends `XRayHeader` |
| `ExtensionConfig` | `ext/config.rs` | |
| `FreezeState` | `sim/freeze.rs` with the calls from `enqueue`, the report task and the shutdowns | |
| `SimulatorLifecycle` | `sim/state.rs`, `runtime_api.rs`, `extension.rs`, `extensions_api.rs`, `extension_readiness.rs`, and `enqueue` and the shutdowns of `simulator.rs` | |
| `TelemetryDelivery` | `sim/telemetry_state.rs`, `telemetry_api.rs`, and `graceful_shutdown`'s flush | |
| `TowerTracing` | `tower/layer.rs`, `service.rs`, `future.rs`, `cold_start.rs`, `extractors/*` | extends `XRayHeader` |
| `MC*` | values for the runs | |
| `*Proofs` | the theorems | extend the module they are about; `TracingProofs` is about `TelemetryProcessor` and `TowerTracing`, which share the X-Ray headers |

### 2.1 The size of a step

The extension runs on a `current_thread` runtime (`ext/main.rs:24`), and the
simulator's tests use `#[tokio::test]`, which is single-threaded as well. Tasks
therefore interleave at awaits that can suspend and nowhere else, and a step of
`ExtensionLifecycle`, `FlushControl`, `TelemetryProcessor` and `SimulatorLifecycle`
runs from one such await to the next. A mutex that no holder keeps across a suspending
await is taken at once.

`SignalAggregator` is finer. It does not rely on the runtime: it keeps the mutex as
state (`adding`, `batch`), so that "the loop under the lock ends" can be stated.
`FreezeState` is the finest, as its operations are not atomic on any runtime with
threads: each load, compare-exchange and kill is a step. Its constant `Overlap` says
whether a thaw may begin while a freeze runs; `FALSE` is the single-threaded runtime,
`TRUE` one with threads. `TelemetryDelivery` and `TowerTracing` assume nothing of the
runtime: their steps are the sections under one lock, or one atomic operation, or one
poll; the two mutexes of the Telemetry API that are kept across a POST are state.

### 2.2 State and actions against the code

**CompletionTracker.** `recent`, `current` and `timeouts` are `recently_completed`,
`current` and `consecutive_hold_timeouts`. `Begin`, `Complete` and the outcomes of
`wait_for_completion` are actions; the instants shrink to whether the hold deadline of
the slot is ahead (`open`, closed by `WindowCloses`). The waiter records what its
`select!` sees: the change of its channel, the replacement of its slot, or the
deadline; a cancelled wait leaves without an effect. `observed` is history: what signals
came for the invocation in flight, whether anybody heard them or not.

**SignalAggregator.** `queue`, `bytes` and `dropped` are the fields of the same
meaning. `AddLocks`, `Evict`, `Push` are `add`; `PopFirst`, `PopNext`, `BatchReady`
are a getter with `take_batch`; `DrainBegins` and `KindExhausted` are
`get_all_batches`. `arrived`, `batches` and `owed` are history. A signal is a value
with a kind and a size.

**ExtensionLifecycle.** `pc` says which await the handler is in; `flush` which flush
runs; `held` and `out` what the aggregator holds and what has been drained but not
exported. What the flush manager answers, and how many ticks pass, is free, as
`FlushControl` is about that. An export ends, in success or not. A wrapper's POST may
be lost, late or without an id.

**OtlpExporter, FlushManager, FlushControl.** `export` is one call of
`export_with_retry`: the attempt, the backoff, the end of the wait it is in and the
deadline. `history`, `lastFlush` and `timeouts` are the flush manager's fields.
`FlushControl` adds the handler: `Invoke` is `handle_invoke` up to its first await,
`HoldTicks`, `HoldCompletes` and `SettledOrExpired` the arms of `hold_and_flush`,
`ExportNext` and `ExportReturns` the loop of `flush_all`, `FinalFlushDrains` and
`FinalFlushAbandons` that of `final_flush`. `Pass` lets time go by only while somebody
waits, never beyond the end of the earliest wait, so that nothing is late but by the
code's own doing. What the tracker says of a hold is free here.

**TelemetryProcessor.** The platform's log and its cuts into batches are chosen in
`Init`; a batch may come again and in any order. One call of `TelemetryService` is a
record of `calls`: `Process` runs `process_events` under its lock, `AddMetric` awaits
`aggregator.add`, `Complete` ends with the tracker. `spans` is what the converter made;
the code discards it at `ext/service.rs:423`. `DebugForm` is the text that
`format!("{:?}", status)` makes of the platform's status (`ext/service.rs:559`), and `SpanOf`
compares that text as the code does. A span takes from its header the ids alone (`IdsOf`):
what the sender sampled is not passed on.

**ExtensionConfig.** The load is four merges and an extraction; `NewExporter` is what
follows it in `ExtensionState::new` (`ext/service.rs:131`) and can end the start too, as the
exporter refuses every protocol but `http`. A source maps paths (a
section and the words of a field) to values with the kind that TOML and figment give
them. Names are kept as sequences of words because that is where they are ambiguous.
`ExporterConfig`, `ReceiverConfig` and so on are the fields of the structs with their types
and defaults; `MergeFile`, `MergeOtel`, `MergePrefixed` and `Extract` are the steps of
`load_from_path`. Any number of `LAMBDA_OTEL_` variables may be set, each name once; only a
variable named after a whole section does not come together with one of its fields, as the
order of the environment would decide between them. Of an `OTEL_` list of headers the pieces
without an equals sign are kept, because the reader passes over them.

**FreezeState.** `epoch`, `isFrozen` are the atomics; `stopped`, `gone` and `reaped` are
what the kernel knows: a process may end at any time, a stopped one as well (SIGKILL, which
the drop of a `ManagedProcess` sends), and signals to it succeed without an effect until its
status is taken (`ProcessReaped`), after which they fail. `freezer` and `thawer` are the
program counters of the tasks.

**SimulatorLifecycle.** `pending`, `status`, `phase`, `registered`, `acknowledged`,
`readiness`, `current` and `last` are fields of the same meaning; `available` and
`permit` are the permits of the two kinds of `Notify`; `task` follows an invocation
from its recorded response to its report. `polled` is history: who has polled again
after which event. A telemetry broadcast is an await that may take its time, so a
response handler can be overtaken between recording and `mark_runtime_done`.
Aborting the server closes the listener; accepted connections are served on, so
nothing stops at a shutdown except `enqueue`.

**TelemetryDelivery.** `captured`, `policy`, `wants`, `buffer` and `handle` are the
fields of `TelemetryState`. A delivery task is a record of `tasks` with the batch it
has drained: `Tick`, `TakeSubscriptions`, `PostEnds` are its awaits. `Emit` is
`broadcast_event` with its policies, `BufferEvent` the wait for the two locks,
`FlushTakes` and `FlushAttempt` the loop of `flush_all`, `AbortTasks` is `shutdown`. A
POST may succeed, be refused, or succeed with its answer lost. `pushed` and `received`
are history.

**TowerTracing.** `call` is the service's and the future's state, `cold` the flag,
`span` and `logs` where the span and the log records of a call are on their way from
the handler to the exporter. `Call` is `Service::call`, from the extractors to the
span's fields; `Ready`, `FlushTracer`, `FlushLogger` are polls; `Dropped` is a caller
that gives up; a task of the handler may keep the span open (`SpawnsTask`, `TaskEnds`).
`Flushed` counts what a failed `force_flush` held as gone, though where the SDK only
stopped waiting it may still send it; and a span that the handler's own future keeps
alive, beside its tasks, is not among the holders.
A trace header is a sequence of its parts, an id is one of `Ids` or one of the kinds of
wrong id that a reader tells apart.

## 3. The runs

| Run | Shows |
|---|---|
| `tracker` | early, late, duplicate and id-less signals: one source per request id and it is final, memory and slot agree, no wait for an invocation that was signalled counts as a timeout, a timely signal restores health, waits end |
| `aggregator` | both budgets, oldest-first eviction, complete drains, loops that end; `LossyBuffer` is implemented |
| `lifecycle` | two invocations and SHUTDOWN through the handler: holds end, for the right reason; health is lost and regained fairly; in-flight telemetry is in the final flush |
| `flush_control` | the handler against the clock: flushes end by their deadline, the path of an invocation is bounded, held signals stay fresh, `end` parks with nothing left |
| `processor` | every cut, order and repetition of the batches of two requests: spans join one request, starts are kept only while open, completion follows the metrics, nothing delivered goes unconverted |
| `config` | all combinations of file, `OTEL_` variables and up to two `LAMBDA_OTEL_` variables, one for every field and some that name none: the highest source wins, headers are joined, and a start fails only for the file, a section or a wrong type, or because gRPC is asked for, the one value of an `OTEL_` variable that is fatal |
| `freeze` | operations that do not overlap, processes that end at any time: no process is stopped while work waits, no waiting report task stops anything after the shutdown |
| `simulator` | readiness is earned, and not lost for the newest invocation; a response is surely reported; long polls are answered |
| `delivery` | buffers keep the newest, one task keeps order, only a retried POST delivers twice; events move on and the shutdown completes although locks are held across POSTs |
| `tower` | two overlapping calls: one cold start, the sender's context, every attribute on a declared field, span and logs out before the response |
| `lifecycle_shutdown_lock` | *finding*: the processing lock does not keep the final flush from running in mid-processing |
| `tower_status` | *finding*: the status of a failed invocation is recorded on fields that its span does not have |

`HoldPathBounded` grants one flush budget more than the documentation of
`HOLD_DEADLINE_MARGIN` suggests: a flush may begin on the last tick of the window, and
the flush after the hold begins when that one ends. `HeldSignalsFresh` is about the
configured strategy (see 3.4).

### 3.1 Bounds, and why they are enough

- `tracker`: three request ids and a memory of two, so that an id is evicted while
  another is remembered and a third begins; the counter stops at two, one beyond
  the first timeout, which disables holding.
- `aggregator`: six signals, 5 bytes and 3 entries, batches of 2 bytes and 2 entries.
  Sizes 0, 1, 1, 2, 3 and 9 make each budget and each batch limit bind first in some
  behaviour; one signal is larger than a batch, one larger than the whole budget.
- `lifecycle`: two invocations (a late signal needs a predecessor), one OTLP signal
  and a channel of one (so that it is full), an aggregator of two.
- `flush_control`: times are small multiples of the first backoff. An attempt may take
  two units, a flush has three, an invocation leaves five: so an attempt is cut by its
  timeout in one behaviour and by the deadline in another, a third attempt does not fit,
  and a window holds several ticks. Escalation needs two failures instead of twenty. The
  clock stops at ten, after two invocations or one and a shutdown.
- `processor`: two requests; a log of up to seven events in up to three batches, one
  delivered again. A pair has to be split by a cut and separated by another request's
  events for its property to be at risk, and three batches do both.
- `config`: seven files and four sets of `OTEL_` variables that differ in what they say of each
  field, and every `LAMBDA_OTEL_` variable, up to two at a time. Two are enough because a
  variable touches the field it names and no other, which 4.2 proves for any number.
- `freeze`: two processes (each may end, running or stopped, before the other or not at all), two report tasks, three
  invocations. One invocation is unfinished at a time (`MaxPending`), as the queue
  runs one after the other; report tasks overlap with later invocations.
- `simulator`: two extensions, one of which takes SHUTDOWN as well, and two
  invocations, which may be pipelined. Readiness looks at the invocation started last
  and at the one completed last; two are enough to have them differ.
- `delivery`: one extension, as extensions share only the two locks, which two tasks of
  one extension contend for as well; two subscriptions, so that a task is replaced;
  three events against a buffer of two; two attempts of `flush_all` instead of five.
- `tower`: two calls (the flag and the providers are shared between calls; symmetric),
  one task that outlives its handler, and every kind of event with trace headers,
  X-Ray headers in order, out of order, spaced and invalid, and without any; one HTTP
  event brings its context in an X-Ray header of its own, beside the environment's.

`CHECK_DEADLOCK FALSE` stands where the system may stop: the extension exits, the
simulator's clients may stop polling or answering, the clock, the batches and the calls
of an instance come to an end.

### 3.2 Fairness

- `TrackerFairSpec`: the deadline passes and the waiting task is polled when its
  `select!` is ready. No signal is promised.
- `AggregatorFairSpec`: a task that holds the mutex runs on, as there is no await
  between its lock and its unlock.
- `LifecycleFairSpec`: the handler's task is polled when it can go on, exports and the
  lock wait are bounded by timeouts, and the hold deadline passes. Nothing is asked of
  the function, the wrapper, the Telemetry API, the forwarder or the ticks.
- `SimulatorFairSpec`: a notified extension handler wakes, the runtime's handler, the
  report tasks and the graceful shutdown run on. This assumes that a telemetry
  broadcast returns, so that subscribers answer their POSTs; the delivery code has no
  client timeout. Nothing is asked of the runtime or of the extensions: the report
  follows from its timeout.
- `DeliveryFairness`: tokio's mutex is fair, so `flush_all`, a delivery task, an event
  in `buffer_event` and a subscription that wait for a lock get it if it is free again
  and again (strong fairness, one formula each); every POST has some outcome. Nothing
  is promised about which: all may be refused.

The other specifications state no fairness: their properties are safety properties.

### 3.3 Findings

`PROJECT.json` quotes for each finding the sentence of the repository it contradicts.

- The final flush may run while a batch is processed (`ext/service.rs:276`), although
  `process_telemetry` says that its lock prevents that.
- `otel.status_code` and `error.message` are recorded on a span that does not declare
  them (`tower/future.rs:90`, `tower/service.rs:97`): a failed invocation's span has no
  status.

### 3.4 Other differences between code and documentation

These definitions are in the modules and no run checks them with the values given here,
because TLC finds them violated; put the name into the configuration to see how.

| Definition | Configuration | What the code does |
|---|---|---|
| `SignalInWindowRestoresHealth` | `MCCompletionTracker.cfg` | a signal inside the window of an invocation that began complete (early signal, retry) returns as a duplicate before the reset (`ext/completion.rs:156`), contrary to `should_hold`'s documentation (241-243) |
| `HoldOutlastsFunction` | `MCExtensionLifecycle.cfg` with `RequestOf <- MCRetryAtOnce`, `RequestIds = {r1}` | the memory does not distinguish attempts, so the hold of a retry ends while its function runs (`ext/completion.rs:118`; README of the extension, 231-234) |
| `NoStopWithWork` | `FreezeState.cfg` with `Overlap = TRUE` | the epoch is compared once, before the compare-exchange; a thaw between the two is undone (`sim/freeze.rs:182`; comments 65-66, 168-169) |
| `NoStopWithWork` | `FreezeState.cfg` with `MaxPending = 2` | the report task of an invocation captures the epoch that the `enqueue` of a second one has already raised, so it stops the processes while the second one waits (`sim/runtime_api.rs:397`) |
| `HealthIsFair` | `MCExtensionLifecycle.cfg` with `Capacity = 1` | a memory with fewer places than signals forgets an id before its INVOKE, whose hold then counts as silence (`ext/completion.rs:32`; the code has 16 places) |
| `ShutdownNeverStops` | `FreezeState.cfg` | a report task spawned after `force_unfreeze` captures the new epoch and stops the processes (`sim/runtime_api.rs:397`; `freeze.rs:295`) |
| `ReadinessNeverLost` | `SimulatorLifecycle.cfg` | a poll is dropped when another invocation was enqueued or completed meanwhile; the report waits for its timeout (`sim/extension_readiness.rs:184`; comments 70-71) |
| `ShutdownWaitsForCleanup` | `SimulatorLifecycle.cfg` | SHUTDOWN is acknowledged when it is delivered (`sim/extensions_api.rs:178`; comments 133-135) |
| `AllTelemetryBeforeShutdown` | `TelemetryDelivery.cfg` | what a task has drained is not flushed, and its POST may still run when SHUTDOWN goes out (`sim/simulator.rs:758-759`) |
| `NoTaskAfterShutdown` | `TelemetryDelivery.cfg` | a second subscription replaces the handle, and the first task is never aborted (`sim/telemetry_state.rs:258`, 533) |
| `FlushFitsMargin` | `MCFlushControl.cfg` | the flush after the hold may follow one that began on the window's last tick (`ext/service.rs:35`) |
| `SuccessIsNoError` | `MCTelemetryProcessor.cfg` | a success reaches `create_invocation_span` as `Success`, the Debug form of the enum (`ext/service.rs:559`), and is compared with `success` (`ext/conversion.rs:269`): every span made is one of an error, where `tests/otel_compliance_test.rs:416` asks for `Unset`; the tests write `success` themselves. As those spans are dropped (next line), nobody sees it yet |
| `SpansAreAdded` | `MCTelemetryProcessor.cfg` | the traces that `process_events` returns are dropped (`ext/service.rs:423`; 485-486 say they are added) |

Met while reading, and not expressed as a property: `Config::load`'s documentation
(`ext/config.rs:95-98`) leaves out the `OTEL_` layer; the configuration accepts zeros,
of which `max_queue_entries = 0` makes `add` loop for ever and a buffer size of 0 makes
`mpsc::channel` panic; `time_until_periodic_flush` (`ext/service.rs:229-230`) is said to
use the effective strategy and reads the configured one; `end` gives way to `continuous`
after escalation (`config.rs:68`); `OTEL_EXPORTER_OTLP_PROTOCOL=grpc`, which other SDKs in
the same environment may need, keeps the extension from starting, as `config.rs:40-41` says
of the protocol; without an endpoint exports are skipped, where the
README of the extension says they go to stdout; `clear_pending` is
never called, so the starts of invocations without an end are kept; `mark_initialized`
sets the phase to ready even during a shutdown; `InvocationStatus::Timeout` is never
set; `timeout_ms = 0` and `max_items = 0` are accepted by a telemetry subscription and
panic later; the wrapper of Node.js awaits its signal before it returns the response.
In the Tower layer a global tracer provider is not flushed (`layer.rs:121`), the
flush timeout cannot interrupt a synchronous `force_flush` (`layer.rs:153`), the
environment fallback offers a `traceparent` even to the X-Ray propagator, and the X-Ray
readers differ: SQS and SNS accept ids of zeros, HTTP does not trim.

### 3.5 Properties that the runs leave out

The modules state some properties that hold and that a run could check as well. Proved
are the type invariants `TrackerTypeOK`, `AggregatorTypeOK`, `SimulatorTypeOK` and
`DeliveryTypeOK`, and `MemoryIsBoundedAndDistinct`, `ReportedOnce`, `FlagTellsTruth`,
`HoldCostPaidOnce`, `RuntimeDoneMeansBuffered`, `BytesAccounted`, `BatchesWithinLimits`,
`KindOrderKept` and `SurvivorsWereReplaced`. TLC agrees with each when its name is put into
the run's configuration.

## 4. The proofs

| Module | Proved for every value of the constants |
|---|---|
| `SignalAggregatorProofs` | type correctness; neither budget is ever exceeded; the byte counter is the sum of what is held; batches keep their limits; each signal is in one place; the oldest goes first; signals of a kind leave in the order of arrival; a drain takes all that was queued when it began; the aggregator implements `LossyBuffer` |
| `ExtensionLifecycleProofs` | of the tracker: type correctness; the memory is bounded and names no id twice; slot and memory agree; a timely signal leaves holding enabled; no invocation that was signalled is penalised; the first source is final. Of the extension: it implements `CompletionTracker`'s specification; what was in processing at SHUTDOWN is flushed; the hold cost is paid once; `runtimeDone` follows the metrics; under hypotheses, a hold outlasts the function and health is judged fairly |
| `FlushControlProofs` | a flush keeps its deadline; the path back to `/next` is bounded; no held signal gets too old; the `end` strategy parks with nothing |
| `FreezeStateProofs` | without overlap: between operations no process is stopped with the flag clear, and with the flag set every process that lives is stopped, whichever processes end; no waiting report task stops anything after the shutdown; with one invocation at a time, no process is stopped while work waits |
| `SimulatorLifecycleProofs` | type correctness; readiness is earned; no poll about the newest invocation is lost; an invocation is reported at most once |
| `TelemetryDeliveryProofs` | type correctness; a buffer keeps the newest; only a retry of `flush_all` duplicates; one task keeps order; after a shutdown only tasks of replaced subscriptions run on |
| `TracingProofs` | of the processor: a span joins the start and the end of one request, with the status of that end in the form the conversion gives it and the ids its header names; while batches come in order, exactly the open starts are kept; completion follows the metrics; once no task is under way all that was delivered is converted. Of the Tower layer: exactly one cold start, none with provisioned concurrency; attributes reach the span; the span has the sender's context; the response waits for the flush |
| `ExtensionConfigProofs` | the highest source that speaks of a field decides it; the headers of all sources are sent, the higher source's where two name one; a start fails only for the file, a variable named after a section, a value of the wrong type in one of these two, or because the highest source that knows a protocol asks for gRPC |

The theorems on the tracker are in the same module as those on the extension, which
uses them: it extends `CompletionTracker`.

Each theorem `Spec => []Inv` follows the same pattern: an inductive invariant in named
parts, a lemma that the initial states have it, lemmas that an action (or a group of
actions that touch the same part) preserves it, and a temporal last step. Each
invariant was checked with TLC on the run's instance before it was proved.

### 4.1 What the theorems assume

The assumptions on the constants are those named in the modules (`TrackerAssumption`,
`AggregatorAssumption`, `SimulatorAssumption`, ...): sets of the right kind, natural
numbers, a memory that holds something, an interval that is not zero. `TickFloor`, the
shortest tick of a hold, is positive, as the code has the literal 10 ms
(`ext/service.rs:241`); with a floor of zero a tick could fall on the instant it was
computed at. A trace header is a sequence of parts (`IsHeader`), and an id of `Ids` is none
of the marks for wrong ones (`IdsAssumption`). Of the configuration's sources, a file has
values for fields only, an `OTEL_` list of headers is a sequence of sequences of strings,
and the name of a variable is a sequence of words (`ConfigAssumption`). Of the platform, `ProcessorInit` says
that it logs each invocation's start before its end, and each of them once.

Some theorems have hypotheses of their own, and TLC finds a counterexample without each:

- *No overlap* (`~Overlap`, all of `FreezeStateProofs`): a thaw and a freeze do not run
  at the same time, as on a single-threaded runtime. With threads `NoStopWithWork`,
  `ShutdownLeavesRunning` and `FlagTellsTruth` all fail (3.4).
- *One invocation at a time* (`WorkFindsProcessesRunning`, `MaxPending <= 1`): a second
  one could be enqueued before the first one's report task captures its epoch (3.4).
- *Ids not used twice, and wrappers that send theirs* (`HoldWaitsForFunction`,
  `DistinctIds` and `PostsCarryId`): a retry
  finds its id in the memory (3.4), and a signal without an id is taken for the
  invocation in flight.
- *A place in the memory for each invocation* (`HealthJudgedFairly`, `MemorySuffices`):
  otherwise a signal that came before its INVOKE may be forgotten by then (3.4).

### 4.2 The arguments

**Tracker.** `TrackerInv` joins types, `MemoryIsBoundedAndDistinct`,
`CurrentAgreesWithMemory` and `FreshSignalRestoresHealth` with two facts about the
slot: a signal that was seen inside the window has completed the slot
(`SignalledIsComplete`), and an invocation that did not begin complete and is complete
while its window is open has reset the counter (`CompletedInOpenWindow`). Without
them a step that only closes the window, or a second signal, could break the statement
about health. `SignalledIsComplete` also says that a signal which came at all, remembered at
`begin` or given since, has completed the slot, though nobody heard it and whatever the
memory has forgotten; a wait that is counted saw an empty slot, so
`SignalledNeverPenalised` follows. The lemmas on `Room` say that dropping the head keeps a list of ids
distinct and makes place for one more, so that a lookup stays unambiguous.

**Aggregator.** `BudgetRespected` is not inductive alone. The invariant adds that a
getter and an `add` never hold the mutex together, and that a batch in progress
belongs to a drain: only then does an eviction or a push meet the counts that its loop
condition has just read. That `adding` fits an empty queue is part of the type.
`Ownership` puts each signal into one place, keeps every queue in the order of arrival
and the batch in progress ahead of what is still queued; so the head that an eviction
takes is the oldest of its kind. `OwedIsAhead` says that what the drain owes and has
not taken is of a kind that it has not finished, although `add` runs between its
batches; at the end there is no kind left. The refinement maps `held` to what is queued
or in the batch in progress, and `lost` to what has arrived and is nowhere: with
`Ownership`, every push adds one signal, every eviction loses one, and every batch that
is returned takes its own, once. `KindOrderKept` is inductive together with
`Ownership`: a pop takes the oldest of a queue, which is younger than all that was popped
before, and a push brings the youngest of all.

`Sums` follows the bytes: the counter is the sum over the three queues and the batch in
progress, and what a getter has counted towards its limit is the sum over its batch. `BytesIn` is a
recursive function, and `SumUnfolds`, `BytesInAppend` and `BytesInTail` say what it
computes and how a push and a pop change it. They need induction over the length of a
queue, for which the library's theorems are of no use here (they take an operator as a
parameter). `SetInduction` is the way around that: a set of numbers with 0, and with the
successor of each of its members, has them all, because the intervals `0 .. n` are finite
sets, proper inclusion of finite sets is well-founded, and so every non-empty set of
numbers has a least one (`SmallestNumber`). An induction then shows that a set defined by
comprehension is all of `Nat`.

**Extension.** The handler uses the tracker's actions with guards of its own, and
`ExtensionUsesTracker` shows that it never leaves what `CompletionTracker` allows: the
waiter it starts is its only one (`HoldWaits`), so all theorems on the tracker hold here.
`CompletionsSound` says what a remembered source tells of the world: the id was invoked,
the function has returned if posts carry ids, and its metrics have been added if
the source is `RuntimeDone`. With `NothingForgotten` and a pigeonhole
argument (ids of invocations do not fill a memory that has a place for each) a wait that
meets silence is one for an invocation whose telemetry has not been processed. In
`FinalFlushTakesAll` the write lock that SHUTDOWN gets implies that the batches under
way are done; their metrics are owed by the drain, then out, then exported.

**Flush control.** All bounds follow from where a wait may stand in time.
`ExportInTime` says that attempt and backoff end by the flush's deadline, which
rests on `export_with_retry` cutting its timeout to the rest and giving up when the
backoff does not fit; `DeadlineKept` carries it through a flush of many batches, one
deadline for all. `WindowKept` says that a hold's window ends one flush budget before
the function's deadline, but that a flush which began on its last tick may return after
it, when no tick is due. `TickInTime` says that the next tick comes by the end of the
interval counted from the last flush, and before the oldest signal is too old.

**Freeze.** `Separate` has a thaw exclude everything else, `EpochsCaptured` has a task
that passed its check hold the current epoch, and `FlagFollowsSignals` relates the flag
to the signals sent so far, in the middle of an operation as well: the flag is true and
says whether any process was stopped, or false and only processes further on in the
list are. Processes that end drop out of it on either side, so that it speaks of those
that live and of those that are stopped. `ShutdownClears` says that all epochs captured before are out of
date. `OneAtATime` is needed for work: a task with the current epoch was spawned
after the last thaw, so the invocation that thaw was for is done.

**Simulator.** `NewestKeepsReadiness` depends on an order that no single component
keeps. `OrderKept` says: the queue holds the consecutive numbers after the one taken
last, the runtime answers for the one taken last, and an invocation is done only after
it has been taken. So when the newest invocation is done, it is the one completed
last, and a poll about it is counted either in advance or directly.
`SleepersRegistered` carries the type of `acknowledged` through a wake-up, and
`ReadinessEarned` and the types complete the invariant. `ReportedOnce` follows from
the same invariant: an invocation with a report task has the status "Completed".

**Telemetry delivery.** `NewestWait` says by index that a buffer is what `pushed` ends
with. `OnePlace` follows an event: for each extension it is in the buffer, in the
hands of one task, in the flush's, or received, and only a flush that tries again may
hold what was received; `UnsentIsNowhere` makes an event that is buffered new
everywhere. `InTurn` keeps the order: received, then in hand, then buffered, each a
part of `pushed`, for an extension with one task while the simulator runs. Tasks of
an earlier subscription are the reason for both: two tasks of one extension never carry
the same event, but may overtake each other. `HandlesNewest` says that until the shutdown
the handle of an extension is that of its newest task, so what `shutdown` does not abort
belongs to a subscription that another one replaced.

**Telemetry processing.** `ProcessEvents` and `FlattenSeq` are recursive functions; as for
the aggregator, `RunUnfolds` and `FlattenUnfolds` say by `SetInduction` what they compute.
`PlatformLogs` then finds in every log a start only ahead of the end of its request, and
one of each. `BatchIs` and `BatchesCoverTheLog` relate a batch to its stretch of the log,
`EventPreserves` and `EventSpans` say what one event does to the processor, and
`BatchPreserves` and `BatchSpans` carry that through a batch. In `ProcessorInv`, what is
pending under an id is a start that the log has of it (`PendingOK`), so whatever order
batches come in, a span joins two events of one request; that it joins them in order is
the log's doing. `OpenAreKept` says that as long as batches come in order, what is pending
are the requests that are open at the end of the last batch; with it, `PairsHaveSpans`
finds the start of each end still there, one batch or many later. `CallOK` follows the
metrics of a call: what its batch reported is added or still in its hands, so that a
completion, which comes when its hands are empty, follows them all; `NothingLost` says
the same of every batch that was delivered.

**Tower.** `ColdStartTaken` says that the flag is taken exactly when a call has begun,
and by whom. `SpanAheadOfResponse` says which providers a call has passed: a span that
nothing outlives is closed before the first flush and gone from the processor before the
second one. The context of a span is decided when the call begins, so that its theorem is one
about the readers: of a canonical header, whatever the order of its parts and whatever
other keys it has, the part of each name is the only one and hence the last one
(`LastOfOne`, `CanonicalMeans`), which is what each reader takes (`MessagesAreRead`,
`EnvironmentIsRead`; `ExtensionReads` for the extension's own).

**Configuration.** `ConfigInv` says what has been merged at each step, as a function of the
sources: a load has no other state, but it can stop early. The properties are about what this
function is, for any file and any set of variables. `ConfigOK` goes through the fields of the
structs once and finds what the rest needs of them: each has a section and at least one word,
its default has its type (but for the endpoint), and only the exporter's headers are a table.
Sections differ in their first word, so at most one of them begins a name (`OneSection`), and
`KeyMeans` follows: a variable has the key of a field just when its name is the field's,
however many words that has. Without it a variable could land beside its field and a lower
source decide. `MergeIs` says that a merge acts on each path for itself, and
`MergedOrReplaced` that what is not a table comes from the source merged last; a value that
was accepted is no table unless the field is the headers (`NoTable`), so the last source is
what is read (`LastSourceIsRead`). For the headers `TablesJoin` follows the three joins, and
`HeaderPairsIs` finds the last pair of a name (`LastIndex`). A load that fails is taken the
other way round: if the file and the variables have the right types, every merge leaves a
value its field takes (`MergeKeepsGood`, `KnownIsAccepted`), so that the extraction succeeds.
An exporter that refuses has a protocol other than `http`, which can only be `grpc`; the
default is not, so by `LastSourceIsRead` the highest source that knows a protocol says so.

### 4.3 Left to TLC

- Liveness (`WaitEnds`, `MutexReleased`, `HandlerReturns`, `PollsAnswered`,
  `ResponseReported`, `ShutdownCompletes`, `EventsMoveOn`): out of the prover's reach.

All safety properties of the runs are proved, the invariants and the action properties; the
two findings are runs that must fail. What recursive definitions compute is proved by
`SetInduction` for `BytesIn`, `ProcessEvents` and `FlattenSeq`.

## 5. Not modelled

- `ext/resource.rs`, the configuration's builder, `ext/error.rs`, `ext/lib.rs`: read or
  built once, no state afterwards.
- The layout of OTLP messages, encoding, compression, TLS and HTTP parsing; the
  receiver's health route and the graceful stop of its server.
- Span names and trigger types of the extractors: text without an effect on others.
- Process spawning, builders, accessors and the polling `wait_for_*` helpers of the
  simulator, its payload checks and headers, clock readings in its reports.
- The loading of the original handler in the wrappers, logging, the example function.
- Threads in `SimulatorLifecycle`: on a multi-threaded runtime
  `mark_extension_ready` and `wait_for_all_ready` have windows that a single thread
  does not open.
- Panics of spawned tasks: the zero bounds of 3.4 are hazards without a property.

## 6. Plan

All components with state of their own are modelled, and every safety property that a run
checks is proved. What is left is on the model: the receiver's stop at SHUTDOWN, and
`SimulatorLifecycle` with threads.

## 7. Running it

    tlc -workers 2 -config MCTowerTracing.cfg MCTowerTracing.tla
    tlapm TelemetryDeliveryProofs.tla

`PROJECT.json` lists each run with its module and configuration, a mutation of the
model for each property that must violate it, and the source lines that each definition
stands for. The largest run (`flush_control`) has about 13 million states and takes a
minute and a half, as does `tower` with five million; the proofs take about ten minutes,
of which `TelemetryDeliveryProofs` takes three.
