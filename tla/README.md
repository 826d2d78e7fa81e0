# Loxa: a TLA+ development of the event delivery path

Loxa takes structured "wide" events from applications (SDKs), collects them in a
service (`loza-collector`) and stores them in one or more sinks; a separate engine
(`cortex`) reads them back from the collector and derives a graph from them. What the
program promises is about *delivery*: an event that was accepted reaches a sink, once
where the code says so and in order where it says so, whatever crashes, retries, full
queues, reloads and shutdowns come in between. This development models the parts that
make or break that promise, checks them with TLC on small instances and proves the
most important invariants with TLAPS for all of them.

Paths in this document are relative to the repository; `K/` stands for
`collector/cmd/loza-collector/`.

## 1. The system and its components

```
 application ── SDK event ── pipeline / batch sink ── HTTP ──▶ ingest handlers ── Processor ──▶ sinks
              EventLifecycle   Pipeline, PyPipeline,            Ingest (dedupe)     │ direct   DuckSink,
       JsEvent, PyEvent,       RustLogger, BatchSinks, Delivery   │                 │          BatchSinks,
       Loggers, SdkConfig                                         ├─▶ Spool ────────┤ spool    DeadLetters
                                                                  ├─▶ event bus ─▶ loza-worker  EventBus
                                                                  └─▶ cortex bridge ─▶ cortex   Bridge
        cortex ◀── history pages, tail ── collector                                CortexSync
           └── events ─▶ nodes and edges ─▶ traversals                             ServiceGraph
```

| Component | Source | State it keeps | What is hard | What makes it correct | Module |
|---|---|---|---|---|---|
| Delivery spool | `K/spool.go`, `K/server.go` | spool file, position file, queue, `queueBytes`, `spoolMu` | a crash between any two file operations, a lock held across a blocking send, two users of one descriptor | an acknowledged event is delivered or found again by the replay; the checkpoint never passes a record on its way; replay and shutdown end | `Spool`, `SpoolProofs` |
| The promise to the client | (abstract) | acknowledged, durable, settled events | | an acknowledged event is durable or settled | `Custody`, `CollectorProofs` |
| Ingest handlers, dedupe, in-flight limit, tail broadcast, reload | `K/handlers.go`, `state.go`, `dedupe_store.go`, `pipeline_runtime.go`, `server.go` | dedupe stores, processor and its lock, counters | an id recorded before its event is safe; a processor replaced under a request; panics | implements `Custody`; an id is delivered once; requests end | `Ingest`, `IngestProofs` |
| Event processor | `collector/internal/processing/processor.go` | dedupe store, sinks | retries, fallback, dead letters | answers agree with what the sinks hold | `Processor`, `Ingest` |
| Dead-letter file | `processor.go`, `K/control_handlers.go` | the file, an open descriptor, a temporary file | a rename under an open descriptor, two deletes at once | a dead letter stays until it is deleted | `DeadLetters` |
| Event bus and queue worker | `collector/internal/eventbus`, `collector/cmd/loza-worker` | offsets, channel, last poll | two acknowledgements of one record | a record is lost only with the memory of a process | `EventBus`, `EventBusProofs` |
| DuckDB sink | `internal/sinks/duckdb` | buffer, channel, pending error | Close against writers and the ticker | accepted rows are stored or their loss is reported | `DuckSink`, `DuckSinkProofs` |
| Batching sinks | `internal/sinks/{loki,s3,gcs}`, Go and JavaScript SDK HTTP sinks | buffer, timer, flush lock | a failed batch against new events and Close | order, nothing lost, Close sends | `BatchSinks` |
| Disk and memory queue | `collector/internal/queue/queue.go` | events, breaker, files | a condition variable nobody signals | taken events are written, failed or counted | `DeliveryQueue`, `CollectorProofs` |
| Collector configuration | `K/config.go`, `internal/config/schema.go` | layers, running configuration | a reload checks one thing and keeps another | what runs is what was checked | `Config`, `ConfigFields` |
| Cortex bridge | `K/cortex_bridge.go` | bounded queue, sender | Close against Deliver | what was taken is sent or tried | `Bridge` |
| Collector sync of cortex | `cortex/internal/collectorsync`, `collectorbridge` | cursor, its file and backup, tail | late and tied timestamps, crash between file and memory | the cursor passes no stored event | `CortexSync`, `CortexSyncProofs` |
| Event processor and graph of cortex | `cortex/internal/processor`, `graph` | nodes, edges, adjacency cache | overlapping requests of one trace, half-done batches | events of a trace are joined; a traversal shows them | `ServiceGraph` |
| Go SDK event | `sdks/go/src/core/{event,logger,timing,duplicate_policy}.go` | lifecycle, attributes, handles | two emitters, attributes set during an emit | emitted once and whole | `EventLifecycle`, `SdkProofs` |
| Go SDK loggers | `sdks/go/src/core/{logger,standard_sinks,config}.go` | default logger, pipelines, shared lists of sinks | a logger replaced under a goroutine; sinks shared by loggers; an append in place | an event is in every sink its logger was made with, or on its way | `Loggers`, `SdkProofs` |
| Go SDK configuration | `sdks/go/src/core/{config,config_file,config_options}.go` | the program's configuration and its flags | five layers, merged by value | what runs is what the highest layer asked for | `SdkConfig` |
| Go SDK pipeline | `sdks/go/src/core/pipeline.go` | channel, `pending`, batch and carry | close racing an enqueue, drain accounting | Flush and Shutdown mean what they say | `Pipeline`, `PipelineProofs` |
| Python SDK pipeline | `sdks/py/src/loza/core/pipeline.py` | queue, offline buffer | an acknowledgement by count | what was emitted is delivered or kept | `PyPipeline`, `SdkProofs` |
| Python SDK event | `sdks/py/src/loza/core/{event,logger,timing}.py` | state, attributes, `emitted` | no lock: threads between a check and its use, an exception handler that overwrites the state | emitted once and whole | `PyEvent`, `SdkProofs` |
| JavaScript SDK event | `sdks/js/src/core/{event,logger,timing,sanitize}.ts` | state, attributes, handles | callbacks during `run`'s await, a finish that throws in a catch | emitted once, with an outcome that fits | `JsEvent`, `SdkProofs` |
| Senders of the SDKs against the collector | `sdks/go/src/core/{standard_sinks,http_transport}.go`, `sinks/httpbatch` (Go, Python), `standard-sinks.ts`, `sink.rs`; `K/handlers.go`, `internal/ingest/response.go` | buffer, batch, attempt; dedupe store, acknowledgements | lost answers, a request still handled after its sender gave it up, answers that are half a success | what was written is kept, reported, stored or refused in view of the sender; an id is stored once | `Delivery`, `CollectorProofs` |
| Stager | `spec/services/{stager,kafka_adapter,queue_prototype}.py` | queue position, staging files, dead letters | a commit that covers the message before it | a message that left its queue is staged or a dead letter | `Stager`, `CollectorProofs` |
| Rust SDK logger | `sdks/rs/src/{logger,event,sink}.rs`, `internal/queue/mod.rs` | channel, batcher, shared lifecycle | clones of an event, swallowed errors | flushed is written; sent once | `RustLogger`, `SdkProofs` |

`PROJECT.json` lists every component, the ones that are not modelled with the reason,
under `map` the lines each definition translates, and under `hazards` what in this code
is hard to test, at its line, with the properties that look at it.

## 2. How the project is built

Every component has a module of its own with its state as variables, one action per
step between two points where something else can interfere, a type invariant and its
properties. The large ones have an MC module with its own configurations (`MCSpool`,
`MCPipeline`, `MCIngest`); `MCCortexSync` and `MCPyPipeline` exist for one question
each. The others share no state with each other and are small, so `MCUnits`
instantiates them all: a variable `unit` chooses one at the start, the variables of the
others stay at 0, and a property of `MCUnits` is the conjunction of the properties of
the same kind of each component (`NothingVanishes` is `Duck!NothingVanishes` in the
states of the DuckDB sink, and so on). That is the union of the components' state
spaces and not their product.

`Custody` is the abstract specification of the collector: `Spool` implements it with
byte offsets and crashes, `Ingest` implements it with handlers, dedupe and processors,
and abstracts from the spool to what `Custody` promises of it. So the two compose: what
`Ingest` assumes of the durable sequence is what the run `fault` shows of the file.

| Run | Module | Question | Outcome |
|---|---|---|---|
| `fault` | `MCSpool` | the spool under two crashes and a failed file operation | holds |
| `liveness` | `MCSpool` | do replay, queue and shutdown end? | holds |
| `wedge` | `MCSpool` | does a handler blocked on the full queue resume? | violated (3.4) |
| `crashsafe` | `MCSpool` | is the spool crash-safe? | violated (3.4) |
| `pipeline_sinks` | `MCPipeline` | what Flush, Shutdown and an error mean, under SyncFallback | holds |
| `pipeline_live` | `MCPipeline` | drain accounting, sleep and progress, under DropOldest | holds |
| `pipeline_lost` | `MCPipeline` | is every accepted event written? | violated (4) |
| `ingest` | `MCIngest` | does ingestion implement `Custody` in every mode? | holds |
| `ingest_redis` | `MCIngest` | and with the dedupe store in Redis and a crash? | violated (5) |
| `recovered` | `MCCortexSync` | does the sync go on after a recovered cursor? | violated (6) |
| `python_ack` | `MCPyPipeline` | is what is acknowledged delivered? | violated (6) |
| `units` | `MCUnits` | all the other components | holds |

Every property of a passing run has at least one mutant of a mapped definition, named
`<Definition>_<What>` and defined next to it, which TLC finds to violate the property.

## 3. Module Spool

`K/spool.go`, with the parts of `handlers.go` and `server.go` that call it.

### 3.1 State

| Variable | Code |
|---|---|
| `file` | the spool file, a sequence of byte cells; every cell knows its event, its index and whether it is a newline |
| `posFile` | the content of `<spool>.pos`, `NoPos` when there is none |
| `quarantined`, `delivered`, `deadLettered` | `<spool>.bad.ndjson`, what a sink accepted, the dead-letter file |
| `phase` | life of the process: down, replay (inside `initReliability`), serve, stopping (HTTP shutdown), draining (channel closed), nilqueue, closed |
| `processedPos` | `spoolProcessedPos` |
| `queue`, `queueBytes`, `deliverySpace` | the channel `deliveryQueue`, `metrics.queueBytes`, the one-slot channel `deliverySpace` |
| `spoolMu` | who holds the mutex |
| `epc`, `eitem` | every enqueuer (a handler per event, and the replay): where it stands in `appendAndEnqueueSpool` / `enqueueDelivery` / `replaySpool`, and its item |
| `wpc`, `witem` | the same for `deliveryWorker` |
| `scan` | the `bufio.Scanner` of the replay: buffer, EOF flag, offset of the next line, size at the start, offset of the shared descriptor |
| `posAhead` | history: a position beyond the file was left behind (section 3.3) |
| `crashes`, `restarts`, `faults` | bounds |

Records are byte sequences because the code computes with byte offsets, and the errors
it can make are offset errors: a stale position points into the middle of a record
that replaced the one it was taken from. A JSON text is two cells or more and one
newline; a pretty-printed one (`MultiLine`) has a newline inside. A line of the file is
valid JSON iff it is the text of one event.

`AppendRecord` is the whole of `appendSpoolLocked` (the write, the fsync and the
bookkeeping happen under `spoolMu` and no other goroutine reads the file in between;
`CrashInWrite` is the death in the middle of it). The enqueue is three steps, `Reserve`
/ `WaitForSpace` / `SpaceSignalled` / `Send`, because the worker's release may come
between the check and the wait. `saveSpoolPosition` is two steps, remove and rename.
`markSpoolDelivered` is one of `WorkerMarkRefused` (the gap check),
`WorkerMarkAdvance`, `WorkerMarkTruncate`, followed by the save; it also seeks the
descriptor the replay reads from (`Seek`). The scanner reads in any portion the
operating system may return (`ReplayRead`). `CrashBetween` and `CrashInWrite` kill the
process: files keep what was written, memory is gone, requests in progress get no
answer. `AppendFails`, `WorkerTruncateFails` and `WorkerSaveFails` are failed file
operations, whose errors the code only logs. `SendPanics` is the send on a closed
channel of a handler that outlives `shutdown_timeout`.

Left out: power loss (files are assumed to keep what a successful write put there), a
failure of the truncation in the replay and of the quarantine file, encryption of the
records (it changes their length only), the metrics and the `spoolHealthy` flag.

### 3.2 Runs

| Run | Instance | Shows |
|---|---|---|
| `fault` | 3 events of lengths 2, 3, 2, queue of 1, byte budget 3, spool of 7, 2 crashes at any step, 1 failed file operation | `TypeOK`, `LockDiscipline`, `NoLostWakeup`, `HeldOnlyByUndelivered`, `BacklogWithinLimit`, `PipeInOrder`, and the refinement `KeepsCustody` |
| `liveness` | 2 events, shutdown, restart, replay; fair | `ReplayEnds`, `QueueDrains`, `ShutdownCompletes` |
| `wedge`, `crashsafe` | 3 events of equal length | violations, section 3.4 |

Three events of two lengths are the least that lets a stale position fall on a
boundary, into a record, and beyond the end of the file. A queue of one reaches "full"
with the second handler. The byte budget of 3 makes the long event fill it alone and two
short ones exceed it, so handlers wait on `deliverySpace`. Two crashes are needed by
the known failure: one leaves the stale position, the second uses it. In `liveness` two
events are enough for a replay that finds several lines, a queue that is full and a
shutdown in the middle; the deadlock itself takes three and is shown by `wedge`.
`CHECK_DEADLOCK FALSE` because the process may stay down or idle for good.

`FairSpec` has weak fairness for the goroutines of the collector that are not waiting
for a mutex (Go runs every runnable goroutine), and strong fairness for those that take
`spoolMu`: a `sync.Mutex` switches to starvation mode and hands itself to a waiter that
has waited for a millisecond. There is no fairness for clients, crashes, faults or the
operator.

### 3.3 The refinement of Custody, and posAhead

`Promise` instantiates `Custody`: acknowledged are the events whose handler answered
200, held are those whose text lies in the file where a restart looks, settled those
that were delivered, dead-lettered or quarantined. `KeepsCustody` says that the initial
states map to initial states and that every step is a step of `Custody` or a stutter,
with one exception, stated as narrowly as the code allows: `posAhead` becomes true when
a save is given up on (by a crash or a failure) at a moment when the position on disk
is larger than the file. In every behaviour where that does not happen every step is
one of `Custody`, with crashes at all other places, torn writes and failed operations.

### 3.4 What the code does against its own documents

* `wedge`: a handler holds `spoolMu` while it waits for room on the queue; the worker
  must take `spoolMu` before it makes more room. With the queue full both wait for ever
  (`Wedged`). `QueueDrains` and `ShutdownCompletes` therefore hold only "or `Wedged`".
* `crashsafe`: the file is emptied before position zero is saved. A crash in between
  leaves a position larger than the file. If the file has grown past it by the time of
  the *next* crash, the replay starts in the middle of records nobody delivered.

Without a run: an event the sinks refuse stays before the checkpoint, and all later
records are delivered but fail the gap check and stay in the file until a restart
delivers them again (`WorkerFails`; `HeldOnlyByUndelivered` says that nothing else keeps
a delivered record). `max_spool_bytes` bounds the bytes after the checkpoint
(`BacklogWithinLimit`), not the file. The replay's scanner cannot take a line of
`max_event_bytes`, which ingest accepts, so the replay stops there (`ReplayTooLong`).
The worker's seek moves the descriptor the replay reads from; the replay then stops
early, and `ReplayEnds` holds nevertheless.

### 3.5 Proofs

For all sets of events, lengths, queue sizes and limits that satisfy the assumptions of
`Spool` (a pretty-printed text has its newline between two other bytes, `MultiLine` in
`SizesAssumption`), `SpoolProofs` proves `Inductive` (`Spec => []IInv`), `TypeCorrect`,
`LockHeld` (`LockDiscipline`), `PipeOrdered` (`PipeInOrder`), `BacklogBounded`
(`BacklogWithinLimit`) and `WakeupComes` (`NoLostWakeup`); and from `CustodyInvariant` the
refinement, `CustodyHeld` (`KeepsCustody`), and `HeldBehind` (`HeldOnlyByUndelivered`).

*Order.* `PipeInOrder` says that what is being enqueued, queued or worked on lies ahead of
the checkpoint, disjoint and in file order. It is not inductive: that the next item follows
all others needs to know who may enqueue (`LockDiscipline`: one handler at a time, and
none during the replay, `PhaseOK`), that a loaded position lies within the file
(`PosFileOK`), and that the scanner's next line lies behind all it has handed out and
within the file even when the worker empties the file under it (`ScanOK`). `IInv` is the
conjunction. The proof has one lemma per conjunct and action group: types (`TypeStep`),
phases (`PhaseStep`), lock (`LockStep`), position file (`PosFileStep`), scanner
(`ScanStep` with `ReadScan`, `TakeScan`, `SendScan`, `ReceiveScan`, `TruncateScan`) and
order (`PipeStep` with `SendOrder`, `ReceiveOrder`, `GrowOrder`, `TakeOrder`,
`NothingBehind`).

*Backlog.* `BacklogWithinLimit` speaks of the position in memory, and a restart takes the
one on disk. `Saved` relates the two: without crashes and failed operations they are equal
except while somebody saves, and the limit holds for the file of a process that is down.

*Wake-up.* A waiter for room must have somebody's release ahead of it, so that the sum of
what others hold has to be positive. `Ledger` says that `queueBytes` is the sum of the
payloads on the queue, in the worker's hand and in a send. No prover here can define that
sum by induction; `Owed(q, m, n)` says instead that running totals exist and end in
`n`, and the lemmas `OwedAppend`, `OwedTail` and `OwedRelease` follow the channel. `Sized`
(no item is empty) needs `ScanBound`: the scanner never reads past the file it found, even
from a position that lies beyond the end.

*Custody.* `CInv` says where an accepted event's text is. The file consists of cells of
records of which some have lost their tails in a crash (`Cells`), the record of an event
about to be accepted is whole (`Fresh`, `Intact`), the scanner's buffer is the part of the
file that comes next (`Buffered`), an item covers the text of its own event or of one that
was quarantined (`Covered`, `Own`), what is marked was delivered (`Marked`), and the
position on disk is behind the one in memory (`Behind`). Then `InCustody`: an accepted
event is settled, or has text beyond both positions. `CustodyHeld` maps each step to one
of `Custody` or a stutter (`StepPromise`), as long as `posAhead` is false, and
`SafeUnlessAhead` states the consequence for a single state: in every state in which no
position was left ahead of the file an accepted event is settled or found by a restart.
`crashsafe` shows that the exception is one.

*Held records.* `HeldOnlyByUndelivered` is about the life of a process that started on an
empty spool. In it (`HInv`) every byte beyond the checkpoint is on its way to the worker
(`Flowing`), or the record at the checkpoint was not delivered and never will be
(`Stuck`); an event has one record and at most one item (`Single`, `Carried`). With
nothing on its way, the first of the two says that the file is empty.

`CollectorProofs` proves `PromiseKept`: `Custody` keeps its promise `Kept`, for any set of
events. With `CustodyHeld` that is what a client of the spool gets, and with `CustodyKept`
(section 5) a client of the ingest handlers.

Only model-checked: `ReplayEnds`, `QueueDrains` and `ShutdownCompletes`, which are
liveness and out of the prover's reach.

## 4. Module Pipeline

`sdks/go/src/core/pipeline.go`, whole; `logger.go` and `config.go` for what its callers
make of the results.

| Variable | Code |
|---|---|
| `queue`, `done`, `pending` | the channel, the channel that is closed once, the atomic counter under `drainMu` |
| `epc`, `ret` | every `Enqueue`: where it stands, and what it returns (accepted, closed, dropped, failed) |
| `wpc`, `batch`, `carry` | every worker: where it stands, `batch` of `collectBatch`, the variable `carry` |
| `tpc` | the flusher's goroutine |
| `cpc`, `expired` | every caller of `Flush` or `Shutdown`: before, checking under `drainMu`, asleep on `drainCond`, waiting for the workers, flushing, returned; and whether its context has expired |
| `buffered`, `stored` | for every sink and the fallback: what it took and what it has flushed (the sinks themselves are external) |
| `reported`, `evicted` | items of a batch for which `OnError` was called; accepted items `DropOldest` threw away |
| `sent`, `written`, `owed` | history: the order of the sends, of the writes, what had been accepted when a caller called |

An item is a name with a length; whether it is a debug item or an error decides what
the policies do with it. `Enqueue` is cut where another goroutine can interfere: the
first check of `done` (`Call`), the reservation (`Reserve`), the select (`Send`,
`Closed`, `Drop`), for `DropOldest` the second and third select (`Overfull`, `Evict`,
`NoVictim`, then `Send` or `Drop` again), for `SyncFallback` the direct write
(`Overflow`, `WriteDirect`), and the deferred `finishItems` (`Release`). A Go select with
several ready branches picks any: `Send` needs room and does not look at `done`; a
default branch (`Full`) needs every other branch not to be ready. A worker takes one
item per step (`NextItem`, `Collect`), so that producers and other workers come in
between. `FinishItems` and `Check` are atomic because both run under `drainMu`.

Left out: the length of the ticker's interval (a tick may come at any time), the
callbacks' code, `notifyError` being called twice for a failed batch, and the time a
write to several sinks takes (`Deliver` is one step: the properties look at where items
are before and after a write, and the batch is counted as in flight throughout).

| Run | Instance | Shows |
|---|---|---|
| `pipeline_sinks` | 1 worker, 3 items of lengths 1, 2, 1, queue of 1, limit 2, SyncFallback, a sink, a fallback, one failure, Flush and Shutdown without deadlines | `FlushMeansStored`, `NothingVanishes`, `NoWriteAfterClose`, `InOrder`, `BatchWithinLimit` |
| `pipeline_live` | 2 workers, 3 items, queue of 1, DropOldest, a Flush whose context may expire; fair | `TypeOK`, `DrainAccounting`, `NoSleepWhenDrained`, `FlushReturns`, `AcceptedIsWritten` |
| `pipeline_lost` | 1 worker, 2 items, Block, Shutdown; fair | a violation, below |
| `units` | 1 worker, 2 items, one of them debug, DropDebug, 2 failures (so the sink and the fallback can fail for one batch), a Flush | `NothingVanishes`, `DrainAccounting`, `FlushMeansStored` once more |

DropNewest and Sampled differ from DropDebug only in which items wait (`MayBlock`), Block
in that all do. Three items fill a queue of one while a worker holds another, the least
that makes a producer find the queue full, evict, and find it full again. Lengths 1, 2
and 1 with a limit of 2 give a batch of two, a batch that is exactly full and a carry.
Two workers are the least that can race for the head of the queue; `InOrder` is about
one, because two of them write in any order. The two items of equal length are
symmetric in `pipeline_sinks`: no property and no action tells them apart.
`CHECK_DEADLOCK FALSE` because the system stops when every goroutine has returned.

`FairSpec` has weak fairness for every goroutine that is under way and strong fairness
for the send of an item: a channel serves the senders that are blocked on it in the
order they came. Nothing is assumed of the application's calls, of contexts and of
`done`: the liveness properties speak of a pipeline that nobody shuts down, and
`pipeline_lost` shows why: an `Enqueue` that passed the first check of `done` may put
its item on the queue after the workers have left (`pipeline.go:116`); the event is
marked emitted and never written, and `Shutdown` has returned already or waits until its
context expires.

Without a run: `DropOldest` may drop the new item although it has evicted another one,
when a second goroutine takes the room in between (`pipeline.go:146`); `writeBatch`
returns the sink's error although the fallback has the item (`pipeline.go:240`), so that
under `SyncFallback` an event is marked `delivery_failed` that was delivered.

### Proofs

`IInv` is inductive (`PipelineProofs`, `Inductive`), for every set of items, workers,
sinks and callers, every policy, queue size and batch limit, from `ItemsAssumption` and
`ConfigAssumption`. `DrainAccounting` alone is not inductive: that
`finishItems(len(batch))` takes as many items out of flight as it subtracts needs a
batch without repetitions (`Unique` in `Apart`), that an item is on the queue or with
one worker only (`Apart`), and that a carry is never overwritten (`WorkerOK`). One lemma
per action that moves an item (`ReserveCount`, `ReleaseCount`, `EvictCount`, `SendCount`,
`TakeCount`, `FinishCount`) says what it does to the set of items in flight; `SameCount`
says that no other action touches it, and `DrainStep` turns this into the counter. From
`PendingCounts` follow the two theorems about Shutdown: `NoSleep`, because the step that
brings the counter to zero wakes all, and `WritersGone`, because a counter at zero leaves
no goroutine in a direct write (`ClosingStep`) and `done` closed lets no new one start.

The second half of `PipelineProofs` (`DeliveryInvariant`) follows an item after Enqueue has
accepted it. `NothingVanishes`
is not inductive: between the write of a batch and its `finishItems` the item is still
in flight, so that the invariant must say already that the write has an outcome
(`Attempted`), and that an Enqueue about to return accepted a direct write
(`Answered`). `WriteOutcome` is the one place where the sinks' results are told apart;
`OutcomeStays` shows that later writes, flushes and failures take nothing back. With
`IInv` every step that takes an item out of flight (`ReleaseCount`, `EvictCount`,
`FinishCount`) is one of those that settle it (`VanishStep`). `FlushMeansStored` needs
more than that at the moment of the call: `Drained` keeps, for every caller, that what
it is owed was accepted, and from the moment it has seen the counter at zero that all
of it is in the sinks' buffers, evicted or reported; the last flush turns the buffers
into what is stored. `BatchWithinLimit` is about a sum of any length, which no prover
here can do by induction on the batch. The state machine does it instead: the invariant
`Batches` carries along that the sum of the batch exists and is unique, `BytesAppend`
extends it by one item, and the batch grows by one item at a time.

`KeepsOrder` proves `InOrder` by two facts that go together (`Order`). `Follows` relates
what the queue took (`sent`) to the path out of it (what was written, the batch, the carry,
the queue): nothing that was not thrown away is missing from the path, nothing is on it
that neither the queue nor a direct write took, and positions agree. `Taken` says where the
goroutine is that took an item: one whose item is on the path has left `Enqueue`, or is
about to. Three lemmas say what can happen to that relation: an item joins both ends
(`FollowsSend`), one is thrown away at the head of the queue (`FollowsEvict`), or one is
written past the queue (`FollowsDirect`); every other step leaves the path as it is
(`WorkerPath`, `PathFrame`), because a worker moves items from the queue to the carry, the
batch and the sinks without changing their order.

The liveness properties are model-checked only.

## 5. Modules Processor and Ingest

`Processor` has the decisions of `processor.go` as operators: when the delivery policy
holds, when the fallback is tried, when the event is dead-lettered, and the possible
outcomes of one attempt. `Ingest` extends it with everything between a request and its
answer.

A request carries a batch; one served by `handleIngest` stops at its first event, one
served by `handleIngestBatch` (`Bulk`) goes through all. Each event is admitted or
refused (`Invalid` stands for the contract, limits and governance checks), deduplicated
in the state's store (before the append, single; for all events first, bulk), appended
to the spool, published to the second queue of hybrid mode, or given to the processor:
`ensureProcessor` with its two looks at `s.processor`, the read lock, the processor's own
dedupe, one to `attempts` deliveries with their retries, the fallback and the dead
letter. The worker takes records from the spool through the same processor. `Reload`
and `Shutdown` close a processor and set the field to nil under the write lock. A request
that reads nil in between panics, and the read lock it holds is never released
(`leaked`); so does a broadcast to a tail subscriber whose channel was just closed.
`inflight` follows `acquireIngestCapacity` and its release. What may disturb a behaviour
comes from the configuration's budget: crash and restart, shutdown, reload, failing
sinks, files and queues, the end of a dedupe window, a subscriber that leaves.

`ingest` has two requests with an event in common, one of them bulk, one invalid and one
quarantined event, a primary and a secondary sink and a fallback, and six
configurations: the three modes, the three policies, one and two attempts, memory and
Redis as dedupe store, each with the disturbances that concern it. Two requests are the
least for a retry, a duplicate and a race for one id; two sinks and a fallback the least
that tell the policies apart. It shows `TypeOK`, `InflightCounted`, `NoClosedProcessor`,
`OneDelivery`, the refinement `KeepsCustody`, and `RequestsEnd` under `Fairness`: weak
for handlers, worker, start and serve, strong for `Ensure`, which waits for
`processorMu` (a `sync.RWMutex` lets no waiter starve); `leaked` is the exception the code
leaves.

`ingest_redis` violates `KeepsCustody`: the processor records the id in Redis before it
delivers, and after a crash the replay of the accepted record is taken for a duplicate.

Without a run: a duplicate is answered as accepted although the first delivery failed
(`processor.go:289`); the error of a policy that failed in the first attempt is not
cleared by a retry or a fallback that succeeded (`processor.go:535`); the SDK contract
says "delivers each event AT MOST once" (`spec/docs/SDK_CONFORMANCE_CONTRACT.md:155`)
while every batching sink sends a batch again whose answer was lost.

### Proofs

`IngestProofs` holds for any requests, batches, sinks, policies, modes and bounds that
satisfy `IngestAssumption`: the worker is no request, batches are
sequences of events, the requests in progress are finitely many.

It proves `TypeCorrect`, `InflightExact` (`InflightCounted`),
`ProcessorInUse` (`NoClosedProcessor`) and `DeliveredOnce` (`OneDelivery`) from the
invariant `Inv`. It adds to them `Places` (where a request and the worker can be, that a
request has answered the events before the one in hand, that the worker's record is in
the spool and after the checkpoint, what a process leaves behind when it ends), `Modes`
(what is spooled is delivered by the worker alone), `ProcessorOK` (the processor in
`s.processor` has not been closed) and `Remembering` (an id that was delivered is
remembered or was forgotten; without it a second delivery could begin). Frame lemmas say
which steps touch which group of variables; `StepMoves`, `RequestMoves`, `WorkerMoves` and
`ProcessMoves` say how a step moves a request and the worker. `CountStep` has what every
return of a request gives back; `CountKept` turns it into the cardinality.

Its second half proves the refinement: `CustodyKept`, `NoRedisSpool => (Spec =>
KeepsCustody)`. `NoRedisSpool` excludes the configurations in which the code does break
the promise (`ingest_redis`); direct mode with Redis is covered. `StepPromise` maps
`Accept` to `Acknowledge`, `SpoolAppend` to `Take`, `Mark` to `Release` of the record it
moves the checkpoint over, and every other step to `Settle` of what it stored, or to a
stutter. It needs `Safe`: what did not fail in the last attempt has the event (`Taken`), an
event about to be accepted is in custody (`InCustody`), a record about to be marked has
reached the sinks or is not the first after the checkpoint (`Markable`), and what the
processor remembers has reached the sinks, is being delivered, or comes after a record
that was given up, which stops the checkpoint (`Recorded`). The last part is why an id may
be recorded before it is delivered (`processor.go:289`) without an accepted record being
lost: the memory dies with the process, and while it lives the checkpoint stays.

`RequestsEnd` is liveness and stays with TLC.

## 6. The components of MCUnits

Each paragraph names the module, what it abstracts from, the bounds and the fairness.
`CHECK_DEADLOCK FALSE` in all of them: a component stops when its calls have returned.

**EventBus** (queue worker). The memory, Kafka, Redis and NATS buses and the worker's own
Kafka loop ("legacy") as the code uses them; the brokers are external. `Handle` and
`Acknowledge` are the bus's goroutine, which acknowledges as soon as the handler has put
the record on the channel; `Poll`, `Process` and `Commit` the worker's loop, which
acknowledges again. 3 records (a channel of one and a poll of two), a
crash and a poll that comes too late, or a stop and a failed acknowledgement.
`LostOnlyInMemory`, `InOrder`, `RecordsProcessed` under weak fairness of the bus's
goroutine, the worker and the restart. `DELIVERY_SEMANTICS.md:7` says at-least-once; the
acknowledgement before the processing makes it at-most-once across a crash, which is the
exception `dropped` of the properties. Both safety properties are proved for all instances
in `EventBusProofs` (section 7).

**DuckSink**. `WriteEvent`, `Flush`, the ticker, the writer goroutine and `Close`, in both
modes, cut where `mu`, `flushMu` or the channel lets others in. 3 rows, batches of 2, one
failure. `NothingVanishes` with `LossIsReported` (the error of a lost batch is kept until
a call has returned it), `CloseStores`, `OnlyWriterRepeats`, proved for all instances in
`DuckSinkProofs` (section 7), and `EventuallyStored` under weak fairness of the goroutines
and strong fairness of `flushMu`.

**BatchSinks**. One module for three kinds, whose buffers have one shape: Loki, S3 and GCS,
the Go SDK's HTTP sink, the JavaScript SDK's. 3 events, batches of 2, one failed or
unanswered request. `NothingVanishes`, `InOrder` (the two kinds that send one batch at a
time), `CloseStores`, `EventuallyStored` under weak fairness of a flush that was begun, a
request and the timers. A second Close of the Loki kind returns nil without a flush. The
JavaScript kind has no timer after a failed flush (`Stalled`).

**DeliveryQueue**. Memory queue, breaker and rotating file of `internal/queue`. 3 events
in two calls, batches of 2, at most 2 in memory, two failures. `EnqueuedIsKept`,
`CloseFlushes`, and `Settled` under weak fairness of the goroutine and of Close. No
program of the repository imports the package. The module shows where it sleeps: an idle
queue's goroutine is in `cond.Wait` and hears neither the ticker nor Close, so that less
than a batch waits for the next Enqueue and Close of an idle queue never returns;
rotation overwrites `name.0`; after a failed reopening every write fails. Nothing reads
`CircuitBreakerHalfOpen` or the in-flight map.

**DeadLetters**. Files are inodes with cells: the processor appends to a descriptor,
DELETE reads, writes `.tmp` and renames. 3 events, 2 requests, a crash, a failed replay or
a reload with a failed write. `Kept` and `DeletedIsGone`. What they except is what the
code does: after a DELETE the processor appends to a file without a name until the next
reload or restart; what is appended between the read and the rename is lost; two deletes
that share `.tmp` spoil it; ids by position collide.

**CortexSync**. The history pages with their sort and limit, the tail with its
subscription, buffer and session, the processing of a batch into nodes and links, the
cursor's two files and its copy in memory. 3 events with tied and late timestamps, traced,
untraced and invalid, pages of 2, buffers of 1, one failure or a crash with a damaged file.
`CursorCovers`; `CatchesUp` under weak fairness of the sync, of the connection's reader and
of the broadcast of what is stored. `recovered` violates `RecoveredCatchesUp`: after a
recovery from the backup no save succeeds. `CursorCovers` is proved for all instances in
`CortexSyncProofs` (section 7).

**ServiceGraph**. Requests run concurrently and step by step: store, nodes, edges to the
groups of their trace and incident, links; the store refuses an id it has and an edge to a
missing node; a traversal fills and reads the adjacency cache. 2 or 3 events of
one trace in two requests; a fault with a retry, or a crash with a traversal.
`GraphFollowsEvents`. Its exceptions are what the code does: a batch with two events of a
trace is not linked with earlier ones; a request that failed half-way can never succeed;
the cache is never emptied, so only the first traversal of a service is complete, although
`cortex/docs/api-reference.md:267` offers "the service graph neighborhood"; the id of an
edge between two events lacks its type. `Edges` of a view has an edge twice when both ends
are expanded. Service aliases are left out.

**EventLifecycle**. One event of the Go SDK with two emitters (explicit and deferred),
attributes some of which are refused, one of the outcome, a handle (timer, group or
process) and a context attribute, under both duplicate policies; a call is cut where the
event's mutex is released. `EmittedOnceAndWhole`: one emission, which carries every
attribute that was accepted before it, and a state that agrees. The Go documents call Emit
idempotent (`logger.go:492`); with an enricher it returns `EventClosedError`. Proved for all
instances in `SdkProofs` (section 7).

**Loggers**. The loggers of a Go program and their sinks. Two goroutines emit through the
default logger or one they hold; the program derives children with a sink of their own,
calls Configure, SetDefault, Flush and Shutdown, twice in all; with and without pipelines.
The array behind a list of sinks is part of the state: `WithSink` appends in place when it
has room (`config.go:247`). A rotating file refuses an event once it is closed; a file sink
and a batch sink take it into a buffer that nothing empties. `EmittedIsKept`,
`NoneRefused`, and `Settled` under weak fairness of workers, tickers, emits and Configure.
Excepted, because it is what the code does: events of a goroutine that took its logger
before it was shut down (`late`); sinks the shutdown of another logger closed, which
parents and siblings still use (`SharedAndClosed`); and sinks that a sibling's `WithSink`
wrote over (`Overwritten`). A pipeline copies the list when it is made and is spared that
from then on, but a child of such a logger begins with what the list has become. The
exceptions are history (`closers`, `displaced`, `refused`) and not read off the lists, which
another append may write over again. Proved for all instances in `SdkProofs` (section 7).

**SdkConfig**. A preset, options in any order, two files, environment, DSN, and what
NewClient makes of them, field by field; a value carries the layer it is from, and the zero
value of a type is what the code takes for "not set". Four presets, two of 17 options, the
shipped defaults, three files, three environments, two DSNs. `RunsAsAsked`: a client runs
with what code, environment, file and defaults say in that order, its configuration is
valid, and its events go to a collector or to a sink of the program's own. `Ignored` lists
what the program asks for and does not get: alias, duplicate policy, host, panic recovery
and OTel bridge (no line in `mergeCodeConfig`); zeros such as `WithMaxRetries(0)`, and the
level debug, which is 0; a preset's switches and asynchronous part, so that `Dev()` and
`Test()`, sync by their comments (`config.go:704,796`), run asynchronously and `Test()`, "no
sinks", sends to the collector; `WithValidateEncoded(false)` in strict mode; the other
limits when one is set; and a `WithDSN` that cannot be parsed, for which
`config_options.go:335` promises an error and the shipped default URL is used.
`TenantID`, `MaxBufferSize`, `MaxRetries`, `MaxBackoff`, `Timeout`, `ConnectionTimeout`
and `FlushInterval` are merged and checked, and read by nothing after that.

**RustLogger**. Threads with clones of an event, the bounded channel, the worker's batches
over two sinks, flush and shutdown as commands on the channel. 3 threads, 2 events, a
channel of 2, batches of 1, 2 attempts, one failure. `SentOnce`, `SentIsKept`, `InOrder`,
`FlushedIsWritten`. Excepted, because it is what the code does: the error of a batch that
was written because it was full reaches nobody; a failed send leaves the event "emitting";
`finish`, a failed validation and the sampler of one clone overwrite what another clone
does.

**PyPipeline**. Queue, workers, batcher, offline buffer, drain and replay in the caller's
thread, close. 3 events, 2 sinks, queue and buffer of one, one failed write.
`EmittedIsKept`, `ClosedIsDrained`. `python_ack` violates `AckedIsDelivered`: the replay
acknowledges by count. `Logger.drain` and `_reconfigure` call methods the pipeline does not
have; flush does not wait for the batches of the workers.

**JsEvent**. One event, `run` with its awaited function against an explicit `emit` or a
`cancel`, and any call of the application in between; a step is what runs between two
awaits. 2 attributes, one handle, one failure (sampler, encoder or sink). `OnceAndWhole`,
`StateTells`, `OutcomeFits`, `RunEmits`. Excepted: a `finishError` that is refused has set
the error; a function that finishes the event and then throws makes the run reject with
nothing sent; an encoder that throws leaves the event "emitting".

**PyEvent**. Two threads that emit, one that sets attributes in two steps (the check, then
the attribute), and finish, `mark_partial` or drop at any moment. Two policies: sinks with
`panic_recovery` and canonical fields that win, and strict with the pipeline and canonical
fields refused. One failure. `OnceAndWhole`, `StateTells`. Nothing is locked, so both
except what two threads do inside the gap between a check and its use (`raced`), where
they keep what is left: no sink has more copies than emitters that passed the check.

**Stager**. A directory or one Kafka partition, 3 messages of which the first or the first
two may be unreadable, batches of 2, 2 attempts; two failures, or one and a crash.
`DoneIsKept`, `OnceUnlessRepeated`, and `Settled` under fairness of the process, of the
producer and of polls that come while a record is there. Excepted: on Kafka a message whose
dead letter could not be sent (the next commit covers it); in the directory, unreadable
files, and everything behind a batch of them.

**Delivery**. Five senders (`kind`) and the collector: the Go collector sink over
`HTTPTransport`, the Go batch sink, and the sinks of the JavaScript, Python and Rust SDKs.
A request is handled event by event while its sender waits; it may be refused, fail to
arrive, be answered by an error page, or time out, and then it goes on next to the retry.
They differ in two operators: how often an attempt is made (`MaxAttempts`, `Retry`) and
what an answer means (`Outcome`). Three events of which one is invalid, or two of which one
is quarantined and no dedupe store, batches of 2, an `EventsLimit` of 2, 2 attempts, 2
faults. `WrittenIsKept`, `StoredOnce`, and `Settled` under fairness of the ticker, the
requests and the collector. Excepted, each by a set of its own: an id that is recorded for
an event that was not stored (`forgotten`) or is still being stored by a request that was
given up (`BeingStored`), which answers the retry with "duplicate"; what a sender does not
look at (`unread`): the Go batch sink reads the status code only, the JavaScript sink takes
`partial` for a success where the others fail, as
`src/spec/conformance/manifest.json:86` asks of them; and a batch the collector never
takes (`Hopeless`): the batch sinks send all they have at once, so a batch above
`max_events_per_request`, or of refused events only, comes back each time, and grows.
Left out: the pauses between attempts, envelopes and compression.

**Config, ConfigFields**. Defaults, file, environment and flags, field by field where a
check looks at the field, normalisation, the check, reloads with an edited file.
One field at a time off a configuration with everything on or off, and pairs through the
layers; two reloads. `RunsWhatWasChecked`, with two exceptions it names.

**Bridge**. Two requests of two events, queue and batches of 2, a failed batch, Close at any
moment. `TakenIsTried`.

## 7. Proofs

| Module | Theorems | From |
|---|---|---|
| `SpoolProofs` | `Inductive`, `TypeCorrect`, `LockHeld`, `PipeOrdered`, `BacklogBounded`, `WakeupComes`, `CustodyInvariant`, `CustodyHeld`, `SafeUnlessAhead`, `HeldBehind` | the assumptions of `Spool` (section 3.5) |
| `PipelineProofs` | `Inductive`, `TypeCorrect`, `PendingCounts`, `NoSleep`, `WritersGone`, `NoItemVanishes`, `FlushStores`, `BatchesBounded`, `KeepsOrder` | `ItemsAssumption`, `ConfigAssumption` (section 4) |
| `IngestProofs` | `TypeCorrect`, `InflightExact`, `ProcessorInUse`, `DeliveredOnce`, `CustodyKept` | `IngestAssumption`; the last `NoRedisSpool` (section 5) |
| `CollectorProofs` | `PromiseKept`, `SinksKeep`, `BridgeTries`, `StagerKeeps`, `DeliveryKeeps`, `QueueKeeps` | nothing; `SinkNames`; `BridgeSizes`; `StagerConstants`; `DeliveryConstants`; `QueueConstants` |
| `SdkProofs` | `GoEmits`, `JsEmits`, `PyEmits`, `PipeKeeps`, `RustKeeps`, `LogsKeep` | nothing; `MaxFaults` is a natural number; `PyConstants`; `PipeConstants`; `RustConstants`; `LogConstants` |
| `CortexSyncProofs` | `Inductive`, `TypeCorrect`, `CursorHolds` | `ConstantsOK` of that module |
| `EventBusProofs` | `Inductive`, `TypeCorrect`, `OnlyMemoryLost`, `ProcessedInOrder` | `ConstantsOK` of that module |
| `DuckSinkProofs` | `Inductive`, `TypeCorrect`, `RowsKept`, `ClosedStores`, `StoredOnce` | `ConstantsOK` of that module |

**The SDKs.** `SdkProofs` instantiates the events of three SDKs and what is behind them in
three, six components that share no state. Of each event it proves what
`EmittedOnceAndWhole` of the run `units` asks of it. For Go that is not inductive: `GoInv`
adds `Shape` (the types), `Exclusive` (one caller at a time is between `beginEmit` and its
mark, and the event is not mutable then), `Progress` (the event is not out while it is being
encoded, it is out when it is marked, and it is never mutable again), `Told` (the state says
emitted when the event is out, unless an emitter that failed its check overwrote it,
`raced`) and `Whole` (an attribute whose call has returned without an error is in the event,
and in what was delivered).

For JavaScript the mark is the lock: `JsSent` says that once the event is marked one emitter
has it, on its way or at the sink, and that nobody has it before; `JsWhole` that what this
one encoded is what the event still has, but for handles that ended since; `JsOutcome` keeps
error and outcome together up to the emit. `JsEmit` is the lemma on `emit`, by whoever calls
it, and the cases of `emitExplicit`, `finishAndEmit`, the return and the throw of `run` cite
it. Nothing is asked of the attributes and handles, which may be infinitely many.

For Python nothing is exclusive, so the proof counts: an emitter is past a place when it has
passed the check and will not give the event to that place any more, and `PyCount` says
that a place never has more copies than emitters that are past it. Without a race `PyOne`
and `PyTold` say, for the one emitter and wherever it is, what the state, the attributes
and every place have. `PyConstants` asks for finitely many threads, at least one sink, and
that a sink is configured once: the same sink twice in the list has the event twice.

The pipeline of the Python SDK keeps what it took. `PipeHands` says what a thread holds
where it is, and of a thread that replays that it has the lock and that what it peeked is
still in the offline buffer or was dropped and counted: that is why a replay that fails
loses nothing, and why nothing else can be said of an ack. `PipeKeptMove` is the lemma all
steps share: when what one thread held, or was queued, goes only to another such place, every
emitted event is still kept. For close, `PipeClosing` says that a drain begins after the
workers have gone, and that what the queue has after it came late. `PipeConstants` asks that
the sizes are natural numbers and that the two draining threads are not workers.

For the Rust logger a command is a cut in the channel. `RustAskedAt` says, for a call that
waits, that its command is in the channel once, and that each event sent before the call is
in front of it, with the worker, or done (`RustDone`: in every sink, or in a failed batch of
somebody else); when the worker has taken the command, the batch it writes for it holds the
rest. `RustFailed` says that whoever waited for a batch that failed was told, so that an Ok
cannot hide it. `RustOneAt` is the other half: while nobody wrote over the lifecycle, one
thread is between `begin_emit` and its return, the lifecycle says so, and before it sends the
event was not sent. `RustConstants` says what a world is, that the sinks are a sequence, and
that the two names the worker has for nobody are not callers. `InOrder` stays with TLC: it
speaks of first occurrences after retries through `SelectSeq`, a recursive definition.

`LogsKeep` is `TypeOK`, `EmittedIsKept` and `NoneRefused` of `Loggers`, for any sinks, events and
number of changes by the program; `LogConstants` says that the first logger's array is a
sequence. `LogLists` keeps the lists: each is in its array, and lacks a sink of its logger
only where an append displaced it (`LogAppend` and `LogAppendOthers` say what an append does
to the list it extends and to every other). `LogHands` and `LogReplaced` are why Configure
refuses nobody: the default is shut down only when the program asked for that by itself, so
whoever is not late has a logger whose pipeline is open. `LogClosed` is why Shutdown loses
nothing of its own logger: a closed sink was closed by loggers that are shut down and whose
pipelines are empty for good, and an event that still waits, or is being emitted, has another
logger than those.

**The sync of cortex.** `CursorHolds` is the theorem `CursorCovers`: neither the cursor in
memory nor the one in either file passes a stored event that was not processed, the
exceptions of section 6 apart. `ConstantsOK` asks that sizes are natural numbers and that
timestamps are positive (a zero `time.Time` is the cursor of "nothing yet"). The step that
could break it is `Save`: it moves the cursor to the last event of a batch, and so over
everything that comes before that event, whether it was in the batch or not. The invariant
`SInv` therefore says of the batch in hand that it leaves nothing behind that comes earlier
(`InHand`). For a page of history that is the sort and the limit of the query; for a batch
collected from the tail it takes the rest: whatever is missing before an event of the batch
(`Missing`) is nowhere, whatever is missing before an event in the session's channel lies in
front of it there, then in the channel or the history's rows, and so on to the subscriber's
stream (`Ordered`), and an open tail loses no event that was broadcast (`Tailed`). `Cursors3`
says that all three cursors are at an event that was processed, or at the beginning, and
pass nothing (`Sound`); `Saved` that memory and file agree after a load; `Heard` and
`Session` where events can be and what a session that is not open holds. There is one lemma
per conjunct (`TypeStep`, `SessionStep`, `HeardStep`, `CursorsStep`, `SavedStep`,
`InHandStep`, `OrderedStep`, `TailedStep`); `MissingStep` and `Passed` say what a step does
to what is missing.

**The event bus.** `OnlyMemoryLost` is the theorem `LostOnlyInMemory`, and
`ProcessedInOrder` the theorem `InOrderOnce`, for every kind of bus and any numbers of
records, polls, deliveries and slots of the channel; `ConstantsOK` asks that the kinds are
the five and that a record is delivered at least once. What a bus considers done differs
with its kind: the position of the memory bus, the committed offset of Kafka, what is no
longer pending in Redis and NATS. All are behind `Front`, the first record the handler was
not given, or acknowledged by itself. `Settled` says that what is behind was processed, is
on the channel or in the poll, or was dropped; for Kafka also that the second
acknowledgement, which may move the offset back, never moves it beyond the front.
`Consecutive` says that what was fetched is the stretch before the position, `Queued` that
the trace, the poll and the channel are in order, one before the other and before the front,
`Hands` what the two goroutines have at each point, and `Counted` that a record that was not
handed out is not waited for.

**The DuckDB sink.** `RowsKept` is the theorem `NothingVanishes` with `LossIsReported`,
`ClosedStores` is `CloseStores`, and `StoredOnce` is `OnlyWriterRepeats`, in both modes, for
any callers, batch and queue sizes and failures; `ConstantsOK` asks that a batch has room
for a row (`duckdb.go:211` makes its size positive) and that rows and goroutines have
different names. Where a row is depends on who has it: `Places` says where each goroutine
can be in a mode, `Holding` who can have rows in hand, and that a `WriteEvent` that waits
for `flushMu` or executes has its own row among them, so that it returns nil only when that
row is in the table. `Locked` gives `flushMu` one holder. `Closing` is the argument for
`CloseStores`: from the moment Close has joined the ticker and taken the buffer, nothing is
appended, and `Flush` has nothing in hand; in mode `writer` the goroutine ends only after
the channel holds none of the rows accepted before Close. `Unique` says that, as long as no
batch is executed again, a row is in one place: in the table, the buffer, the channel or
one hand.

**Sinks, bridge and queue of the collector, the stager, the senders.** `CollectorProofs` has one
`INSTANCE` for each of six components that share no state; a constant or variable declared
in it stands for the one of that name in each. `SinksKeep` is `BufferedIsKept`, `CloseSends`
and `SendsInOrder` of `BatchSinks`, for any entries and batch size; `SinkNames` asks that
the timer and Close are no entries. `SinkHands` says who can hold a batch: two at a time
only in the Loki kind, and there Close has waited for the ticker before it takes anything.
`SinkClosing` keeps what was buffered before Close in view until it is sent. The order is
`SinkOrder`: the batch in hand followed by the buffer is the end of everything that was
buffered (`Waits`), and what was sent came first in the order it was buffered (`InTurn`),
although a batch whose answer was lost is sent again; a step that sends moves the boundary
between the two.

`BridgeTries` is `TakenIsTried` of `Bridge`, for any number of calls and any sizes but a
call without events and a queue or batch of negative size (`BridgeSizes`). In mode "async"
what was taken is in exactly one of queue, batch, sent and failed (`BridgePlaces`), and the
goroutine leaves only a closed queue that is empty (`BridgeEnd`); in mode "sync" nothing is
ever taken and what a call has still to send was not tried (`BridgeSync`).

`StagerKeeps` is `DoneIsKept` and `OnceUnlessRepeated` of `Stager`; `StagerConstants` says that
the kinds are the two queues and that the unreadable ones are messages. Both need the same
account of the message in work (`StagerHand`): the queue is not done with it, it is staged
when it is to be acknowledged as staged, and on Kafka it is the record the consumer has
polled last. The offset that is committed after it covers every earlier record, so
`StagerPassed` keeps, while the process runs, that each of those is staged, a dead letter or
skipped; a restart goes back to the commit, where `DoneIsKept` says it. In the directory a
file of the listing is there and is not the one in work (`StagerListing`). `StagerOnce` adds
to the second property that what was written is done with or still in work, which is why it
is not written again without a failure or a crash.

`DeliveryKeeps` is `WrittenIsKept` and `StoredOnce` of `Delivery`, for the five kinds of sender
(`DeliveryConstants`: these kinds, the three fates of an event, a batch size that is a
number). What an acknowledgement says of the collector (`DeliveryMeets`) stays true while
the request is handled, answered and read, because the collector only gains events, ids and
quarantined ones (`DeliveryGrows`); `DeliveryOutcome` goes through what each kind reads of an
answer and finds which acknowledgements it can still take for a success. An id that is
recorded belongs to an event that is stored, that one of the two requests is about to store,
or that could not be stored (`DeliverySeen`). `DeliveryOnce` is why a late request and the
retry never both store an event: with the dedupe store an id is recorded before its event is
stored, by one request.

`QueueKeeps` is `TypeOK`, `EnqueuedIsKept` and `CloseFlushes` of `DeliveryQueue`;
`QueueConstants` says that the batches are sequences, the limits numbers, and that there is at
least one attempt (`queue.go:112`). An event leaves memory in one of three ways: `Flushed`
writes it (`QueueWritten`), `NotFlushed` drops it, or keeps it in hand for `Requeue`
(`QueueRetriedFacts`); the files lose events only to a rotation (`QueueWriteFailed`).
`QueueHands` says that who does not flush has nothing in hand, and `QueueClosing` is why Close
leaves nothing in memory: after the join the goroutine has gone and the queue refuses, so what
Close takes is the last, and nil is returned only when that was written. Both sums of the
counters are in the invariant, because a step moves a count from one term to another.

These theorems are about the components' own specifications. Where a component runs in
`units` (section 6), that run checks the same formulas as parts of properties of `MCUnits`,
and its instances satisfy the conditions of the theorems.

Liveness, `ENABLED` and what a recursive definition computes are out of the prover's
reach and stay with TLC, and so does every property not named above: of the invariants of
section 6 those of `DeadLetters`, `ServiceGraph`, `Config` and `SdkConfig`,
`InOrder` of `RustLogger`, and the type invariants of the components whose theorem is not
said to have them.

## 8. Not modelled

The map covers about a seventh of the repository's lines. What remains is, by size:
facades and re-exports of the SDKs (`loza.go`, `__init__.py`, `lib.rs`, the options of
the Python, JavaScript and Rust configurations); SQL and schema text of the stores; generated contracts and
protobuf code; request handlers and clients that translate one format into another
(gRPC, GraphQL, WebSocket, the CLI, OTLP conversion, the text of a DSN); metrics and wiring.
Those keep no state between calls and have no order of steps that could go wrong; a
definition for them would restate their assignments.

* API keys, roles and rate limits: left out on purpose; they are a subject of their own.
* Cortex engine (`matcher`, `correlation`, `learner`, `reconstructor`, `memory`,
  `crates/cortex-match`): numeric scores over stored signatures. Nothing in the program
  creates an incident or a signature: `Builder.AddNode` and `AddEdge`, `RegisterSignature`,
  the evolver and `ReconstructFromSignal` have no caller, and the foreign key of
  remediations (`duckdb.go:165`) refuses every `RecordRemediation`. The learning and
  matching path has no reachable state. The correlation analyzer is started by
  `api.Server.Start` (`cortex/internal/api/server.go:520`), which no program calls
  (`cortex/cmd/server` serves the handler of `httpserver`).
* PostgreSQL store of Cortex: it names a column `user` without quotes and passes more
  arguments than placeholders in two queries; `ServiceGraph` has the DuckDB store.
* Query language, storage views, DuckDB queries, retention and export: translation to SQL.
* Go SDK `buffer.go`: no logger uses it; the pipeline is the asynchronous path.
* `pause` and `resume` of the JavaScript sink, disk offline buffer of the Python SDK,
  synchronous delivery and offline buffer of the Rust SDK.
* HTTP tails: the client's `Timeout` (`client.go:85-89`) ends every HTTP tail, which
  `CortexSync` has as a tail that may break at any time.
