# TLA+ models of firefly-common's event-stream manager

This directory holds TLA+ models of the code under `src/`, the TLC
configurations that check them, and `PROJECT.json`, which maps every
definition to the source lines it translates and lists the runs, mutants,
findings and hazards.

## 1. Inventory

The sources under `src/` are three files:

| File | What it is |
|------|------------|
| `src/unnamed/part_000` | `pkg/eventstreams/manager.go`: the event-stream **Manager** (`esManager`) |
| `src/pkg/fftypes/ffi.go` | FFI (FireFly Interface) types, `FFI.Validate`, and the SQL codec of `FFIParams` (`Scan` / `Value`) |
| `src/pkg/httpserver/httpserver_test.go` | tests of the generic HTTP listener (`NewHTTPServer`, `ServeHTTP`) |

The per-stream engine (`eventStream`: `suspend`, `stop`, `start`, `delete`,
`ensureActive`, the source/batch/dispatch loops), the persistence layer, the
sink transports and the HTTP listener itself are code of the repository that
is **not** under `src/`; where the manager depends on them they are modelled
from `spec.md` and marked `spec_modelled` in `PROJECT.json`.

### Components

**E. Manager** (`esManager`, part_000). State: the registry `streams`
(stream ID -> live `eventStream`), guarded by `mux` only across map
operations (`addStream`, `getStream`, `removeStream`), never across I/O.
Operations, each a separate goroutine (an HTTP request handler):
`UpsertStream`, `DeleteStream`, `StopStream`, `StartStream`, `ResetStream`,
`GetStreamByID`, `ListStreams` (read-only), `Close`, and start-up
(`NewEventStreamManager` -> `initialize`, which pages the spec table 25 rows at
a time, purging rows of status `deleted` and materialising the others).
Every operation is a sequence of steps: a locked registry lookup, persistence
I/O, calls into the stream engine, a locked registry update. Nothing holds a
lock across the sequence, so the steps of concurrent requests interleave.

**D. Stream engine** (`eventStream`, not under src/, spec §4.4). State per
live stream: in-memory spec (status, `initialSequenceID`), run state
(idle / starting / running), the source position. Operations called by the
manager: `suspend`, `stop`, `start`, `delete`, `ensureActive`, constructor
`initEventStream`. Background steps: load the checkpoint and start the source
(Starting -> Running), deliver a batch and persist its checkpoint, restart the
runtime after an exit without `Exit`. Batching, the sink retry driver and the
producer/dispatcher queue are inside it (spec §4.4, §5).

**A. Persistence** (not under src/): the `event_streams` table (rows in a
stable order, each with a status and an `initialSequenceID`) and the
`checkpoints` table. Every call may fail with a storage error.

**C. Sink transport** (not under src/): WebSocket / webhook delivery,
classifying results as ok / retryable / fatal.

**F. Validation & defaults** (`validateStream`, not under src/).

**FFI types** (`ffi.go`): `FFI.Validate` (name / version / networkName
checks, early returns) and `FFIParams.Scan` / `Value` (JSON column codec).

**HTTP listener** (`httpserver`, only its tests are under src/): server
construction errors (FF00152/FF00153/FF00168), serve failure and shutdown
errors reported on `errChan`, basic-auth 403.

### How they interact

HTTP handler -> Manager operation -> (registry lock) -> persistence I/O ->
stream engine call -> (registry lock). The stream engine's goroutines run
concurrently with all manager operations, reading and writing the checkpoint
table. `Close` iterates the registry and suspends every stream.

### What is hard

* Concurrent requests for the same stream ID: the registry entry read at the
  start of `UpsertStream`/`DeleteStream`/`ResetStream` is stale by the time
  it is used (`existing` is suspended, `removeStream` removes whatever is
  registered *now*).
* `Close` iterates the registry map without the lock while other requests
  add and remove entries.
* `initialize` deletes rows while paging the same table with a growing
  `skip`.
* Multi-step operations whose later steps fail (`ResetStream`: suspend,
  delete checkpoint, update the in-memory and persisted initial sequence,
  restart), and process crashes between any two of them.
* The stream's own goroutines restart from the persisted checkpoint at any
  time, racing `ResetStream`'s checkpoint deletion.

### Properties that make it correct

* **No orphan stream**: every stream whose source is running is the one the
  registry holds for its ID (so `Close`/`Stop`/`Delete` can reach it, and no
  two run for one ID) and has status started.
* **Status consistency**: when no request for an ID is in flight, the
  registry holds a stream for it exactly when the table holds a row, with the
  same status (`StatusConsistent`; the error returns of `reInit` after the
  Upsert has committed break it).
* **Checkpoint monotone** (spec §8.1): the persisted checkpoint never moves
  backwards except through deletion.
* **Reset honoured** (spec §8.3): after `ResetStream(id, seq)` returns, the
  checkpoint is empty and the source runs from `seq`.
* **Close stops all** (spec §8.4): after `Close` returns no stream runs.
* **Start-up materialises all** (spec §4.5, §8.6): after `initialize` no
  `deleted` row is left and every other row has a live stream.

## 2. Plan

1. `EventStreamManager.tla` (done): the manager's operations as
   multi-step actions of concurrent callers, the stream engine reduced to its
   lifecycle and checkpoint effects, persistence with failures, process
   crash/restart and start-up paging. `MCEventStreamManager.tla` and its cfgs.
2. `StreamEngine.tla` (done): one stream's producer, bounded queue, batcher,
   dispatcher with sink results ok / retryable / fatal, retry driver and
   checkpointer (spec §4.4, §5), with liveness under weak fairness of the
   goroutines; checked against an abstract `StreamAbstract.tla` (at-least-once
   delivery with no gaps, progress) by refinement.
   (Spec-modelled: this code is not under src/.)
3. `FFIParamsCodec.tla` and `FFIValidate.tla` (done): `FFIParams.Scan` /
   `Value` from ffi.go with the JSON decode into a reused slice;
   `FFI.Validate` and `SetBroadcastMessage`.
4. Next: compose the manager with the engine (the per-stream mutex and the
   manager's calls racing the engine's tasks), a failed-reset property.

## 3. Modules and runs

### `EventStreamManager.tla` (+ `MCEventStreamManager.tla`)

State: `streams` (the registry), `inst` (every `eventStream` instance ever
created: owner ID, in-memory status and initial sequence, run state, source
position), `rows` (the `event_streams` table as a sequence, so paging is
faithful), `ckpt` (the checkpoints table), `cs` (one record per caller: the
operation in flight, its program counter and the locals it read before its
I/O: `existing`, the instance it created, the reset sequence), `phase`
(initialising / serving / closing / closed, or failed when `initialize`
returned an error), `initSkip`/`initPage` (the paging
cursor of `initialize`), `closeTodo` (the registry entries `Close` has still
to visit), `resetFrom` (history: the sequence of the last reset that returned
nil, cleared by any later reset).

Each manager operation is a chain of actions, one per step between two
points where another goroutine can run: a locked registry access, one
persistence call (which may fail, returning an error to the caller) or one
engine call. Error returns end the chain exactly where the code returns.
`Engine(n)` holds the background steps of a stream instance (load the
checkpoint or the initial sequence and run, deliver and checkpoint, runtime
exit and restart). `ProcessRestart` drops all memory and re-runs
`initialize` against the surviving tables (crash, or restart after `Close`).
`InitFail` is `initialize` returning on a `GetMany`, `Delete` or
`initEventStream` error (part_000 lines 138-153): `NewEventStreamManager`
returns nil, so no request or `Close` can follow, and the streams already
built are left as they are (a hazard no run checks: in the usual embedding
that error ends the process). `UpsertSuspendFails` and `ResetSuspendFails`
are the error returns of the `suspend` calls in `reInit` (line 196) and
`ResetStream` (line 241): spec 5 lets a suspend fail on the caller's
context or the shutdown grace timeout. The stream's tasks were cancelled and
exit anyway, so the model halts the stream and returns the error; the
delay before the tasks exit is abstracted away. `Close` logs a suspend
error and goes on, which is `CloseStep` as it is. `UpsertInitFails` is
`reInit`'s return on an `initEventStream` error (lines 200-203).
`UpsertActivate` reads the new stream's status without its lock (line 205)
and `UpsertEnsure` calls `ensureActive` (line 206), as two steps: a request
on the new stream can run between them. `ensureActive` does not start a
deleted stream (spec 4.4: Deleted is terminal).

Runs (all with sequences {0,1}, `MaxSeq`=2 positions, at most 3 instances):

| Run | cfg | Expect | Shows |
|-----|-----|--------|-------|
| manager_serial | MCManagerSerial.cfg | pass | With one request at a time (two stream IDs, failures, crashes, restarts, concurrent engine steps), no orphan stream and no running stream with a status other than started, the checkpoint only moves forward, a returned reset is honoured, Close stops everything. |
| manager_upsert_race | MCManagerUpsertRace.cfg | violation | Two concurrent requests on one ID: a `StopStream` between `reInit`'s status read (line 205) and `ensureActive` (206) is undone, so a stream with status stopped runs; `UpsertStream` with `StartStream` or a second `UpsertStream` likewise leaves a running stream the registry no longer holds. |
| manager_reset_race | MCManagerResetRace.cfg | violation | A `StartStream` between `ResetStream`'s suspend and its checkpoint deletion restarts the source from the old position; the reset returns nil but the source does not run from the reset sequence. |
| manager_close_race | MCManagerCloseRace.cfg | violation | A stream added while `Close` iterates the registry keeps running after `Close` returns. |
| manager_startup_paging | MCManagerStartupPaging.cfg | violation | `initialize` purges a deleted row and then skips a live one: the skip counter does not account for the deleted rows. |
| manager_delete_checkpoint | MCManagerDeleteCheckpoint.cfg | violation | After `DeleteStream` returns, the deleted stream's checkpoint is still in the table (the code deletes only the spec row; spec 3 and 4.4 say the checkpoint goes with it), so a stream re-created under the ID resumes from it. |
| manager_upsert_suspend_fails | MCManagerSuspendFails.cfg | violation | `UpsertStream` returns an error from `initEventStream` (or from the suspend of the existing stream) after the new spec is persisted: the table holds the new spec and the registry the old stream, or nothing for a new ID (`StatusConsistent`). |

Bounds: two IDs and one or two callers reach every interleaving of two
operations on one ID, which is what the races need. `PageSize`=1 (and 2) with
two rows stands for the code's page of 25: the paging bug needs only a
deleted row before a live one in the same scan, at any page size. `MaxSeq`=2
lets a checkpoint move and be reset. `VIEW StateView` identifies instances no
variable can reach any more (no registry entry, no caller local, not
running): their fields cannot influence any later step, so the view is
sound and keeps the state space to about 9.7M states (two and a half minutes).

No fairness is assumed yet: all manager properties are safety properties.

### `FFIParamsCodec.tla` (+ `MCFFIParamsCodec.tla`)

`Value` and `Scan` of `FFIParams` (ffi.go 97-102, 135-153). The
destination is a Go slice (nil or not, length, backing array), and
`json.Unmarshal` into it is modelled by what encoding/json does: each
array element is decoded into the `*FFIParam` already in that slot (also
one past the length, still in the backing array) or a new one when the
slot is nil; the slice grows by doubling and is then cut to the number of
elements. A `FFIParam` is a name and an optional schema (`omitempty`). The
column is written by `Value`, set to SQL NULL, or holds a foreign value.
A reader reuses the destination (`Read`) or declares a fresh one
(`Declare`). Bounds: 2 names, 1 schema, at most 2 params, which is enough
for a slot to carry a schema from one row into the next and for a slice to
shrink and grow again.

| Run | cfg | Expect | Shows |
|-----|-----|--------|-------|
| ffi_params_roundtrip | MCFFIParamsCodecRoundtrip.cfg | pass | Into a fresh destination the params are restored exactly; into a reused one their number and names are. |
| ffi_params_null_reuse | MCFFIParamsCodecNullReuse.cfg | violation | Scanning NULL (or JSON `null`) keeps the previous row's params: `case nil: p = nil` and `json.Unmarshal(null, &p)` only nil the local receiver. |
| ffi_params_schema_reuse | MCFFIParamsCodecSchemaReuse.cfg | violation | A param written without a schema, scanned into a reused destination, keeps the schema of the param previously decoded into its slot. |

### `FFIValidate.tla` (+ `MCFFIValidate.tla`)

`FFI.Validate` (ffi.go 112-125) with its early returns, and
`SetBroadcastMessage`, on FFIs whose name, version and networkName range
over "", two valid names and one invalid one. `ValidateFFNameField` (not
under src/) is abstracted to membership of `ValidNames`, which excludes "".

| Run | cfg | Expect | Shows |
|-----|-----|--------|-------|
| ffi_validate | MCFFIValidate.cfg | pass | Validate accepts exactly the FFIs with a valid name and version and an empty or valid networkName, reports the first invalid field, and only validated FFIs get a broadcast message. |

### `StreamEngine.tla` and `StreamAbstract.tla` (+ `MCStreamEngine.tla`)

One stream's engine, modelled from spec 4.4 and 5 except the producer's
contract, which is the `Runtime`/`Deliver` interface of manager.go (lines
44-69): `Start` calls Run from the checkpoint, `ProducerDeliver` blocks while
the queue (capacity `BatchSize`) is full, `ProducerExit` is Exit or the
cancelled context, `RuntimeExit` is Run returning without Exit and being
restarted from the checkpoint; as line 68 says, only Run is restarted, so the
dispatcher keeps its batch and the events the old run queued. The dispatcher collects a batch, flushes it
(full or timer), sends it (ok; or a failure retried, dropped after
`MaxAttempts`), persists the checkpoint, and exits on cancel. `Suspend` is
the manager's suspend/stop/delete; `Drained` completes it.

`StreamAbstract` is what a stream still promises under that restart: the
sink is handed batches of at most `BatchSize` events, never an event before
every earlier one has been handed over (events may come again); the
checkpoint names only events already handed over, so a restart from it
loses nothing; while active, every event is eventually handed over (weak
fairness of progress). `StreamEngine` instantiates it with `done` mapped to
the history of events in sent or dropped batches and `active` to "the
dispatcher is up"; the run checks `Abs!Spec` as a property.

Fairness: weak fairness of every task step (the Go scheduler runs runnable
goroutines; the batch timer fires; a send returns; storage errors on the
checkpoint write are retried until it succeeds). The manager's calls and
the runtime's failures get none. Bounds: 3 events, batches of 2, 2
attempts, 1 runtime exit: a restart can land with a full queue and a batch
in flight.

Spec 8.1's strict order and monotone checkpoint are not what this engine
refines: with the old run's events still queued, the redelivered ones
follow them, so the sink can see 3 before 2 and the checkpoint can move
back. Whether the engine drops its buffers on a restart is code not under
src/, so the project checks the weaker guarantee that holds either way.
Whether a `deliver` blocked on a full queue sees the stream stop is likewise
engine code: `ProducerExit` takes line 64's contract (Exit is returned once
the stream stops) as given, so no property about suspends completing is
checked.

| Run | cfg | Expect | Shows |
|-----|-----|--------|-------|
| engine | MCStreamEngine.cfg | pass | The engine refines `StreamAbstract` (no gaps, checkpoint never ahead of the sink, progress) with runtime restarts that keep the dispatcher's buffers. |

### Not modelled (yet)

* The composition of the manager with the engine: `EventStreamManager`
  uses only the engine's lifecycle and checkpoint effects, and the
  per-stream mutex is not modelled.
* The HTTP listener: only its tests are under src/, and the spec puts it
  out of scope except for its contract with the manager; a model of it would
  be written from test expectations, not from code.
* What a failed `ResetStream` leaves: it suspends and then returns on a
  storage error without restarting, so a row with status started has a
  stopped stream until the next `StartStream` or restart. The spec does not
  say what a failed reset must leave.
* `FFIParams.Value` drops the error of `json.Marshal` (ffi.go line 151):
  whether it can fail depends on `JSONAny`'s marshaller, which is not under
  src/ and not in the spec, so the codec model takes `Value` to succeed.
* `validateStream`, `FFI.Topic` (a hash of its inputs) and the FFI types
  other than `FFI` and `FFIParams` (plain data).
* Sink transports: pure I/O; the engine sees only their results.
