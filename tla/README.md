# A TLA+ model of viskium

viskium reads one local camera, turns frames into bounded observations, stores them, and lets a
local agent read the newest observation or one still image, under an explicit, expiring and
metered consent. Almost everything it does is lifecycle: threads that own a resource, latches for
what could not be released, locks between processes, deadlines. This directory models that core in
TLA+, checks it with TLC on small instances, and proves its safety properties with TLAPS for all
values of the parameters. Source paths below are relative to `src/src/viskium/`.

## 1. Inventory

| Component | State it keeps | Operations | What is hard | What makes it correct |
| --- | --- | --- | --- | --- |
| Camera controller `capture/controller.py` | state, stop flag, epoch, lease flag, retained backend, the loop's retries and warmup | `start`, `stop`, `wait_for_state`; its owner thread creates, opens, reads, closes one backend at a time | stop from any thread at any moment; every backend call may fail; a close that fails must never be followed by another open | one backend at a time and only under the lease; cleanup complete; frames in order; a stop is noticed before the next call; a stop ends the thread |
| Latest-frame slot `capture/latest.py` | one frame, closed flag | `offer`, `take`, `close` | three threads | closed means empty for ever |
| Device lease `capture/lease.py`, `core/file_lock.py` | a lock of the system, a registry per process | `acquire`, `release` | crash between two steps, a worker process that outlives its owner, a close that fails, two leases in one process | two living owners never drive the device together, and nobody disturbs an owner that found no orphan |
| One-shot snapshot `agent/camera_snapshot.py` | operation lock, latches for lease and backend, time of the last open | `capture` | interrupts (`BaseException`) anywhere, deadline, cooldown, latches read by the next call | ok means released; between captures nothing is left but what is latched (and what an interrupted latch loses); the lock is always given back |
| Live scheduler `runtime/live.py` | state, stop event, who owns the writer | `start`, `stop`; its worker takes, processes, validates, publishes, persists | stop against publication, natural exit against stop, streams replaced during processing | published in order and once; nothing of an old stream where the epoch is known; True from `stop` is final |
| Observation writer `storage/writer.py` | queue bounded by count and bytes, totals, state, the store's handle | `start`, `submit`, `stop`; its worker owns the store | four regions change the same totals; repeated stops that disagree; timeouts on both sides | nothing lost, counted twice or reordered; clean is final; the store is never leaked |
| Consent ledger `agent/consent.py`, `agent/contracts.py` | one file, a lock between threads and processes | `load`, `grant`, `revoke`, `reserve_snapshot` | crash, power loss or failure between rename and directory sync; lost updates | the quota holds; what was revoked stays revoked |
| Agent read service `agent/service.py` | counters only | `status`, `latest_observation`, `snapshot` | consent changes between authorisation and delivery | nothing is delivered under a grant that has ended |
| Camera worker `adapters/opencv_process_camera.py`, `_worker_transport.py`, `_camera_worker_*` | child process, pipe, negotiated stream, a latch for a child that could not be ended | `open`, `read`, `close`; the child serves commands and releases the device | answers after the deadline, a child that cannot be ended, a child that outlives its parent | a reply belongs to its request; no second process with the camera; every call returns unless the child hangs inside a message; an orphan lets the camera go |
| Latest-observation slot `observations/latest.py` | the observation offered last, closed flag | `offer`, `read` (waits in an empty slot), `close` | a clock read before the lock, waiting readers against offers and close | what is answered as ok is young enough; one offer serves every waiter |
| Snapshot broker `snapshots/broker.py` | one demand, one frame | `request`, `offer`, `close` | deadline against offer against close | a frame answers the demand it was offered for, once; nothing stays behind |
| Vision challenge `agent/vision_challenge.py` | the challenges that are active, a thread that expires them | `issue`, `verify`, `close` | expiry against verification against close, identifiers used again | one verdict per challenge, in time; nothing kept after close |
| MCP server `agent/mcp_server.py` | identifiers in flight, a semaphore of slots | receive, admit, run a tool, respond | repeated identifiers, a full admission, the end of the session with tools running | slots and requests add up; every admitted request is answered |
| SQLite store `storage/sqlite_store.py` | one file, counters per connection, health, receipts | open, `put`, read, purge, `close` | a transaction that fails at each of its steps, a rollback that fails, a process that dies, another connection | the file agrees with its counters; a receipt is kept; limits hold |
| Others: resource admission and doctor (`resources/`), replay and synthetic sources (`runtime/replay.py`, `adapters/synthetic.py`, ...), memory store (`adapters/memory_store.py`), snapshot encoder, records (`core/`, `capture/contracts.py`, ...), storage layout, command line and assembly (`cli.py`, `app.py`, ...) | none, or a cache | reading, checking, encoding, constructing | sequential | unit tests |

How they interact: the *controller* offers frames to the *latest-frame slot*; the *scheduler* takes
them, offers observations to the *latest-observation slot* and submits them to the *writer*, which
calls the *store*. The *agent service* reads the observation slot and calls the *snapshot provider*,
after it asked the *ledger*. Controller and snapshot provider each take the *device lease* before
they create a backend (in production the *camera worker*). Threads share state under one condition
or lock per component; processes share the lease's sentinel, the consent file and the database.

## 2. Modules

| Module | Models | Proofs |
| --- | --- | --- |
| `ObservationWriter` | `storage/writer.py`; implements `DeliveryQueue` | `ObservationWriterProofs` |
| `CameraController` | `capture/controller.py` with its slot; implements `DeviceOwner` | `CameraControllerProofs` |
| `CameraSnapshot` | `agent/camera_snapshot.py`; implements `DeviceOwner` | `CameraSnapshotProofs` |
| `SharedCamera` | `core/file_lock.py`, `capture/lease.py`: owners of several processes over one lease | `SharedObjectProofs` |
| `AgentConsent` | `agent/consent.py`, `evaluate_grant`, and the two reads of `agent/service.py` | `AgentConsentProofs` |
| `LiveScheduler` | `runtime/live.py`, with the slots and the writer as it sees them | `LiveSchedulerProofs` |
| `CameraWorker` | `adapters/opencv_process_camera.py`, `_worker_transport.py`, both entry points of the child | `CameraWorkerProofs` |
| `SQLiteStore` | `storage/sqlite_store.py`; implements `BoundedStore` | `SQLiteStoreProofs` |
| `LatestObservationSlot` | `observations/latest.py`, with the clock its caller reads | `SharedObjectProofs` |
| `SnapshotBroker` | `snapshots/broker.py` | `SharedObjectProofs` |
| `VisionChallenge` | `agent/vision_challenge.py` | `SharedObjectProofs` |
| `McpServer` | the admission of `agent/mcp_server.py`, and its tools; extends `VisionChallenge` | `SharedObjectProofs` |
| `DeliveryQueue` | abstract: what a bounded asynchronous writer promises | |
| `DeviceOwner` | abstract: one handle at a time, only under the lease, lease kept until the handle is closed | |
| `BoundedStore` | abstract: a key names one row, numbers only go up, limits hold, only expired rows go away | |

Composition is by contract. `DeviceOwner` is what `SharedCamera` assumes of each owner (a device is
opened only with the lease, and the lease released only without a device), and what
`CameraController` and `CameraSnapshot` are shown to implement; `SharedCamera` then gives exclusive
use between any living ones of them, in any number of processes. Two places where an implementation
keeps less than the contract are modelled where they are and named in section 3: an interrupted
latch makes `CameraSnapshot` give the lease back with a backend unclosed, and the lock file lets an
orphan of a dead process keep the camera without the lease. `LiveScheduler` uses the writer through its
states and a joining `stop`, which `ObservationWriter` models in full.

**State and actions.** Each VARIABLE names the attribute or local it stands for in its comment;
those marked history exist for the properties. An action is a region under the component's lock, or
the return of a call made outside it, with everything the code does up to the next point at which
another thread can see a difference. Where a flag is read in one region and used in another, these
are two actions. `pc`-like variables (`worker`, `owner`, `pc`, `control`) say where a thread is. A
call that raises is an action of its own (`...Fails`, `...Raises`). Clocks and timeouts are choices:
a bounded wait may end at any moment, a deadline may or may not have passed. Operators whose comment
begins with "Mutant" are never part of a specification: they are plausible bugs, each of which
breaks one property, and show that the property has a grip on the code.

Notes on single modules:

- *ObservationWriter*: `queued` numbers the items, so `putLog` is the order in which the store saw
  them. Sizes are canonical byte counts; contents do not matter.
- *CameraController*: `MaxEpoch` and `MaxSequence` stand for int64's maximum, at which the code ends
  the controller or the stream. The test of the stop flag and the call it guards (`create()`, `open()`,
  `read()`) are two actions, since neither shares a region with `stop`. `attempts`, `offered` and `late`
  are history; `late` counts the calls and offers that begin after a stop was requested.
- *CameraSnapshot*: one caller is inside at a time (the operation lock is never waited for), so one
  `pc` is enough. `recentOpen` says whether the minimum interval is running. A close that fails is
  latched (`CloseFails`), unless the look at the worker process that comes before the latch is itself
  interrupted (`CloseFailureInterrupted`): then nothing is latched, the lease is given back, and the
  backend counts as `lost`.
- *SharedCamera*: `acquire` and `release` are two steps each, since the system's lock and the
  registry change one after the other. A failed `release` may or may not have dropped the lock. A
  descriptor that the registry refused and that cannot be closed may keep the lock (`stray`): nobody
  then gets the lease until the process ends. (A failing close at `core/file_lock.py:164` has no such
  effect, since that descriptor never had the lock.) The lock goes with its process, since no child
  inherits the descriptor; the backend's worker process does not, and stays with the camera as one of
  `orphans` until it lets go (`CameraWorker` says when). The lease cannot keep the next owner away from
  it, so `ExclusiveUse` speaks of living owners, and promises an owner that met no orphan when it made
  its backend (`metOrphan`) that none turns up before it has closed it, whoever else dies.
- *AgentConsent*: the file is a version (grant, attempts used). `onDisk` are the versions a power
  loss may leave: `os.replace` and `unlink` add one, the directory's `fsync` leaves the current one
  only. The identity of a grant is chosen when it is written; it is a fresh UUID, so when does not
  matter. The clock of a reservation is read before its lock is waited for, as in the code. `now`
  and `expired` are sets of grants, which is all that a comparison with `expires_unix_ns` can tell;
  the wall clock is taken not to go back. The quota and the retirement are promised where
  directories can be synchronised (`DirectorySync`); on others (Windows, some file systems) the
  code skips that step and a power loss may undo a change.
- *LiveScheduler*: whether the scheduler owns the writer is chosen at `start`. With a store, or a
  writer of somebody else, persisting leaves only a count behind, which no property reads. The epoch is
  compared only when there is one: without a `current_epoch`, or when it answers `None`, the two tests
  let a frame of an old stream pass (`OfStream`), which `NoResultOfOldStream` excepts. The writer's
  `stop` may raise, since the policy of the scheduler accepts a shutdown timeout of 60 seconds and the
  writer refuses more than 30 (`WriterStopRaises`); it refuses before it does anything, so the raise
  is at the beginning of the stop, and leaves the owned writer RUNNING and the scheduler FAILED.
- *CameraWorker*: which launcher is used (`multiprocessing`, or `Popen` over a socket pair) is
  chosen in `Init`; with the second there is one more message, and a moment at which the child runs
  but is not yet in `_process`. A message is its kind and, for commands and replies, the number of
  the command. A bounded wait may end at any moment; but only `poll()` is bounded. Once it has
  answered True (`polled`), `recv()` waits until the message is whole or the pipe ends, so a child
  inside `send()` (`writing`) that neither finishes nor dies keeps the parent. What the parent sends
  is a few bytes, which the pipe always takes. The child may be killed at any moment, and so may the
  parent, whose children then become `orphans`. A `Process.start()` that raises after it spawned
  leaves a child that never reaches the project's code; that is the library's affair and not
  modelled.
- *SQLiteStore*: `file` is what is committed; each connection has its own counters, health and
  receipts. A transaction is `BEGIN IMMEDIATE` to the commit, and each of its steps may fail,
  including `COMMIT` and `ROLLBACK`. A `ROLLBACK` that fails leaves the write lock with the
  connection until it is closed. A stored record may be damaged from outside (`Damage`: its
  document, digest or metadata; not its size and not the counters, which would only make every open
  fail); a duplicate put or a read that meets it latches `record_integrity_error`, as do counters in
  memory that disagree with the file; an error of SQLite latches `sqlite_error`, or nothing. The two
  connections are a live writer and the process of `storage purge-expired`.
- *LatestObservationSlot*, *SnapshotBroker*: one step per region of their lock. `MCRendezvous` explores
  the two, which share nothing, each with the other at rest (`part`), instead of their product.
- *VisionChallenge*, *McpServer*: a challenge is a number, an answer right or wrong. The server's
  tools run `Issue` and `Verify`, so the challenges are checked under the concurrency that the
  admission allows; the server never calls `close()` itself, its owner does, at any moment. The SDK
  is external: it answers a request at most once, and `send` and `complete` follow one another. A
  request the SDK never answers would keep its slot.

## 3. Runs

A passing run is under its module's `FairSpec` where it has a liveness property; `SharedCamera`,
`SQLiteStore` and the two modules of `MCRendezvous` have none. Deadlock is checked except in the two
modules whose callers may all be through (`CameraSnapshot` at its bound of calls, `LiveScheduler` after
its last stop). Type invariants are stated in every module (those of
`VisionChallenge` and `McpServer` in their proofs), are proved, and are not among the properties of
the runs. The inductive invariants of section 5 were checked by TLC on the instances below before
they were proved.

| Run | Instance | Shows |
| --- | --- | --- |
| `MCObservationWriter` | 2 stoppers, 2 items or 3 bytes pending, 4 submissions of sizes that fit, fill and never fit | accounting, drain promises, no leaked store, `DeliveryQueue`; a stop ends the worker; nothing waits for ever |
| `MCCameraController` | 2 stoppers, 1 retry, 1 warmup frame, 2 epochs of 2 frames | cleanup, frame order, at most one call after a stop, `DeviceOwner`; a stop completes |
| `MCSharedCamera` | 2 owners in each of 2 processes, up to 2 orphans each | exclusive use of living owners, and of an owner without orphans, through crashes, failed releases and descriptors that stay open |
| `MCCameraSnapshot` | 2 callers, 4 captures, 1 warmup frame, 2 attempts | quiet between captures (but for what an interrupted latch loses), one open per interval, ok means released; every capture gives the lock back |
| `MCAgentConsent` | 2 agents of 2 processes, one also the administrator; 2 grants of quota 1 | quota, retirement, delivery, every call answered |
| `MCLiveScheduler` | 2 epochs of 2 frames; owned and external writer, with an epoch to compare and without, a writer's stop that raises | order, stale results, True is final, the owned writer is closed when it should be and not before; the worker ends |
| `MCCameraWorker` | 2 children, 2 read commands, 1 death of the parent; both launchers | the reply is that of the request; no stray worker; orphans let the camera go; calls return when no child hangs inside a message |
| `MCSQLiteStore` | 2 connections (writer and purge), 2 keys, 2 rows or 3 bytes, batches of one row to purge, sequences to 4, 1 tick, damaged records | the file verifies, receipts hold, counters agree, `BoundedStore` |
| `MCRendezvous` | slot: 2 readers, 2 offers, 2 schemas, ages 0 and 1, clock to 2; broker: 3 callers, 3 frames | freshness, every waiter served; a frame of its demand |
| `MCMcpServer` | 5 identifiers (1, "1", 2, 3 and one that is no identifier), 2 slots, 4 requests; 2 challenge identifiers, 3 challenges, clock to 2 | slots and requests add up, requests proceed; one verdict, nothing kept after close |

Why these bounds are enough to be interesting: two stoppers are the smallest number that disagree;
four submissions fill the queue, are refused, and follow a refused one; two epochs are a
reconnection; one retry is exhausted and also renewed by a stable stream; four captures are one that
leaves a latch, one that finds it, one that recovers, and one that is turned away; two grants let one
replace the other under a read; a quota of one is the race for the last attempt; two children are
one that was given up and the one after it; two keys under a limit of two rows let a put find the
store full, purge, and still be refused; two slots and four requests fill the admission and make one
wait; three challenges for two identifiers use one again. The proofs of section 5 do not depend on
the bounds. `MaxSubmissions`, `MaxRequests`, `MaxGrants`, `MaxWorkers`, `MaxReads`, `MaxCrashes`,
`MaxOffers`, `MaxFrames`, `MaxIssued` and the clocks' maxima are bounds of the models; so are
`MaxEpoch` and `MaxSequence` in `LiveScheduler`. `SQLiteStore`'s `MaxSequence` stands for int64's maximum,
at which the code refuses.

Two more runs end in a counterexample, each of one statement of the repository that the code does
not keep:

| Run | Statement | What happens |
| --- | --- | --- |
| `MCControllerStopTrueIsTerminal` | `tests/unit/capture/test_controller.py:1027`: True, then CLOSED | `stop` marks STOPPING after the owner published CLOSED (`capture/controller.py:299`), and nothing corrects it |
| `MCSnapshotLeaseCoversBackend` | `agent/camera_snapshot.py:203`: the device lease is held "from before factory creation until a close is confirmed" | `close()` raises; `_latch_close_failure` asks the backend for its `worker_state` before it latches (`584`), an interrupt there leaves nothing latched, and `453` to `455` release the lease with the backend unclosed |

The first is a race that leaves a wrong state for ever; the second needs an interrupt (a
`BaseException`) inside one getter, which is what the code's own handling at
`agent/camera_snapshot.py:593` counts on elsewhere.

Seen while modelling, without a run of their own:

- a `stop(drain=True)` of the writer that timed out, followed by `stop(drain=False)`, clears the drain
  flag without discarding (`storage/writer.py:342`), so the worker leaves with items waiting and
  counted as such. `docs/architecture/overview.md:152` allows it: the writer may drain or explicitly
  discard, and when `put()` does not cooperate it stays STUCK, which is the state here;
- `adapters/opencv_process_camera.py:357` calls the deadlines of open and read "actually enforceable",
  and `403` declares the deadline of reads `ENFORCED`; both hold but for a child that hangs inside a
  message, for which `recv()` (`238`, `680`) waits without one;
- `runtime/live.py:67` accepts a shutdown timeout of up to 60 seconds and `storage/writer.py:127` refuses
  more than 30; with one in between the owned writer is never stopped, by a natural exit or by
  `stop()`, which answers False;
- a `stop()` of the scheduler whose `Thread.start()` had raised raises itself from `join()`, and leaves
  the owned writer running (`runtime/live.py:294`);
- after a close that failed at `core/file_lock.py:168` the lock may be held by nobody's descriptor until
  the process ends; the lease fails closed;
- the worker process of an owner that was killed may still have the camera when the next owner has
  the lease (`core/file_lock.py:166`); it lets go when it finds the end of its pipe;
- a failed release is to invalidate the success (`tests/unit/test_camera_snapshot_provider.py:703`), but
  the delivered metric was counted before it (`agent/camera_snapshot.py:601`);
- the comment at `runtime/live.py:424` has the owned writer closed before STOPPED is exposed; with an
  explicit stop under way the worker publishes STOPPED first (`runtime/live.py:433`);
- the comments at `runtime/live.py:328` and `499` have publication linearised with the stop event; `stop`
  does not take the lock, so the event can be set between the test and the offer
  (`runtime/live.py:506`);
- `storage purge-expired` on the database of a live writer changes the counters in the file, and the
  writer's next put latches `record_integrity_error`: that writer is read-only for good;
- `_load_and_verify_counters` reads counters and rows in two statements, so a commit between them
  makes an open fail although the file is sound;
- a pressure purge inside a put frees one batch, and is rolled back with the put when that was not
  enough; "never eliminates fresh rows" and "BUSY fails the operation without poisoning the store"
  (`docs/architecture/resource-and-data-policy.md`) hold;
- a reader of the observation slot that waits for the lock can find an observation newer than its
  clock, which it answers as `future_timestamp`;
- the writer's FAILED and STUCK are not final: a later `stop` whose join times out turns one into the
  other (`storage/writer.py:339`, `347`);
- the controller shows FAILED before it has released the lease (`capture/controller.py:443`);
- a `revoke()` that failed in the directory sync and is repeated answers False without a sync
  (`agent/consent.py:248`), so a power loss may bring the grant back; `RetiredStaysRetired` speaks
  only of calls that ended a grant and said so.

## 4. Fairness

Weak fairness, and only of threads the code itself keeps going: the writer's worker, the
controller's owner, the caller inside `capture()`, the scheduler's worker and its writer, a call of
the ledger or of the service once it began, the parent inside a call of the camera worker, and the
server's admission, tools (which have deadlines) and responses (the client reads its pipe). It says
that the operating system schedules the thread and that the calls it makes return, which the code
arranges (SQLite's busy timeout, the worker process's deadlines, the deadline of `capture`); a call
that never returns is exactly the STUCK case, in which nothing but safety is promised. No fairness
is assumed of callers, of the clock, of crashes, or of success: every call may fail every time.
`CallsAnswered` excepts a wait for another thread of the same process, since `threading.Lock` is
neither fair nor bounded. `EventuallySettled` excepts STUCK. Two properties carry an assumption
about the child in their statement: `OrphansLetGo`, that the child's steps are fair, that is, that
the driver's calls return; and `CallsReturn`, that a child which began a message finishes it or
dies, and nothing about where else it hangs. Without that TLC finds the parent in `recv()` for ever.

## 5. Proofs

All for arbitrary values of the constants, from the named ASSUME of the module (types of the
parameters) alone. Each proof module strengthens the properties into an inductive `IInv`, shows that
`Init` implies it and every action keeps it, action by action, and derives the properties.

- `ObservationWriterProofs`: `TypeOK`, `Accounting`, `CleanIsFinal`, `DrainLosesNothing`,
  `StoreNotLeaked`, the refinement of `DeliveryQueue`, and that `DRAINING` is only seen while a
  caller of `stop()` is in `join()`: the branch of `_stop_serialized` for a writer that is already
  draining is dead code, and the module has no action for it. None is inductive alone: for each
  place of the worker the invariant says what state, store and queue may be (a clean answer needs
  that a worker at its end had closed its store and left nothing), and that the queue holds the last
  numbers accepted, in order, after those in `putLog`. `CleanIsFinal` and `QueueWithinLimits` (both
  limits hold, and the running total of bytes is the sum over the queue) are proved and not run.
  `PutInOrder` is a consequence of the refinement alone: whoever implements `DeliveryQueue` hands
  items over in the order they were accepted, none twice.
- `CameraControllerProofs`: `TypeOK`, `CleanupComplete`, `StopTrueIsFinal`, `RetriesBounded`,
  `FramesAdvance`, `OneCallAfterStop`, the refinement of `DeviceOwner`, and two facts about device
  and slot (`StopTrueIsFinal` and `RetriesBounded` without a run). The invariant ties handles, lease
  and flags to the place of the owner, and the counters of epoch and sequence to the newest frame
  offered. For `OneCallAfterStop` it says at which places a call that began after the stop may be under
  way (`LateInv`): from none of them is another call reached without a test of the flag.
- `CameraSnapshotProofs`: `TypeOK`, `QuietBetweenCaptures`, `OneOpenPerInterval`, `OkMeansReleased`,
  the refinement of `DeviceOwner` (with the lost backends left out of account), and the bound on reads.
- `AgentConsentProofs`: `TypeOK`, `QuotaKept`, `RetiredStaysRetired`, `DeliveredUnderLiveGrant`. The
  quota alone is not inductive: every version that could be on the disk must count at least as many
  attempts as there were captures, a draft must be the current file counted up (which is what the
  lock is for), and a reservation that is about to be answered must be the only version left on the
  disk (which is what the sync is for).
- `CameraWorkerProofs`: `TypeOK`, `NoStrayWorker`, `ReplyOfItsRequest`. That a reply is the one to
  its command needs to know what may be in the pipes at every moment. `Greeting` says it of the
  handshake: the messages on their way are those the child has sent and the parent has not received,
  "configured" is the last, and in the variant with a request nothing is said before it, so that the
  parent that received "configured" has an empty pipe. `Serving` says it of a read: the command is
  on its way, or being served, or answered, or lost with the child. `PlaceInv` and `Launched` tie
  `_process` and the open pipes to the place of the owner thread. A timeout needs no fact about the
  late reply: the child it may come from is given up, and its pipe with it. A child that dies
  inside a message takes it back, which removes the last message from a pipe and never one that the
  parent has (`ExitEffect`); `WritingInv` keeps such children among the living.
- `LiveSchedulerProofs`: `TypeOK`, `StopTrueIsFinal`, `WriterClosedInOrder`, `PublishedAdvance`,
  `NoResultOfOldStream`. The first two need to know who may stop the writer at each moment:
  `ControlInv` ties the place of a lifecycle call to what it has seen of the worker, `WriterInv` says
  that one thread at a time is in the writer's `stop()`, and `OrderInv` that a writer on its way to
  STOPPED has no worker left that could submit, unless a stop gave up on that worker. The two action
  properties need `FrameInv`, the order of the four frames under way (published, in work, waiting,
  produced), and `StreamInv`, that a frame past the last validation is not of a stream older than the
  one that was current when its processor returned.
- `SQLiteStoreProofs`: `TypeOK`, `FileVerifies`, `ReceiptsHold`, `OwnCountersAgree`, and the refinement
  of `BoundedStore`, for any number of connections. `Good` is what an open accepts of a file, of which
  `FileVerifies` is a part; `DraftInv` says that the outcome of the transaction under way is itself
  good and follows the committed file, and that the lock is with a connection
  inside one or with one whose rollback failed; `CountersInv`
  is what a connection knows of the file until somebody else commits; `ReceiptsInv` that receipts,
  past and present, and rows share one numbering below the file's next number. That a put which
  purged under pressure and failed leaves nothing behind is then the fact that a draft is not the
  file.
- `SharedObjectProofs` holds the proofs of four modules that have nothing to do with one another,
  one part each:
  - `SharedCamera`: its types, `ExclusiveUse` and, without a run, `LeaseIsLocked`, `FailsClosed`,
    `LockAccountedFor`, for any number of leases and processes. The invariant `Accounted` relates, for
    each lease, its owner's view, its descriptor, the registry, the system's lock and the descriptors
    that were refused; since an orphan comes only from an owner with a backend, of which there is one,
    none can turn up beside another owner's backend, which is the second half of `ExclusiveUse`.
  - `SnapshotBroker`: `BrokerTypeOK`, `FrameOfItsDemand`. Alone it is not inductive: `Demand` adds that
    a caller who waits at an open broker is the one whose demand is pending, and that the frame kept
    is newer than the demand and than every frame returned.
  - `LatestObservationSlot`: `SlotTypeOK`, `OkIsFresh`, `EveryWaiterServed`. Freshness holds because the
    time a judgement is made as of lags the clock by exactly the wait for the lock (`JudgedIsFair`).
    That a deadline turns nobody away who was offered something needs `EmptyMeansNoOffer`: a slot that
    is open and empty was offered nothing since its readers began to wait.
  - `McpServer` with `VisionChallenge`: `OneVerdict`, `ClosedKeepsNothing`, `AdmissionAccounted`. `Ledger`
    says that a record is of one challenge that was issued, that no challenge has two records, and
    that one that can still be answered has no verdict yet; verification judges only after it
    dropped what has expired (`Cleaned`). For the admission the requests under way are a finite set
    whose cardinality goes up and down with the free slots.

Sums. The bytes of the store and of the writer's queue are sums by the library's fold, which is
defined by recursion. The induction theorems take a predicate as a parameter and cannot be used; the
proofs (`BytesAreUnits`, `SumIsBytes`) go by a smallest counterexample instead. A set holds one element
for every byte; its cardinality satisfies the recursion of the fold; if some set of rows had a
different sum, there would be a smallest one (the order of strict subsets of a finite set is well
founded, and `WFMin` needs no predicate), and taking one row away from it gives a contradiction. What
the steps need then follows from the library's theorems on cardinalities: a row more, some rows
less, an item appended, the first item taken (a bijection that moves every place by one).

Only model-checked: the liveness properties (`ShutdownCompletes`, `EventuallySettled`,
`StopCompletes`, `CaptureAnswers`, `CallsAnswered`, `WorkerEnds`, `CallsReturn`, `OrphansLetGo`,
`RequestsProceed`), since `ENABLED` and fairness are out of the prover's reach. Every invariant,
action property and refinement that a passing run checks is also a theorem. The proofs are about the
models; that these are faithful to the code, and that the parameters' types (the ASSUMEs) are those
of the code, is a matter of reading.

## 6. Limits of the models

`stop()` called by a backend or a processor on its own component's thread is not modelled. Interrupts
are modelled where a call raises them, not between two statements. Counters that no property reads,
receipts, logging, encoding and the wording of errors are left out. Descriptor numbers that are
reused after a failed `close` are not modelled. `load` reads the file as a whole; a file that changes
under it makes it fail. `purge_expired` takes the time from its caller; the model lets it be the clock's,
and the clock never goes back. That a refused request takes no slot is how `Reject` is read from the
code and not something `AdmissionAccounted` could find wrong. `StopTrueIsFinal` says nothing of a stop
that raises. That a closed slot takes no frame is a guard in the model as in the code.

Not modelled, and why: the memory store (a list under one owner thread, used by the demo and the
tests); the snapshot encoder (a pure function, whose bounds are arithmetic on one image's size); the
storage layout (checks of directories and one marker file); resource admission and the doctor (they
read samples of the machine and decide or report; in every module that asks, the answer is free);
replay and synthetic sources (one sequential loop); the contracts and ports (immutable records that
check their fields); the command line, configuration and assembly (they construct the components).
None of them shares state with another thread. `AgentReadService.status` only reads and encodes.

Taken as given of code outside the repository: `multiprocessing`, `subprocess` and sockets deliver the
messages of a pipe in order and lose what follows the end of it; SQLite commits all of a transaction
or nothing, and one connection at a time writes; the system gives a file lock to one descriptor and
drops it with its process; the MCP SDK answers an admitted request at most once.

## 7. Plan

Done, in this order: `ObservationWriter` with `DeliveryQueue`; `CameraController` with
`DeviceOwner`; `SharedCamera`; `CameraSnapshot`; `LiveScheduler`; `AgentConsent`; `CameraWorker`;
`SQLiteStore` with `BoundedStore`; `LatestObservationSlot` and `SnapshotBroker`; `VisionChallenge`
and `McpServer`; and proofs of the safety of all of them.

Next, proofs: what the abstract specifications promise by themselves, carried over to their
implementations as in `PutInOrder` (for `DeviceOwner`, the exclusive use of `SharedCamera` for owners
that are known only by it; for `BoundedStore`, that a key keeps its row until it expires).

To model, if the code grows there: a scheduler composed with the writer's own states instead of its
contract, and the memory store as a second implementation of `BoundedStore`.
