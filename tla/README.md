# A TLA+ model of FrankenManim's concurrent core

FrankenManim turns a scene program into frames and artifacts. Most of its code is
numerical (geometry, rasterization, codecs) and deterministic. What is hard to get
right is the machinery that moves frames between threads, processes and files:
frames are produced on one thread, prepared, rasterized and converted on others,
and delivered in order to several sinks that must all publish or all be discarded,
while callbacks fail, hosts cancel and owners drop things half-way; and results are
kept in a cache that processes share through the file system, any of which may die
between two system calls; and scenes are edited live in a worker process that may be lost at any
exchange and is rebuilt from a journal. This project models that machinery.

Paths below are relative to the repository root; `emitter.rs` is
`crates/fmn-output/src/emitter.rs`, `pipeline.rs` and `stream.rs` are in
`crates/fmn-runtime/src/`, `store.rs` is `crates/fmn-cache/src/store.rs`, and
`supervisor.rs`, `host.rs` and `native/` are in `crates/fmn-studio/src/`.

## Inventory

| Component | State | Operations | Modelled |
|---|---|---|---|
| Ordered emitter (`emitter.rs`) | a ring of frame slots, two cursors, occupancy, first failure, finalization state, two condition variables | `reserve`, `publish`, dropping a reservation, `cancel`, `finish`, `drop`; the drain thread | `OrderedEmitter` |
| Frame pipeline (`pipeline.rs`) | coordinator's order and outstanding sets, parked outputs, permit count, token, three kinds of queue | `run`: spawning, backpressure, submission, barriers, drain; prepare, render and output workers; `cancel` | `FramePipeline` |
| Frame stream (`stream.rs`) | ticket channel, rendezvous, acknowledgement channel, token, join handle | `reserve`, `submit`, dropping a permit, `flush`, `close_input`, `finish`, `cancel`, `drop` | `FrameStream` |
| Execution plan (`fmn-runtime/src/plan.rs`) | none (pure) | deriving team counts and memory budgets | its promise to the pipeline only |
| Cache maintenance lock (`store.rs`) | the lock file, `held_lock` of each handle, the wall clock | `acquire_maintenance_lock`, `release_maintenance_lock`, as called by `evict_to_ceiling` | `MaintenanceLock` |
| Cache namespace (`store.rs`) | entry files, the index file, an access log per handle, a pin set per store | `get`, `put`, `evict_rejected`, `flush`, `usage`, `evict_to_ceiling`, `pin`, dropping a pin | `CacheNamespace`, `CacheRecency` |
| Cache root lifecycle (`store.rs`) | owner marker, generations, quarantined roots | open, claim, clear, validate | planned |
| Cache keys and envelopes (`entry.rs`, `key.rs`) | none (pure) | encode, decode, hash | its promise to the namespace only |
| Artifact sinks, atomic files (`fmn-output/src/sinks.rs`, `fmn-platform/src/fs.rs`) | staged files and directories | consume, prepare, commit, abort | as the emitter's abstract sinks |
| External encoder (`fmn-output/src/ffmpeg.rs`, `fmn-platform/src/process.rs`) | child process, pumps, deadline | spawn, feed, wait, kill | planned |
| Studio supervisor and session (`supervisor.rs`, `supervisor/session.rs`, `host.rs`, `host/input.rs`) | the worker in place, its generation and artifact, the journal with its checkpoints, the committed frame | committed seeks, guarded inputs and advances, previews, restart, export, resume; crash recovery inside any request | `StudioSession` |
| Native scene worker (`native/`) | an executable preview, the track of committed inputs, staged inputs, position and last checkpoint | seek, event, record, save, restore, replay | `NativeWorker` |
| Replay journal (`fmn-scene/src/journal.rs`) | entries with identities and hashes | append, `plan_replay`, audit | as the supervisor and the worker use it |
| Studio wire protocol and worker loop (`fmn-studio`) | none between messages | encode, decode, validate, serve | one exchange is one step |
| Studio host surface (`fmn-studio`, `fmn-python/src/portal_studio`) | served frames, the project watcher's snapshots | HTTP and terminal fronts, polling for source edits, reload | its effect on the session: the source changes, a restart is asked for |
| Frame clock (`fmn-anim/src/clock.rs`) | frame index, rate | frame count, sample points | planned |
| Scene runtime, animation, mobjects, geometry, renderer, text, TeX, codecs, front doors | scene graph and numerical data | single-threaded transformations | no |

How they interact. A scene owner pushes frames into a frame stream; the stream's
coordinator thread runs a frame pipeline whose scene is the stream's ticket
source; the pipeline's emit callback hands finished frames, in order, to the
ordered emitter (or to another consumer); the emitter's drain thread feeds the
sinks and finalizes them. Cancellation travels through a token shared by stream,
pipeline and host, and separately through the emitter's handle. The cache is
shared by processes through the file system. The studio's host serializes the
operations of its clients over one supervisor, which exchanges messages with one worker
process and keeps, outside it, what is needed to build the next one; the worker's
answers come back with the journal segments the supervisor merges.

What is hard there, and what makes each part correct:

- *Emitter*: producers race for a ring that also has failure paths; delivery runs
  with the mutex released; a cancellation races the decision to commit; wake-ups
  are sent by hand. Correct when slots are never shared, reliable sinks see
  exactly the contiguous prefix, publication is all or nothing relative to the
  stream's fate, `cancel` tells the truth and nobody waits for nothing.
- *Pipeline*: completions of racing teams must come out in order; a permit follows
  each frame through five threads; bounded queues could block the thread that
  should empty them; a worker raises the token before it explains why. Correct
  when emission is a prefix of submission, permits are exact, no send blocks, `Ok`
  means everything, barriers are quiet, the run returns and reports the cause.
- *Stream*: a rendezvous with a source that may be leaving; an abandoned flush; a
  permit dropped unsubmitted. Correct when no frame is frozen without a slot, `Ok`
  means every accepted frame was emitted, and every call returns.
- *Maintenance lock*: a lock made of a file that anyone may remove, judged stale by a
  clock, released by compare-then-remove, and remembered in a cell that the threads
  of one handle share. Correct when there is one holder as long as nobody breaks a
  lock, a breaker removes only what it was right to judge, a release spares a lock it
  does not recognise, and an abandoned lock does not stop maintenance for ever.
- *Cache namespace*: entries appear, vanish and rot under readers; rival payloads race
  for one key; the index is advisory and every handle has its own opinion of it; an
  eviction pass works from a scan that ages. Correct when a read returns only what was
  published, entries never change in place, a pass reaches its ceiling or has only
  pinned entries left, and a sole user gets exact least-recently-used order.
- *Session*: a worker is lost with an answer that may have been a commit; recovery itself
  can be refused half-way and leave a new worker in place; sources change between a
  build and the next; clients hold what they inspected several workers ago. Correct when
  the journal is always one execution of one source, a guarded edit runs on the scene its
  author saw, acknowledged commits survive where the journal may be trusted, and what was
  exported can be resumed.
- *Native worker*: previews go on from a cursor that may have been dirtied or lost; staged
  inputs are re-executed at the save; a commit in the past abandons a branch that the
  journal still holds; a replay goes on from a candidate that has run part of the track.
  Correct when a clean preview is the committed timeline, what was admitted at its staging
  passes the save's tests of revisions, counts and equality, and a worker's own journal is
  refused by its successor for nothing but a budget.

`PROJECT.json` lists these hazards at their lines with the properties aimed at them. Two
more are settled without a property: a sink that called `cancel` from `commit_finish`
would wait for itself (no sink of the repository calls back into the emitter), and
authored code that fails half-way in a live capture cannot be undone, so one flag refuses
every later edit (`CaptureFails`).

## Modules

| Module | What it is |
|---|---|
| `AtomicPublication` | what transactional fan-out promises: one verdict, and every sink is published or discarded accordingly |
| `OrderedEmitter` | the detailed emitter; implements `AtomicPublication` |
| `OrderedEmitterProofs` | theorems about it |
| `OrderedDelivery` | what the pipeline promises: items are handed on in order, at most a window behind, and all of them when it completes |
| `FramePipeline` | the detailed pipeline; implements `OrderedDelivery` |
| `FramePipelineProofs` | theorems about it |
| `FrameStream` | extends `FramePipeline`: the pipeline's scene and barrier callback are replaced by the stream's ticket source; implements the safety part of `OrderedDelivery` as seen by its owner |
| `FrameStreamProofs` | theorems about it |
| `MaintenanceLock` | the lock file protocol, with its handles, crashes and clock |
| `MaintenanceLockProofs` | theorems about it |
| `CacheNamespace` | a namespace's entries, index, logs and pins under concurrent calls |
| `CacheNamespaceProofs` | theorems about it |
| `CacheRecency` | `CacheNamespace` with the order of uses as history, for a sole user |
| `CacheRecencyProofs` | theorems about it |
| `StudioSession` | supervisor and host operations over a worker that can be lost, for the four front doors |
| `StudioSessionProofs` | theorems about it |
| `NativeWorker` | the native scene worker, its journal and its recovery; implements `EditTimeline` |
| `NativeWorkerProofs` | theorems about it |
| `EditTimeline` | what committed inputs promise: versions of one timeline in frame order, each of which can be reopened |
| `MC*` | instances for TLC: constants, symmetry |

### OrderedEmitter

A step is one critical section of the `state` mutex, or one call into a sink,
which the drain makes with the mutex released. `slot` and `frame` are the ring's
tags; `reserveSlot`, `emitSlot`, `nextReservation`, `nextEmission`, `outstanding`,
`closed` and `failure` are fields of `State`; `finalization` is the second mutex's
value. `reservations` is the set of live `FrameReservation` guards. `dispatch` and
`request` say where each dispatcher thread is in `reserve`; `drain`, `cursor` and
`delivery` where the drain thread is. `sink` and `accepted` are what the sinks
observe. `outcomes` remembers every answer `cancel` gave.

- `Reserve` and `ResumeReserve` are one iteration of the loop of `reserve`, entered
  from a call or from a wake-up; `Publish` and `DropReservation` end a guard.
- `NextDrainStep` is `next_drain_step` (take the head, park, leave for the
  finalization); `DeliverFrame` one sink call; `SettleFrame` the critical section
  after delivery.
- `BeginFinalize`, `PrepareFinish`, `DecideFinalization`, `CommitFinish`,
  `AbortSink` are `finalize_sinks` and `abort_sinks`.
- `Cancel` comes from a handle and waits for the finalization mutex as the code
  does; `DropEmitter` cancels; `CloseRing` and `JoinDrain` are `finish`.
- A notification is part of the critical section it follows. A thread that had not
  parked yet does not get it; `SpuriousWakeup` adds the wake-ups the platform may
  produce.

The `InternalInvariant` errors of the code are kept as actions' branches, so that
`RingIsSound` can say they are unreachable. Panics in sinks are contained by the
code and take the branch of an error. Frame payloads, buffer recycling, statistics
and error texts are left out. `WorkerPanicked` is left out: every callback of the
drain thread is contained.

### FramePipeline

A step is a channel operation, a read of the token with the branch it decides, or
a callback. The coordinator is where `coord` says; `flushing` is TRUE while
`accept` is inside `emit_ready`, which is stepped one head at a time because the
token may change between two emissions. `order`, `outstanding`, `outputs`,
`terminal` and `error` are the `Coordinator` fields; `slots` is the permit counter.
Each worker has an `inbox` (the queue it receives from), a `phase` and the frame it
is `holding`; worker 0 prepares, `1 .. NumTeams` render, `NumTeams + 1` converts.
The check of the token and the hand-over that follows are separate steps
(`ForwardChecks`, then `ForwardRaster`, `ForwardOutput` or the probing of
`dispatch_to_render`), and so are a worker's raising of the token and its report.

A callback may return, fail or (equivalently for control) panic. Spawning may be
refused at each worker. The scene may produce any sequence number, in any order,
barriers, its end or a panic. The host may cancel at any time, and before the run.
Profiling, counters, utilization and time stamps are left out. The branch for an
execution plan with no render team is left out: a compiled plan has one.

### FrameStream

The owner's thread is `front`, inside one call at a time (the methods take
`&mut self`); `source` is where `Source::next` is on the coordinator thread while
the pipeline is in its `pull`. `ticket` says where the sender of the current ticket
is: waiting in the request channel, held by a permit, or dropped. `HandOver` is the
rendezvous: `submit` returns and `next` returns in one joint step. `recv_timeout` is
two steps: it answers if there is an answer, and may otherwise expire at any time.
Sequence numbers are the owner's choice, wrong ones included. The token starts
uncancelled because `new` creates it. A refused coordinator thread and a panic
outside the stage containment have no state behind them and are left out.

### MaintenanceLock

A caller is one thread inside `evict_to_ceiling`. Threads may share a `Namespace`
(`HandleOf`), handles belong to stores (`StoreOf`), and a store is one opening in one
process, the unit that crashes (`life` counts its incarnations, which is what the
process id and instance number in the token tell apart). A step is one file-system
call or one use of the `held_lock` mutex. `Create`, `ReadOccupant`, `Judge`, `Break`,
`Recreate` and `StoreHeld` are `acquire_maintenance_lock` in order; the clock is read
when the attempt begins (`LockToken`) and again when it judges. `TakeHeld`,
`CompareToken` and `RemoveLock` are `release_maintenance_lock`, which keeps the mutex
to its end (`HeldLockIsFree`). The token names neither thread nor handle, so two
threads of one store can write equal documents in one clock tick; the model keeps
that. `author`, `broke` and `raced` are history. The pass itself is the location
`pass`. The wall clock is taken to be monotone.

### CacheNamespace

`object` is the file at each key's path, `index` the index file, `log` each handle's
`AccessLog` and `logOwner` the holder of its mutex, `pins` each store's `PinSet`;
`call` is a caller's operation with its locals. A step is one file-system call or one
critical section, except where the mutex is kept over file-system calls: `flush` is
`MergeIndex` then `WriteIndex`, and a pass keeps the log from `Reconcile` to
`FinishPass`, one step per entry, while other handles and other processes go on.

- `ReadEntry`, `RemoveCorrupt` are `get_at`, which ends in `Touch` or `Forget`;
  `CreateEntry`, `ReadIncumbent` are `put_at`, which on success touches and flushes.
- `ReadRejected`, `RemoveRejected` are `evict_rejected`; `Scan` and `Reconcile` are
  shared by `usage` and the pass; `Snapshot`, `SkipPinned`, `EvictVictim`, `EndPass`,
  `FinishPass` are `evict_under_lock`.
- `CallFails`, `ReconcileFails` and `EvictionFails` are the error returns, with the
  state each leaves behind; `Restart` is a process death; `Damage` is the disk.

Passes are not serialised by the lock here, because `MaintenanceLock` shows that it
does not keep them apart. Keys are numbers, since the order of digests breaks ties.
Left out: sizes (an entry is one unit, so totals count entries); the rebase at
`u64::MAX`, which no run of the program reaches; the walk over two directory levels
(`Scan` is atomic); the time between reading the index and merging it (`MergeIndex` is
both) and between the sizes of two entries (`Reconcile` reads all); the generation check
before each call, since nothing clears the root here; the sweep of unrecognised files, which removes only temporaries, so a put
that loses its temporary fails as in `CallFails`. `get_or_compute` is a `get` and then
a `put`. Blobs are keys with one payload.

`CacheRecency` adds `recent`, the stored keys in order of last use (as a set of pairs), and
`durable`, what that order was when the index was last written. It assumes one caller on one
handle of one store and no file-system failures (`SoleUserAssumption`). With failures its `LeastRecentFirst` does not hold: a failed
index write leaves rebased ranks in memory beside older, larger ones on disk, and the
next merge prefers the larger. The code calls the index advisory, so this is a limit of
the promise and not a finding.

### StudioSession

The host's operations mutex admits one operation (`op`), which is a series of exchanges
with the worker; `step` is the next one. A step is an exchange with the branch its answer
takes: at each the worker may answer, refuse, panic, or be lost with its answer (`Lost`).
`journal` holds the command, the source and the checkpoint of each entry, which is what
its identities and hashes tell apart; a worker is the source it was compiled from, the
commands it executed and whether an edit failed half-way in it.

- `BeginSeek`, `BeginEdit`, `BeginLook`, `BeginRestart` are the host operations that reach
  the worker, `SaveSession` and `Resume` the exported session of the live host.
- `Commit`, `Reexecute` and `MergeRefused` are a command and the merge of its segment
  (`merge_journal_segment`); `Show`, `Look`, `Reshow` the scrub that follows it.
- `Rebuild`, `Launch`, `PlanReplay`, `Restore`, `Replay`, `ReplayDiverges`, `ColdFallback`,
  `RecoveryRefused`, `RecoveryLost` are `rebuild_and_restart`, `recover_from_crash` and
  `recover`; what follows them depends on who asked (`CrashRecovered`,
  `RestartRecovered`, `ResumeRecovered`).
- `EditSource` is the author saving another version of the scene.

The hosts differ where the code does: `live` and `bundle` vouch for what a scene reads
(`Attested`), `project` and `capture` do not; `capture` neither restarts a worker by
itself nor keeps its commands over a reload, counts its own edits as its revision, and takes none
after one failed half-way (`CaptureFails`); a `bundle` has no inputs. A capture may refuse an edit when
another frame is on display; the model lets it refuse any.
Left out: the wire format, the threads that pump a child's pipes, crash reports, and the
checkpoint store, a cache whose misses fall back to memory. That a worker re-executing its
own journal under its own source is not refused is assumed here (`Replay`) and is a theorem
about `NativeWorker` (`WorkerRecovers`), up to its budgets of work, entries and bytes. Hence
`AttestedCommitsSurvive` holds up to those budgets.

### NativeWorker

One request to the worker is one step, since its loop is serial and a lost worker takes
its answer along; `Lost` may come between any two. An execution is the frame it is at and
the inputs dispatched to it, which is what a `ColdVerified` factory's hashes stand for.

- `Seek`, `SeekFails`, `Event`, `EventFails` are previews; a program taken out to go
  forward and lost to an error is `NoProgram`.
- `Record` is a committed seek or input, `Save` a committed seek that takes the staged inputs
  with it; both end in `Install`, which includes the supervisor's merge.
- `Lost`, `Restore`, `Replay` are the successor: blank, restored to the last checkpoint of
  the part of the journal to reuse, and replayed to its end. `refused` is any mismatch,
  `overworked` the two work budgets (frames and inputs).

`AdvanceAfterInputs`, `VisibleCount`, `AppendRow`, `ReplayStep` are the functions of
`edits.rs` and `service/recovery.rs` of those purposes; `FreshAt` is the reference they
are compared with: the factory run anew from frame zero. `EditTimeline` states what an
author is promised without tracks, cursors or checkpoints: a version is its
inputs in frame order, and a commit cuts the version it goes on from at its frame (`Follows`).
`Branch`, `Nth` and `Version` map the journal to these versions. Left out: cameras, rendering,
the inspector, factories that are not `ColdVerified`, and the limits of a request's size:

- Bytes. `encode_state` refuses a state beyond `max_checkpoint_bytes`, and `checked` a
  segment or frame beyond its limits; `staged_command` tests neither. So a save can be
  refused for bytes although its inputs were staged (the test
  `failed_save_keeps_pending_edits_and_committed_recovery_authority` does that), and
  `PendingIsAdmissible` does not claim otherwise: it speaks of the revisions, the frame, the
  event count, the dispatch budget and the comparison with the display. A commit or a save
  refused for bytes changes nothing, so it is no step; a preview refused for its frame's
  bytes is `SeekFails` or `EventFails`.
- `max_replay_hashes` and `max_journal_bytes` in a replay, which refuse before any
  execution as the work budgets do; `OwnJournalReplays` is up to these as well.

## Runs

| Run | Instance | Shows |
|---|---|---|
| `emitter` | 3 slots, sequences 1 .. 5, 2 dispatchers, a reliable and a preview sink, fair | `TypeOK`, `RingIsSound`, `WritersAreExclusive`, `SinksSeeThePrefix`, `NoLostWakeup`, `CancelTellsTheTruth`, `EmitterCallsReturn`, refinement of `AtomicPublication` |
| `pipeline` | 2 teams, 2 frames in flight, sequences 1 .. 4, 1 barrier, fair | `TypeOK`, `EmissionFollowsSubmission`, `FramesAreAccountedFor`, `NoInternalError`, `BarriersAreQuiet`, `FailureIsReported`, refinement of `OrderedDelivery` |
| `stream` | 2 teams, 2 in flight, sequences 1 .. 2, 2 flushes, fair | `StreamTypeOK`, `FinishOkIsComplete`, `FlushMeansEmitted`, `StreamDeliversInOrder` (the safety of `OrderedDelivery`), `CallsReturn` |
| `lock` | 2 callers in 2 processes, horizon 0, clock 0 .. 1, one crash each, failing calls, an initial garbage lock, fair | `LockTypeOK`, `ExclusiveUntilBroken`, `BreaksOnlyWhatExpired`, `ReleaseNeedsItsToken`, `MaintenanceComesBack` |
| `lock_fresh` | 3 callers, no time passing | `FreshLockSkips` is violated |
| `cache_entries` | 2 processes, 1 key, 2 rival payloads, all operations, ceiling 0, failures, one damage, one restart | `CacheTypeOK`, `AnswersArePublished` |
| `cache_eviction` | 2 handles of one store, 2 keys, ceiling 1, puts and passes, up to 2 pins of a key | `PassMeetsTheCeiling`, `PinnedThroughoutSurvives` |
| `cache_recency` | 1 caller, 3 keys, ceiling 1, a pin, one damage, one restart | `LeastRecentFirst` |
| `cache_pins` | 1 caller, 1 key, ceiling 0, one pin | `LivePinsHold` is violated |
| `studio_session` | the 4 hosts, seeks to 2 frames, edits at a third, 2 sources, 3 journal entries, 1 change of the source, 2 troubles | `SessionTypeOK`, `EditsMeetTheSceneInspected`, `AttestedCommitsSurvive`, `JournalIsOneExecution`, `SavedSessionsResume` |
| `studio_restart` | the same, project host only | `RestartRestoresTheScene` is violated |
| `studio_worker` | 3 frames, 2 events, 2 inputs per track, 3 journal entries, 2 preview inputs, 2 workers lost, work budgets of 2 frames and 3 inputs | `WorkerTypeOK`, `PreviewIsTheTimeline`, `PendingIsAdmissible`, `OwnJournalReplays`, refinement of `EditTimeline` |

Deadlock is checked in every run but the studio's: a host whose resume failed has exited
(`down`), a worker whose journal is beyond its work budget serves nothing, and the bounds
on faults leave nothing else to happen then. In `OrderedEmitter` a handle can always ask
for one more cancellation, so nothing ever deadlocks formally; there the liveness properties are
what rules out a stuck thread. In the pipeline and the stream the only state
without a successor would be a real deadlock: termination has its own stuttering
action (`Finished`, `StreamEnded`). A cache caller can always begin another call, so
there too a stuck caller would show only in the liveness property of the lock; the access
mutex is never held while waiting for anything.

Every property has a mutation of the code next to the definition it changes
(`\* Mutation of ...`), a plausible slip such as `notify_one` for `notify_all`, a
permit not released on an early exit or a check dropped, under which TLC finds that
property violated in the same run.

Bounds and why they are enough:

- *Emitter*: `MaxSequence` stands for `u64::MAX`, so the refusal at the end of the
  sequence space happens. Four frames and three slots make the cursors wrap while
  the ring is full, empty and partly failed. Two dispatchers suffice for every race
  between reservations: a third one would only wait with the second. Two sinks give
  every partial delivery, prepare and commit, and one of each mode their
  difference.
- *Pipeline*: two teams reorder frames; with two in flight the gate closes while both
  teams work, and the queues, which hold at most one frame per permit, fill and empty;
  four sequences are twice the limit, so the gate opens again, and allow gaps and
  repetitions. One barrier can fall at any place.
- *Stream*: with two in flight the owner is refused and admitted again; two flushes
  are needed for the acknowledgement of one to meet the other.
- *Lock*: a holder and a breaker in two processes meet in every order, and each may be
  lost once; one tick past horizon 0 is enough to become stale. What a third caller, a
  shared handle or a longer horizon could add to safety is covered by the theorems, which
  hold for any number of them; `lock_fresh` has the three callers its counterexample needs.
- *Cache*: one key suffices for everything about an entry, because operations on
  different keys meet only in the log, the index and the pass; two payloads make rivals.
  Two keys and ceiling 1 make a pass choose, skip, evict and stop; two pins of a key make
  the count matter. Three keys are needed for the order of two survivors to matter.
- *Session*: three entries leave a prefix to reuse, a checkpoint inside it and a tail to
  replay or to re-execute, and make the budget bite. One change of the source separates
  the versions before and after; two troubles put a second fault inside the recovery from
  the first, or a restart after a crash. Seeks to two frames make streams diverge.
- *Worker*: three frames give inputs before, at and after a seek; two inputs per track are one
  abandoned branch over another; three entries allow a commit in the past between two
  others, or a batch of two with its seek; checkpoints two frames apart leave entries
  without one. The budgets are small enough for both to be exceeded by a replay. Two lost
  workers put a crash inside a recovery.

`MaxTime`, `MaxCrashes`, `MaxPins`, `MaxNext` (reads start only below this access
sequence), `MaxDamage` and `MaxRestarts` bound the environment of the lock and the cache;
`MaxEdits` and `MaxTroubles` that of the session; `MaxEntries`, `MaxPreview` and
`MaxCrashes` that of the worker. `MaxSequence` and `MaxBarriers` bound the pipeline's and
the stream's environment only. No action of the program reads them, except that in the
emitter `MaxSequence` is `u64::MAX`, and in the session a client commits no more once the
worker is past `JournalLimit`, itself the code's budget.

### What the code does not keep

Three statements of the documentation are refuted, each by a run that checks it alone:

- `lock_fresh`: `acquire_maintenance_lock` decides to remove the lock path on what it
  read there earlier, or because nothing was there any more, and then removes whatever
  is there by then. A fresh lock taken in between is removed and two maintainers run.
  The counterexample involves no stale lock: the first holder merely released.
- `cache_pins`: a pass copies the pin set once; a pin taken after the copy does not keep
  the pass from removing the entry. `PinnedThroughoutSurvives` is what does hold.
- `studio_restart`: Restart is documented to restore the committed scene through the
  journal (`docs/NATIVE_PROJECT_STUDIO.md:26`). On the project host nothing of a journal
  may be reused, so when a worker is lost `recover_from_crash` plans no replay, re-executes
  nothing and leaves a blank successor. The next committed seek starts at that worker's
  entry 0 and truncates the journal to itself. A Restart then re-executes that journal,
  reports success, and the committed edits are gone. `AttestedCommitsSurvive` is what
  holds for the hosts that can reuse their journal, and `JournalIsOneExecution` for all.

A release has the same window between its comparison and its removal; `raced` in
`ReleaseNeedsItsToken` is exactly that window. The cache stays safe under all of these:
two passes that overlap, or an entry evicted under a pin, cost recomputation, and every
property of `CacheNamespace` is checked with overlapping passes.

### Fairness

Weak fairness on each thread's next step and nothing else. Threads are scheduled by
the operating system, callbacks and sink calls are synchronous and assumed to return
(the code documents that it does not kill them), and a channel or mutex that stays
available is eventually obtained. In the emitter a reservation is assumed to be
published or dropped, because its guard is a Rust value with an owner, which the
`finish` documentation asks for too. No fairness is given to the host, to the
scene's owner (`FrontCalls`), to cancellation or to spurious wake-ups.
In `pipeline` and `stream` the prepare worker may probe full teams in a loop; the loop
ends because the teams' own fairness frees a queue.

In `lock` the clock ticks, threads run, and maintenance keeps being asked for: callers of
the cache run it after their writes. Creating the lock, reading an occupant and removing an
expired lock are strongly fair: a file system that keeps being asked does not refuse for
ever. One that refused every removal would indeed keep an abandoned lock. Crashes and
single failures have no fairness.

The studio's modules state no fairness and no liveness: an exchange that is not answered
ends by the supervisor's timeout, which is one of the outcomes of its step, so every
operation is a bounded series of steps.

## Proofs

Every theorem holds for all values of the constants; the only assumptions are the named
`ASSUME`s on them. They say that sizes are natural numbers and what else the code enforces or
presupposes: a ring has a slot (`CapacityAssumption`), a plan a render team
(`PlanAssumption`), hosts are the four front doors (`HostsAssumption`), and so on. One is a
restriction of scope: `SoleUserAssumption` in `CacheRecency`. Each property is stated by the theorem in
brackets.

`OrderedEmitterProofs` (any capacity, sequences, dispatchers and sinks):

- `TypeOK`, `RingIsSound`, `WritersAreExclusive` (`TypeCorrect`, `RingSoundness`,
  `WriterExclusion`): none of these is inductive. A slot the reserve cursor reaches is free
  only because of what lies between the cursors. The strengthening `IInv` adds `RingShape` (while nothing failed, the
  occupied slots are the `outstanding` slots from the emit cursor on, going round
  the ring, and carry consecutive sequences from `nextEmission`) and `Ownership`
  (each guard owns the writing slot it names; the drain owns the emitting slot while
  it delivers; this part survives failures, when the shape no longer holds).
  `Offset` is a slot's distance from the emit cursor; advancing that cursor
  shifts every offset by one, which is the heart of `SettleIInv`. One lemma per
  operation, and `NextIInv` puts them together.
- `NoLostWakeup` (`WakeupSafety`) is inductive relative to `IInv`; each lemma shows
  that a step which makes a parked thread's condition true notifies it.
- `CancelTellsTheTruth` (`CancelTruth`): `DecisionInv` relates the finalization state, the
  drain's place, the sinks and the outcomes given so far; it is inductive on its own typing.
- `SinksSeeThePrefix` (`PrefixDelivery`) allows a sink to be one frame ahead; `PrefixInv` says
  which and when, by the drain's place: `Fed` are the sinks the frame in delivery has reached.
- The safety of `ImplementsAtomicPublication` (`EmitterPublishesAtomically`): with `PublishInv`
  (the finalization decided, the drain's place, which sinks are settled) each step maps to a
  grant, a failure, the close, a verdict or a sink settled, or to a stutter.

`FramePipelineProofs` (any number of teams, limit, sequences and barriers). `PipelineInv` is:
`Ledger`, every outstanding frame in exactly one queue, hand, report or place of the
coordinator (`Partition`), and as many permits; `Threads`, a worker exits only after those that
send to it; `Records`, `order` is what is outstanding or ended, without repetition; `Verdicts`,
the token is up before any early exit is reported, and no stage is found disconnected;
`Emission`, until the token is up, `submitted` is `emitted` followed by `order`. The bounds of
the queues, and with them that no send blocks, follow from the ledger. It yields `TypeOK`, `FramesAreAccountedFor`,
`EmissionFollowsSubmission`, `NoInternalError`, `BarriersAreQuiet` (`PipelineTyping`,
`PipelineLedger`, `PipelineOrder`, `PipelineBooksBalance`, `PipelineBarriers`) and the step
refinement of `OrderedDelivery`'s safety (`PipelineDelivers`).

`FrameStreamProofs` reuses that invariant rather than repeating it: `InnerStep` and the ticket's
steps simulate the pipeline (`StreamRunsThePipeline`, `StreamSpec => Spec`), so the pipeline's
theorems hold of the stream. `StreamInv` adds who holds the ticket, that a stale ticket or a
forfeited permit means the run is stopping, that frames taken from the owner are those
submitted, and what a pending acknowledgement stands for. It yields `StreamTypeOK`,
`FinishOkIsComplete`, `FlushMeansEmitted` and `StreamDeliversInOrder` (`StreamTyping`,
`StreamFinish`, `StreamFlush`, `StreamDelivers`).

`MaintenanceLockProofs` (any callers, handles, stores, sharing, horizon and number of
crashes). `LockInv` is one inductive invariant: besides the types, a call under
way carries a token; until a lock is broken, every holder is the author of the file that
is there (so there is only one: `LockExclusion`); what a caller found stale is stale for
ever, because time does not go back (`LockExpiry`); and a caller past the comparison of a
release still sees its own document or is in `raced` (`LockRelease`). One lemma per
conjunct, one step per action. `broke` is what exclusion needs: the run `lock_fresh`
shows that without it the statement is false.

`CacheNamespaceProofs` (any callers, handles, stores, keys, payloads, ceiling and faults):

- `RebaseKeepsOrder`: ranks keep the eviction order exactly and lie below the next sequence.
- `CacheInv` joins the types, what each location works for (`Stages`), who holds which log's
  mutex (`Owners`), where the bytes on the disk and in a call came from (`Provenance`), which
  pins a pass respects (`Guards`) and its count (`Passes`). The property `PassMeetsTheCeiling` is
  about the end of a pass; on the way the invariant is that what was there at the scan and has
  stayed is among the candidates left or pinned, and that these together are no more than
  `total`. The mutex is what makes it inductive: other handles may remove files, which only helps,
  but nobody else changes the log a pass works on.
- It yields `CacheTypeOK`, `AnswersArePublished`, `PassMeetsTheCeiling` and
  `PinnedThroughoutSurvives` (`CacheTyping`, `CacheAnswers`, `CacheCeiling`, `CachePins`).

`CacheRecencyProofs` (a sole user; any keys, ceiling, pins, damage and restarts):
`LeastRecentFirst` (`RecencyOrder`). `RecencyInv` says that the log and the index each number the
used keys in the order of their uses, that the index holds ranks, and that the log is ahead of
the index except between the merge and the write of one flush (`LogAhead`). The last part is what a merge
needs, since it takes the greater number of the two; it is also what a failed
write breaks, hence the scope.

`StudioSessionProofs` (any hosts, frames, sources, limit and number of faults). `SessionInv`:
which exchanges belong to which operation, how far a recovery has got at each of its steps,
what it was asked for, `Agreement` (as far as both go, a running worker has executed the
journal, and the journal is one source's), `Attestation` (while nothing was edited, journal and
worker are the disk's and nothing acknowledged is missing), what was exported, and `Inspected`
(within one generation a worker's history only goes on, so a client's token names a prefix of it). The steps
are taken by their effect on the journal and the worker. It yields `SessionTypeOK`,
`EditsMeetTheSceneInspected`, `AttestedCommitsSurvive`, `JournalIsOneExecution` and
`SavedSessionsResume` (`SessionTyping`, `SessionEdits`, `SessionCommits`, `SessionJournal`,
`SessionResumes`).

`NativeWorkerProofs` (any frames, events, limits, budgets and number of lost workers):

- `WorkerInv`: every journal entry records a command that the track before it admits, and the
  state of a fresh execution of the track after it (`Recorded`); the served track is the
  journal's at its position; staged inputs were dispatched after the committed ones and fit.
- The central lemma is `Continue`: going on from an execution that has run a prefix of the track
  ends where a fresh execution does. It carries previews, saves and replays alike.
- It yields `WorkerTypeOK`, `PreviewIsTheTimeline`, `PendingIsAdmissible` and
  `OwnJournalReplays` (`WorkerTyping`, `WorkerPreview`, `WorkerStagesAdmissible`, `WorkerRecovers`), and
  the refinement of `EditTimeline` (`WorkerKeepsTheTimeline`), for which the journal's branches
  are shown to be the tracks the worker kept (`BranchIs`, `VersionIs`, `CommandFollows`).
- `Batch` and `ReplayTo` are recursive functions over the entries of one request. That they
  satisfy their equations (`BatchUnfold`, `ReplayUnfold`) is proved by constructing the function. What
  they compute is then proved by taking a least index at which it would fail (`LeastNat`, from the
  library's well-founded relations), since induction rules with an operator parameter are out
  of the provers' reach.

Only model-checked: what depends on fairness, which is outside the prover. These are
`EmitterCallsReturn`, `FailureIsReported`, `CallsReturn`, `MaintenanceComesBack`, and the liveness
parts of `ImplementsAtomicPublication` and `ImplementsOrderedDelivery`, whose safety parts are
the theorems above. Every other property that a passing run checks is a theorem. The three
violated statements are refuted by their runs.

## Plan

1. `OrderedEmitter` with its proofs, `FramePipeline`, `FrameStream`: done.
2. `MaintenanceLock` with its proofs, `CacheNamespace`, `CacheRecency`: done.
3. `StudioSession`, `NativeWorker` and `EditTimeline`: done.
4. Proofs about `FramePipeline` and `FrameStream`: done.
5. Proofs about `StudioSession` and `NativeWorker`, the step refinement of `EditTimeline`
   included: done.
6. The emitter's step refinement of `AtomicPublication` and `SinksSeeThePrefix`: done.
7. Proofs about `CacheNamespace` and `CacheRecency`: done. Next: an abstract cache (a map
   whose entries may vanish but never change) that `CacheNamespace` implements.
8. The cache root's lifecycle: claiming, clearing and generations, composed with the
   namespace.
9. The project watcher and its reloads, and the frame hub, composed with `StudioSession`.
10. `ArtifactSinks`: staged files under the emitter's prepare/commit/abort; the external
    encoder behind one of them.
11. Pure algorithms against reference definitions: the frame clock, the plan's budgets.

## Not modelled

Most of the repository's lines are numerical code (geometry, animation, rasterization,
colour conversion), parsers, codecs and bindings, several hundred thousand lines with no
interleavings and no protocol: single-threaded transformations of data whose correctness
is a matter of numbers and bytes. The repository tests them against fixtures, and a model of them would
say nothing a model checker can tell apart, so the map covers the part of the code that
coordinates threads, processes and files. The scene runtime is single-threaded and meets
the rest only through the stream and the worker. Command line, Python and WASM entry
points compose the modelled parts. Operating-system I/O (pipes, file contents, sockets)
enters only as success or failure. Components marked *planned* are next in the plan above.
