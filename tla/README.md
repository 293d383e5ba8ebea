# Verifying parts of the Temporal server

TLA+ specifications of the part of this repository that is a program: the
Temporal server under `src/temporal/temporal` (the rest of the repository is
notes on netpoll, hertz, kitex, sonic and on Temporal itself, without their
code). Three subjects, each with its own state machine:

* the *history shard*: how a host owns a shard, how tasks get keys and reach the
  store (`ShardContext`), and how the task queues of the shard read, execute,
  delete and remember them (`HistoryQueue`). A write of the shard puts the new
  state of a workflow and its tasks into the store in one transaction, and the
  queue makes sure that each task is executed;
* the *updates of a workflow* (`WorkflowUpdates`): a synchronous call on top of
  a state machine that becomes durable one workflow task at a time, where a
  caller must not hear of what a failed write takes back;
* the *fair backlog* of a task queue in matching (`MatchingFairBacklog`): a
  queue on disk that is written in the middle while it is read, of which only a
  part is in memory.

Paths below are relative to `src/temporal/temporal/service/history/` unless
they start with `docs/`, `common/` or `matching/` (`service/matching/`).

## The system

| Part | State | Operations | Hard about it |
|---|---|---|---|
| Shard context `shard/context_impl.go` | `contextState`, `rwLock`, `ioSemaphore`, `shardInfo` (range ID, queue states), `engineFuture` | acquire, renew, stop; create, update, conflict-resolve, set workflow, add tasks; save queue states; read watermarks | several goroutines, a lock held over I/O, unknown outcomes, several owners |
| Task keys `shard/task_key_*.go`, `task_request_tracker.go` | next and last ID of the range, min scheduled time, pending keys, in-flight count | set keys, track, complete, drain, clear | watermarks against writes that land late |
| Shard row `common/persistence/cassandra/shard_store.go` | range ID, queue states | compare-and-set | the only fence between owners |
| Task queue `queues/` | readers with lists of slices (range, predicate, iterators, tracker), deletion and read watermarks | load, execute, acknowledge, poll, checkpoint, alert actions | two goroutines per reader list, splitting and merging, reload in the middle |
| Executables, rescheduler, schedulers | `TaskState`, attempts, backoff heaps, worker pools | execute, ack, nack, cancel, resubmit, DLQ | cancellation racing execution |
| Shard controller `shard/controller_impl.go` | map of contexts, membership | create, unload, shut down | a context finishing while another is created |
| Workflow updates `workflow/update/`, `common/effect`, the handlers in `api/` | registry, state and two futures of each update, buffered effects | admit, send, accept, reject, complete, abort; wait; clear and reload | provisional states that a failed write takes back, callers that wait on objects of a registry that is gone, a run that closes with updates in flight |
| Fair backlog `matching/fair_*.go` | tasks and acks in memory, read and ack levels, pins | write, read, merge, evict, complete, delete, take over | tasks written below those that are loaded, three goroutines, an ack level that must not pass what is not in memory |
| Workflow task, mutable state, HSM, CHASM | data of one workflow | commands and timeouts | mostly data |
| The rest of matching | older backlog, matcher, forwarding, user data | add, poll, forward, garbage-collect | leases, late writes |
| Replication, version histories, clocks | branches, HLC | merge, compare | order of events between clusters |

The shard context and the queue meet in four calls. The queue asks the context
how far it may read (`GetQueueExclusiveHighReadWatermark`), hands it its state
(`SetQueueState`), compares its range ID (`GetRangeID`) and deletes tasks
directly in the store. The context knows nothing about readers; what it has to
promise is that no task appears in the store below a key the queue was once
allowed to read past.

An update meets the shard in one call, the write at the end of a workflow task
(`UpdateWorkflowExecution`), which succeeds, fails, or fails after it has
reached the store. The fair backlog meets its store in three: a conditional
write of tasks and metadata, a read of a page, and a deletion of a range that is
not conditional.

`PROJECT.json` lists every component, the parts that are not modelled too, and
the hazards with the lines where they bite.

## The modules

| Module | Models |
|---|---|
| `ShardContext` | the contexts of one shard, their task key managers, the store and the calls in flight |
| `ShardContextProofs` | TLAPS proofs about `ShardContext`: types and the count of in-flight writes, one holder per range ID, unique task IDs |
| `ShardReadProofs` | TLAPS proofs of what a context may serve and its queues may read, from fencing and task IDs |
| `MCShardContext` | symmetry sets for TLC |
| `QueueSlices` | pure operators: ranges, scopes, predicates, trackers, iterators, slices and the slice list of a reader |
| `HistoryQueue` | one task queue: store, readers, event loop, checkpoint, alert actions, reload |
| `QueueSlicesProofs` | TLAPS lemmas about `QueueSlices`: cutting, joining and unloading slices keeps them well formed and loses nothing |
| `HistoryQueueProofs` | TLAPS proofs about `HistoryQueue`: types, order and counts, no task forgotten, only executed tasks deleted, none left behind |
| `MCHistoryQueue` | symmetry set and limits for TLC |
| `UpdateLifecycle` | abstract specification: what callers of updates may be told, against what the store has |
| `WorkflowUpdates` | the updates of one run: registry, objects, futures, effects, handlers, callers, faults |
| `WorkflowUpdatesProofs` | TLAPS proof of the types of `WorkflowUpdates` |
| `UpdateLifecycleProofs` | TLAPS proofs that answers are durable and that `WorkflowUpdates` implements `UpdateLifecycle` |
| `UpdateRegistryProofs` | TLAPS proofs of what handlers leave behind: tasks for what is to be sent, futures set once, a registry that agrees with the store, an answer to the callers of every object that is forgotten |
| `MCWorkflowUpdates` | symmetry set for TLC |
| `MatchingFairBacklog` | the backlog of one subqueue: store, reader, writer, deletions, pollers, new owners |
| `MatchingFairBacklogProofs` | TLAPS proofs about `MatchingFairBacklog`: types, nothing lost or skipped, levels grow |
| `MCMatchingFairBacklog` | environments for TLC |

`HistoryQueue` EXTENDS `QueueSlices`. `HistoryQueue` and `ShardContext` are
separate state machines: the first assumes of the second what the second's
properties say (see *What the queue relies on*). `WorkflowUpdates` instantiates
`UpdateLifecycle` with the run in the store (`Implements`).

### ShardContext

Each element of `Contexts` is a `ContextImpl`; a stopped one may be replaced
(`Recreate`). Each element of `Requests` is one call to persistence:
`kind` says which, `phase` where its caller is, `wire` where the call is. A
call whose caller gave up with an unknown outcome stays behind as a `zombie`
until it lands or is dropped; a renewal of the range ID by anybody makes it
harmless, since the store compares range IDs.

`lock` is `rwLock`, with the reason for which it is held; actions that take
and release the lock within one Go function without I/O are one step.
`renewRangeLocked` is several (drain, call, answer) because the lock is held
across the call and other goroutines see that. A write is `BeginWrite`
(semaphore, lock, state check), `SetTaskKey` for each task, possibly
`RenewForKeys` in the middle, `TrackAndSend` (track, unlock, call), `Answer`
(completion function, without the lock) and `HandleWriteError` (with it). The
five Go methods (create, update, conflict-resolve, set, add) differ in payload
only. `acquiring` is the program counter of the goroutine of `acquireShard`.

A task is its category, ID and *position* (ID for immediate categories, fire
time for scheduled ones). Of `shardInfo` the range ID and the queue watermarks
are kept.

### QueueSlices

Keys are numbers, `Key.Next()` is the successor. A predicate is the set of
groups it selects, with one more element, `Others`, for all the groups no task
of the run has: `AndPredicates`, `OrPredicates`, `Not` and `Universal` over
predicates of one grouper are then intersection, union, difference and the whole
set. A slice has the fields of `SliceImpl`; its tracker keeps the executables
that are pending and acknowledged, and the counts per key apart from them, as
the code does: an executable that is in both trackers of a merge is counted
twice. An iterator is its remaining range. `nextReadSlice` is a place in the
list, `0` for nil, or `Removed` for an element that has been taken off the
list. The loops of the code that pick elements of a list (`Selected`) and that
walk two lists side by side (`InMinOrder`) are given by the places of the
elements, not by recursion over the list.

### HistoryQueue

* `AddTask`, `RenewRange`, `Reload`, `SaveLands`, `DeletionLands`: the world
  around the queue. `saves` holds the copies of the queue state that
  `updateShardInfo` may still write, in any order; `deletions` the calls of
  `RangeCompleteHistoryTasks` whose caller was told that they failed.
* `LoadTasks`, `LoadFromRemoved`, `Ack`: a reader and its executables. A load
  reads until the batch is full or stops early, at any key, as when a page
  fails to load.
* `ProcessNewRange`: a poll, with `AppendSlices` when the time to force a new
  slice is over and `MergeSlices` else.
* `UnloadPendingTasks`, `MoveStuckRange`, `CompactSomeSlices`: an alert, with
  the action of the mitigator. A checkpoint follows at once.
* `Shrink`, `CollectScopes`, `RangeCompleteTasks` (or its failure),
  `UpdateQueueState`: a checkpoint, with `actionMoveGroup` or
  `slicePredicateAction` inside `CollectScopes`.

Atomicity. `SplitSlices` of one reader and `MergeSlices` into the next take two
locks, one after the other, and are one step here: a load or an
acknowledgement that happens in between touches other slices than those on
their way and can be moved before or after. A load between the statistics of
`actionQueuePendingTask` and its clearing only changes what is chosen, and the
choice is not deterministic in the model: which slices of a group are unloaded
follows the code (newest first, no more than it takes), which groups is left
open, where the code looks at the counts per group. Map iteration order is left
open as well.

What the queue relies on, and where that comes from:

* `AddTask` never adds below `readWatermark`: `NoTaskBehindReader`, and after a
  reload `NoTaskBehindPersistedState` and `NoImmediateTaskBehindAnyReader`. For
  a scheduled category and a *new* owner it also takes clocks that agree within
  `TimerProcessorMaxTimeShift`; `readWatermark` is not lowered by `Reload`.
* a copy of the queue state that is under way cannot land after a reload: the
  range ID is compared, `SingleOwner`.
* deletions are not fenced, so `deletions` survives a reload.

### WorkflowUpdates

`db` is the run in the store: open or closed, its workflow task, and of each
update what is durable (nothing, admitted by the history it was reset from,
accepted, or an outcome). `ms` is the mutable state that the context caches,
`reg` its registry, `upd` the `Update` objects: after a clear the registry is
built again and makes new objects, while callers may still wait on the old ones,
so an update has up to `Copies` of them. A caller (`call`) is a goroutine that
holds the lock in `UpdateWorkflowExecution` or `Poll...` only to find or admit
the update, and then waits for one of its two futures.

* `UpdateWorkflowExecution`, `PollWorkflowExecutionUpdate`,
  `WaitLifecycleStage`, `OutcomeReady`, `AcceptedReady`, `WaitTimedOut`: a call
  from its beginning to its answer.
* `RecordWorkflowTaskStarted`, `WorkflowTaskTimedOut`, `CloseWorkflow`: handlers
  that are one step.
* `RespondWorkflowTaskCompleted` is many: `HandleMessage` for each message,
  `HandleCloseCommand` or `HandleBadCommand`, `FinishMessages` (reject what was
  not processed, schedule the next workflow task), `Persist`, then `ApplyEffect`
  one by one and `FinishTask`, or after a write that failed `CancelEffect` in
  reverse and `ReturnError`; `FailWorkflowTask` when a message was bad. `pc`
  says where it is, and the lock is free at `"idle"`.
* `SetFuture` sets the next value that the code under the lock is setting: callers
  run between any two.
* `LoadContext`, `ClearContext`, `Crash`: the context is read again, cleared by
  an error or evicted, lost with its host.

`FailureError` is the table of `abort_reason.go`. `Faults` says what may go
wrong: a write that fails (`"write"`, with or without effect), a host that
crashes, a workflow task or a call that times out, and a worker that breaks the protocol
(`"worker"`).

Abstractions: limits on sizes and the forced termination that follows from them
are left out; the limit on payloads is an error like the limit on updates; a
change of the failover version is a clear and a load; a paused workflow, a
failing attempt and a refused close are `ClearContext`; the states `Created` and
`ProvisionallyAdmitted` last for less than one lock and never show; a correct
worker sends messages that follow the protocol for updates that some worker was
sent (`seen`).

### MatchingFairBacklog

A level is a pass and a task ID in one number, ordered as `fairLevel.less`.
`tr` is what `fairTaskReader` keeps under its lock, `reader` the program counter
of `readTasksImpl`, `writer` that of the loop of `fairTaskWriter`, `copies` the
task objects that are with the matcher or with a poller. `Merged` is
`mergeTasksLocked`: of all that is known the lowest `GetTasksBatchSize` tasks are
kept, the rest is evicted, and acks above what is kept are forgotten but
remembered in `evictedAcks`. `Advanced` moves the ack level unless it is pinned,
by a write under way or by tasks held back for a reader at work.

* `ReadNextBatch`, `GetFairTasks` (or its failure), `MergeRead`, `ReadDone`: a read.
* `StartWrite` (IDs, pin, passes), `CreateFairTasks` (or its failure, with or
  without effect), `WroteNewTasks`, `UnpinWritten`: a write.
* `CompleteTask`; `RespoolTask` and `CompleteRespooled` for a task that could not
  be started and is written again.
* `DoGC`, `LateGC`, `SyncState`, `TakeOver`: deletions, metadata, a new owner.

One subqueue; one owner at a time, as the calls of the last one are refused by
the range ID, except for deletions. A merge and the adding of what is new to the
matcher are one step: `copies` counts what an eviction could not take back
from a poller. A task that fails to start for a reason that passes stays with
the matcher; a task that is dropped counts as done. A level is respooled once at
a time. Expiry, counts and ages, blocks of task IDs, draining and the cap on
`evictedAcks` are left out.

## What is checked

The comment at each property cites the code.

| Run | Bounds | Shows |
|---|---|---|
| `shard_failover` | 2 contexts, 2 calls, 1 immediate category, ranges of 1 ID, range ID up to 2 | fencing: one owner, unique task IDs, no immediate task behind the reader of any context, stop is final |
| `shard_single` | 1 context, 2 calls, semaphore of 1, ranges of 2 IDs, writes of up to 2 tasks, IDs from outside of writes, fairness | types; the tracker counts right; a renewal drains the writes; an unknown outcome is settled before the shard serves; acquisition runs exactly when it has to, and ends; the lock is released |
| `shard_timers` | 1 context, recreated, 1 immediate and 1 scheduled category that saves its state, writes of 2 tasks, ranges of 1 ID, clock up to 1 | the least key per category is enough for the tracker; no timer lands below the persisted watermark |
| `queue_groups` | 2 groups, 2 readers, 3 tasks, keys below 4, alerts at more than 2 executables or slices, predicates of 1 group | splitting, moving, merging, unloading, compacting and limiting predicates forget no task, keep slices in order and count groups |
| `queue_scheduled` | 1 group, 2 readers, 2 task IDs per fire time, 2 tasks, 1 save, 1 reload | rounding of deletions, the stuck reader; the scopes that are saved cover what is not executed, whichever reader it was moved to |
| `queue_delivery` | 1 reader, 2 tasks, 2 saves, 1 failed deletion, 1 renewal, 1 reload | saves out of order and late deletions lose nothing and leave nothing |
| `queue_live` | 1 reader, 2 tasks, unloading as soon as 2 are tracked, fairness | every task is executed and then deleted |
| `queue_two_readers` | 2 readers, 2 tasks, unloading, fairness | *violation*: a task is never executed |
| `updates` | 2 updates, 1 caller, 1 outcome, 2 objects per update, failing writes and time-outs | answers hold in the store; a future is set once; registry and store agree whenever the lock is free; what is to be sent has a workflow task; whoever waits on an object that is forgotten is answered, but for two cases of a failed write; `UpdateLifecycle` is implemented |
| `updates_live` | the same with limits of 1 update, crashes instead of failing writes, fairness | a closed run has no update that can go on; every call that asks for the stage ACCEPTED comes back |
| `fair_backlog` | 3 tasks, batches of 2, reload at 1, 1 new owner, 2 objects per task; two passes with failing reads and writes and a new owner, or one pass with every fault | nothing of the backlog is lost or skipped, the ack level does not go back |
| `fair_stalled` | 2 tasks, 1 pass, no faults, fairness | *violation*: a task is never started |

Why these bounds. Two contexts are enough for one to lose the shard to
another, and a third would only repeat it; range ID 2 has two owners after the
initial row, or an owner that renews. A range of one ID puts the boundary
between ranges between any two tasks. In the queue, three tasks of two groups
fill a slice that is split by predicate and by range with something on every
side. Batches of one task make every load stop inside a slice, and a batch that
is not full stops wherever the store does. Two saves are needed to land out of
order. Two updates are the least for the order of effects, of aborts and of
futures to matter, and for a limit to be reached; two objects are the one that a
caller waits for and the one that has replaced it. A caller is enough since
callers only meet through the registry, which `told` remembers for all of them.
In the fair backlog, two tasks in memory and a third that is written below,
between or above them reach every case of a merge; reloading at one lets a read
begin while something is loaded; a second object of a level is one that a poller
has while the task is read again. Runs with more than one group, update or
context of a kind use symmetry; runs with liveness use none. Deadlock is not
checked: every instance stops when its bounds are used up.

Each property has a mutant, an operator next to the one it replaces, that
changes the code's behaviour the way a plausible bug would (`MinKeys` that
remembers the last key, a store that does not compare range IDs, a `Clear`
that keeps the iterators, a merge of trackers without counting, a checkpoint
that saves after a failed deletion, an effect that is not undone when the write
fails, a merge that keeps acks above what is in memory), and TLC finds the
property violated with it.

### Fairness

`ShardContext!Fairness`: every call to persistence returns, since
`newIOContext` and `newDetachedContext` give it a deadline; goroutines that can
run do run; `sync.RWMutex` does not starve one that waits (SF on taking the
lock); the retry policy of `acquireShard` expires after 5 minutes (SF, because
attempts in between disable it).

`HistoryQueue!Fairness`: a reader with something to load is notified or wakes
by its throttle timer (WF on loading); an executable is retried until it is
acknowledged, SF because it may be unloaded and loaded again in between; the
event loop picks at random among the timers that are due, so neither a poll nor
a checkpoint is left out for ever (SF, as alerts and failed checkpoints
disable them); deletions do not fail for ever. The poll of `CatchUp` covers the
tasks there are and appends a new slice, as it does once
`nextForceNewSliceTime` is over. Nothing is assumed about alerts, reloads or
saves. Steps of the event loop are named by how they change `loop`, which is
the same action and cheaper for TLC.

`WorkflowUpdates!FairSpec`: a handler that holds the lock goes on, and so does a
caller whose future is set. Workers poll and answer: SF on
`RecordWorkflowTaskStarted` and `RespondWorkflowTaskCompleted`, which other
handlers, clears and reloads disable from time to time, and a worker does not
heartbeat for ever (SF on `FinishMessages` without heartbeat). Nothing is assumed
of time-outs, so a call comes back without its own deadline, and nothing of
outcomes: a worker may accept an update and never complete it, which is why
`CallsAnswered` speaks of the stage ACCEPTED.

`MatchingFairBacklog!FairSpec`: reader and writer run (WF on their steps), reads
do not fail for ever (SF on `GetFairTasks`), the timer of a failed read fires,
and a poller comes for every task that is with the matcher. There is nothing else
that would wake the reader, and the counterexample needs no failure.

### Disagreements

* **A task that is never executed** (`queue_two_readers`). `ShrinkSlices`
  (`queues/reader.go:350-369`) takes a slice that is done off the list even
  when `nextReadSlice` points to it. A removed list element has no `Next()`,
  so the next `loadAndSubmitTasks` (`reader.go:472-483`) finds no tasks, sets
  `nextReadSlice` to nil and stops, although the slices behind the removed one
  have not been read. The next poll repairs the default reader, which is why
  the runs with one reader pass; for another reader it takes a later split,
  merge or compaction on it, or a reload. In the counterexample two slices are
  moved to reader 1 by the alert on pending tasks; the first is read by a batch
  that its last task fills, so that its iterator stays behind with nothing left;
  the task is acknowledged and the checkpoint of the alert removes the slice.
  `docs/architecture/history-service.md:322` promises that a task that was written will
  result in its call.
* **A backlog that stands still** (`fair_stalled`). A task is written while a
  read runs (`newlyWrittenTasks`), the read returns it too, and it is completed
  before the loop of `readTasksImpl` looks the last time at
  `shouldReadMoreLocked`. Only then are the written tasks merged
  (`matching/fair_task_reader.go:228-238`): nothing is loaded, so the read level falls
  back to the ack level, which the write holds; the ack is above it and is
  evicted, and with that the reader is no longer at the end. Nothing reads from
  then on: the loop is over, and later writes are ignored because they are above
  the read level. The same happens when `mergeTasks` runs after the read has
  ended. The comment at `matching/fair_task_reader.go:190-192` relies on the reader
  looking at `shouldReadMoreLocked` before it exits. With a call of
  `maybeReadTasksLocked` after both merges TLC finds the property true (3 tasks,
  2 passes, no faults).

Observations that have no run:

* The comments at `shard/context_impl.go:1173-1175` and `1975-1977` say that the
  renewal is the only call in flight; the update of `updateShardInfo` is not
  drained. It does no harm: whichever lands first, the other is refused or
  ordered by the store.
* `actionReaderStuck` does not look at the maximum number of readers as the
  other actions do (`queues/action_reader_stuck.go:80`), so a scheduled queue that is
  configured with one reader gets a second one. The assumption `QueueConstants`
  excludes the configuration.
* A write that fails clears the context, and with it the registry, inside
  `UpdateWorkflowExecutionWithNew` (`workflow/context.go:532-536`), before the
  handler cancels its effects (`api/respondworkflowtaskcompleted/api.go:638`). An update
  that is provisionally completed by then is not in `preAcceptedStates`
  (`workflow/update/update.go:281-286`) and gets an outcome but no acceptance; one
  that is provisionally aborted gets nothing. A caller that waits for ACCEPTED
  sits until its own soft deadline, which `update.go:241` and
  `docs/architecture/workflow-update.md:156-157` do not promise. `updates` has
  this behaviour (its callers may time out), and `ForgottenAnswered` says whom it
  lets down and that nothing else does; `updates_live` leaves the fault out.
* An update that the history of a reset run admitted is rebuilt as Admitted by
  `NewRegistry` when the run is closed already, against
  `docs/architecture/workflow-update.md:211-212`; hence `Reset = {}` in `updates_live`.
* With the fault `"worker"`, a second message for an update after the command that
  closed the run turns a provisionally completed update into "failed", although
  its outcome is what is written. A worker of the SDKs does not do this, and the
  proofs assume that none does.
* In the fair backlog, a task that is respooled is completed at its old level
  although it may have been evicted meanwhile (`matching/fair_task_reader.go:162-176`);
  its ack above the read level carries the ack level over tasks in between. This
  takes tasks of two passes and a respooling (`KeysAndRespool`, 4 tasks, batches
  of 1, reload at 0). A deletion of the last owner that lands late deletes tasks
  that were written below its level since (`KeysAndLate`). `fair_backlog` has
  each fault with tasks in the order of their IDs, where neither can happen.
* A page that is full of expired tasks is read again for ever, since nothing
  of it is kept and the read level does not move. `isDrained` looks at what is
  in memory, not at `newlyWrittenTasks`. Both are outside of the model.

## What is proved

TLAPS proves of `ShardContext`, for every set of contexts, calls and categories
and all bounds allowed by `ConstantsAssumption`, of `HistoryQueue`, for every
finite set of groups, all numbers of readers, batch sizes, thresholds and limits
on predicates allowed by `SliceConstants` and `QueueConstants`, of
`WorkflowUpdates`, for every set of updates, callers and outcomes, all limits and
faults allowed by `UpdateConstants`, and of `MatchingFairBacklog`, for all batch
sizes, bounds and environments allowed by `BacklogConstants`:

| Theorem | Module | States |
|---|---|---|
| `TypeCorrect` | `ShardContextProofs` | `Spec => []TypeOK` |
| `CountCorrect` | `ShardContextProofs` | `Spec => []InflightCounted` |
| `RenewalUndisturbed` | `ShardContextProofs` | `Spec => []NoWriteDuringRenew` |
| `FencingCorrect` | `ShardContextProofs` | `Spec => []SingleOwner` |
| `TaskIDsUnique` | `ShardContextProofs` | `Spec => []UniqueTaskIDs` |
| `ReadersAreBehind` | `ShardReadProofs` | `Spec => []NoTaskBehindReader` |
| `ResumesAhead` | `ShardReadProofs` | `Spec => []NoTaskBehindPersistedState` |
| `StaleReadersAreBehind` | `ShardReadProofs` | `Spec => []NoImmediateTaskBehindAnyReader` |
| `OutcomeSettled` | `ShardReadProofs` | `Spec => []OutcomeSettledWhenAcquired` |
| `AcquisitionRuns` | `ShardReadProofs` | `Spec => []AcquireRunsWhileAcquiring` |
| `StoppingIsFinal` | `ShardReadProofs` | `Spec => StopIsFinal` |
| `TypeCorrect` | `HistoryQueueProofs` | `Spec => []TypeOK` |
| `NotForgotten` | `HistoryQueueProofs` | `Spec => []NoTaskForgotten` |
| `NotForgottenByReload` | `HistoryQueueProofs` | `Spec => []NoTaskForgottenByReload` |
| `OnlyExecuted` | `HistoryQueueProofs` | `Spec => []OnlyExecutedDeleted` |
| `NotLeftBehind` | `HistoryQueueProofs` | `Spec => []NoTaskLeftBehind` |
| `WatermarkGrows` | `HistoryQueueProofs` | `Spec => DeletionWatermarkGrows` |
| `Ordered` | `HistoryQueueProofs` | `Spec => []SlicesInOrder` |
| `Counted` | `HistoryQueueProofs` | `Spec => []GroupsCounted` |
| `TypeCorrect` | `WorkflowUpdatesProofs` | `Spec => []TypeOK` |
| `Durable` | `UpdateLifecycleProofs` | `Spec => []ToldIsDurable`, if `"worker" \notin Faults` |
| `Refinement` | `UpdateLifecycleProofs` | `Spec => Implements`, if `"worker" \notin Faults` |
| `Delivered` | `UpdateRegistryProofs` | `Spec => []DeliveryPending` |
| `SetOnce` | `UpdateRegistryProofs` | `Spec => []FuturesSetOnce` |
| `Agrees` | `UpdateRegistryProofs` | `Spec => []RegistryAgrees`, if `"worker" \notin Faults` |
| `AbortedClosed` | `UpdateRegistryProofs` | `Spec => []AbortedWhenClosed`, if `"worker" \notin Faults` and `Reset = {}` |
| `Reached` | `UpdateRegistryProofs` | `Spec => ForgottenAnswered`, if `"worker" \notin Faults` |
| `TypeCorrect` | `MatchingFairBacklogProofs` | `Spec => []TypeOK` |
| `NothingIsLost` | `MatchingFairBacklogProofs` | `Spec => []NothingLost`, if `Tame` |
| `NothingIsSkipped` | `MatchingFairBacklogProofs` | `Spec => []NothingSkipped`, if `Tame` |
| `AckLevelsGrow` | `MatchingFairBacklogProofs` | `Spec => AckLevelGrows`, if `Tame` |

**Counting.** The first three are one argument. `TypeOK` is not inductive: that `inflightRequestCount`
stays a natural number when a write returns needs that it counts that write
(`InflightCounted`); and `setRangeID` clears the counter, which is right only
because no tracked write is in flight when a renewal succeeds
(`NoWriteDuringRenew`), which again follows from the counter being zero when
the drain ends. The inductive invariant `CountInv` is the conjunction of the
three with `RequestShape` (a slot in use belongs to a context, and only writes
with tasks pass through the phase of getting keys) and `RangeInitialized` (next
and last ID are set together, so that `@ + 1` stays in its type). The proof has
one lemma per group of actions for types, and for counting classifies the
actions: *quiet* ones leave the set of in-flight writes alone (`QuietStep`),
`TrackAndSend` adds one element to it, `Answer` removes one, and the two that
reset the counter find the set empty. Finite cardinalities come from
`FiniteSetTheorems`.

**Fencing.** `SingleOwner` speaks of contexts that hold the range ID of the row;
a context gets it from the answer to a renewal, and between the moment the store
takes the renewal and the moment the context adopts the answer nobody holds the
new range ID. `FencingInv` therefore follows a range ID through the call: it
belongs to one context or to one *granted* renewal (`RangeHeldOnce`), nobody is
ahead of the row (`RangeBounded`), and a renewal that is waited for is the only
one of its context, with the lock held and the context's range ID still what
the renewal expects (`RenewalShape`). The last part needs that nothing begins
before `shardInfo` is loaded (`Loaded`), since loading sets the range ID without
the lock. All actions but three are quiet (`RangeQuiet`: no renewal appears, none
is granted, no range ID in use changes); sending a renewal, the grant in
`ApplyWrite` and the adoption in `RenewSucceeded` are proved one by one. A
renewal that was given up and lands late grants a range ID to nobody.

**Task IDs.** `IDInv` says of each ID in use that no context and no granted
renewal can still hand it out (`IDsFresh`), and that a generator stays in its
range (`GeneratorInRange`). Ranges of different range IDs are disjoint
(`RangesDisjoint`), so with `RangeHeldOnce` the ID that `SetTaskKey` takes is
one that only its context could generate (`IDGenerated`).

**Serving and reading.** `ReadInv` of `ShardReadProofs` adds five parts to
`FencingInv` and `IDInv`. `AcquireInv` ties the state of a context to the progress
of `acquireShard` and to the lock. `WritesInv` says that a write was made with the
range ID its context has or an older one, and that one of the current range ID
with an unknown outcome keeps the context from being Acquired: only the adoption
of a new range ID ends that, and then the old write is refused. Watermarks
are in many places: those of the readers, of `shardInfo`, of the copies of it that
wait or are on the way, and, for the owner, those of the row (`MarkOf`). `MarksInv` bounds all of them
by the next key that the context hands out (`Bound`), which only grows
(`BoundStep`), and those of immediate categories by the end of the range, so that
an owner that takes over starts above them. `TasksInv` says that the smallest key
of each category of a write under way is pending at its context as long as the
write can land; that another write which completes does not remove it is
`UniqueTaskIDs`. `LiveInv` joins the two: a task of a write that is
being prepared or on the way under the range ID of the row is ahead of every
watermark of its context, and its ID is beyond the range of every other context.
A key is born so (`NewKeyAhead`), and stays so since a new watermark stops at the
smallest pending key (`AheadStep`). A renewal granted to another context ends it,
for then the write cannot land. The theorems on readers follow: a reader of the
own context or the row by `MarkOf`, a reader of another context since it
is within its range.

**Slices.** `QueueSlicesProofs` has one lemma for each operation of `QueueSlices`.
A slice *holds* a task that it has pending, or that is in its predicate and under
one of its iterators (`Holds`). `Keeps(X, Y)` says what an operation owes: of the
slices `X` it makes well-formed slices `Y` within the ranges of `X`, which track
nothing that was not tracked, and hold every task that some slice of `X` held
and that none of them had acknowledged. The last clause is as weak as the code makes it: a
task may be tracked by two slices that are merged, acknowledged in one of them and
pending in the other, and the merged tracker has it once. `Keeps` composes,
so that `MergeWithSlice` follows from two splits and a join, `MergeSlices` from a
fold of it, and an action from the operations on each slice.

A slice is well formed (`SliceOK`) when its iterators are in order, apart and in
its range, and its executables are in its scope and counted *at most* by
`pendingPerKey`: equality is lost when both trackers of a merge have a task, and
only the inequality is needed for `ShrinkScope`, which drops the groups that are
counted zero times. `MergeWithSlice` relies on the order of its two slices and on
both being non-empty, and `MergeSlices` on both lists being in order; that the
result is ordered again, also where three slices come of two, is `MergedOK`.

**The queue.** No property of `HistoryQueue` is inductive; their common invariant
is `Inv` of `HistoryQueueProofs`.

* `ReadersInv`: the slices of all readers are well formed, lie between
  `deletionWatermark` and `nonReadableMin`, have acknowledged only what is
  executed, and hold every task below `nonReadableMin` that is not. Actions,
  alerts and shrinking satisfy `Evolves`, which is `Keeps` for all readers, and
  so keep it (`EvolvesOK`); a load, an acknowledgement and a new range change one
  slice or reader.
* `StatesInv`: each state that is or may become persisted, or is about to be
  handed over, has scopes in order below its own watermark that cover the tasks
  below it that are not executed. A task that is added later is above
  `readWatermark`, hence above the watermark of any state (`StateStays`).
* `CheckpointInv`: a checkpoint is several steps, and other goroutines work
  between them. From `CollectScopes` on, what has been collected is not above any
  slice: readers only load and acknowledge meanwhile, and these leave the ranges alone.
  `RangeDone` concludes that below the collected mark everything is executed.
* `StoredInv`: a stored task is not below the mark that the next deletion
  begins with, that of the queue or of a state that a reload could start from. A state is
  handed over only after the deletion up to its mark has succeeded, which is why a
  failed deletion must end the checkpoint.
* `DeletionsInv`: a deletion with an unknown outcome has only executed tasks in its
  range, and its range is below `readWatermark`, so that no task can be added to it.

`NoTaskForgotten`, `SlicesInOrder` and `GroupsCounted` follow from `ReadersInv`,
`NoTaskForgottenByReload` from `StatesInv`, and `DeletionWatermarkGrows` from
`CheckpointInv`. `QueueConstants` asks for a second reader in a scheduled queue, as
`actionReaderStuck` moves slices to it without a look at the number of readers.

**Updates.** `TypeOK` of `WorkflowUpdates` is inductive by itself. `Durable` and
`Refinement` share the invariant `Inv` of `UpdateLifecycleProofs`. What callers
are told comes from futures, so `FutureInv` says of every value on a future, or
on its way to one (`sets`), that it holds in the store, and that "accepted" is
said only of an update that was left open or after its outcome. Futures are set
by effects, so `CommitInv` says of the effects in the buffer that what they will
set is what the mutable state has, which is what is written before they are
applied, and that their object is the registered one. `RollbackInv` says that
cancelling goes back to a state without an outcome. `StoreInv` relates the mutable
state to the store: equal in its updates when the lock is free, at most one write
ahead while a workflow task completes, every update having moved as
`Progress` allows. `RegisteredInv` says of the registered objects
that their state fits the mutable state and that a provisional one has an effect
in the buffer that will end it; a message finds its update only through the
registry, so nothing is needed of the objects that were cleared.
`ToldInv` is the property
itself with what the history variables need. There is one lemma for each action
or group of actions. The refinement maps the run in the store and the two history
variables to themselves; a step of `WorkflowUpdates` is a `Write` when it changes
the store, an `Answer` when a caller returns, and stutters else. The assumption on
workers is needed: with the fault TLC finds `ToldIsDurable` violated.

**What handlers leave behind.** The theorems of `UpdateRegistryProofs` each have an
invariant of their own, most of them on top of `Inv`. None of the properties is
inductive, since all but `FuturesSetOnce` speak of the moments when the lock is free.

* `Delivered`: `DeliveryInv` says the same of the later part of the handler of a
  workflow task, which has chosen the next task before it writes and applies
  what it did (`task.next`), and that a context which is not loaded has nothing
  that the store has not.
* `SetOnce`: `OnceInv` says that the futures of an object are unset, and no value
  for them is on its way, as long as its state is one in which nobody was told
  (`ObjectOnce`); and of an effect in the buffer that the future it will set stays
  unset until then, and that cancelling it goes back to a state of which
  `ObjectOnce` still holds (`EffectOnce`). The second is where order matters: an
  effect that sets "accepted" must not run after another one has, and
  effects of one update may be buffered twice in a task.
* `Agrees`: `RegInv` relates each registered object to the *mutable state*
  (`Entry`) also while a handler works: which provisional state goes with which
  entry, that an update completed there has an effect that will remove it from
  the registry, and that the counter of completed updates counts those that have
  left (`Counted`). When the lock is free no effect is left and `StoreInv`
  replaces the mutable state by the store. On the error paths nothing of it is
  claimed: they end with the registry cleared.
* `AbortedClosed` follows from `RegInv` and `NoneAdmitted`: only an update of
  the history that the run was reset from may be registered unaborted after the close.
* `Reached`: `WaitingInv` has four parts. Registered objects that are accepted,
  completed or aborted have their futures set or the values on the way
  (`PlacesGiven`), and none of them is only a place (`RegisteredUsed`); effects keep
  the first true although they answer in two steps (`EffectsGiven`); and as long as
  effects of a loaded context may be cancelled, cancelling them in reverse order
  leaves no object in a provisional state, since the last effect of an update is
  the one whose state it is in (`EffectsUndoable`). The last is what the error path
  of a bad message needs: its effects are cancelled *before* the registry is
  cleared, and clearing sets both futures of an update only if its state is not a
  provisional one that came late. Each step has, besides keeping the invariant, to
  answer for the objects it takes off the registry (`LeftAnswered`).

`Reached` covers writes that fail. There the registry is cleared *before* the effects
are cancelled (see *Disagreements*), so `EffectsUndoable` is of no help, and the proof
goes by the state in which the task has left each update (`WaitWriteFailed`): both
futures are given, but for an update that is provisionally completed, which gets
an outcome and perhaps no acceptance, and one that is provisionally aborted, which
gets nothing. `Answered` excuses these two, by this step only; without
either excuse TLC finds the property violated. Nobody else is ever let down.

**The fair backlog.** `Tame` says that no environment respools tasks or has late
deletions; with either TLC finds tasks lost. A task is *owed* from the moment it
is in the store until it is started, some steps before its writer hears of it.
`OwedInv` follows it: it is above the ack level, and if the read level has
reached it, it is in memory, held back for a reader at work, or still with its
writer. `ReadInv` is the other half: a read starts at the read level, which
nobody else moves while it runs, and once it has its page everything that is
owed above the memory is in the page, beyond its last task if it was full, or
held back. That a merge keeps this (`MergedKeeps`) is an argument on the lowest
elements of a finite set: what is kept is closed downwards, so the read level
falls back below whatever is evicted. That the ack level passes nothing
(`AdvancedBelow`) rests on the pin: it stands still from the
moment a task gets its ID until the write has been merged. New tasks are above the ack level since
their passes are not below its pass and their IDs are above every ID there is
(`IssuedInv`, `LevelAbove`). Finite sets and their least elements come from
`FiniteSetTheorems` and `WellFoundedInduction`.

With these every safety property and action property that a passing run checks is
also proved, of `WorkflowUpdates` and `MatchingFairBacklog` under the
hypotheses in the table. Only model-checked are the
liveness properties: `TaskExecuted` and `TaskDeleted` of `HistoryQueue` and those of the
other modules that the runs with fairness list. They stay with TLC for good: TLAPS does
not do ENABLED, nor the fairness that rests on it.

## What is not modelled

Throttling, backoff times, rate limits and metrics, which only delay; the
payload of workflows; handover and failover of namespaces; remote clusters in
`shardInfo`; paging inside one iterator. Two hazards have no property. The
data race on `pendingPerKey` (`queues/action_pending_task_count.go:100`) is a
crash of the Go runtime rather than a behaviour of the protocol. That a stale
owner of the shard deletes timers which the new owner has added is a question
about both machines at once, and about clocks: it needs the composition.

The share of the source that is modelled is small: most of the repository's lines are
generated API code, request validation, serialisation, and bookkeeping on the
data of a workflow. What is modelled was chosen for its concurrency.

## Plan

In the order of what they are worth:

1. `TaskOutbox`, an abstract specification (a task is added, executed at least
   once, and only then deleted) that `HistoryQueue` implements; and
   `ShardQueue`, the composition of shard and queue, for the unfenced deletion.
2. `Executable`: ack, nack, cancel and resubmission against scheduler and
   rescheduler, with shutdown; `ShardController`.
3. The older backlog of matching: ID blocks, ack level, garbage collection; the
   matcher.
4. Small concurrent parts (priority mutex and semaphore, finalizer, stream
   batcher) and pure algorithms (version histories, hybrid logical clock,
   vector clock) against reference definitions.
