---------------------------- MODULE HistoryQueue ----------------------------
(***************************************************************************)
(* One task queue of a history shard (service/history/queues).             *)
(*                                                                         *)
(* Tasks are added to the store by the writes of the shard context.  The   *)
(* queue learns up to which key it may read (processNewRange), its readers *)
(* load tasks and submit them, executables are acknowledged, and a         *)
(* checkpoint shrinks the slices, deletes from the store the range of keys *)
(* that is done with, and saves the scopes of what is left.  A shard that  *)
(* is loaded again starts from the scopes that were saved last.            *)
(*                                                                         *)
(* One goroutine runs the event loop of the queue (checkpoints, alerts,    *)
(* new ranges) and one each reader; they share a reader's slice list under *)
(* its mutex.  A checkpoint is three actions, one for each time that other *)
(* goroutines can see: the slices are shrunk; the checkpoint action is run *)
(* and the scopes are collected; the store is called.  Executables are     *)
(* acknowledged at any time.                                               *)
(*                                                                         *)
(* From the shard context (module ShardContext) the queue relies on what   *)
(* is proved or checked there: no task appears below a key the queue was   *)
(* let read past, saved state is fenced by the range ID, deletions are     *)
(* not.  Throttling (pauses, rate limits, backoff) only delays and is left *)
(* out; the guard on the number of pending tasks is kept.                  *)
(***************************************************************************)
EXTENDS QueueSlices

CONSTANTS
    MaxReaderCount,             \* Options.MaxReaderCount
    BatchSize,                  \* ReaderOptions.BatchSize
    MaxPendingTasksCount,       \* ReaderOptions.MaxPendingTasksCount of each reader
    PendingTasksCriticalCount,  \* MonitorOptions; 0: no such alert
    TargetPendingTasks,         \* PendingTasksCriticalCount * targetLoadFactor
    SliceCountCriticalThreshold,\* MonitorOptions; 0: no such alert
    TargetSliceCount,           \* SliceCountCriticalThreshold * targetLoadFactor
    MoveGroupTaskCountBase,     \* Options; 0: slicePredicateAction is run instead
    MoveGroupTaskCountMultiplier,
    MoveSliceMinPendingTaskCount, \* moveSliceDefaultReaderMinPendingTaskCount
    MoveSliceMinSliceCount,     \* moveSliceDefaultReaderMinSliceCount
    TaskIDsPerTime,             \* 1: immediate category; else keys with one fire time
    MaxKey,                     \* bound on keys
    MaxTasks,                   \* bound on tasks
    MaxReloads,                 \* bound on reloads of the shard
    MaxRenewals,                \* bound on renewals of the range ID
    MaxSaves,                   \* bound on copies of the queue state under way
    MaxDeletions                \* bound on deletions with an unknown outcome

ASSUME QueueConstants ==
    /\ MaxReaderCount \in Nat \ {0}
    /\ BatchSize \in Nat \ {0}
    /\ MaxPendingTasksCount \in [0..MaxReaderCount - 1 -> Nat \ {0}]
    /\ TargetPendingTasks \in 0..PendingTasksCriticalCount
    /\ TargetSliceCount \in 0..SliceCountCriticalThreshold
    /\ TaskIDsPerTime \in Nat \ {0}
    /\ TaskIDsPerTime > 1 => MaxReaderCount > 1   \* actionReaderStuck does not look at it
    /\ MaxKey \in Nat \ {0}
    /\ {MaxTasks, MaxReloads, MaxRenewals, MaxSaves, MaxDeletions} \subseteq Nat

VARIABLES
    \* history: the tasks added, those executed at least once; reloads, renewals
    added, executed, reloads, renewals,
    \* the store: tasks, and the state of the queue in the shard row
    stored, persisted,
    \* calls with an unknown outcome, or under way: copies of the queue state,
    \* ranges of tasks to delete
    saves, deletions,
    \* ShardContext.GetQueueExclusiveHighReadWatermark
    readWatermark,
    \* queueBase: the readers, InclusiveMin of nonReadableScope, what has been
    \* deleted, whether lastRangeID is the one of the shard
    readers, nonReadableMin, deletionWatermark, rangeIDSeen,
    \* the event loop, and the state a checkpoint is about to save
    loop, checkpointState

storeVars == <<stored, persisted, saves, deletions>>
queueVars == <<readers, nonReadableMin, deletionWatermark, rangeIDSeen, loop, checkpointState>>
vars == <<added, executed, reloads, renewals, storeVars, readWatermark, queueVars>>

-----------------------------------------------------------------------------
DefaultReaderId == 0
ReaderIDs == 0..MaxReaderCount - 1

IsScheduled == TaskIDsPerTime > 1

\* rangeCompleteTasks sets the TaskID of the keys of a scheduled category to 0.
FireTimeOnly(key) == (key \div TaskIDsPerTime) * TaskIDsPerTime

\* MinimumKey, and the exclusive ack level of a queue that has no state.
MinimumKey == 0
FirstKey == IF IsScheduled THEN MinimumKey ELSE MinimumKey + 1

Tasks == [key : FirstKey..MaxKey - 1, group : Groups]

NewReader(slices) == [slices |-> slices, nextReadSlice |-> IF slices = <<>> THEN 0 ELSE 1]

GetOrCreateReader(rs, id) == IF id \in DOMAIN rs THEN rs[id] ELSE NewReader(<<>>)

WithReader(rs, id, reader) ==
    [i \in DOMAIN rs \cup {id} |-> IF i = id THEN reader ELSE rs[i]]

\* The elements of all slice lists.
Places(rs) == UNION {{<<id, n>> : n \in DOMAIN rs[id].slices} : id \in DOMAIN rs}
SliceAt(rs, place) == rs[place[1]].slices[place[2]]

\* What the monitor counts: executables that are tracked, acknowledged or not.
PendingTaskCount(rs, ids) ==
    MapThenSumSet(LAMBDA p : Cardinality(Tracked(SliceAt(rs, p))), Places([id \in ids |-> rs[id]]))
TotalPendingTaskCount(rs) == PendingTaskCount(rs, DOMAIN rs)
TotalSliceCount(rs) == Cardinality(Places(rs))

QueueState(scopes, high) == [readerScopes |-> scopes, exclusiveReaderHighWatermark |-> high]

\* The least key of a queue state: what is below has been deleted.
LeastKey(state) ==
    Min({state.exclusiveReaderHighWatermark} \cup
        {state.readerScopes[id][1].min : id \in DOMAIN state.readerScopes})

\* newQueueBase: what has been deleted, and its mutant, which forgets the scopes.
ReadWatermarkOf(state) == state.exclusiveReaderHighWatermark
DeletionWatermarkOf(state) == LeastKey(state)

\* newQueueBase: the readers for a queue state.
ReadersOf(state) ==
    [id \in DOMAIN state.readerScopes |->
        NewReader([n \in DOMAIN state.readerScopes[id] |-> NewSlice(state.readerScopes[id][n])])]

NoQueueState == QueueState([id \in {} |-> <<>>], FirstKey)

Init ==
    /\ added = {} /\ executed = {} /\ reloads = 0 /\ renewals = 0
    /\ stored = {} /\ persisted = NoQueueState
    /\ saves = {} /\ deletions = {}
    /\ readWatermark = FirstKey
    /\ readers = ReadersOf(NoQueueState)
    /\ nonReadableMin = FirstKey /\ deletionWatermark = FirstKey
    /\ rangeIDSeen = FALSE
    /\ loop = "idle" /\ checkpointState = NoQueueState

-----------------------------------------------------------------------------
(* The shard                                                               *)

\* A write of the shard context has added a task.
AddTask(t) ==
    /\ Cardinality(added) < MaxTasks
    /\ readWatermark <= t.key
    /\ \A u \in added : u.key # t.key
    /\ added' = added \cup {t}
    /\ stored' = stored \cup {t}
    /\ UNCHANGED <<executed, reloads, renewals, persisted, saves, deletions, readWatermark, queueVars>>

\* renewRangeLocked of the shard context.
RenewRange ==
    /\ renewals < MaxRenewals
    /\ renewals' = renewals + 1
    /\ rangeIDSeen' = FALSE
    /\ UNCHANGED <<added, executed, reloads, storeVars, readWatermark, readers,
                   nonReadableMin, deletionWatermark, loop, checkpointState>>

\* The queue is gone, and another owner of the shard builds one from the state
\* that is persisted.  With the new range ID no copy of the state under way can
\* be saved any more.
Reload ==
    /\ reloads < MaxReloads
    /\ reloads' = reloads + 1
    /\ readers' = ReadersOf(persisted)
    /\ nonReadableMin' = persisted.exclusiveReaderHighWatermark
    /\ deletionWatermark' = DeletionWatermarkOf(persisted)
    /\ rangeIDSeen' = FALSE
    /\ loop' = "idle" /\ checkpointState' = NoQueueState
    /\ saves' = {}
    /\ UNCHANGED <<added, executed, renewals, stored, persisted, deletions, readWatermark>>

\* A copy of the queue state gets to the shard row, in any order.
SaveLands ==
    \E state \in saves :
        /\ persisted' = state
        /\ saves' = saves \ {state}
        /\ UNCHANGED <<added, executed, reloads, renewals, stored, deletions, readWatermark, queueVars>>

InRange(tasks, r) == {t \in tasks : ContainsKey(r, t.key)}

\* A deletion whose caller has been told that it failed, or is gone.
DeletionLands ==
    \E range \in deletions :
        /\ stored' = stored \ InRange(stored, range)
        /\ deletions' = deletions \ {range}
        /\ UNCHANGED <<added, executed, reloads, renewals, persisted, saves, readWatermark, queueVars>>

-----------------------------------------------------------------------------
(* Readers and executables                                                 *)

\* Where SelectTasks may stop in an iterator: after a task, or when the store
\* does not answer for the first page of the next iterator.
StopKeys(s, tasks) ==
    {t.key + 1 : t \in tasks} \cup {s.iterators[n].min : n \in DOMAIN s.iterators \ {1}}

\* What is left of the iterators; one that has given its last task is dropped
\* only when it is asked for another.
IteratorsAfter(iterators, key) ==
    LET left == Selected(iterators, {n \in DOMAIN iterators : iterators[n].max >= key})
    IN  [n \in DOMAIN left |-> NewRange(MaxOf(left[n].min, key), left[n].max)]

WithExecutables(s, tasks, iterators) ==
    [s EXCEPT !.iterators = iterators,
              !.pending = @ \cup tasks,
              !.acked = @ \ tasks,
              !.pendingPerKey = [g \in Groups |-> @[g] + CountOf(tasks, g)]]

\* The slices a SelectTasks of s can leave behind.  It reads on until the batch
\* is full or nothing is left, but a page may fail to load after some tasks.
SelectTasks(s) ==
    LET inStore == {t \in stored : \E n \in DOMAIN s.iterators :
                                       ContainsKey(s.iterators[n], t.key)}
        passing == {t \in inStore : t.group \in s.predicate}
        Upto(key) == {t \in passing : t.key < key}
    IN  (IF Cardinality(passing) < BatchSize THEN {WithExecutables(s, passing, <<>>)} ELSE {})
        \cup
        {WithExecutables(s, Upto(key), IteratorsAfter(s.iterators, key)) :
             key \in {k \in StopKeys(s, inStore) :
                 \/ Cardinality(Upto(k)) < BatchSize
                 \/ Cardinality(Upto(k)) = BatchSize /\ \E t \in passing : t.key + 1 = k}}

\* loadAndSubmitTasks of a slice on the list ...
LoadTasks(id) ==
    /\ id \in DOMAIN readers
    /\ TotalPendingTaskCount(readers) < MaxPendingTasksCount[id]
    /\ readers[id].nextReadSlice \notin {0, Removed}
    /\ LET next == readers[id].nextReadSlice IN
       \E s \in SelectTasks(readers[id].slices[next]) :
           readers' = WithReader(readers, id,
               [slices |-> ReplaceAt(readers[id].slices, next, s),
                nextReadSlice |->
                    IF s.iterators # <<>> THEN next
                    ELSE IF next < Len(readers[id].slices) THEN next + 1 ELSE 0])
    /\ UNCHANGED <<added, executed, reloads, renewals, storeVars, readWatermark, nonReadableMin,
                   deletionWatermark, rangeIDSeen, loop, checkpointState>>

\* ... or of one that was removed from it: there is nothing to load, and an
\* element that has been removed from a list has no next element.
NextOfRemoved(slices) == 0

LoadFromRemoved(id) ==
    /\ id \in DOMAIN readers
    /\ TotalPendingTaskCount(readers) < MaxPendingTasksCount[id]
    /\ readers[id].nextReadSlice = Removed
    /\ readers' = [readers EXCEPT ![id].nextReadSlice = NextOfRemoved(readers[id].slices)]
    /\ UNCHANGED <<added, executed, reloads, renewals, storeVars, readWatermark, nonReadableMin,
                   deletionWatermark, rangeIDSeen, loop, checkpointState>>

\* An executable is executed and acknowledged.
Ack(id, n, t) ==
    /\ id \in DOMAIN readers /\ n \in DOMAIN readers[id].slices
    /\ t \in readers[id].slices[n].pending
    /\ executed' = executed \cup {t}
    /\ readers' = [readers EXCEPT ![id].slices[n].pending = @ \ {t},
                                  ![id].slices[n].acked = @ \cup {t}]
    /\ UNCHANGED <<added, reloads, renewals, storeVars, readWatermark, nonReadableMin,
                   deletionWatermark, rangeIDSeen, loop, checkpointState>>

-----------------------------------------------------------------------------
(* The event loop: new ranges                                              *)

\* processNewRange.  When nextForceNewSliceTime is over the new slice is appended,
\* so that not all tasks end up in one slice.
ProcessNewRange(newMaxKey, forceNewSlice) ==
    /\ loop = "idle"
    /\ newMaxKey >= readWatermark /\ newMaxKey = FireTimeOnly(newMaxKey)
    /\ readWatermark' = newMaxKey
    /\ LET slices == IF newMaxKey < nonReadableMin THEN <<>>
                     ELSE << NewSlice(NewScope(nonReadableMin, newMaxKey, Universal)) >>
           reader == readers[DefaultReaderId]
       IN  readers' = WithReader(readers, DefaultReaderId,
               IF DefaultReaderId \notin DOMAIN readers THEN NewReader(slices)
               ELSE IF forceNewSlice THEN AppendSlices(reader, slices)
               ELSE MergeSlices(reader, slices))
    /\ nonReadableMin' = MaxOf(nonReadableMin, newMaxKey)
    /\ UNCHANGED <<added, executed, reloads, renewals, storeVars, deletionWatermark, rangeIDSeen,
                   loop, checkpointState>>

-----------------------------------------------------------------------------
(* The event loop: alerts and actions                                      *)

\* SplitSlices of a reader, with the slices that were split off merged into the
\* next reader.  parts[n] is what remains of slice n and what is moved.
SplitAndMove(rs, id, parts) ==
    LET remain == FlattenSeq([n \in DOMAIN parts |-> parts[n][1]])
        moved  == FlattenSeq([n \in DOMAIN parts |-> parts[n][2]])
        rest   == WithReader(rs, id, ResetReader(remain))
    IN  IF moved = <<>> THEN rest
        ELSE WithReader(rest, id + 1, MergeSlices(GetOrCreateReader(rest, id + 1), moved))

Unsplit(s) == << <<s>>, <<>> >>

\* actionMoveGroup: the groups of which a reader has too many pending tasks are
\* moved to the next reader.
GroupsToMove(rs, id) ==
    LET threshold == MoveGroupTaskCountBase * MoveGroupTaskCountMultiplier ^ id
    IN  {g \in Groups : threshold <= MapThenSumSet(LAMBDA n : rs[id].slices[n].pendingPerKey[g],
                                                   DOMAIN rs[id].slices)}

MoveGroupsFrom(rs, id) ==
    LET groups == GroupsToMove(rs, id)
        Splitter(s) == IF IsEmpty([s EXCEPT !.predicate = @ \cap groups]) THEN Unsplit(s)
                       ELSE LET parts == SplitByPredicate(s, groups)
                            IN  << NonEmpty(<<parts[2]>>), <<parts[1]>> >>
    IN  IF groups = {} THEN rs
        ELSE SplitAndMove(rs, id, [n \in DOMAIN rs[id].slices |-> Splitter(rs[id].slices[n])])

MoveGroups(rs) ==
    FoldLeft(LAMBDA r, n : IF n - 1 \in DOMAIN r THEN MoveGroupsFrom(r, n - 1) ELSE r,
             rs, [n \in 1..MaxReaderCount - 1 |-> n])

\* slicePredicateAction: the slices of the default reader with a predicate that
\* is not universal are moved to the next reader.
MoveSlices(rs) ==
    LET slices == rs[DefaultReaderId].slices
        Splitter(s) == IF s.predicate = Universal THEN Unsplit(s) ELSE << <<>>, <<s>> >>
    IN  IF \/ DefaultReaderId \notin DOMAIN rs
           \/ MaxReaderCount <= DefaultReaderId + 1
           \/ \A n \in DOMAIN slices : slices[n].predicate = Universal
           \/ /\ PendingTaskCount(rs, {DefaultReaderId}) < MoveSliceMinPendingTaskCount
              /\ Len(slices) < MoveSliceMinSliceCount
        THEN rs
        ELSE SplitAndMove(rs, DefaultReaderId, [n \in DOMAIN slices |-> Splitter(slices[n])])

ShrinkAll(rs) == [id \in DOMAIN rs |-> ShrinkSlices(rs[id])]

\* actionQueuePendingTask, the choice of what to unload: pairs of a slice and a
\* group, no more than it takes, of each group the newest slices.
SlicesToClear(rs) ==
    LET pairs == {<<SliceAt(rs, p), g>> : p \in Places(rs), g \in Groups}
        counted == {x \in pairs : x[1].pendingPerKey[x[2]] > 0}
        Enough(c) == MapThenSumSet(LAMBDA x : x[1].pendingPerKey[x[2]], counted \ c)
                        <= TargetPendingTasks
    IN  {c \in SUBSET counted :
            /\ Enough(c)
            /\ c = {} \/ \E x \in c : ~Enough(c \ {x})
            /\ \A x \in c, y \in counted \ c : x[2] = y[2] => x[1].min >= y[1].min}

\* splitAndClearSlice for one reader; the last one cannot move anything on.
ClearReader(rs, id, toClear) ==
    LET GroupsOf(s) == {g \in Groups : <<s, g>> \in toClear}
        Cleared(s)  == IF GroupsOf(s) = {} THEN s ELSE Clear(s)
        Splitter(s) == IF GroupsOf(s) = {} THEN Unsplit(s)
                       ELSE LET parts == SplitByPredicate(s, GroupsOf(s))
                            IN  << NonEmpty(<<parts[2]>>), <<Clear(parts[1])>> >>
        slices == rs[id].slices
    IN  IF id = MaxReaderCount - 1
        THEN WithReader(rs, id, ResetReader([n \in DOMAIN slices |-> Cleared(slices[n])]))
        ELSE SplitAndMove(rs, id, [n \in DOMAIN slices |-> Splitter(slices[n])])

\* The readers are cleared in the order of a Go map, which is any.
ClearReaders(rs, toClear) ==
    {FoldLeft(LAMBDA r, id : ClearReader(r, id, toClear), rs, order) :
        order \in SetToSeqs(DOMAIN rs)}

Alerted(readersAfter) ==
    /\ loop = "idle"
    /\ readers' \in readersAfter
    /\ loop' = "alerted"
    /\ UNCHANGED <<added, executed, reloads, renewals, storeVars, readWatermark, nonReadableMin,
                   deletionWatermark, rangeIDSeen, checkpointState>>

\* handleAlert(AlertTypeQueuePendingTaskCount)
UnloadPendingTasks ==
    LET shrunk == ShrinkAll(readers) IN
    /\ PendingTasksCriticalCount > 0
    /\ TotalPendingTaskCount(readers) > PendingTasksCriticalCount
    /\ Alerted(IF TotalPendingTaskCount(shrunk) <= PendingTasksCriticalCount THEN {shrunk}
               ELSE UNION {ClearReaders(shrunk, c) : c \in SlicesToClear(shrunk)})

\* The splitter of actionReaderStuck for a range of keys.
StuckSplitter(s, range) ==
    LET atMin == IF CanSplit(s, range.min) THEN SplitByRange(s, range.min) ELSE <<>>
        above == IF atMin = <<>> THEN s ELSE atMin[2]
        atMax == IF CanSplit(above, range.max) THEN SplitByRange(above, range.max) ELSE <<>>
        stuck == IF atMax = <<>> THEN above ELSE atMax[1]
        remain == (IF atMin = <<>> THEN <<>> ELSE <<atMin[1]>>) \o
                  (IF atMax = <<>> THEN <<>> ELSE <<atMax[2]>>)
    IN  IF range.min <= s.min /\ s.max <= range.max THEN << <<>>, <<s>> >>
        ELSE IF remain = <<>> THEN Unsplit(s)
        ELSE << NonEmpty(remain), <<stuck>> >>

\* handleAlert(AlertTypeReaderStuck): the default reader of a scheduled queue
\* has loaded from the same second over and over again.
MoveStuckRange ==
    /\ IsScheduled
    /\ DefaultReaderId \in DOMAIN readers
    /\ LET slices == readers[DefaultReaderId].slices IN
       \E n \in DOMAIN slices : \E t \in slices[n].pending :
          LET min   == FireTimeOnly(t.key)
              stuck == NewRange(min, min + TaskIDsPerTime)
          IN  Alerted({SplitAndMove(readers, DefaultReaderId,
                  [k \in DOMAIN slices |-> StuckSplitter(slices[k], stuck)])})

\* The slices that may be compacted with the one before, as pairs of a reader
\* and a place: both have a universal predicate, or neither has.
CompactCandidates(rs, ids, universal) ==
    UNION {{<<id, n>> : n \in {k \in DOMAIN rs[id].slices \ {1} :
                \A m \in {k - 1, k} : (rs[id].slices[m].predicate = Universal) = universal}} :
           id \in ids \cap DOMAIN rs}

DistanceBefore(rs, c) == rs[c[1]].slices[c[2]].min - rs[c[1]].slices[c[2] - 1].max

\* findAndCompactLowSliceCount: as many candidates as it takes, the least distant.
FindAndCompact(rs, ids, universal, targetSliceCount) ==
    LET excess == TotalSliceCount(rs) - targetSliceCount
        candidates == CompactCandidates(rs, ids, universal)
        picks == {c \in SUBSET candidates :
                     /\ Cardinality(c) = MinOf(excess, Cardinality(candidates))
                     /\ \A x \in c, y \in candidates \ c :
                           DistanceBefore(rs, x) <= DistanceBefore(rs, y)}
    IN  IF excess <= 0 THEN {rs}
        ELSE {[id \in DOMAIN rs |-> IF id \notin ids THEN rs[id]
                  ELSE CompactSlices(rs[id], {n \in DOMAIN rs[id].slices : <<id, n>> \in c})] :
                 c \in picks}

\* actionSliceCount: first the slices whose predicate is not universal, each
\* time the default reader last.
Compacted(rs) ==
    LET nonDefault == ReaderIDs \ {DefaultReaderId}
        Stage(readersBefore, ids, universal, target) ==
            UNION {FindAndCompact(r, ids, universal, target) : r \in readersBefore}
        first  == Stage({rs}, nonDefault, FALSE, TargetSliceCount)
        second == Stage(first, {DefaultReaderId}, FALSE, TargetSliceCount)
        third  == Stage(second, nonDefault, TRUE, SliceCountCriticalThreshold)
    IN  Stage(third, {DefaultReaderId}, TRUE, SliceCountCriticalThreshold)

\* handleAlert(AlertTypeSliceCount)
CompactSomeSlices ==
    LET shrunk == ShrinkAll(readers) IN
    /\ SliceCountCriticalThreshold > 0
    /\ TotalSliceCount(readers) > SliceCountCriticalThreshold
    /\ Alerted(IF TotalSliceCount(shrunk) <= SliceCountCriticalThreshold THEN {shrunk}
               ELSE Compacted(shrunk))

-----------------------------------------------------------------------------
(* The event loop: checkpoint                                              *)

\* checkpoint(), first the slices are shrunk ...
Shrink ==
    /\ loop \in {"idle", "alerted"}
    /\ readers' = ShrinkAll(readers)
    /\ loop' = "shrunk"
    /\ UNCHANGED <<added, executed, reloads, renewals, storeVars, readWatermark, nonReadableMin,
                   deletionWatermark, rangeIDSeen, checkpointState>>

\* ... then the checkpoint action is run, readers that have nothing to do are
\* removed, and it is known what is to be deleted and saved.
CheckpointAction(rs) == IF MoveGroupTaskCountBase > 0 THEN MoveGroups(rs) ELSE MoveSlices(rs)

WithoutIdleReaders(rs) ==
    [id \in {i \in DOMAIN rs : i = DefaultReaderId \/ rs[i].slices # <<>>} |-> rs[id]]

\* Mutant of ScopesOf: the state that is saved has only the default reader.
DefaultScopesOf(rs) ==
    [id \in {i \in DOMAIN rs : i = DefaultReaderId /\ rs[i].slices # <<>>} |->
        [n \in DOMAIN rs[id].slices |-> ScopeOf(rs[id].slices[n])]]

ScopesOf(rs) ==
    [id \in {i \in DOMAIN rs : rs[i].slices # <<>>} |->
        [n \in DOMAIN rs[id].slices |-> ScopeOf(rs[id].slices[n])]]

CollectScopes ==
    /\ loop = "shrunk"
    /\ readers' = WithoutIdleReaders(CheckpointAction(readers))
    /\ checkpointState' = QueueState(ScopesOf(readers'), nonReadableMin)
    /\ LET mark == LeastKey(checkpointState') IN
       IF mark > deletionWatermark
       THEN loop' = "delete" /\ UNCHANGED rangeIDSeen
       ELSE /\ rangeIDSeen' = TRUE
            /\ loop' = IF ~rangeIDSeen /\ mark > MinimumKey THEN "delete" ELSE "save"
    /\ UNCHANGED <<added, executed, reloads, renewals, storeVars, readWatermark, nonReadableMin,
                   deletionWatermark>>

\* Mutants of RangeToComplete: all that has been read, and all but the last key.
RangeRead == NewRange(deletionWatermark, checkpointState.exclusiveReaderHighWatermark)
RangeButLast == NewRange(deletionWatermark, MaxOf(deletionWatermark, LeastKey(checkpointState) - 1))

RangeToComplete ==
    LET mark == LeastKey(checkpointState)
    IN  IF IsScheduled THEN NewRange(FireTimeOnly(deletionWatermark), FireTimeOnly(mark))
        ELSE NewRange(deletionWatermark, mark)

\* ... rangeCompleteTasks ...
RangeCompleteTasks ==
    /\ loop = "delete"
    /\ stored' = stored \ InRange(stored, RangeToComplete)
    /\ deletionWatermark' = LeastKey(checkpointState)
    /\ loop' = "save"
    /\ UNCHANGED <<added, executed, reloads, renewals, persisted, saves, deletions, readWatermark,
                   readers, nonReadableMin, rangeIDSeen, checkpointState>>

\* ... which may fail, and yet take effect later: the checkpoint ends there.
\* Its mutant goes on to save the state.
SaveAnyway == "save"
AfterFailedDeletion == "idle"

RangeCompleteTasksFails ==
    /\ loop = "delete"
    /\ deletions' \in {deletions} \cup
           {d \in {deletions \cup {RangeToComplete}} : Cardinality(d) <= MaxDeletions}
    /\ loop' = AfterFailedDeletion
    /\ UNCHANGED <<added, executed, reloads, renewals, stored, persisted, saves, readWatermark,
                   readers, nonReadableMin, deletionWatermark, rangeIDSeen, checkpointState>>

\* ... and updateQueueState, after which the shard context may or may not write
\* the state, or fails to.
UpdateQueueState ==
    /\ loop = "save"
    /\ saves' \in {saves} \cup {c \in {saves \cup {checkpointState}} : Cardinality(c) <= MaxSaves}
    /\ loop' = "idle"
    /\ checkpointState' = NoQueueState
    /\ UNCHANGED <<added, executed, reloads, renewals, stored, persisted, deletions, readWatermark,
                   readers, nonReadableMin, deletionWatermark, rangeIDSeen>>

-----------------------------------------------------------------------------
Shard == (\E t \in Tasks : AddTask(t)) \/ RenewRange \/ Reload \/ SaveLands \/ DeletionLands

Reader(id) ==
    \/ LoadTasks(id)
    \/ LoadFromRemoved(id)
    \/ \E n \in 1..MaxKey : \E t \in Tasks : Ack(id, n, t)

EventLoop ==
    \/ \E newMaxKey \in FirstKey..MaxKey, forceNewSlice \in BOOLEAN :
           ProcessNewRange(newMaxKey, forceNewSlice)
    \/ UnloadPendingTasks \/ MoveStuckRange \/ CompactSomeSlices
    \/ Shrink \/ CollectScopes \/ RangeCompleteTasks \/ RangeCompleteTasksFails
    \/ UpdateQueueState

Next == Shard \/ (\E id \in ReaderIDs : Reader(id)) \/ EventLoop

Spec == Init /\ [][Next]_vars

\* A poll after nextForceNewSliceTime, of a range that covers all the tasks there
\* are.  The steps of the event loop are named by what they do to loop.
CatchUp == \E newMaxKey \in FirstKey..MaxKey :
    (\A t \in added : t.key < newMaxKey) /\ ProcessNewRange(newMaxKey, TRUE)

LoopStep(from, to) == loop \in from /\ loop' \in to

AckSomewhere(t) == \E id \in ReaderIDs : \E n \in 1..MaxKey : Ack(id, n, t)

\* A reader that has something to load is notified or will be by its throttle
\* timer (reader.go:387-424, 453-479); an executable is retried until it is
\* acknowledged; the event loop selects among a poll, a checkpoint and an alert
\* at random when several are due; and deletions do not fail for ever.
Fairness ==
    /\ \A id \in ReaderIDs : WF_vars(LoadTasks(id)) /\ WF_vars(LoadFromRemoved(id))
    /\ \A t \in Tasks : SF_vars(AckSomewhere(t))
    /\ SF_vars(CatchUp)
    /\ SF_loop(LoopStep({"idle", "alerted"}, {"shrunk"}))
    /\ WF_loop(LoopStep({"shrunk"}, {"delete", "save"}))
    /\ SF_loop(LoopStep({"delete"}, {"save"}))
    /\ WF_loop(LoopStep({"save"}, {"idle"}))

FairSpec == Spec /\ Fairness

-----------------------------------------------------------------------------
(* Properties                                                              *)

ScopeType == [min : FirstKey..MaxKey, max : FirstKey..MaxKey, predicate : SUBSET Universal]

StateType(state) ==
    /\ state.exclusiveReaderHighWatermark \in FirstKey..MaxKey
    /\ DOMAIN state.readerScopes \subseteq ReaderIDs
    /\ \A id \in DOMAIN state.readerScopes :
          /\ Len(state.readerScopes[id]) > 0
          /\ \A n \in DOMAIN state.readerScopes[id] : state.readerScopes[id][n] \in ScopeType

TypeOK ==
    /\ stored \subseteq added /\ executed \subseteq added /\ added \subseteq Tasks
    /\ \A state \in {persisted, checkpointState} \cup saves : StateType(state)
    /\ DOMAIN readers \subseteq ReaderIDs
    /\ \A id \in DOMAIN readers : readers[id].nextReadSlice \in {Removed, 0} \cup DOMAIN readers[id].slices
    /\ \A p \in Places(readers) :
          LET s == SliceAt(readers, p) IN
          /\ ScopeOf(s) \in ScopeType
          /\ s.pending \cap s.acked = {} /\ Tracked(s) \subseteq added
          /\ s.pendingPerKey \in [Groups -> Nat]
    /\ {readWatermark, nonReadableMin, deletionWatermark} \subseteq FirstKey..MaxKey
    /\ loop \in {"idle", "alerted", "shrunk", "delete", "save"}

\* A task will still be loaded by the slice, or has been loaded.
ToBeRead(s, t) ==
    /\ t.group \in s.predicate
    /\ \E n \in DOMAIN s.iterators : ContainsKey(s.iterators[n], t.key)

\* No task below the point up to which the queue has read is ever forgotten:
\* until it is executed some slice has it pending or has yet to read it, however
\* slices are split, merged, compacted, shrunk, unloaded and moved.
NoTaskForgotten ==
    \A t \in stored \ executed : t.key < nonReadableMin =>
        \E p \in Places(readers) :
            t \in SliceAt(readers, p).pending \/ ToBeRead(SliceAt(readers, p), t)

\* Nor is it by a reload, from whatever state is or may still become persisted:
\* a task that is not executed is in one of its scopes, or above its watermark.
NoTaskForgottenByReload ==
    \A state \in {persisted} \cup saves : \A t \in added \ executed :
        t.key < state.exclusiveReaderHighWatermark =>
            \E id \in DOMAIN state.readerScopes :
                \E n \in DOMAIN state.readerScopes[id] : ScopeContains(state.readerScopes[id][n], t)

\* Only executed tasks are deleted, and a deletion with an unknown outcome will
\* not delete any other task either (queue_base.go:329-347).
OnlyExecutedDeleted ==
    /\ added \ stored \subseteq executed
    /\ \A range \in deletions : InRange(added, range) \subseteq executed

\* No task is left behind in the store for ever: the next deletion begins at or
\* below it, after a reload too (queue_base.go:329-331).
NoTaskLeftBehind ==
    \A t \in stored :
        /\ FireTimeOnly(deletionWatermark) <= t.key
        /\ \A state \in {persisted} \cup saves : FireTimeOnly(LeastKey(state)) <= t.key

\* What is deleted grows: a checkpoint never finds a slice below it, as it would
\* with slices of a reader out of order (queue_base.go:321-347).
DeletionWatermarkGrows ==
    [][reloads' = reloads => deletionWatermark' >= deletionWatermark]_vars

Disjoint(ranges) == \A m, n \in DOMAIN ranges : m < n => ranges[m].max <= ranges[n].min

\* The conditions the code panics without: the slices of a reader are ordered
\* and disjoint (reader.go:560-577), so are the iterators of a slice, which do
\* not touch either (slice.go:476-493), and are in its range; its executables
\* are in its scope (tracker.go:43-46).
SlicesInOrder ==
    /\ \A id \in DOMAIN readers : Disjoint(readers[id].slices)
    /\ \A p \in Places(readers) :
          LET s == SliceAt(readers, p) IN
          /\ s.max <= nonReadableMin
          /\ \A m, n \in DOMAIN s.iterators :
                m < n => s.iterators[m].max < s.iterators[n].min
          /\ \A n \in DOMAIN s.iterators :
                s.min <= s.iterators[n].min /\ s.iterators[n].max <= s.max
          /\ \A t \in Tracked(s) : ScopeContains(ScopeOf(s), t)

\* A group with executables is never missing from pendingPerKey, though an
\* executable may be counted twice: shrinkPredicate would drop the group from
\* the predicate that is saved (tracker.go:59-83, slice.go:329-346).
GroupsCounted ==
    \A p \in Places(readers) : \A g \in Groups :
        CountOf(Tracked(SliceAt(readers, p)), g) <= SliceAt(readers, p).pendingPerKey[g]

\* The outbox does what it is for: a task that was added is executed in the end.
\* "ensures that Transfer Tasks written by a History Shard will eventually result
\* in the required Workflow or Activity Task being created in the Matching
\* Service" (docs/architecture/history-service.md:322).
TaskExecuted == \A t \in Tasks : t \in added ~> t \in executed

\* ... and is then removed from the store.
TaskDeleted == \A t \in Tasks : t \in added ~> t \notin stored
=============================================================================
