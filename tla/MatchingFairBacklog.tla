------------------------- MODULE MatchingFairBacklog -------------------------
(***************************************************************************)
(* The backlog of one subqueue of a fair task queue (service/matching):    *)
(* fairTaskReader, fairTaskWriter, fairBacklogManagerImpl and their use of *)
(* taskQueueDB.                                                            *)
(*                                                                         *)
(* A task is written at a level, a pass and then a task ID.  Task IDs only *)
(* grow but passes do not: a task may be written below tasks that are      *)
(* loaded, and takes the place of the highest ones, which are evicted and  *)
(* read again later.  The ack level, below which everything is done, is    *)
(* all that a reload starts from; rows up to it are deleted.               *)
(*                                                                         *)
(* The reader, the writer, the deletions and the pollers that finish tasks *)
(* are goroutines; what a step does under the reader's lock is atomic, and *)
(* so is a call to the store, whose answer may be lost.  One owner at a    *)
(* time: calls of the last one are rejected by the range ID, but for       *)
(* deletions, which are not fenced and may come late.                      *)
(***************************************************************************)
EXTENDS Integers, FiniteSets, FiniteSetsExt

CONSTANTS
    Environments,   \* the passes that the counters of fairness keys give out, and what may go
                    \* wrong: "write", "read", "takeover", "late", "respool"
    MaxTasks,       \* bound: tasks that are written, the last task ID
    MaxTaskBatchSize,
    GetTasksBatchSize,
    GetTasksReloadAt,
    MaxTakeOvers,   \* bound: how often the queue is loaded again
    MaxCopies       \* bound: task objects of one level that are with the matcher

Faults == {"write", "read", "takeover", "late", "respool"}

ASSUME BacklogConstants ==
    /\ Environments \subseteq [passes : SUBSET (Nat \ {0}), faults : SUBSET Faults]
    /\ IsFiniteSet(UNION {e.passes : e \in Environments})
    /\ MaxTasks \in Nat /\ MaxTaskBatchSize \in Nat \ {0}
    /\ GetTasksReloadAt \in Nat /\ GetTasksBatchSize \in Nat
    /\ GetTasksReloadAt < GetTasksBatchSize
    /\ MaxTakeOvers \in Nat /\ MaxCopies \in Nat

VARIABLES
    env,            \* the environment of this queue
    store,          \* levels of the tasks in the store
    saved,          \* the ack level in the store's metadata
    lastTaskID,     \* the task IDs given out
    tr,             \* what the reader keeps under its lock
    reader,         \* readTasksImpl
    backoffTimer,   \* is the timer of a failed read set?
    writer,         \* taskWriterLoop, and whether it pins the ack level
    gc,             \* the deletion on its way: up to this level, or 0
    lateGC,         \* deletions of earlier owners
    copies,         \* task objects of a level that are with the matcher or a poller
    respooling,     \* tasks that wait to be written again
    respooled,      \* tasks that were written again and are to be completed
    takeOvers,
    \* history: tasks whose write was confirmed, and those that were started or dropped since
    confirmed, done

storeVars == <<env, store, saved, lastTaskID>>
readVars == <<reader, backoffTimer>>
gcVars == <<gc, lateGC>>
respoolVars == <<respooling, respooled>>
history == <<confirmed, done>>
vars == <<storeVars, tr, readVars, writer, gcVars, copies, respoolVars, takeOvers, history>>

-----------------------------------------------------------------------------
(* Levels: pass and task ID in one number, in the order of fairLevel.less. *)

Level(pass, id) == pass * (MaxTasks + 1) + id
Pass(level) == level \div (MaxTasks + 1)
Levels == {Level(p, id) : p \in UNION {e.passes : e \in Environments}, id \in 1..MaxTasks}

Lowest(S, n) == {l \in S : Cardinality({k \in S : k < l}) < n}
Highest(S, default) == IF S = {} THEN default ELSE Max(S)

-----------------------------------------------------------------------------
(* fairTaskReader: what is done under its lock.                            *)
(*   unacked, acked   outstandingTasks: levels with a task, levels with nil *)

\* The mutant of NewReader does not take over the ack level.
NewReaderAtZero(level) ==
    [unacked |-> {}, acked |-> {}, loadedTasks |-> 0, readLevel |-> 0, ackLevel |-> 0,
     atEnd |-> FALSE, evictedAcks |-> {}, newlyWrittenTasks |-> {}]
NewReader(level) ==
    [unacked |-> {}, acked |-> {}, loadedTasks |-> 0, readLevel |-> level, ackLevel |-> level,
     atEnd |-> FALSE, evictedAcks |-> {}, newlyWrittenTasks |-> {}]

\* Tasks of a read or a write that mergeTasksLocked looks at.
Relevant(m, tasks, mode) ==
    {l \in tasks : /\ m.ackLevel < l
                   /\ mode = "write" /\ ~m.atEnd => l <= m.readLevel
                   /\ l \notin m.unacked \cup m.acked}
\* The mutant of Merged keeps acks above what is in memory.
MergedKeepingAcks(m, tasks, mode) ==
    LET new == Relevant(m, tasks, mode)
        kept == Lowest(m.unacked \cup (new \ m.evictedAcks), GetTasksBatchSize)
    IN  [m EXCEPT !.unacked = kept,
                  !.loadedTasks = @ + Cardinality(kept \ m.unacked) - Cardinality(m.unacked \ kept),
                  !.readLevel = Highest(kept, m.ackLevel),
                  !.atEnd = kept = m.unacked \cup (new \ m.evictedAcks) /\ (mode = "end" \/ (mode = "write" /\ @))]
Merged(m, tasks, mode) ==
    LET new == Relevant(m, tasks, mode)
        merged == m.unacked \cup (new \ m.evictedAcks)
        kept == Lowest(merged, GetTasksBatchSize)
        readLevel == Highest(kept, m.ackLevel)
        above == {l \in m.acked : readLevel < l}
    IN  [m EXCEPT !.unacked = kept,
                  !.acked = @ \ above,
                  !.loadedTasks = @ + Cardinality(kept \ m.unacked) - Cardinality(m.unacked \ kept),
                  !.readLevel = readLevel,
                  !.evictedAcks = (@ \ new) \cup above,
                  !.atEnd = kept = merged /\ above = {} /\ (mode = "end" \/ (mode = "write" /\ @))]

\* advanceAckLevelLocked, with the pin of the writer; the mutant of Pinned does not look at it.
PinnedByReader(m, byWriter) == m.newlyWrittenTasks # {}
Pinned(m, byWriter) == byWriter \/ m.newlyWrittenTasks # {}
Advanced(m, byWriter) ==
    LET acks == {a \in m.acked : \A l \in m.unacked : a < l}
    IN  IF Pinned(m, byWriter) THEN m
        ELSE [m EXCEPT !.ackLevel = Highest(acks, @), !.acked = @ \ acks]

Completed(m, level) == [m EXCEPT !.unacked = @ \ {level}, !.acked = @ \cup {level}, !.loadedTasks = @ - 1]

\* The mutant of ShouldReadMore does not look at what is loaded.
ReadUnlessAtEnd(m) == ~m.atEnd
ShouldReadMore(m) == ~m.atEnd /\ m.loadedTasks <= GetTasksReloadAt

\* The lock is released with the memory m: a deletion may have been started since then.
NoRead == [pc |-> "idle"]
Release(m) ==
    /\ tr' = m
    /\ gc' \in IF m.ackLevel # tr.ackLevel /\ gc = 0 THEN {0, m.ackLevel} ELSE {gc}
    /\ UNCHANGED lateGC
MaybeRead(m) ==
    reader' = IF reader.pc = "idle" /\ ShouldReadMore(m) /\ ~backoffTimer THEN [pc |-> "check"] ELSE reader

\* Tasks that are new in memory are added to the matcher; those that are evicted are removed
\* from it, unless a poller has them.
Matcher(m) ==
    \E removed \in SUBSET {l \in tr.unacked \ m.unacked : copies[l] > 0} :
        copies' = [l \in Levels |-> IF l \in m.unacked \ tr.unacked THEN copies[l] + 1
                                    ELSE IF l \in removed THEN copies[l] - 1 ELSE copies[l]]
CopiesBound(m) == \A l \in m.unacked \ tr.unacked : copies[l] < MaxCopies

-----------------------------------------------------------------------------
(* readTasksImpl *)

\* The top of its loop, when there is more to read.
ReadNextBatch ==
    /\ reader.pc = "check" /\ ShouldReadMore(tr)
    /\ reader' = [pc |-> "get", from |-> tr.readLevel, size |-> GetTasksBatchSize - tr.loadedTasks]
    /\ UNCHANGED <<storeVars, tr, backoffTimer, writer, gcVars, copies, respoolVars, takeOvers, history>>

\* Its end: tasks that were written meanwhile are merged, and the ack level is no longer held by them.
ReadDone ==
    /\ reader.pc = "failed" \/ (reader.pc = "check" /\ ~ShouldReadMore(tr))
    /\ reader' = NoRead
    /\ LET m == [Merged(tr, tr.newlyWrittenTasks, "write") EXCEPT !.newlyWrittenTasks = {}]
       IN  IF tr.newlyWrittenTasks = {} THEN UNCHANGED <<tr, gcVars, copies>>
           ELSE CopiesBound(m) /\ Matcher(m) /\ Release(Advanced(m, writer.pc # "idle"))
    /\ UNCHANGED <<storeVars, backoffTimer, writer, respoolVars, takeOvers, history>>

GetFairTasks ==
    /\ reader.pc = "get"
    /\ LET tasks == Lowest({l \in store : reader.from < l}, reader.size)
       IN  reader' = [pc |-> "merge", tasks |-> tasks,
                      mode |-> IF Cardinality(tasks) < reader.size THEN "end" ELSE "middle"]
    /\ UNCHANGED <<storeVars, tr, backoffTimer, writer, gcVars, copies, respoolVars, takeOvers, history>>

\* The read fails: it is tried again when a timer fires.
GetFairTasksFails ==
    /\ "read" \in env.faults
    /\ reader.pc = "get"
    /\ reader' = [pc |-> "failed"]
    /\ backoffTimer' = TRUE
    /\ UNCHANGED <<storeVars, tr, writer, gcVars, copies, respoolVars, takeOvers, history>>
BackoffTimerFires ==
    /\ backoffTimer
    /\ backoffTimer' = FALSE
    /\ reader' = IF reader.pc = "idle" /\ ShouldReadMore(tr) THEN [pc |-> "check"] ELSE reader
    /\ UNCHANGED <<storeVars, tr, writer, gcVars, copies, respoolVars, takeOvers, history>>

MergeRead ==
    /\ reader.pc = "merge"
    /\ LET m == Merged(tr, reader.tasks, reader.mode)
       IN  CopiesBound(m) /\ Matcher(m) /\ Release(m)
    /\ reader' = [pc |-> "check"]
    /\ UNCHANGED <<storeVars, backoffTimer, writer, respoolVars, takeOvers, history>>

-----------------------------------------------------------------------------
(* taskWriterLoop *)

NoWrite == [pc |-> "idle"]

\* A batch of new tasks and of tasks to respool gets task IDs, the ack level is pinned and
\* passes are picked that are not below it.
PickPasses(base, ids) == [ids -> {p \in env.passes : p >= base}]
StartWrite ==
    /\ writer.pc = "idle"
    /\ \E again \in SUBSET respooling, new \in 0..MaxTaskBatchSize :
          LET n == Cardinality(again) + new
              ids == lastTaskID + 1..lastTaskID + n
          IN  /\ n \in 1..MaxTaskBatchSize /\ lastTaskID + n <= MaxTasks
              /\ lastTaskID' = lastTaskID + n
              /\ \E pass \in PickPasses(Pass(tr.ackLevel), ids) :
                    writer' = [pc |-> "create", again |-> again, tasks |-> {Level(pass[id], id) : id \in ids}]
    /\ UNCHANGED <<env, store, saved, tr, readVars, gcVars, copies, respoolVars, takeOvers, history>>

\* CreateFairTasks; the store takes the metadata along or not.
TasksCreated == store' = store \cup writer.tasks /\ saved' \in {saved, tr.ackLevel}
CreateFairTasks ==
    /\ writer.pc = "create"
    /\ TasksCreated
    /\ writer' = [writer EXCEPT !.pc = "wrote"]
    /\ UNCHANGED <<env, lastTaskID, tr, readVars, gcVars, copies, respoolVars, takeOvers, history>>
CreateFairTasksFails ==
    /\ "write" \in env.faults
    /\ writer.pc = "create"
    /\ TasksCreated \/ UNCHANGED <<store, saved>>
    /\ writer' = [writer EXCEPT !.pc = "failed"]
    /\ UNCHANGED <<env, lastTaskID, tr, readVars, gcVars, copies, respoolVars, takeOvers, history>>

\* wroteNewTasks: they are kept for a reader that is at work, or merged.
WroteNewTasks ==
    /\ writer.pc = "wrote"
    /\ writer' = [writer EXCEPT !.pc = "unpin"]
    /\ LET m == Merged(tr, writer.tasks, "write")
       IN  IF reader.pc # "idle"
           THEN tr' = [tr EXCEPT !.newlyWrittenTasks = @ \cup writer.tasks] /\ UNCHANGED <<gcVars, copies>>
           ELSE CopiesBound(m) /\ Matcher(m) /\ Release(m)
    /\ UNCHANGED <<storeVars, readVars, respoolVars, takeOvers, history>>

\* unpinAckLevel, then the requests are answered.
UnpinWritten ==
    /\ writer.pc = "unpin"
    /\ Release(Advanced(tr, FALSE))
    /\ writer' = NoWrite
    /\ confirmed' = confirmed \cup writer.tasks
    /\ done' = done \cup writer.again
    /\ respooling' = respooling \ writer.again
    /\ respooled' = respooled \cup writer.again
    /\ UNCHANGED <<storeVars, readVars, copies, takeOvers>>
UnpinFailed ==
    /\ writer.pc = "failed"
    /\ LET m == [tr EXCEPT !.atEnd = FALSE]
       IN  MaybeRead(m) /\ Release(Advanced(m, FALSE))
    /\ writer' = NoWrite
    /\ UNCHANGED <<storeVars, backoffTimer, copies, respoolVars, takeOvers, history>>

-----------------------------------------------------------------------------
(* completeTask *)

FoundUnacked(level) == level \in tr.unacked

\* A poller has started the task, or it is dropped.
CompleteTask(level) ==
    /\ copies[level] > 0
    /\ copies' = [copies EXCEPT ![level] = @ - 1]
    /\ done' = done \cup {level}
    /\ LET m == Advanced(Completed(tr, level), writer.pc # "idle")
       IN  IF FoundUnacked(level) THEN Release(m) /\ MaybeRead(m) ELSE UNCHANGED <<tr, reader, gcVars>>
    /\ UNCHANGED <<storeVars, backoffTimer, writer, respoolVars, takeOvers, confirmed>>

\* It could not be started: it is to be written again, without the lock (bound: one copy of a
\* level at a time).
RespoolTask(level) ==
    /\ "respool" \in env.faults
    /\ copies[level] > 0 /\ FoundUnacked(level) /\ level \notin respooling \cup respooled
    /\ copies' = [copies EXCEPT ![level] = @ - 1]
    /\ respooling' = respooling \cup {level}
    /\ UNCHANGED <<storeVars, tr, readVars, writer, gcVars, respooled, takeOvers, history>>

\* Then the old version of the task is completed, whatever has become of it.
CompleteRespooled(level) ==
    /\ level \in respooled
    /\ respooled' = respooled \ {level}
    /\ LET m == Advanced(Completed(tr, level), writer.pc # "idle")
       IN  Release(m) /\ MaybeRead(m)
    /\ UNCHANGED <<storeVars, backoffTimer, writer, copies, respooling, takeOvers, history>>

-----------------------------------------------------------------------------
(* Deletions, metadata, and the loss of the queue.                         *)

DoGC ==
    /\ gc # 0
    /\ store' = {l \in store : l > gc}
    /\ gc' = 0
    /\ UNCHANGED <<env, saved, lastTaskID, tr, readVars, writer, lateGC, copies, respoolVars, takeOvers, history>>
LateGC ==
    /\ \E level \in lateGC :
          store' = {l \in store : l > level} /\ lateGC' = lateGC \ {level}
    /\ UNCHANGED <<env, saved, lastTaskID, tr, readVars, writer, gc, copies, respoolVars, takeOvers, history>>

SyncState ==
    /\ saved # tr.ackLevel
    /\ saved' = tr.ackLevel
    /\ UNCHANGED <<env, store, lastTaskID, tr, readVars, writer, gcVars, copies, respoolVars, takeOvers, history>>

\* The owner is stopped, is lost or loses its lease, and the next one loads what is saved.
TakeOver ==
    /\ "takeover" \in env.faults /\ takeOvers < MaxTakeOvers
    /\ takeOvers' = takeOvers + 1
    /\ tr' = NewReader(saved)
    /\ reader' = [pc |-> "check"] /\ backoffTimer' = FALSE
    /\ writer' = NoWrite
    /\ gc' = 0 /\ lateGC' = IF "late" \in env.faults /\ gc # 0 THEN lateGC \cup {gc} ELSE lateGC
    /\ copies' = [l \in Levels |-> 0]
    /\ respooling' = {} /\ respooled' = {}
    /\ UNCHANGED <<storeVars, history>>

-----------------------------------------------------------------------------
Init ==
    /\ env \in Environments
    /\ store = {} /\ saved = 0 /\ lastTaskID = 0
    /\ tr = NewReader(0)
    /\ reader = [pc |-> "check"] /\ backoffTimer = FALSE
    /\ writer = NoWrite
    /\ gc = 0 /\ lateGC = {}
    /\ copies = [l \in Levels |-> 0]
    /\ respooling = {} /\ respooled = {}
    /\ takeOvers = 0
    /\ confirmed = {} /\ done = {}

ReaderStep == ReadNextBatch \/ ReadDone \/ GetFairTasks \/ MergeRead
WriterStep == CreateFairTasks \/ CreateFairTasksFails \/ WroteNewTasks \/ UnpinWritten \/ UnpinFailed
Next ==
    \/ ReaderStep \/ GetFairTasksFails \/ BackoffTimerFires
    \/ StartWrite \/ WriterStep
    \/ \E level \in Levels : CompleteTask(level) \/ RespoolTask(level) \/ CompleteRespooled(level)
    \/ DoGC \/ LateGC \/ SyncState \/ TakeOver
Spec == Init /\ [][Next]_vars

\* Goroutines run, reads do not fail for ever, and pollers come for every task in the matcher.
FairSpec ==
    /\ Spec
    /\ WF_vars(ReaderStep) /\ SF_vars(GetFairTasks) /\ WF_vars(BackoffTimerFires)
    /\ WF_vars(WriterStep)
    /\ \A level \in Levels : WF_vars(CompleteTask(level)) /\ WF_vars(CompleteRespooled(level))

-----------------------------------------------------------------------------
(* Properties. *)

Level0 == Levels \cup {0}
Memory ==
    [unacked : SUBSET Levels, acked : SUBSET Levels, loadedTasks : Int, readLevel : Level0, ackLevel : Level0,
     atEnd : BOOLEAN, evictedAcks : SUBSET Levels, newlyWrittenTasks : SUBSET Levels]
Get == [pc : {"get"}, from : Level0, size : Nat \ {0}]
MergeOf == [pc : {"merge"}, tasks : SUBSET Levels, mode : {"middle", "end"}]
Write == [pc : {"create", "wrote", "failed", "unpin"}, again : SUBSET Levels, tasks : SUBSET Levels]

\* Every variable has its type; a read asks for one task at least.
TypeOK ==
    /\ env \in Environments /\ store \subseteq Levels /\ saved \in Level0 /\ lastTaskID \in 0..MaxTasks
    /\ tr \in Memory
    /\ reader \in [pc : {"idle", "check", "failed"}] \cup Get \cup MergeOf
    /\ backoffTimer \in BOOLEAN
    /\ writer = NoWrite \/ writer \in Write
    /\ gc \in Level0 /\ lateGC \subseteq Levels
    /\ copies \in [Levels -> 0..MaxCopies]
    /\ respooling \subseteq Levels /\ respooled \subseteq Levels
    /\ takeOvers \in 0..MaxTakeOvers
    /\ confirmed \subseteq Levels /\ done \subseteq Levels

Backlog == confirmed \ done

\* A task whose write was confirmed stays in the store until it has been started, above the
\* level that the queue would be loaded again from: no failure loses it.
NothingLost == \A l \in Backlog : l \in store /\ saved < l

\* The reader has every task of the backlog up to its read level, or at all when it believes
\* to be at the end: nothing is skipped by the reads, writes and evictions that race for it.
NothingSkipped ==
    \A l \in Backlog :
        /\ tr.ackLevel < l
        /\ l <= tr.readLevel \/ tr.atEnd => l \in tr.unacked \cup tr.newlyWrittenTasks

\* The ack level of an owner, and the one in the store, do not move backwards.
AckLevelGrows ==
    [][saved <= saved' /\ (takeOvers' = takeOvers => tr.ackLevel <= tr'.ackLevel)]_vars

\* Every task whose write was confirmed is started some time.
EveryTaskStarted == \A l \in Levels : l \in confirmed ~> l \in done

=============================================================================
