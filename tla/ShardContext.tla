---------------------------- MODULE ShardContext ----------------------------
(***************************************************************************)
(* The shard contexts of one history shard and the store they share.       *)
(*                                                                         *)
(* A ContextImpl (service/history/shard/context_impl.go) is the in-memory  *)
(* owner of a shard.  Several of them can be alive at once, on one host    *)
(* (a shard that was unloaded and loaded again) or on two (membership has  *)
(* moved the shard and the old host has not noticed).  The store fences    *)
(* them with the range ID of the shard row: every write of a context is    *)
(* conditional on the range ID it holds, and acquiring or renewing the     *)
(* shard bumps the range ID with a compare-and-set.                        *)
(*                                                                         *)
(* Each context hands out task keys, remembers the keys of the writes      *)
(* whose outcome it does not know (task_key_manager.go,                    *)
(* task_key_generator.go, task_request_tracker.go), and tells the queue    *)
(* processors up to which key they may read.  What makes the queues        *)
(* reliable is that no task can appear in the store below a key that has   *)
(* already been read past.                                                 *)
(*                                                                         *)
(* Abstractions.  A task is its category, its ID and its position: the ID  *)
(* for an immediate category, the fire time, in units of the store's       *)
(* precision, for a scheduled one (watermarks of scheduled categories have *)
(* TaskID 0, so only the fire time is compared with them).  Of a shard row *)
(* only the range ID and the exclusiveReaderHighWatermark of each queue    *)
(* are kept.  One call to persistence is one element of Requests.          *)
(***************************************************************************)
EXTENDS Integers, FiniteSets

CONSTANTS
    Contexts,        \* the ContextImpls that may be created for the shard
    Requests,        \* slots for calls to persistence
    Immediate,       \* task categories of tasks.CategoryTypeImmediate
    Scheduled,       \* task categories of tasks.CategoryTypeScheduled
    Checkpointed,    \* bound: the categories whose queue saves its state
    IDCallers,       \* bound: the contexts asked for IDs outside of a write
    RangeSize,       \* task IDs in a range, 1 << rangeSizeBits
    IOConcurrency,   \* capacity of ioSemaphore
    MaxTimeShift,    \* TimerProcessorMaxTimeShift
    MaxRange,        \* bound: renewals beyond this range ID never reach the store
    MaxTime,         \* bound on the clocks of the hosts
    MaxTasks,        \* bound on the tasks of one write
    NoContext        \* the ctx of a request that is not in use

Categories == Immediate \cup Scheduled

ASSUME ConstantsAssumption ==
    /\ NoContext \notin Contexts
    /\ IsFiniteSet(Requests)
    /\ Immediate \cap Scheduled = {}
    /\ Checkpointed \subseteq Categories
    /\ IDCallers \subseteq Contexts
    /\ RangeSize \in Nat \ {0}
    /\ IOConcurrency \in Nat \ {0}
    /\ MaxTimeShift \in Nat
    /\ MaxRange \in Nat
    /\ MaxTime \in Nat
    /\ MaxTasks \in Nat \ {0}

VARIABLES
    \* the store: range ID and queue watermarks of the shard row
    dbRange, dbMarks,
    \* ContextImpl: state, whether engineFuture is set, progress of acquireShard
    state, engine, acquiring,
    \* ContextImpl, under rwLock: the lock itself, renewRangeLocked, shardInfo
    lock, renewing, rangeID, marks,
    \* taskKeyGenerator: next and exclusive maximum ID, min scheduled time
    nextTaskID, exclusiveMaxTaskID, taskMinScheduledTime,
    \* taskRequestTracker
    pendingTaskKeys, inflightRequestCount,
    \* where the readers of each queue are, and the clock of the host
    readerMark, now,
    \* the calls to persistence
    req

dbVars      == <<dbRange, dbMarks>>
stateVars   == <<state, engine, acquiring>>
shardVars   == <<lock, renewing, rangeID, marks>>
genVars     == <<nextTaskID, exclusiveMaxTaskID, taskMinScheduledTime>>
trackerVars == <<pendingTaskKeys, inflightRequestCount>>
queueVars   == <<readerMark, now>>
vars == <<dbVars, stateVars, shardVars, genVars, trackerVars, queueVars, req>>

-----------------------------------------------------------------------------
(* Data                                                                    *)

Tasks == [cat : Categories, id : Nat, pos : Nat]

\* Keys are ordered by fire time and then by ID; with one fire time for all
\* immediate tasks that is the order of their IDs.
KeyLE(t, u) == t.pos < u.pos \/ (t.pos = u.pos /\ t.id <= u.id)

\* Mutant of MinKeys: the last key of each category is remembered.
LastKeys(tasks) ==
    {t \in tasks : \A u \in tasks : u.cat = t.cat => KeyLE(u, t)}

\* The smallest key of each category of a request: all that track() remembers.
MinKeys(tasks) ==
    {t \in tasks : \A u \in tasks : u.cat = t.cat => KeyLE(t, u)}

States == {"Initialized", "Acquiring", "Acquired", "Stopping", "Stopped"}

Marks == [Categories -> Nat]
NoMarks == [cat \in Categories |-> 0]

\* kind:  what is called: one of the writes that carry tasks ("add"), or
\*        UpdateShard from updateShardInfo ("update") or renewRangeLocked
\*        ("renew")
\* phase: of the caller. "zombie" is a call that has been given up by its
\*        caller with an unknown outcome and may still reach the store
\* wire:  of the call at the store
\* err:   what the caller was told
NoRequest == [kind |-> "none", ctx |-> NoContext, range |-> 0, tasks |-> {},
              marks |-> NoMarks, phase |-> "idle", wire |-> "none", err |-> "nil"]

\* The rangeID of a context whose shardInfo is nil.
NotLoaded == -1

RequestType ==
    [kind  : {"none", "add", "update", "renew"},
     ctx   : Contexts \cup {NoContext},
     range : Nat \cup {NotLoaded},
     tasks : SUBSET Tasks,
     marks : Marks,
     phase : {"idle", "keys", "queued", "inflight", "answered", "zombie"},
     wire  : {"none", "pending", "applied"},
     err   : {"nil", "lost", "failed", "unknown"}]

\* Mutant of OperationPossiblySucceeded: every error means failure.
OperationSucceeded(err) == err = "nil"

\* persistence.OperationPossiblySucceeded
OperationPossiblySucceeded(err) == err \in {"nil", "unknown"}

taskIDUninitialized == -1

MaxOf(a, b) == IF a < b THEN b ELSE a

\* The task IDs of a range (setRangeID): the first one and the one after the last.
\* The mutant of EndTaskID lets a range run one ID into the next one.
FirstTaskID(range) == range * RangeSize
EndTaskIDOffByOne(range) == (range + 1) * RangeSize + 1
EndTaskID(range) == (range + 1) * RangeSize

\* drainTaskRequests() returns.  Its mutant does not wait.
NoDrain(c) == TRUE
Drained(c) == inflightRequestCount[c] = 0

\* The condition of every write of a context.  Its mutant is a store that does
\* not check that the range ID is still the expected one.
Unconditional(q) == TRUE
Accepted(q) == q.range = dbRange

\* The least min scheduled time for a persisted watermark m of a scheduled
\* queue.  Its mutant trusts the clock of the new owner.
MinScheduledTimeFromClock(m) == 0
MinScheduledTimeAbove(m) == m + 1

\* transition(contextRequestAcquired) is possible.  Its mutant does not look
\* whether the context has been stopped in the meantime.
AlwaysAcquired(c) == TRUE
CanBecomeAcquired(c) == state[c] = "Acquiring"

IsValid(c) == state[c] \notin {"Stopping", "Stopped"}

\* The calls of c that hold a unit of ioSemaphore.
HoldsSemaphore(c, r) ==
    /\ req[r].ctx = c
    /\ req[r].kind \in {"add", "update"}
    /\ req[r].phase \in {"keys", "inflight", "answered"}

SemaphoreFree(c) ==
    Cardinality({r \in Requests : HoldsSemaphore(c, r)}) < IOConcurrency

TypeOK ==
    /\ dbRange \in Nat
    /\ dbMarks \in Marks
    /\ state \in [Contexts -> States]
    /\ engine \in [Contexts -> {"none", "started", "set", "stopped"}]
    /\ acquiring \in [Contexts -> {"no", "load", "renew", "engine", "acquired", "retry"}]
    /\ lock \in [Contexts -> {"free", "keys", "id", "acquire"}]
    /\ renewing \in [Contexts -> {"no", "drain", "io"}]
    /\ rangeID \in [Contexts -> Nat \cup {NotLoaded}]
    /\ marks \in [Contexts -> Marks]
    /\ nextTaskID \in [Contexts -> Nat \cup {taskIDUninitialized}]
    /\ exclusiveMaxTaskID \in [Contexts -> Nat \cup {taskIDUninitialized}]
    /\ taskMinScheduledTime \in [Contexts -> Nat]
    /\ pendingTaskKeys \in [Contexts -> SUBSET Tasks]
    /\ inflightRequestCount \in [Contexts -> Nat]
    /\ readerMark \in [Contexts -> Marks]
    /\ now \in [Contexts -> Nat]
    /\ req \in [Requests -> RequestType]
-----------------------------------------------------------------------------
(* Initial states: a shard row that was just created, no context started.  *)

Init ==
    /\ dbRange = 0
    /\ dbMarks = NoMarks
    /\ state = [c \in Contexts |-> "Initialized"]
    /\ engine = [c \in Contexts |-> "none"]
    /\ acquiring = [c \in Contexts |-> "no"]
    /\ lock = [c \in Contexts |-> "free"]
    /\ renewing = [c \in Contexts |-> "no"]
    /\ rangeID = [c \in Contexts |-> NotLoaded]
    /\ marks = [c \in Contexts |-> NoMarks]
    /\ nextTaskID = [c \in Contexts |-> taskIDUninitialized]
    /\ exclusiveMaxTaskID = [c \in Contexts |-> taskIDUninitialized]
    /\ taskMinScheduledTime = [c \in Contexts |-> 0]
    /\ pendingTaskKeys = [c \in Contexts |-> {}]
    /\ inflightRequestCount = [c \in Contexts |-> 0]
    /\ readerMark = [c \in Contexts |-> NoMarks]
    /\ now = [c \in Contexts |-> 0]
    /\ req = [r \in Requests |-> NoRequest]

-----------------------------------------------------------------------------
(* The state machine: transition(), start(), UnloadForOwnershipLost(),     *)
(* FinishStop()                                                            *)

\* The state after transition(contextRequestStop).
StopRequested(s) ==
    IF s \in {"Initialized", "Acquiring", "Acquired"} THEN "Stopping" ELSE s

\* start(): the controller has created the context.
Start(c) ==
    /\ state[c] = "Initialized"
    /\ state' = [state EXCEPT ![c] = "Acquiring"]
    /\ acquiring' = [acquiring EXCEPT ![c] = "load"]
    /\ UNCHANGED <<dbVars, engine, shardVars, genVars, trackerVars, queueVars, req>>

\* getOrCreateShardContext: a new context takes the place of a stopped one that
\* nothing refers to any more.
Recreate(c) ==
    /\ state[c] = "Stopped" /\ acquiring[c] = "no" /\ lock[c] = "free"
    /\ engine[c] \in {"none", "stopped"}
    /\ \A r \in Requests : req[r].ctx # c
    /\ state' = [state EXCEPT ![c] = "Initialized"]
    /\ engine' = [engine EXCEPT ![c] = "none"]
    /\ rangeID' = [rangeID EXCEPT ![c] = NotLoaded]
    /\ marks' = [marks EXCEPT ![c] = NoMarks]
    /\ nextTaskID' = [nextTaskID EXCEPT ![c] = taskIDUninitialized]
    /\ exclusiveMaxTaskID' = [exclusiveMaxTaskID EXCEPT ![c] = taskIDUninitialized]
    /\ taskMinScheduledTime' = [taskMinScheduledTime EXCEPT ![c] = 0]
    /\ pendingTaskKeys' = [pendingTaskKeys EXCEPT ![c] = {}]
    /\ inflightRequestCount' = [inflightRequestCount EXCEPT ![c] = 0]
    /\ readerMark' = [readerMark EXCEPT ![c] = NoMarks]
    /\ UNCHANGED <<dbVars, acquiring, lock, renewing, now, req>>

\* UnloadForOwnershipLost(), or any other internal request to stop.
RequestStop(c) ==
    /\ IsValid(c)
    /\ state' = [state EXCEPT ![c] = StopRequested(@)]
    /\ UNCHANGED <<dbVars, engine, acquiring, shardVars, genVars, trackerVars,
                   queueVars, req>>

\* FinishStop(), called by the controller in any state ...
FinishStop(c) ==
    /\ state[c] # "Stopped"
    /\ state' = [state EXCEPT ![c] = "Stopped"]
    /\ UNCHANGED <<dbVars, engine, acquiring, shardVars, genVars, trackerVars,
                   queueVars, req>>

\* ... and its second half, which stops the queue processors.
StopEngine(c) ==
    /\ state[c] = "Stopped"
    /\ engine[c] = "set"
    /\ engine' = [engine EXCEPT ![c] = "stopped"]
    /\ UNCHANGED <<dbVars, state, acquiring, shardVars, genVars, trackerVars,
                   queueVars, req>>

\* Mutants of HandleWriteErrorLocked: an unknown outcome is returned like any
\* other error, or makes the context Acquiring with nobody to acquire the shard.
UnknownIgnored(c, range, err) ==
    IF range = rangeID[c] /\ IsValid(c) /\ err = "lost"
    THEN state' = [state EXCEPT ![c] = StopRequested(@)] /\ UNCHANGED <<engine, acquiring>>
    ELSE UNCHANGED stateVars

NobodyAcquires(c, range, err) ==
    IF range = rangeID[c] /\ state[c] = "Acquired" /\ err = "unknown"
    THEN state' = [state EXCEPT ![c] = "Acquiring"] /\ UNCHANGED <<engine, acquiring>>
    ELSE UnknownIgnored(c, range, err)

\* handleWriteErrorLocked: what a failed write does to the state.  An error of
\* a write with an older range ID is ignored; losing the range ID stops the
\* context; an unknown outcome makes it acquire the shard again.
HandleWriteErrorLocked(c, range, err) ==
    IF range # rangeID[c] \/ ~IsValid(c) \/ err \in {"nil", "failed"}
    THEN UNCHANGED stateVars
    ELSE IF err = "lost"
    THEN /\ state' = [state EXCEPT ![c] = StopRequested(@)]
         /\ UNCHANGED <<engine, acquiring>>
    ELSE IF state[c] = "Acquired"
    THEN /\ state' = [state EXCEPT ![c] = "Acquiring"]
         /\ acquiring' = [acquiring EXCEPT ![c] = "load"]
         /\ UNCHANGED engine
    ELSE UNCHANGED stateVars

-----------------------------------------------------------------------------
(* acquireShard                                                            *)

\* An attempt has failed with an error.  ThrottleRetry stops at once when the
\* ownership is lost or the lifecycle context has ended, and then acquireShard
\* asks for a stop.
AcquireFailed(c, err) ==
    /\ IF err # "lost" /\ IsValid(c)
       THEN /\ acquiring' = [acquiring EXCEPT ![c] = "retry"]
            /\ UNCHANGED state
       ELSE /\ acquiring' = [acquiring EXCEPT ![c] = "no"]
            /\ state' = [state EXCEPT ![c] = StopRequested(@)]
    /\ UNCHANGED engine

\* Another attempt ...
AcquireRetry(c) ==
    /\ acquiring[c] = "retry"
    /\ acquiring' = [acquiring EXCEPT ![c] = "load"]
    /\ UNCHANGED <<dbVars, state, engine, shardVars, genVars, trackerVars, queueVars, req>>

\* ... or the end of them, when the retry policy expires.
AcquireExpires(c) ==
    /\ acquiring[c] = "retry"
    /\ acquiring' = [acquiring EXCEPT ![c] = "no"]
    /\ state' = [state EXCEPT ![c] = StopRequested(@)]
    /\ UNCHANGED <<dbVars, engine, shardVars, genVars, trackerVars, queueVars, req>>

\* The first attempt reads the shard row; min scheduled time starts above all
\* persisted watermarks of the scheduled queues.
LoadShardMetadata(c) ==
    /\ acquiring[c] = "load"
    /\ IsValid(c)
    /\ acquiring' = [acquiring EXCEPT ![c] = "renew"]
    /\ IF rangeID[c] # NotLoaded
       THEN UNCHANGED <<rangeID, marks, taskMinScheduledTime>>
       ELSE /\ rangeID' = [rangeID EXCEPT ![c] = dbRange]
            /\ marks' = [marks EXCEPT ![c] = dbMarks]
            /\ \E m \in {0} \cup {dbMarks[cat] : cat \in Scheduled} :
                  /\ \A cat \in Scheduled : dbMarks[cat] <= m
                  /\ taskMinScheduledTime' =
                        [taskMinScheduledTime EXCEPT ![c] = MaxOf(@, MinScheduledTimeAbove(m))]
    /\ UNCHANGED <<dbVars, state, engine, lock, renewing, nextTaskID,
                   exclusiveMaxTaskID, trackerVars, queueVars, req>>

\* GetOrCreateShard fails, or the context is no longer valid.
LoadShardMetadataFails(c) ==
    /\ acquiring[c] = "load"
    /\ rangeID[c] = NotLoaded \/ ~IsValid(c)
    /\ AcquireFailed(c, "unknown")
    /\ UNCHANGED <<dbVars, shardVars, genVars, trackerVars, queueVars, req>>

\* acquireShard takes rwLock and calls renewRangeLocked.
AcquireLock(c) ==
    /\ acquiring[c] = "renew"
    /\ lock[c] = "free"
    /\ lock' = [lock EXCEPT ![c] = "acquire"]
    /\ renewing' = [renewing EXCEPT ![c] = "drain"]
    /\ UNCHANGED <<dbVars, stateVars, rangeID, marks, genVars, trackerVars, queueVars, req>>

\* The engine is created and its queue processors started, the first time,
\* before the state becomes Acquired.  They resume from the queue states.
CreateEngine(c) ==
    /\ acquiring[c] = "engine"
    /\ acquiring' = [acquiring EXCEPT ![c] = "acquired"]
    /\ IF engine[c] = "none"
       THEN /\ engine' = [engine EXCEPT ![c] = "started"]
            /\ readerMark' = [readerMark EXCEPT ![c] = marks[c]]
       ELSE UNCHANGED <<engine, readerMark>>
    /\ UNCHANGED <<dbVars, state, shardVars, genVars, trackerVars, now, req>>

\* transition(contextRequestAcquired): refused once the context is stopping.
FinishAcquire(c) ==
    /\ acquiring[c] = "acquired"
    /\ acquiring' = [acquiring EXCEPT ![c] = "no"]
    /\ IF CanBecomeAcquired(c)
       THEN /\ state' = [state EXCEPT ![c] = "Acquired"]
            /\ engine' = [engine EXCEPT ![c] = "set"]
       ELSE /\ engine' = [engine EXCEPT ![c] = IF @ = "started" THEN "stopped" ELSE @]
            /\ UNCHANGED state
    /\ UNCHANGED <<dbVars, shardVars, genVars, trackerVars, queueVars, req>>

-----------------------------------------------------------------------------
(* renewRangeLocked, with rwLock held throughout                           *)

\* drainTaskRequests() has returned: issue the compare-and-set.
SendRenew(c, r) ==
    /\ renewing[c] = "drain"
    /\ Drained(c)
    /\ req[r].kind = "none"
    /\ renewing' = [renewing EXCEPT ![c] = "io"]
    /\ req' = [req EXCEPT ![r] =
                 [kind |-> "renew", ctx |-> c, range |-> rangeID[c], tasks |-> {},
                  marks |-> marks[c], phase |-> "inflight", wire |-> "pending",
                  err |-> "nil"]]
    /\ UNCHANGED <<dbVars, stateVars, lock, rangeID, marks, genVars, trackerVars, queueVars>>

\* What is left of a call when its caller is done with it.
Finished(q) == IF q.wire = "pending" THEN [q EXCEPT !.phase = "zombie"] ELSE NoRequest

\* The requests whose task keys are being set under the lock of c.
SettingKeys(c) == {r \in Requests : req[r].ctx = c /\ req[r].phase = "keys"}

\* Success: the new range ID is adopted (taskKeyManager.setRangeID).
RenewSucceeded(c, r) ==
    /\ renewing[c] = "io"
    /\ req[r].kind = "renew" /\ req[r].ctx = c /\ req[r].phase = "answered"
    /\ req[r].err = "nil"
    /\ renewing' = [renewing EXCEPT ![c] = "no"]
    /\ rangeID' = [rangeID EXCEPT ![c] = @ + 1]
    /\ exclusiveMaxTaskID' = [exclusiveMaxTaskID EXCEPT ![c] = EndTaskID(rangeID[c] + 1)]
    /\ nextTaskID' = [nextTaskID EXCEPT ![c] =
          FirstTaskID(rangeID[c] + 1) + (IF lock[c] = "id" THEN 1 ELSE 0)]
    /\ pendingTaskKeys' = [pendingTaskKeys EXCEPT ![c] = {}]
    /\ inflightRequestCount' = [inflightRequestCount EXCEPT ![c] = 0]
    /\ lock' = [lock EXCEPT ![c] = IF @ = "keys" THEN "keys" ELSE "free"]
    /\ acquiring' = [acquiring EXCEPT ![c] = IF lock[c] = "acquire" THEN "engine" ELSE @]
    /\ req' = [req EXCEPT ![r] = NoRequest]
    /\ UNCHANGED <<dbVars, state, engine, marks, taskMinScheduledTime, queueVars>>

\* Failure: handleWriteErrorLocked, and the error goes to whoever needed the
\* range: acquireShard, a write (which gives up its task keys) or a call of
\* GenerateTaskID.
RenewFailed(c, r) ==
    /\ renewing[c] = "io"
    /\ req[r].kind = "renew" /\ req[r].ctx = c /\ req[r].phase = "answered"
    /\ req[r].err # "nil"
    /\ renewing' = [renewing EXCEPT ![c] = "no"]
    /\ lock' = [lock EXCEPT ![c] = "free"]
    /\ IF lock[c] = "acquire"
       THEN AcquireFailed(c, req[r].err)
       ELSE HandleWriteErrorLocked(c, req[r].range, req[r].err)
    /\ req' = [q \in Requests |-> IF q = r THEN Finished(req[r])
                                  ELSE IF q \in SettingKeys(c) THEN NoRequest
                                  ELSE req[q]]
    /\ UNCHANGED <<dbVars, rangeID, marks, genVars, trackerVars, queueVars>>

-----------------------------------------------------------------------------
(* The writes that carry tasks: CreateWorkflowExecution,                   *)
(* UpdateWorkflowExecution, ConflictResolveWorkflowExecution,              *)
(* SetWorkflowExecution, AddTasks                                          *)

\* Semaphore, lock, state check, and the beginning of setTaskKeys.
BeginWrite(c, r) ==
    /\ lock[c] = "free"
    /\ state[c] = "Acquired"
    /\ SemaphoreFree(c)
    /\ req[r].kind = "none"
    /\ lock' = [lock EXCEPT ![c] = "keys"]
    /\ taskMinScheduledTime' = [taskMinScheduledTime EXCEPT ![c] = MaxOf(@, now[c])]
    /\ req' = [req EXCEPT ![r] =
                 [kind |-> "add", ctx |-> c, range |-> 0, tasks |-> {},
                  marks |-> NoMarks, phase |-> "keys", wire |-> "none", err |-> "nil"]]
    /\ UNCHANGED <<dbVars, stateVars, renewing, rangeID, marks, nextTaskID,
                   exclusiveMaxTaskID, trackerVars, queueVars>>

\* The next task of the write gets its key.  A timer that would fire before
\* the min scheduled time is moved behind it.
SetTaskKey(c, r, cat, visibilityTime) ==
    /\ lock[c] = "keys" /\ renewing[c] = "no"
    /\ r \in SettingKeys(c)
    /\ Cardinality(req[r].tasks) < MaxTasks
    /\ nextTaskID[c] # exclusiveMaxTaskID[c]
    /\ nextTaskID' = [nextTaskID EXCEPT ![c] = @ + 1]
    /\ LET scheduledTime == IF visibilityTime + 1 < taskMinScheduledTime[c]
                            THEN taskMinScheduledTime[c] + 1
                            ELSE visibilityTime + 1
           task == [cat |-> cat, id |-> nextTaskID[c],
                    pos |-> IF cat \in Scheduled THEN scheduledTime ELSE nextTaskID[c]]
       IN  req' = [req EXCEPT ![r].tasks = @ \cup {task}]
    /\ UNCHANGED <<dbVars, stateVars, shardVars, exclusiveMaxTaskID,
                   taskMinScheduledTime, trackerVars, queueVars>>

\* generateTaskID finds the range used up and renews it, with the lock held.
RenewForKeys(c) ==
    /\ lock[c] = "keys" /\ renewing[c] = "no"
    /\ nextTaskID[c] = exclusiveMaxTaskID[c]
    /\ \E r \in SettingKeys(c) : Cardinality(req[r].tasks) < MaxTasks
    /\ renewing' = [renewing EXCEPT ![c] = "drain"]
    /\ UNCHANGED <<dbVars, stateVars, lock, rangeID, marks, genVars, trackerVars,
                   queueVars, req>>

\* track(), the range ID of the request, unlock, and the call.
TrackAndSend(c, r) ==
    /\ lock[c] = "keys" /\ renewing[c] = "no"
    /\ r \in SettingKeys(c)
    /\ lock' = [lock EXCEPT ![c] = "free"]
    /\ pendingTaskKeys' = [pendingTaskKeys EXCEPT ![c] = @ \cup MinKeys(req[r].tasks)]
    /\ inflightRequestCount' = [inflightRequestCount EXCEPT ![c] = @ + 1]
    /\ req' = [req EXCEPT ![r].range = rangeID[c], ![r].phase = "inflight",
                          ![r].wire = "pending"]
    /\ UNCHANGED <<dbVars, stateVars, renewing, rangeID, marks, genVars, queueVars>>

\* GenerateTaskID, GenerateTaskIDs and NewVectorClock, which no state guards.
GenerateTaskID(c) ==
    /\ c \in IDCallers
    /\ lock[c] = "free"
    /\ engine[c] # "none"
    /\ IF nextTaskID[c] # exclusiveMaxTaskID[c]
       THEN /\ nextTaskID' = [nextTaskID EXCEPT ![c] = @ + 1]
            /\ UNCHANGED <<lock, renewing>>
       ELSE /\ lock' = [lock EXCEPT ![c] = "id"]
            /\ renewing' = [renewing EXCEPT ![c] = "drain"]
            /\ UNCHANGED nextTaskID
    /\ UNCHANGED <<dbVars, stateVars, rangeID, marks, exclusiveMaxTaskID,
                   taskMinScheduledTime, trackerVars, queueVars, req>>

\* The write is over for its caller: handleWriteError, semaphore released.
HandleWriteError(c, r) ==
    /\ req[r].ctx = c
    /\ req[r].kind \in {"add", "update"}
    /\ req[r].phase = "answered"
    /\ lock[c] = "free"
    /\ HandleWriteErrorLocked(c, req[r].range, req[r].err)
    /\ req' = [req EXCEPT ![r] = Finished(@)]
    /\ UNCHANGED <<dbVars, shardVars, genVars, trackerVars, queueVars>>

-----------------------------------------------------------------------------
(* The queues: GetQueueExclusiveHighReadWatermark and SetQueueState        *)

\* processNewRange of the queue of cat asks how far it may read and makes the
\* keys below readable.  getExclusiveReaderHighWatermark also moves the min
\* scheduled time past what a timer queue looks ahead, for every category.
ReadNewRange(c, cat) ==
    /\ lock[c] = "free"
    /\ engine[c] \in {"started", "set"}
    /\ taskMinScheduledTime' =
          [taskMinScheduledTime EXCEPT ![c] = MaxOf(@, now[c] + MaxTimeShift)]
    /\ LET nextPos == IF cat \in Scheduled THEN taskMinScheduledTime'[c] ELSE nextTaskID[c]
           limits  == {nextPos} \cup {t.pos : t \in {k \in pendingTaskKeys[c] : k.cat = cat}}
       IN  \E watermark \in limits :
              /\ \A l \in limits : watermark <= l
              /\ readerMark' = [readerMark EXCEPT ![c][cat] = MaxOf(@, watermark)]
    /\ UNCHANGED <<dbVars, stateVars, shardVars, nextTaskID, exclusiveMaxTaskID,
                   trackerVars, now, req>>

\* SetQueueState, called by checkpoint(): the state is kept in shardInfo, and
\* a copy of shardInfo is taken to be written, unless it is too early for that.
SetQueueState(c, cat) ==
    /\ cat \in Checkpointed
    /\ lock[c] = "free"
    /\ state[c] = "Acquired"
    /\ marks' = [marks EXCEPT ![c][cat] = readerMark[c][cat]]
    /\ \/ UNCHANGED req
       \/ \E r \in Requests :
             /\ req[r].kind = "none"
             /\ req' = [req EXCEPT ![r] =
                   [kind |-> "update", ctx |-> c, range |-> rangeID[c], tasks |-> {},
                    marks |-> [marks[c] EXCEPT ![cat] = readerMark[c][cat]],
                    phase |-> "queued", wire |-> "none", err |-> "nil"]]
    /\ UNCHANGED <<dbVars, stateVars, lock, renewing, rangeID, genVars, trackerVars, queueVars>>

\* The copy is written when the semaphore is acquired, with the lock released.
SendUpdate(c, r) ==
    /\ req[r].ctx = c /\ req[r].phase = "queued"
    /\ SemaphoreFree(c)
    /\ req' = [req EXCEPT ![r].phase = "inflight", ![r].wire = "pending"]
    /\ UNCHANGED <<dbVars, stateVars, shardVars, genVars, trackerVars, queueVars>>

\* The lifecycle context ends while the write waits for the semaphore.
AbandonUpdate(c, r) ==
    /\ req[r].ctx = c /\ req[r].phase = "queued"
    /\ ~IsValid(c)
    /\ req' = [req EXCEPT ![r] = NoRequest]
    /\ UNCHANGED <<dbVars, stateVars, shardVars, genVars, trackerVars, queueVars>>

-----------------------------------------------------------------------------
(* The store and the way to it                                             *)

\* A call takes effect: the range ID of the row is the one it expects.  When
\* that was a renewal, the calls given up before can have no effect any more.
ApplyWrite(r) ==
    /\ req[r].wire = "pending"
    /\ Accepted(req[r])
    /\ req[r].kind = "renew" => dbRange < MaxRange
    /\ dbRange' = IF req[r].kind = "renew" THEN req[r].range + 1 ELSE dbRange
    /\ dbMarks' = IF req[r].kind = "add" THEN dbMarks ELSE req[r].marks
    /\ req' = [q \in Requests |->
          IF q = r /\ req[q].phase # "zombie" THEN [req[q] EXCEPT !.wire = "applied"]
          ELSE IF q = r \/ (req[q].phase = "zombie" /\ dbRange' # dbRange) THEN NoRequest
          ELSE req[q]]
    /\ UNCHANGED <<stateVars, shardVars, genVars, trackerVars, queueVars>>

\* A call given up by its caller never gets to the store, or is refused.
DropWrite(r) ==
    /\ req[r].phase = "zombie"
    /\ req' = [req EXCEPT ![r] = NoRequest]
    /\ UNCHANGED <<dbVars, stateVars, shardVars, genVars, trackerVars, queueVars>>

\* What a caller may be told.  "failed" stands for the errors that mean the
\* write was certainly not committed, other than the loss of the range ID;
\* "unknown" for all others, timeouts among them.
Answers(q) ==
    CASE q.wire = "applied" -> {"nil", "unknown"}
      [] q.wire = "pending" -> {"failed", "unknown"} \cup
                               (IF ~Accepted(q) THEN {"lost"} ELSE {})
      [] OTHER -> {}

\* The tracker's part in the end of a write: its keys stay pending if it may
\* still succeed.
RequestCompleted(r, err) ==
    /\ inflightRequestCount' = [inflightRequestCount EXCEPT ![req[r].ctx] = @ - 1]
    /\ pendingTaskKeys' =
          IF err # "nil" /\ OperationPossiblySucceeded(err) THEN pendingTaskKeys
          ELSE [pendingTaskKeys EXCEPT ![req[r].ctx] = @ \ MinKeys(req[r].tasks)]

\* The completion function of track() is called outside of rwLock: its mutants
\* wait for the lock, or count only the writes with a definite outcome.
CompletionUnderLock(r, err) ==
    lock[req[r].ctx] = "free" /\ RequestCompleted(r, err)

CompletionIfDefinite(r, err) ==
    IF err = "unknown" THEN UNCHANGED trackerVars ELSE RequestCompleted(r, err)

CompletionFn(r, err) == RequestCompleted(r, err)

\* A call returns, or times out.  The completion function of a tracked write
\* runs before anything else.
Answer(r) ==
    /\ req[r].phase = "inflight"
    /\ \E err \in Answers(req[r]) :
          /\ req' = [req EXCEPT ![r].phase = "answered", ![r].err = err,
                                ![r].wire = IF @ = "pending" /\ err = "unknown"
                                            THEN "pending" ELSE "none"]
          /\ IF req[r].kind = "add" THEN CompletionFn(r, err) ELSE UNCHANGED trackerVars
    /\ UNCHANGED <<dbVars, stateVars, shardVars, genVars, queueVars>>

\* Time passes on the host of c.
Tick(c) ==
    /\ now[c] < MaxTime
    /\ now' = [now EXCEPT ![c] = @ + 1]
    /\ UNCHANGED <<dbVars, stateVars, shardVars, genVars, trackerVars, readerMark, req>>

-----------------------------------------------------------------------------

Controller(c) ==
    Start(c) \/ Recreate(c) \/ RequestStop(c) \/ FinishStop(c) \/ StopEngine(c)

Acquisition(c) ==
    \/ LoadShardMetadata(c)
    \/ LoadShardMetadataFails(c)
    \/ AcquireRetry(c)
    \/ AcquireExpires(c)
    \/ AcquireLock(c)
    \/ CreateEngine(c)
    \/ FinishAcquire(c)

Renewal(c) ==
    \E r \in Requests : SendRenew(c, r) \/ RenewSucceeded(c, r) \/ RenewFailed(c, r)

Write(c) ==
    \/ \E r \in Requests :
          \/ BeginWrite(c, r)
          \/ \E cat \in Categories, t \in 0..MaxTime : SetTaskKey(c, r, cat, t)
          \/ TrackAndSend(c, r)
          \/ HandleWriteError(c, r)
    \/ RenewForKeys(c)
    \/ GenerateTaskID(c)

Queue(c) ==
    \/ \E cat \in Categories : ReadNewRange(c, cat) \/ SetQueueState(c, cat)
    \/ \E r \in Requests : SendUpdate(c, r) \/ AbandonUpdate(c, r)

Store == \E r \in Requests : ApplyWrite(r) \/ DropWrite(r) \/ Answer(r)

Next ==
    \/ \E c \in Contexts :
          Controller(c) \/ Acquisition(c) \/ Renewal(c) \/ Write(c) \/ Queue(c) \/ Tick(c)
    \/ Store

Spec == Init /\ [][Next]_vars

(***************************************************************************)
(* Fairness.  Every call to persistence returns (newIOContext and          *)
(* newDetachedContext give it a deadline), goroutines that can run do run, *)
(* and sync.RWMutex does not starve a goroutine that waits for it.  The    *)
(* retry policy of acquireShard expires (5 minutes).                       *)
(***************************************************************************)
Fairness ==
    /\ \A c \in Contexts :
          /\ WF_vars(LoadShardMetadata(c) \/ LoadShardMetadataFails(c))
          /\ SF_vars(AcquireLock(c))
          /\ WF_vars(CreateEngine(c) \/ FinishAcquire(c))
          /\ WF_vars(AcquireRetry(c) \/ AcquireExpires(c))
          /\ SF_vars(AcquireExpires(c))
          /\ WF_vars(Renewal(c))
          /\ WF_vars(\E r \in Requests : TrackAndSend(c, r))
    /\ \A r \in Requests : WF_vars(Answer(r)) /\ WF_vars(DropWrite(r))

FairSpec == Spec /\ Fairness

-----------------------------------------------------------------------------
(* Properties                                                              *)

\* The writes of tasks that can still take effect: the call may be in flight,
\* or its caller may have given up on it long ago.
CanLand(r) == req[r].kind = "add" /\ req[r].wire = "pending" /\ Accepted(req[r])

\* No task appears behind the reader of its own context: a key that
\* getExclusiveReaderHighWatermark has let a queue read past is never used by
\* a write that can still land (task_key_manager.go:88-119).
NoTaskBehindReader ==
    \A r \in Requests : CanLand(r) =>
        \A t \in req[r].tasks : readerMark[req[r].ctx][t.cat] <= t.pos

\* For immediate categories that holds for every context, those that have lost
\* the shard included: a stale queue cannot delete what a new owner writes.
NoImmediateTaskBehindAnyReader ==
    \A r \in Requests : CanLand(r) =>
        \A t \in req[r].tasks, c \in Contexts :
            t.cat \in Immediate => readerMark[c][t.cat] <= t.pos

\* A context that loads the shard resumes reading at the persisted watermarks:
\* no write that can land has a key below them (context_impl.go:1835-1843).
NoTaskBehindPersistedState ==
    \A r \in Requests : CanLand(r) =>
        \A t \in req[r].tasks : dbMarks[t.cat] <= t.pos

\* Two writes never share a task ID, whichever contexts they come from
\* (task_key_generator.go:151-185).
UniqueTaskIDs ==
    \A q, r \in Requests : q # r =>
        \A t \in req[q].tasks, u \in req[r].tasks : t.id # u.id

\* The contexts that have acquired the range ID they hold.
HasRange(c) == nextTaskID[c] # taskIDUninitialized

\* Fencing: at most one context holds the range ID the store accepts
\* (context_impl.go:1169-1213).
SingleOwner ==
    \A c, d \in Contexts :
        HasRange(c) /\ HasRange(d) /\ rangeID[c] = dbRange /\ rangeID[d] = dbRange => c = d

\* The tracked writes of c that have not returned.
IsInflight(q, c) == q.ctx = c /\ q.kind = "add" /\ q.phase = "inflight"
InflightWrites(c) == {r \in Requests : IsInflight(req[r], c)}

\* The counter that drainTaskRequests waits for counts the tracked writes that
\* have not returned, whatever their outcome and across setRangeID's clear()
\* (task_request_tracker.go:63-89, 132-141).
InflightCounted ==
    \A c \in Contexts : inflightRequestCount[c] = Cardinality(InflightWrites(c))

\* No tracked write is in flight while the range ID is being renewed: the
\* renewal would make it fail (context_impl.go:1170-1172).
NoWriteDuringRenew ==
    \A c \in Contexts : renewing[c] = "io" => InflightWrites(c) = {}

\* When a caller has been told that the outcome of its write is unknown, the
\* context serves nothing until the write has landed or never can
\* (context_impl.go:1442-1445).
OutcomeSettledWhenAcquired ==
    \A r \in Requests : CanLand(r) /\ req[r].phase = "zombie" => state[req[r].ctx] # "Acquired"

\* acquireShard runs exactly while the state is Acquiring, or to find out that
\* it has been stopped; the engine is there once the state is Acquired
\* (context_impl.go:1602-1607).
AcquireRunsWhileAcquiring ==
    \A c \in Contexts :
        /\ state[c] = "Acquiring" => acquiring[c] # "no"
        /\ state[c] = "Acquired" => acquiring[c] = "no" /\ engine[c] = "set"

\* Once Stopping only Stopped follows, and a stopped context is only replaced
\* (context_impl.go:1600-1601), though acquireShard may still be running.
StopIsFinal ==
    [][\A c \in Contexts :
          /\ state[c] = "Stopping" => state'[c] \in {"Stopping", "Stopped"}
          /\ state[c] = "Stopped" => \/ state'[c] = "Stopped"
                                     \/ state'[c] = "Initialized" /\ rangeID'[c] = NotLoaded]_vars

\* The rwLock is released in the end, though renewRangeLocked waits with it
\* for writes whose callers are waiting for it (context_impl.go:137-141).
LockReleased == \A c \in Contexts : lock[c] # "free" ~> lock[c] = "free"

\* acquireShard does not leave the context Acquiring (context_impl.go:1603).
AcquireEnds == \A c \in Contexts : state[c] = "Acquiring" ~> state[c] # "Acquiring"

=============================================================================
