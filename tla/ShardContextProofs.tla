------------------------- MODULE ShardContextProofs -------------------------
(***************************************************************************)
(* Proofs about ShardContext: type correctness, the counting of the writes *)
(* that have not returned, fencing, and task IDs.                          *)
(*                                                                         *)
(* Counting.  TypeOK alone is not inductive: that the count stays natural  *)
(* when a write returns depends on its counting that write, and clearing   *)
(* the tracker is only right because renewRangeLocked has waited for it to *)
(* be zero.  CountInv puts these facts together.                           *)
(*                                                                         *)
(* Fencing.  A range ID passes from the store to a context through the     *)
(* answer to a renewal.  RangeInv follows it: at every moment a range ID   *)
(* belongs to one context or to one renewal that the store has granted,    *)
(* and no range ID beyond that of the row belongs to anyone.               *)
(*                                                                         *)
(* Task IDs.  The ranges of different range IDs are disjoint, so the IDs   *)
(* that may still be handed out, by a context from its range or after the  *)
(* adoption of a granted one, are those of nobody else, and IDsFresh keeps *)
(* them apart from the IDs that writes have already been given.            *)
(***************************************************************************)
EXTENDS ShardContext, FiniteSetTheorems, TLAPS

USE DEF Categories, States, Marks, NoMarks, NotLoaded, taskIDUninitialized,
        dbVars, stateVars, shardVars, genVars, trackerVars, queueVars

\* What a slot may hold, as far as counting is concerned.
Shape(q) ==
    /\ q.kind # "none" => q.ctx \in Contexts
    /\ q.phase = "keys" => q.kind = "add"
    /\ q.phase = "queued" => q.kind = "update"
RequestShape == \A r \in Requests : Shape(req[r])

\* A step that lets the same writes be in flight.
SameWrites == \A r \in Requests : \A c : IsInflight(req[r], c)' <=> IsInflight(req[r], c)

\* The generator has a next ID exactly when it has a maximum.
RangeInitialized ==
    \A c \in Contexts : nextTaskID[c] = taskIDUninitialized
                            <=> exclusiveMaxTaskID[c] = taskIDUninitialized

\* The inductive invariant.
CountInv ==
    /\ TypeOK
    /\ RequestShape
    /\ RangeInitialized
    /\ InflightCounted
    /\ NoWriteDuringRenew

-----------------------------------------------------------------------------
(* The records that are calls to persistence                               *)

LEMMA NoRequestType == NoRequest \in RequestType
  BY DEF NoRequest, RequestType

\* Every update of a request that an action makes.
LEMMA RequestUpdates ==
  ASSUME NEW q \in RequestType
  PROVE  /\ \A n \in Nat \cup {NotLoaded} :
              [q EXCEPT !.range = n, !.phase = "inflight", !.wire = "pending"] \in RequestType
         /\ \A t \in Tasks : [q EXCEPT !.tasks = @ \cup {t}] \in RequestType
         /\ [q EXCEPT !.wire = "applied"] \in RequestType
         /\ [q EXCEPT !.phase = "inflight", !.wire = "pending"] \in RequestType
         /\ [q EXCEPT !.phase = "zombie"] \in RequestType
         /\ \A err \in {"nil", "lost", "failed", "unknown"}, w \in {"none", "pending"} :
              [q EXCEPT !.phase = "answered", !.err = err, !.wire = w] \in RequestType
  BY ZenonT(60) DEF RequestType

LEMMA FinishedType ==
  ASSUME NEW q \in RequestType
  PROVE  Finished(q) \in RequestType
  BY RequestUpdates, NoRequestType, ZenonT(60) DEF Finished

-----------------------------------------------------------------------------
(* Types                                                                   *)

\* The failures of writes and renewals change only the state machine.
LEMMA TypeStateChange ==
  ASSUME TypeOK, NEW c \in Contexts, NEW range, NEW err,
         HandleWriteErrorLocked(c, range, err) \/ AcquireFailed(c, err)
  PROVE  /\ state' \in [Contexts -> States]
         /\ acquiring' \in [Contexts -> {"no", "load", "renew", "engine", "acquired", "retry"}]
         /\ engine' = engine
  BY ZenonT(60) DEF TypeOK, HandleWriteErrorLocked, AcquireFailed, StopRequested, IsValid

LEMMA TypeInit == Init => TypeOK
  BY NoRequestType DEF Init, TypeOK

LEMMA TypeController ==
  ASSUME TypeOK, NEW c \in Contexts, Controller(c)
  PROVE  TypeOK'
<1>1. CASE Start(c)
  BY <1>1 DEF TypeOK, Start
<1>2. CASE Recreate(c)
  BY <1>2 DEF TypeOK, Recreate
<1>3. CASE RequestStop(c)
  BY <1>3 DEF TypeOK, RequestStop, StopRequested
<1>4. CASE FinishStop(c)
  BY <1>4 DEF TypeOK, FinishStop
<1>5. CASE StopEngine(c)
  BY <1>5 DEF TypeOK, StopEngine
<1> QED BY <1>1, <1>2, <1>3, <1>4, <1>5 DEF Controller

LEMMA TypeAcquisition ==
  ASSUME TypeOK, NEW c \in Contexts, Acquisition(c)
  PROVE  TypeOK'
<1>1. CASE LoadShardMetadata(c)
  <2>1. acquiring' \in [Contexts -> {"no", "load", "renew", "engine", "acquired", "retry"}]
    BY <1>1 DEF TypeOK, LoadShardMetadata
  <2>2. /\ rangeID' \in [Contexts -> Nat \cup {NotLoaded}]
        /\ marks' \in [Contexts -> Marks]
    BY <1>1, ZenonT(60) DEF TypeOK, LoadShardMetadata
  <2>3. taskMinScheduledTime' \in [Contexts -> Nat]
    <3>1. CASE rangeID[c] # NotLoaded
      BY <1>1, <3>1 DEF TypeOK, LoadShardMetadata
    <3>2. ASSUME NEW m \in {0} \cup {dbMarks[cat] : cat \in Scheduled},
                 taskMinScheduledTime' =
                    [taskMinScheduledTime EXCEPT ![c] = MaxOf(@, MinScheduledTimeAbove(m))]
          PROVE  taskMinScheduledTime' \in [Contexts -> Nat]
      <4>1. m \in Nat
        BY DEF TypeOK
      <4> QED BY <4>1, <3>2 DEF TypeOK, MaxOf, MinScheduledTimeAbove
    <3> QED BY <1>1, <3>1, <3>2 DEF LoadShardMetadata
  <2> QED BY <1>1, <2>1, <2>2, <2>3 DEF TypeOK, LoadShardMetadata
<1>2. CASE LoadShardMetadataFails(c)
  BY <1>2, ZenonT(60) DEF TypeOK, LoadShardMetadataFails, AcquireFailed, StopRequested
<1>3. CASE AcquireRetry(c)
  BY <1>3 DEF TypeOK, AcquireRetry
<1>4. CASE AcquireExpires(c)
  BY <1>4 DEF TypeOK, AcquireExpires, AcquireFailed, StopRequested
<1>5. CASE AcquireLock(c)
  BY <1>5 DEF TypeOK, AcquireLock
<1>6. CASE CreateEngine(c)
  <2>1. marks[c] \in Marks
    BY DEF TypeOK
  <2>2. /\ readerMark' \in [Contexts -> Marks]
        /\ engine' \in [Contexts -> {"none", "started", "set", "stopped"}]
        /\ acquiring' \in [Contexts -> {"no", "load", "renew", "engine", "acquired", "retry"}]
    BY <1>6, <2>1, ZenonT(60) DEF TypeOK, CreateEngine
  <2> QED BY <1>6, <2>2 DEF TypeOK, CreateEngine
<1>7. CASE FinishAcquire(c)
  BY <1>7, ZenonT(60) DEF TypeOK, FinishAcquire
<1> QED BY <1>1, <1>2, <1>3, <1>4, <1>5, <1>6, <1>7 DEF Acquisition

LEMMA TypeRenewal ==
  ASSUME TypeOK, NEW c \in Contexts, Renewal(c)
  PROVE  TypeOK'
<1>1. ASSUME NEW r \in Requests, SendRenew(c, r) PROVE TypeOK'
  <2>1. req' \in [Requests -> RequestType]
    BY <1>1, ZenonT(60) DEF TypeOK, SendRenew, RequestType
  <2> QED BY <1>1, <2>1 DEF TypeOK, SendRenew
<1>2. ASSUME NEW r \in Requests, RenewSucceeded(c, r) PROVE TypeOK'
  <2>1. req' \in [Requests -> RequestType]
    BY <1>2, NoRequestType DEF TypeOK, RenewSucceeded
  <2>2. rangeID[c] + 1 \in Nat
    <3>1. rangeID[c] \in Nat \cup {NotLoaded}
      BY DEF TypeOK
    <3> QED BY <3>1
  <2>3. /\ FirstTaskID(rangeID[c] + 1) \in Nat
        /\ FirstTaskID(rangeID[c] + 1) + 1 \in Nat
        /\ EndTaskID(rangeID[c] + 1) \in Nat
    <3>1. RangeSize \in Nat
      BY ConstantsAssumption DEF ConstantsAssumption
    <3> QED BY <2>2, <3>1 DEF FirstTaskID, EndTaskID
  <2>4. /\ nextTaskID' \in [Contexts -> Nat \cup {taskIDUninitialized}]
        /\ exclusiveMaxTaskID' \in [Contexts -> Nat \cup {taskIDUninitialized}]
    BY <1>2, <2>3 DEF TypeOK, RenewSucceeded
  <2>5. rangeID' \in [Contexts -> Nat \cup {NotLoaded}]
    <3>1. rangeID' = [rangeID EXCEPT ![c] = rangeID[c] + 1]
      BY <1>2 DEF RenewSucceeded
    <3> QED BY <2>2, <3>1 DEF TypeOK
  <2>6. lock' \in [Contexts -> {"free", "keys", "id", "acquire"}]
    BY <1>2 DEF TypeOK, RenewSucceeded
  <2>7. renewing' \in [Contexts -> {"no", "drain", "io"}]
    BY <1>2 DEF TypeOK, RenewSucceeded
  <2>8. /\ acquiring' \in [Contexts -> {"no", "load", "renew", "engine", "acquired", "retry"}]
        /\ pendingTaskKeys' \in [Contexts -> SUBSET Tasks]
        /\ inflightRequestCount' \in [Contexts -> Nat]
    BY <1>2 DEF TypeOK, RenewSucceeded
  <2> QED BY <1>2, <2>1, <2>4, <2>5, <2>6, <2>7, <2>8 DEF TypeOK, RenewSucceeded
<1>3. ASSUME NEW r \in Requests, RenewFailed(c, r) PROVE TypeOK'
  <2>1. req' \in [Requests -> RequestType]
    <3>1. /\ Finished(req[r]) \in RequestType
          /\ \A q \in Requests : req[q] \in RequestType
      BY FinishedType DEF TypeOK
    <3>2. req' = [q \in Requests |-> IF q = r THEN Finished(req[r])
                                     ELSE IF q \in SettingKeys(c) THEN NoRequest
                                     ELSE req[q]]
      BY <1>3 DEF RenewFailed
    <3> QED BY <3>1, <3>2, NoRequestType
  <2>2. /\ state' \in [Contexts -> States]
        /\ acquiring' \in [Contexts -> {"no", "load", "renew", "engine", "acquired", "retry"}]
        /\ engine' = engine
    BY <1>3, TypeStateChange DEF RenewFailed
  <2> QED BY <1>3, <2>1, <2>2 DEF TypeOK, RenewFailed
<1> QED BY <1>1, <1>2, <1>3 DEF Renewal

LEMMA TypeWrite ==
  ASSUME TypeOK, RangeInitialized, NEW c \in Contexts, Write(c)
  PROVE  TypeOK'
<1>1. ASSUME NEW r \in Requests, BeginWrite(c, r) PROVE TypeOK'
  <2>1. req' \in [Requests -> RequestType]
    BY <1>1 DEF TypeOK, BeginWrite, RequestType
  <2>2. taskMinScheduledTime' \in [Contexts -> Nat]
    BY <1>1 DEF TypeOK, BeginWrite, MaxOf
  <2> QED BY <1>1, <2>1, <2>2 DEF TypeOK, BeginWrite
<1>2. ASSUME NEW r \in Requests, NEW cat \in Categories, NEW t \in 0..MaxTime,
             SetTaskKey(c, r, cat, t)
      PROVE  TypeOK'
  <2> DEFINE scheduledTime == IF t + 1 < taskMinScheduledTime[c]
                              THEN taskMinScheduledTime[c] + 1
                              ELSE t + 1
             task == [cat |-> cat, id |-> nextTaskID[c],
                      pos |-> IF cat \in Scheduled THEN scheduledTime ELSE nextTaskID[c]]
  <2>1. nextTaskID[c] \in Nat
    BY <1>2 DEF TypeOK, SetTaskKey, RangeInitialized
  <2>2. scheduledTime \in Nat
    BY ConstantsAssumption DEF TypeOK, ConstantsAssumption
  <2>3. task \in Tasks
    BY <2>1, <2>2 DEF Tasks
  <2>4. req' = [req EXCEPT ![r].tasks = @ \cup {task}]
    BY <1>2 DEF SetTaskKey
  <2>5. req' \in [Requests -> RequestType]
    BY <2>3, <2>4, RequestUpdates, ZenonT(60) DEF TypeOK
  <2>6. nextTaskID' = [nextTaskID EXCEPT ![c] = nextTaskID[c] + 1]
    BY <1>2 DEF SetTaskKey
  <2>7. nextTaskID' \in [Contexts -> Nat \cup {taskIDUninitialized}]
    BY <2>1, <2>6 DEF TypeOK
  <2> QED BY <1>2, <2>5, <2>7 DEF TypeOK, SetTaskKey
<1>3. ASSUME NEW r \in Requests, TrackAndSend(c, r) PROVE TypeOK'
  <2>1. req' = [req EXCEPT ![r].range = rangeID[c], ![r].phase = "inflight",
                           ![r].wire = "pending"]
    BY <1>3 DEF TrackAndSend
  <2>2. req' \in [Requests -> RequestType]
    BY <2>1, RequestUpdates, ZenonT(60) DEF TypeOK
  <2>3. MinKeys(req[r].tasks) \subseteq Tasks
    BY DEF TypeOK, RequestType, MinKeys
  <2>4. pendingTaskKeys' \in [Contexts -> SUBSET Tasks]
    BY <1>3, <2>3 DEF TypeOK, TrackAndSend
  <2>5. lock' \in [Contexts -> {"free", "keys", "id", "acquire"}]
    BY <1>3 DEF TypeOK, TrackAndSend
  <2>6. inflightRequestCount' \in [Contexts -> Nat]
    BY <1>3 DEF TypeOK, TrackAndSend
  <2> QED BY <1>3, <2>2, <2>4, <2>5, <2>6 DEF TypeOK, TrackAndSend
<1>4. ASSUME NEW r \in Requests, HandleWriteError(c, r) PROVE TypeOK'
  <2>1. req' = [req EXCEPT ![r] = Finished(req[r])]
    BY <1>4 DEF HandleWriteError
  <2>2. req' \in [Requests -> RequestType]
    BY <2>1, FinishedType DEF TypeOK
  <2>3. /\ state' \in [Contexts -> States]
        /\ acquiring' \in [Contexts -> {"no", "load", "renew", "engine", "acquired", "retry"}]
        /\ engine' = engine
    BY <1>4, TypeStateChange DEF HandleWriteError
  <2> QED BY <1>4, <2>2, <2>3 DEF TypeOK, HandleWriteError
<1>5. CASE RenewForKeys(c)
  BY <1>5 DEF TypeOK, RenewForKeys
<1>6. CASE GenerateTaskID(c)
  <2>1. lock' \in [Contexts -> {"free", "keys", "id", "acquire"}]
    BY <1>6, ZenonT(60) DEF TypeOK, GenerateTaskID
  <2>2. renewing' \in [Contexts -> {"no", "drain", "io"}]
    BY <1>6, ZenonT(60) DEF TypeOK, GenerateTaskID
  <2>3. nextTaskID' \in [Contexts -> Nat \cup {taskIDUninitialized}]
    <3>1. nextTaskID[c] \in Nat \cup {taskIDUninitialized}
      BY DEF TypeOK
    <3>2. nextTaskID[c] + 1 \in Nat
      BY <3>1
    <3> QED BY <1>6, <3>2 DEF TypeOK, GenerateTaskID
  <2> QED BY <1>6, <2>1, <2>2, <2>3 DEF TypeOK, GenerateTaskID
<1> QED BY <1>1, <1>2, <1>3, <1>4, <1>5, <1>6 DEF Write

LEMMA TypeQueue ==
  ASSUME TypeOK, NEW c \in Contexts, Queue(c)
  PROVE  TypeOK'
<1>1. ASSUME NEW cat \in Categories, ReadNewRange(c, cat) PROVE TypeOK'
  <2>1. taskMinScheduledTime' \in [Contexts -> Nat]
    <3>1. now[c] + MaxTimeShift \in Nat
      BY ConstantsAssumption DEF TypeOK, ConstantsAssumption
    <3>2. taskMinScheduledTime' =
             [taskMinScheduledTime EXCEPT ![c] = MaxOf(@, now[c] + MaxTimeShift)]
      BY <1>1 DEF ReadNewRange
    <3> QED BY <3>1, <3>2 DEF TypeOK, MaxOf
  <2>2. PICK watermark \in Int :
           readerMark' = [readerMark EXCEPT ![c][cat] = MaxOf(@, watermark)]
    <3> DEFINE nextPos == IF cat \in Scheduled THEN taskMinScheduledTime'[c] ELSE nextTaskID[c]
               keys == {t.pos : t \in {k \in pendingTaskKeys[c] : k.cat = cat}}
    <3>1. nextPos \in Int /\ keys \subseteq Int
      BY <2>1 DEF TypeOK, Tasks
    <3>2. \E watermark \in {nextPos} \cup keys :
             readerMark' = [readerMark EXCEPT ![c][cat] = MaxOf(@, watermark)]
      BY <1>1 DEF ReadNewRange
    <3> QED BY <3>1, <3>2
  <2>3. readerMark' \in [Contexts -> Marks]
    <3>1. MaxOf(readerMark[c][cat], watermark) \in Nat
      BY <2>2 DEF TypeOK, MaxOf
    <3>2. \A m \in Marks, n \in Nat : [m EXCEPT ![cat] = n] \in Marks
      OBVIOUS
    <3>3. [readerMark[c] EXCEPT ![cat] = MaxOf(@, watermark)] \in Marks
      BY <3>1, <3>2 DEF TypeOK
    <3>4. readerMark' = [readerMark EXCEPT
                            ![c] = [readerMark[c] EXCEPT ![cat] = MaxOf(@, watermark)]]
      BY <2>2 DEF TypeOK
    <3> QED BY <3>3, <3>4 DEF TypeOK
  <2> QED BY <1>1, <2>1, <2>3 DEF TypeOK, ReadNewRange
<1>2. ASSUME NEW cat \in Categories, SetQueueState(c, cat) PROVE TypeOK'
  <2>1. readerMark[c][cat] \in Nat
    BY DEF TypeOK
  <2>2. [marks[c] EXCEPT ![cat] = readerMark[c][cat]] \in Marks
    BY <2>1 DEF TypeOK
  <2>3. marks' \in [Contexts -> Marks]
    BY <1>2, <2>1 DEF TypeOK, SetQueueState
  <2>4. req' \in [Requests -> RequestType]
    <3>1. CASE UNCHANGED req
      BY <3>1 DEF TypeOK
    <3>2. ASSUME NEW r \in Requests,
                 req' = [req EXCEPT ![r] =
                   [kind |-> "update", ctx |-> c, range |-> rangeID[c], tasks |-> {},
                    marks |-> [marks[c] EXCEPT ![cat] = readerMark[c][cat]],
                    phase |-> "queued", wire |-> "none", err |-> "nil"]]
          PROVE  req' \in [Requests -> RequestType]
      BY <2>2, <3>2 DEF TypeOK, RequestType
    <3> QED BY <1>2, <3>1, <3>2 DEF SetQueueState
  <2> QED BY <1>2, <2>3, <2>4 DEF TypeOK, SetQueueState
<1>3. ASSUME NEW r \in Requests, SendUpdate(c, r) PROVE TypeOK'
  <2>1. req' \in [Requests -> RequestType]
    BY <1>3, RequestUpdates, ZenonT(60) DEF TypeOK, SendUpdate
  <2> QED BY <1>3, <2>1 DEF TypeOK, SendUpdate
<1>4. ASSUME NEW r \in Requests, AbandonUpdate(c, r) PROVE TypeOK'
  BY <1>4, NoRequestType DEF TypeOK, AbandonUpdate
<1> QED BY <1>1, <1>2, <1>3, <1>4 DEF Queue

\* An answered write is counted: its slot is among the ones that are counted.
LEMMA CountPositive ==
  ASSUME InflightCounted, NEW c \in Contexts, NEW r \in InflightWrites(c)
  PROVE  inflightRequestCount[c] \in Nat /\ inflightRequestCount[c] # 0
<1>1. IsFiniteSet(InflightWrites(c))
  BY FS_Subset, ConstantsAssumption DEF ConstantsAssumption, InflightWrites
<1> QED BY <1>1, FS_EmptySet, FS_CardinalityType DEF InflightCounted

LEMMA TypeStore ==
  ASSUME TypeOK, RequestShape, InflightCounted,
         NEW r \in Requests, ApplyWrite(r) \/ DropWrite(r) \/ Answer(r)
  PROVE  TypeOK'
<1>1. CASE ApplyWrite(r)
  <2>1. \A q \in Requests : /\ req[q] \in RequestType
                            /\ [req[q] EXCEPT !.wire = "applied"] \in RequestType
    BY RequestUpdates, ZenonT(60) DEF TypeOK
  <2>2. req' = [q \in Requests |->
          IF q = r /\ req[q].phase # "zombie" THEN [req[q] EXCEPT !.wire = "applied"]
          ELSE IF q = r \/ (req[q].phase = "zombie" /\ dbRange' # dbRange) THEN NoRequest
          ELSE req[q]]
    BY <1>1 DEF ApplyWrite
  <2>3. req' \in [Requests -> RequestType]
    BY <2>1, <2>2, NoRequestType
  <2>4. dbRange' \in Nat
    <3>1. req[r].range \in Nat \cup {NotLoaded}
      BY DEF TypeOK, RequestType
    <3>2. req[r].range + 1 \in Nat
      BY <3>1
    <3> QED BY <1>1, <3>2 DEF TypeOK, ApplyWrite
  <2>5. dbMarks' \in Marks
    <3>1. dbMarks' = IF req[r].kind = "add" THEN dbMarks ELSE req[r].marks
      BY <1>1 DEF ApplyWrite
    <3> QED BY <3>1 DEF TypeOK, RequestType
  <2> QED BY <1>1, <2>3, <2>4, <2>5 DEF TypeOK, ApplyWrite
<1>2. CASE DropWrite(r)
  BY <1>2, NoRequestType DEF TypeOK, DropWrite
<1>3. CASE Answer(r)
  <2>1. PICK err \in Answers(req[r]) :
           /\ req' = [req EXCEPT ![r].phase = "answered", ![r].err = err,
                                 ![r].wire = IF @ = "pending" /\ err = "unknown"
                                             THEN "pending" ELSE "none"]
           /\ IF req[r].kind = "add" THEN CompletionFn(r, err) ELSE UNCHANGED trackerVars
    BY <1>3 DEF Answer
  <2>2. err \in {"nil", "lost", "failed", "unknown"}
    BY DEF Answers
  <2>3. req' \in [Requests -> RequestType]
    BY <2>1, <2>2, RequestUpdates, ZenonT(60) DEF TypeOK
  <2>4. /\ inflightRequestCount' \in [Contexts -> Nat]
        /\ pendingTaskKeys' \in [Contexts -> SUBSET Tasks]
    <3>1. CASE req[r].kind # "add"
      BY <2>1, <3>1 DEF TypeOK
    <3>2. CASE req[r].kind = "add"
      <4>1. req[r].ctx \in Contexts
        BY <3>2 DEF RequestShape, Shape
      <4>2. r \in InflightWrites(req[r].ctx)
        BY <1>3, <3>2 DEF Answer, InflightWrites, IsInflight
      <4>3. inflightRequestCount[req[r].ctx] - 1 \in Nat
        BY <4>1, <4>2, CountPositive
      <4>4. RequestCompleted(r, err)
        BY <2>1, <3>2 DEF CompletionFn
      <4>5. inflightRequestCount' \in [Contexts -> Nat]
        BY <4>1, <4>3, <4>4 DEF TypeOK, RequestCompleted
      <4>6. pendingTaskKeys' \in [Contexts -> SUBSET Tasks]
        BY <4>1, <4>4 DEF TypeOK, RequestCompleted
      <4> QED BY <4>5, <4>6
    <3> QED BY <3>1, <3>2
  <2> QED BY <1>3, <2>3, <2>4 DEF TypeOK, Answer
<1> QED BY <1>1, <1>2, <1>3

LEMMA TypeNext ==
  ASSUME CountInv, Next
  PROVE  TypeOK'
<1> SUFFICES ASSUME TypeOK, RequestShape, RangeInitialized, InflightCounted PROVE TypeOK'
  BY DEF CountInv
<1>1. ASSUME NEW c \in Contexts, Tick(c) PROVE TypeOK'
  <2>1. now' \in [Contexts -> Nat]
    BY <1>1 DEF TypeOK, Tick
  <2> QED BY <1>1, <2>1 DEF TypeOK, Tick
<1>2. CASE Store
  <2>1. PICK r \in Requests : ApplyWrite(r) \/ DropWrite(r) \/ Answer(r)
    BY <1>2 DEF Store
  <2> QED BY <2>1, TypeStore
<1>3. ASSUME NEW c \in Contexts,
             Controller(c) \/ Acquisition(c) \/ Renewal(c) \/ Write(c) \/ Queue(c) \/ Tick(c)
      PROVE  TypeOK'
  BY <1>1, <1>3, TypeController, TypeAcquisition, TypeRenewal, TypeWrite, TypeQueue
<1> QED BY <1>2, <1>3 DEF Next

-----------------------------------------------------------------------------
(* Which writes are in flight                                              *)

\* Steps that change one slot.
LEMMA OneSlot ==
  ASSUME TypeOK, RequestShape, NEW r \in Requests, NEW new,
         req' = [req EXCEPT ![r] = new], Shape(new),
         \A c : IsInflight(new, c) <=> IsInflight(req[r], c)
  PROVE  RequestShape' /\ SameWrites
<1>1. /\ req'[r] = new
      /\ \A q \in Requests : q # r => req'[q] = req[q]
  BY DEF TypeOK
<1>2. \A q \in Requests : Shape(req'[q])
  BY <1>1 DEF RequestShape
<1>3. \A q \in Requests : \A c : IsInflight(req'[q], c) <=> IsInflight(req[q], c)
  BY <1>1
<1> QED BY <1>2, <1>3 DEF RequestShape, SameWrites, Shape, IsInflight

\* Steps that change none.
LEMMA NoSlot ==
  ASSUME RequestShape, UNCHANGED req
  PROVE  RequestShape' /\ SameWrites
  BY DEF RequestShape, SameWrites, Shape, IsInflight

\* What is left of a call is not in flight.
LEMMA FinishedShape ==
  ASSUME NEW q \in RequestType, Shape(q), q.phase = "answered"
  PROVE  Shape(Finished(q)) /\ \A c : ~IsInflight(Finished(q), c) /\ ~IsInflight(q, c)
  BY DEF Finished, NoRequest, Shape, IsInflight, RequestType

LEMMA RenewalWrites ==
  ASSUME TypeOK, RequestShape, NEW c \in Contexts, Renewal(c)
  PROVE  RequestShape' /\ SameWrites
<1>1. ASSUME NEW r \in Requests, SendRenew(c, r) PROVE RequestShape' /\ SameWrites
  <2> DEFINE new == [kind |-> "renew", ctx |-> c, range |-> rangeID[c], tasks |-> {},
                     marks |-> marks[c], phase |-> "inflight", wire |-> "pending",
                     err |-> "nil"]
  <2>1. req' = [req EXCEPT ![r] = new] /\ req[r].kind = "none"
    BY <1>1 DEF SendRenew
  <2>2. Shape(new) /\ \A d : IsInflight(new, d) <=> IsInflight(req[r], d)
    BY <2>1 DEF Shape, IsInflight
  <2> HIDE DEF new
  <2> QED BY <2>1, <2>2, OneSlot
<1>2. ASSUME NEW r \in Requests, RenewSucceeded(c, r) PROVE RequestShape' /\ SameWrites
  <2>1. req' = [req EXCEPT ![r] = NoRequest] /\ req[r].kind = "renew"
    BY <1>2 DEF RenewSucceeded
  <2>2. Shape(NoRequest) /\ \A d : IsInflight(NoRequest, d) <=> IsInflight(req[r], d)
    BY <2>1 DEF Shape, IsInflight, NoRequest
  <2> QED BY <2>1, <2>2, OneSlot
<1>3. ASSUME NEW r \in Requests, RenewFailed(c, r) PROVE RequestShape' /\ SameWrites
  <2>1. req' = [q \in Requests |-> IF q = r THEN Finished(req[r])
                                   ELSE IF q \in SettingKeys(c) THEN NoRequest
                                   ELSE req[q]]
    BY <1>3 DEF RenewFailed
  <2>2. Shape(NoRequest) /\ \A d : ~IsInflight(NoRequest, d)
    BY DEF Shape, IsInflight, NoRequest
  <2>3. req[r] \in RequestType /\ Shape(req[r]) /\ req[r].phase = "answered"
    BY <1>3 DEF TypeOK, RequestShape, RenewFailed
  <2>4. Shape(Finished(req[r])) /\ \A d : ~IsInflight(Finished(req[r]), d) /\ ~IsInflight(req[r], d)
    BY <2>3, FinishedShape
  <2>5. \A q \in SettingKeys(c) : \A d : ~IsInflight(req[q], d)
    BY DEF SettingKeys, IsInflight
  <2>6. \A q \in Requests : Shape(req'[q])
    BY <2>1, <2>2, <2>4 DEF RequestShape
  <2>7. \A q \in Requests : \A d : IsInflight(req'[q], d) <=> IsInflight(req[q], d)
    BY <2>1, <2>2, <2>4, <2>5
  <2> QED BY <2>6, <2>7 DEF RequestShape, SameWrites, Shape, IsInflight
<1> QED BY <1>1, <1>2, <1>3 DEF Renewal

LEMMA WriteWrites ==
  ASSUME TypeOK, RequestShape, NEW c \in Contexts, Write(c),
         \A r \in Requests : ~TrackAndSend(c, r)
  PROVE  RequestShape' /\ SameWrites
<1>1. ASSUME NEW r \in Requests, BeginWrite(c, r) PROVE RequestShape' /\ SameWrites
  <2> DEFINE new == [kind |-> "add", ctx |-> c, range |-> 0, tasks |-> {},
                     marks |-> NoMarks, phase |-> "keys", wire |-> "none", err |-> "nil"]
  <2>1. req' = [req EXCEPT ![r] = new] /\ req[r].kind = "none"
    BY <1>1 DEF BeginWrite
  <2>2. Shape(new) /\ \A d : IsInflight(new, d) <=> IsInflight(req[r], d)
    BY <2>1 DEF Shape, IsInflight
  <2> HIDE DEF new
  <2> QED BY <2>1, <2>2, OneSlot
<1>2. ASSUME NEW r \in Requests, NEW cat \in Categories, NEW t \in 0..MaxTime,
             SetTaskKey(c, r, cat, t)
      PROVE  RequestShape' /\ SameWrites
  <2>1. PICK tasks : req' = [req EXCEPT ![r].tasks = tasks]
    BY <1>2 DEF SetTaskKey
  <2>2. req[r] \in RequestType /\ Shape(req[r])
    BY DEF TypeOK, RequestShape
  <2> DEFINE new == [req[r] EXCEPT !.tasks = tasks]
  <2>3. Shape(new) /\ \A d : IsInflight(new, d) <=> IsInflight(req[r], d)
    BY <2>2 DEF Shape, IsInflight, RequestType
  <2>4. req' = [req EXCEPT ![r] = new]
    BY <2>1 DEF TypeOK
  <2> HIDE DEF new
  <2> QED BY <2>3, <2>4, OneSlot
<1>3. ASSUME NEW r \in Requests, HandleWriteError(c, r) PROVE RequestShape' /\ SameWrites
  <2>1. req' = [req EXCEPT ![r] = Finished(req[r])]
    BY <1>3 DEF HandleWriteError
  <2>2. req[r] \in RequestType /\ Shape(req[r]) /\ req[r].phase = "answered"
    BY <1>3 DEF TypeOK, RequestShape, HandleWriteError
  <2> QED BY <2>1, <2>2, FinishedShape, OneSlot
<1>4. CASE RenewForKeys(c) \/ GenerateTaskID(c)
  BY <1>4, NoSlot DEF RenewForKeys, GenerateTaskID
<1> QED BY <1>1, <1>2, <1>3, <1>4 DEF Write

LEMMA QueueWrites ==
  ASSUME TypeOK, RequestShape, NEW c \in Contexts, Queue(c)
  PROVE  RequestShape' /\ SameWrites
<1>1. ASSUME NEW cat \in Categories, ReadNewRange(c, cat) PROVE RequestShape' /\ SameWrites
  BY <1>1, NoSlot DEF ReadNewRange
<1>2. ASSUME NEW cat \in Categories, SetQueueState(c, cat) PROVE RequestShape' /\ SameWrites
  <2>1. CASE UNCHANGED req
    BY <2>1, NoSlot
  <2>2. ASSUME NEW r \in Requests, req[r].kind = "none",
               req' = [req EXCEPT ![r] =
                 [kind |-> "update", ctx |-> c, range |-> rangeID[c], tasks |-> {},
                  marks |-> [marks[c] EXCEPT ![cat] = readerMark[c][cat]],
                  phase |-> "queued", wire |-> "none", err |-> "nil"]]
        PROVE  RequestShape' /\ SameWrites
    <3> DEFINE new == [kind |-> "update", ctx |-> c, range |-> rangeID[c], tasks |-> {},
                       marks |-> [marks[c] EXCEPT ![cat] = readerMark[c][cat]],
                       phase |-> "queued", wire |-> "none", err |-> "nil"]
    <3>1. Shape(new) /\ \A d : IsInflight(new, d) <=> IsInflight(req[r], d)
      BY <2>2 DEF Shape, IsInflight
    <3>2. req' = [req EXCEPT ![r] = new]
      BY <2>2
    <3> HIDE DEF new
    <3> QED BY <3>1, <3>2, OneSlot
  <2> QED BY <1>2, <2>1, <2>2 DEF SetQueueState
<1>3. ASSUME NEW r \in Requests, SendUpdate(c, r) PROVE RequestShape' /\ SameWrites
  <2> DEFINE new == [req[r] EXCEPT !.phase = "inflight", !.wire = "pending"]
  <2>1. req[r] \in RequestType /\ Shape(req[r]) /\ req[r].phase = "queued"
    BY <1>3 DEF TypeOK, RequestShape, SendUpdate
  <2>2. Shape(new) /\ \A d : IsInflight(new, d) <=> IsInflight(req[r], d)
    BY <2>1 DEF Shape, IsInflight, RequestType
  <2>3. req' = [req EXCEPT ![r] = new]
    BY <1>3 DEF TypeOK, SendUpdate
  <2> HIDE DEF new
  <2> QED BY <2>2, <2>3, OneSlot
<1>4. ASSUME NEW r \in Requests, AbandonUpdate(c, r) PROVE RequestShape' /\ SameWrites
  <2>1. req' = [req EXCEPT ![r] = NoRequest] /\ req[r].phase = "queued"
    BY <1>4 DEF AbandonUpdate
  <2>2. Shape(NoRequest) /\ \A d : IsInflight(NoRequest, d) <=> IsInflight(req[r], d)
    BY <2>1 DEF Shape, IsInflight, NoRequest
  <2> QED BY <2>1, <2>2, OneSlot
<1> QED BY <1>1, <1>2, <1>3, <1>4 DEF Queue

LEMMA StoreWrites ==
  ASSUME TypeOK, RequestShape, NEW r \in Requests, ApplyWrite(r) \/ DropWrite(r)
  PROVE  RequestShape' /\ SameWrites
<1>1. Shape(NoRequest) /\ \A d : ~IsInflight(NoRequest, d)
  BY DEF Shape, IsInflight, NoRequest
<1>2. CASE ApplyWrite(r)
  <2>1. req' = [q \in Requests |->
          IF q = r /\ req[q].phase # "zombie" THEN [req[q] EXCEPT !.wire = "applied"]
          ELSE IF q = r \/ (req[q].phase = "zombie" /\ dbRange' # dbRange) THEN NoRequest
          ELSE req[q]]
    BY <1>2 DEF ApplyWrite
  <2>2. ASSUME NEW q \in Requests
        PROVE  /\ Shape([req[q] EXCEPT !.wire = "applied"])
               /\ \A d : IsInflight([req[q] EXCEPT !.wire = "applied"], d)
                            <=> IsInflight(req[q], d)
    <3>1. req[q] \in RequestType /\ Shape(req[q])
      BY DEF TypeOK, RequestShape
    <3> QED BY <3>1 DEF Shape, IsInflight, RequestType
  <2>3. \A q \in Requests : req[q].phase = "zombie" => \A d : ~IsInflight(req[q], d)
    BY DEF IsInflight
  <2>4. \A q \in Requests : Shape(req'[q])
    BY <1>1, <2>1, <2>2 DEF RequestShape
  <2>5. \A q \in Requests : \A d : IsInflight(req'[q], d) <=> IsInflight(req[q], d)
    BY <1>1, <2>1, <2>2, <2>3
  <2> QED BY <2>4, <2>5 DEF RequestShape, SameWrites, Shape, IsInflight
<1>3. CASE DropWrite(r)
  <2>1. req' = [req EXCEPT ![r] = NoRequest] /\ req[r].phase = "zombie"
    BY <1>3 DEF DropWrite
  <2>2. \A d : IsInflight(NoRequest, d) <=> IsInflight(req[r], d)
    BY <1>1, <2>1 DEF IsInflight
  <2> QED BY <1>1, <2>1, <2>2, OneSlot
<1> QED BY <1>2, <1>3

\* The write whose keys were just tracked is in flight ...
LEMMA TrackedWrite ==
  ASSUME TypeOK, RequestShape, NEW c \in Contexts, NEW r \in Requests, TrackAndSend(c, r)
  PROVE  /\ RequestShape'
         /\ r \notin InflightWrites(c)
         /\ InflightWrites(c)' = InflightWrites(c) \cup {r}
         /\ \A d \in Contexts \ {c} : InflightWrites(d)' = InflightWrites(d)
<1> DEFINE new == [req[r] EXCEPT !.range = rangeID[c], !.phase = "inflight",
                                 !.wire = "pending"]
<1>1. req[r] \in RequestType /\ Shape(req[r]) /\ req[r].phase = "keys" /\ req[r].ctx = c
  BY DEF TypeOK, RequestShape, TrackAndSend, SettingKeys
<1>2. Shape(new) /\ \A d : IsInflight(new, d) <=> d = c
  BY <1>1 DEF Shape, IsInflight, RequestType
<1>3. req' = [req EXCEPT ![r] = new]
  BY DEF TypeOK, TrackAndSend
<1> HIDE DEF new
<1>4. req'[r] = new /\ \A q \in Requests : q # r => req'[q] = req[q]
  BY <1>3 DEF TypeOK
<1>5. \A d : ~IsInflight(req[r], d)
  BY <1>1 DEF IsInflight
<1>6. \A d : InflightWrites(d)' = {q \in Requests : IsInflight(req'[q], d)}
  BY DEF InflightWrites, IsInflight
<1>7. RequestShape'
  <2>1. \A q \in Requests : Shape(req'[q])
    BY <1>2, <1>4 DEF RequestShape
  <2> QED BY <2>1 DEF RequestShape, Shape
<1> QED BY <1>2, <1>4, <1>5, <1>6, <1>7 DEF InflightWrites

\* ... until it is answered.
LEMMA AnsweredWrite ==
  ASSUME TypeOK, RequestShape, NEW r \in Requests, Answer(r)
  PROVE  /\ RequestShape'
         /\ \A d : InflightWrites(d)' = InflightWrites(d) \ {r}
<1>1. PICK err \in Answers(req[r]), wire \in {"none", "pending"} :
         req' = [req EXCEPT ![r].phase = "answered", ![r].err = err, ![r].wire = wire]
  BY DEF Answer
<1> DEFINE new == [req[r] EXCEPT !.phase = "answered", !.err = err, !.wire = wire]
<1>2. req[r] \in RequestType /\ Shape(req[r])
  BY DEF TypeOK, RequestShape
<1>3. Shape(new) /\ \A d : ~IsInflight(new, d)
  BY <1>2 DEF Shape, IsInflight, RequestType
<1>4. req' = [req EXCEPT ![r] = new]
  BY <1>1 DEF TypeOK
<1> HIDE DEF new
<1>5. req'[r] = new /\ \A q \in Requests : q # r => req'[q] = req[q]
  BY <1>4 DEF TypeOK
<1>6. \A d : InflightWrites(d)' = {q \in Requests : IsInflight(req'[q], d)}
  BY DEF InflightWrites, IsInflight
<1>7. RequestShape'
  <2>1. \A q \in Requests : Shape(req'[q])
    BY <1>3, <1>5 DEF RequestShape
  <2> QED BY <2>1 DEF RequestShape, Shape
<1> QED BY <1>3, <1>5, <1>6, <1>7 DEF InflightWrites

-----------------------------------------------------------------------------
(* The counter and the renewal                                             *)

LEMMA InflightFinite ==
  ASSUME NEW c
  PROVE  /\ IsFiniteSet(InflightWrites(c))
         /\ Cardinality(InflightWrites(c)) \in Nat
         /\ Cardinality(InflightWrites(c)) = 0 => InflightWrites(c) = {}
<1>1. IsFiniteSet(InflightWrites(c))
  BY FS_Subset, ConstantsAssumption DEF ConstantsAssumption, InflightWrites
<1> QED BY <1>1, FS_EmptySet, FS_CardinalityType

\* Steps after which the same writes are in flight and counted, and no renewal
\* has been issued.
LEMMA QuietStep ==
  ASSUME InflightCounted, NoWriteDuringRenew, SameWrites,
         inflightRequestCount' = inflightRequestCount,
         \A c \in Contexts : renewing'[c] = "io" => renewing[c] = "io"
  PROVE  InflightCounted' /\ NoWriteDuringRenew'
<1>1. \A c : InflightWrites(c)' = InflightWrites(c)
  BY DEF SameWrites, InflightWrites
<1> QED BY <1>1 DEF InflightCounted, NoWriteDuringRenew

LEMMA CountRenewal ==
  ASSUME CountInv, NEW c \in Contexts, Renewal(c), SameWrites
  PROVE  InflightCounted' /\ NoWriteDuringRenew'
<1> USE DEF CountInv
<1>0. \A d : InflightWrites(d)' = InflightWrites(d)
  BY DEF SameWrites, InflightWrites
<1>1. ASSUME NEW r \in Requests, SendRenew(c, r)
      PROVE  InflightCounted' /\ NoWriteDuringRenew'
  <2>1. InflightWrites(c) = {}
    BY <1>1, InflightFinite DEF SendRenew, Drained, InflightCounted
  <2>2. /\ renewing' = [renewing EXCEPT ![c] = "io"]
        /\ inflightRequestCount' = inflightRequestCount
    BY <1>1 DEF SendRenew
  <2>3. \A d \in Contexts : renewing'[d] = "io" => d = c \/ renewing[d] = "io"
    BY <2>2 DEF TypeOK
  <2> QED BY <1>0, <2>1, <2>2, <2>3 DEF InflightCounted, NoWriteDuringRenew
<1>2. ASSUME NEW r \in Requests, RenewSucceeded(c, r)
      PROVE  InflightCounted' /\ NoWriteDuringRenew'
  <2>1. InflightWrites(c) = {}
    BY <1>2 DEF RenewSucceeded, NoWriteDuringRenew
  <2>2. /\ renewing' = [renewing EXCEPT ![c] = "no"]
        /\ inflightRequestCount' = [inflightRequestCount EXCEPT ![c] = 0]
    BY <1>2 DEF RenewSucceeded
  <2>3. /\ inflightRequestCount'[c] = 0
        /\ \A d \in Contexts \ {c} : inflightRequestCount'[d] = inflightRequestCount[d]
        /\ \A d \in Contexts : renewing'[d] = "io" => renewing[d] = "io"
    BY <2>2 DEF TypeOK
  <2> QED BY <1>0, <2>1, <2>3, FS_EmptySet DEF InflightCounted, NoWriteDuringRenew
<1>3. ASSUME NEW r \in Requests, RenewFailed(c, r)
      PROVE  InflightCounted' /\ NoWriteDuringRenew'
  <2>1. /\ renewing' = [renewing EXCEPT ![c] = "no"]
        /\ inflightRequestCount' = inflightRequestCount
    BY <1>3 DEF RenewFailed
  <2>2. \A d \in Contexts : renewing'[d] = "io" => renewing[d] = "io"
    BY <2>1 DEF TypeOK
  <2> QED BY <2>1, <2>2, QuietStep
<1> QED BY <1>1, <1>2, <1>3 DEF Renewal

LEMMA CountTracked ==
  ASSUME CountInv, NEW c \in Contexts, NEW r \in Requests, TrackAndSend(c, r)
  PROVE  InflightCounted' /\ NoWriteDuringRenew'
<1> USE DEF CountInv
<1>1. /\ inflightRequestCount'[c] = inflightRequestCount[c] + 1
      /\ \A d \in Contexts \ {c} : inflightRequestCount'[d] = inflightRequestCount[d]
  BY DEF TypeOK, TrackAndSend
<1>2. Cardinality(InflightWrites(c)') = Cardinality(InflightWrites(c)) + 1
  BY TrackedWrite, InflightFinite, FS_AddElement
<1>3. InflightCounted'
  BY <1>1, <1>2, TrackedWrite DEF InflightCounted
<1>4. renewing' = renewing /\ renewing[c] = "no"
  BY DEF TrackAndSend
<1>5. NoWriteDuringRenew'
  BY <1>4, TrackedWrite DEF NoWriteDuringRenew
<1> QED BY <1>3, <1>5

LEMMA CountAnswered ==
  ASSUME CountInv, NEW r \in Requests, Answer(r)
  PROVE  InflightCounted' /\ NoWriteDuringRenew'
<1> USE DEF CountInv
<1>1. renewing' = renewing
  BY DEF Answer
<1>2. \A d : InflightWrites(d)' = InflightWrites(d) \ {r}
  BY AnsweredWrite
<1>3. NoWriteDuringRenew'
  BY <1>1, <1>2 DEF NoWriteDuringRenew
<1>4. CASE req[r].kind # "add"
  <2>1. inflightRequestCount' = inflightRequestCount
    BY <1>4 DEF Answer
  <2>2. \A d : r \notin InflightWrites(d)
    BY <1>4 DEF InflightWrites, IsInflight
  <2>3. \A d : InflightWrites(d)' = InflightWrites(d)
    BY <1>2, <2>2
  <2> QED BY <1>3, <2>1, <2>3 DEF InflightCounted
<1>5. CASE req[r].kind = "add"
  <2>1. PICK c \in Contexts : c = req[r].ctx
    BY <1>5 DEF RequestShape, Shape
  <2>2. inflightRequestCount' = [inflightRequestCount EXCEPT ![c] = @ - 1]
    BY <1>5, <2>1 DEF Answer, CompletionFn, RequestCompleted
  <2>3. \A d : r \in InflightWrites(d) <=> d = c
    BY <1>5, <2>1 DEF Answer, InflightWrites, IsInflight
  <2>4. \A d \in Contexts \ {c} : /\ InflightWrites(d)' = InflightWrites(d)
                                  /\ inflightRequestCount'[d] = inflightRequestCount[d]
    <3>1. \A d \in Contexts \ {c} : inflightRequestCount'[d] = inflightRequestCount[d]
      BY <2>2 DEF TypeOK
    <3> QED BY <1>2, <2>3, <3>1
  <2>5. inflightRequestCount'[c] = inflightRequestCount[c] - 1
    BY <2>2 DEF TypeOK
  <2>6. Cardinality(InflightWrites(c)') = Cardinality(InflightWrites(c)) - 1
    <3>1. InflightWrites(c)' = InflightWrites(c) \ {r}
      BY <1>2
    <3> QED BY <2>3, <3>1, InflightFinite, FS_RemoveElement
  <2> QED BY <1>3, <2>4, <2>5, <2>6 DEF InflightCounted
<1> QED BY <1>4, <1>5

LEMMA CountRecreated ==
  ASSUME CountInv, NEW c \in Contexts, Recreate(c)
  PROVE  InflightCounted' /\ NoWriteDuringRenew'
<1> USE DEF CountInv
<1>1. InflightWrites(c) = {}
  BY DEF Recreate, InflightWrites, IsInflight
<1>2. \A d : InflightWrites(d)' = InflightWrites(d)
  BY DEF Recreate, InflightWrites, IsInflight
<1>3. /\ inflightRequestCount'[c] = 0
      /\ \A d \in Contexts \ {c} : inflightRequestCount'[d] = inflightRequestCount[d]
      /\ renewing' = renewing
  BY DEF TypeOK, Recreate
<1> QED BY <1>1, <1>2, <1>3, FS_EmptySet DEF InflightCounted, NoWriteDuringRenew

LEMMA CountNext ==
  ASSUME CountInv, Next
  PROVE  RequestShape' /\ InflightCounted' /\ NoWriteDuringRenew'
<1> USE DEF CountInv
<1>1. ASSUME NEW c \in Contexts, Controller(c)
      PROVE  RequestShape' /\ InflightCounted' /\ NoWriteDuringRenew'
  <2>1. RequestShape' /\ SameWrites
    BY <1>1, NoSlot DEF Controller, Start, Recreate, RequestStop, FinishStop, StopEngine
  <2>2. CASE Recreate(c)
    BY <2>1, <2>2, CountRecreated
  <2>3. CASE ~Recreate(c)
    <3>1. UNCHANGED <<inflightRequestCount, renewing>>
      BY <1>1, <2>3 DEF Controller, Start, RequestStop, FinishStop, StopEngine
    <3> QED BY <2>1, <3>1, QuietStep
  <2> QED BY <2>2, <2>3
<1>2. ASSUME NEW c \in Contexts, Acquisition(c)
      PROVE  RequestShape' /\ InflightCounted' /\ NoWriteDuringRenew'
  <2>1. RequestShape' /\ SameWrites
    BY <1>2, NoSlot DEF Acquisition, LoadShardMetadata, LoadShardMetadataFails, AcquireRetry,
       AcquireExpires, AcquireLock, CreateEngine, FinishAcquire
  <2>2. /\ inflightRequestCount' = inflightRequestCount
        /\ renewing' = renewing \/ renewing' = [renewing EXCEPT ![c] = "drain"]
    BY <1>2 DEF Acquisition, LoadShardMetadata, LoadShardMetadataFails, AcquireRetry,
       AcquireExpires, AcquireLock, CreateEngine, FinishAcquire
  <2>3. \A d \in Contexts : renewing'[d] = "io" => renewing[d] = "io"
    BY <2>2 DEF TypeOK
  <2> QED BY <2>1, <2>2, <2>3, QuietStep
<1>3. ASSUME NEW c \in Contexts, Renewal(c)
      PROVE  RequestShape' /\ InflightCounted' /\ NoWriteDuringRenew'
  BY <1>3, RenewalWrites, CountRenewal
<1>4. ASSUME NEW c \in Contexts, Write(c)
      PROVE  RequestShape' /\ InflightCounted' /\ NoWriteDuringRenew'
  <2>1. ASSUME NEW r \in Requests, TrackAndSend(c, r)
        PROVE  RequestShape' /\ InflightCounted' /\ NoWriteDuringRenew'
    BY <2>1, TrackedWrite, CountTracked
  <2>2. CASE \A r \in Requests : ~TrackAndSend(c, r)
    <3>1. RequestShape' /\ SameWrites
      BY <1>4, <2>2, WriteWrites
    <3>2. /\ inflightRequestCount' = inflightRequestCount
          /\ renewing' = renewing \/ renewing' = [renewing EXCEPT ![c] = "drain"]
      BY <1>4, <2>2 DEF Write, BeginWrite, SetTaskKey, HandleWriteError, RenewForKeys,
         GenerateTaskID
    <3>3. \A d \in Contexts : renewing'[d] = "io" => renewing[d] = "io"
      BY <3>2 DEF TypeOK
    <3> QED BY <3>1, <3>2, <3>3, QuietStep
  <2> QED BY <2>1, <2>2
<1>5. ASSUME NEW c \in Contexts, Queue(c)
      PROVE  RequestShape' /\ InflightCounted' /\ NoWriteDuringRenew'
  <2>1. UNCHANGED <<inflightRequestCount, renewing>>
    BY <1>5 DEF Queue, ReadNewRange, SetQueueState, SendUpdate, AbandonUpdate
  <2> QED BY <1>5, <2>1, QueueWrites, QuietStep
<1>6. ASSUME NEW c \in Contexts, Tick(c)
      PROVE  RequestShape' /\ InflightCounted' /\ NoWriteDuringRenew'
  BY <1>6, NoSlot, QuietStep DEF Tick
<1>7. ASSUME NEW r \in Requests, ApplyWrite(r) \/ DropWrite(r)
      PROVE  RequestShape' /\ InflightCounted' /\ NoWriteDuringRenew'
  <2>1. UNCHANGED <<inflightRequestCount, renewing>>
    BY <1>7 DEF ApplyWrite, DropWrite
  <2> QED BY <1>7, <2>1, StoreWrites, QuietStep
<1>8. ASSUME NEW r \in Requests, Answer(r)
      PROVE  RequestShape' /\ InflightCounted' /\ NoWriteDuringRenew'
  BY <1>8, AnsweredWrite, CountAnswered
<1> QED BY <1>1, <1>2, <1>3, <1>4, <1>5, <1>6, <1>7, <1>8 DEF Next, Store

LEMMA RangeInitializedNext ==
  ASSUME TypeOK, RangeInitialized, Next
  PROVE  RangeInitialized'
<1>1. ASSUME NEW c \in Contexts, Recreate(c) PROVE RangeInitialized'
  BY <1>1 DEF TypeOK, RangeInitialized, Recreate
<1>2. ASSUME NEW c \in Contexts, NEW r \in Requests, RenewSucceeded(c, r)
      PROVE  RangeInitialized'
  <2>1. rangeID[c] \in Nat \cup {NotLoaded} /\ RangeSize \in Nat
    BY ConstantsAssumption DEF TypeOK, ConstantsAssumption
  <2>2. /\ FirstTaskID(rangeID[c] + 1) \in Nat
        /\ FirstTaskID(rangeID[c] + 1) + 1 \in Nat
        /\ EndTaskID(rangeID[c] + 1) \in Nat
    BY <2>1 DEF FirstTaskID, EndTaskID
  <2>3. /\ nextTaskID'[c] \in Nat /\ exclusiveMaxTaskID'[c] \in Nat
        /\ \A d \in Contexts \ {c} : /\ nextTaskID'[d] = nextTaskID[d]
                                     /\ exclusiveMaxTaskID'[d] = exclusiveMaxTaskID[d]
    BY <1>2, <2>2 DEF TypeOK, RenewSucceeded
  <2> QED BY <2>3 DEF RangeInitialized
<1>3. ASSUME NEW c \in Contexts, nextTaskID[c] # exclusiveMaxTaskID[c],
             nextTaskID' = [nextTaskID EXCEPT ![c] = @ + 1],
             exclusiveMaxTaskID' = exclusiveMaxTaskID
      PROVE  RangeInitialized'
  BY <1>3 DEF TypeOK, RangeInitialized
<1>4. CASE UNCHANGED <<nextTaskID, exclusiveMaxTaskID>>
  BY <1>4 DEF RangeInitialized
<1>5. ASSUME NEW c \in Contexts, Controller(c) PROVE RangeInitialized'
  BY <1>1, <1>4, <1>5 DEF Controller, Start, RequestStop, FinishStop, StopEngine
<1>6. ASSUME NEW c \in Contexts, Acquisition(c) PROVE RangeInitialized'
  BY <1>4, <1>6 DEF Acquisition, LoadShardMetadata, LoadShardMetadataFails, AcquireRetry,
     AcquireExpires, AcquireLock, CreateEngine, FinishAcquire
<1>7. ASSUME NEW c \in Contexts, Renewal(c) PROVE RangeInitialized'
  BY <1>2, <1>4, <1>7 DEF Renewal, SendRenew, RenewFailed
<1>8. ASSUME NEW c \in Contexts, Write(c) PROVE RangeInitialized'
  BY <1>3, <1>4, <1>8 DEF Write, BeginWrite, SetTaskKey, TrackAndSend, HandleWriteError,
     RenewForKeys, GenerateTaskID
<1>9. ASSUME NEW c \in Contexts, Queue(c) \/ Tick(c) PROVE RangeInitialized'
  BY <1>4, <1>9 DEF Queue, ReadNewRange, SetQueueState, SendUpdate, AbandonUpdate, Tick
<1>10. CASE Store
  BY <1>4, <1>10 DEF Store, ApplyWrite, DropWrite, Answer
<1> QED BY <1>5, <1>6, <1>7, <1>8, <1>9, <1>10 DEF Next

LEMMA CountInit == Init => CountInv
<1> SUFFICES ASSUME Init PROVE CountInv
  OBVIOUS
<1>1. \A c \in Contexts : InflightWrites(c) = {}
  BY DEF Init, InflightWrites, IsInflight, NoRequest
<1>2. InflightCounted
  BY <1>1, FS_EmptySet DEF Init, InflightCounted
<1>3. RequestShape
  BY DEF Init, RequestShape, Shape, NoRequest
<1>4. RangeInitialized /\ NoWriteDuringRenew
  BY DEF Init, RangeInitialized, NoWriteDuringRenew
<1> QED BY <1>2, <1>3, <1>4, TypeInit DEF CountInv

LEMMA CountStutter ==
  ASSUME CountInv, UNCHANGED vars
  PROVE  CountInv'
<1> USE DEF CountInv, vars
<1>1. TypeOK'
  BY DEF TypeOK
<1>2. RequestShape' /\ SameWrites
  BY NoSlot
<1>3. InflightCounted' /\ NoWriteDuringRenew'
  BY <1>2, QuietStep
<1>4. RangeInitialized'
  BY DEF RangeInitialized
<1> QED BY <1>1, <1>2, <1>3, <1>4

-----------------------------------------------------------------------------
(* Theorems                                                                *)

THEOREM CountInvariant == Spec => []CountInv
<1>1. CountInv /\ [Next]_vars => CountInv'
  <2> SUFFICES ASSUME CountInv, Next PROVE CountInv'
    BY CountStutter
  <2> QED BY TypeNext, CountNext, RangeInitializedNext DEF CountInv
<1> QED BY <1>1, CountInit, PTL DEF Spec

\* Every variable of every context and of the store keeps its type: in
\* particular the number of in-flight requests never goes below zero, though
\* clear() resets it (task_request_tracker.go:60-89, 132-141).
THEOREM TypeCorrect == Spec => []TypeOK
BY CountInvariant, PTL DEF CountInv

\* drainTaskRequests returns only when no tracked write is in flight, and no
\* write is lost from the count (task_request_tracker.go:113-130).
THEOREM CountCorrect == Spec => []InflightCounted
BY CountInvariant, PTL DEF CountInv

\* renewRangeLocked never has a tracked write of its context in flight while
\* it changes the range ID (context_impl.go:1170-1172).
THEOREM RenewalUndisturbed == Spec => []NoWriteDuringRenew
BY CountInvariant, PTL DEF CountInv

-----------------------------------------------------------------------------
(* Fencing                                                                 *)

\* Nothing that needs a range ID has begun before shardInfo is loaded.
Loaded ==
    \A c \in Contexts : rangeID[c] = NotLoaded =>
        /\ ~HasRange(c)
        /\ engine[c] = "none" /\ state[c] # "Acquired"
        /\ acquiring[c] \in {"no", "load", "retry"}
        /\ lock[c] = "free"

\* A renewal whose caller waits for it in renewRangeLocked, and one that has
\* been given its range ID by the store and whose caller may still adopt it.
Waited(q) == q.kind = "renew" /\ q.phase \in {"inflight", "answered"}
Granted(q) ==
    q.kind = "renew" /\ (q.wire = "applied" \/ (q.phase = "answered" /\ q.err = "nil"))

\* A renewal is waited for with the lock held, by one caller per context, and
\* the range ID of the context stays what the renewal expects.
RenewalShape ==
    /\ \A c \in Contexts : renewing[c] # "no" => lock[c] # "free"
    /\ \A r \in Requests :
          /\ req[r].kind = "renew" => req[r].phase \in {"inflight", "answered", "zombie"}
          /\ Granted(req[r]) => Waited(req[r])
          /\ Waited(req[r]) => /\ renewing[req[r].ctx] = "io"
                               /\ rangeID[req[r].ctx] = req[r].range
    /\ \A q, r \in Requests :
          Waited(req[q]) /\ Waited(req[r]) /\ req[q].ctx = req[r].ctx => q = r

\* Nobody is ahead of the store.
RangeBounded ==
    /\ \A c \in Contexts : rangeID[c] <= dbRange
    /\ \A r \in Requests : Granted(req[r]) => req[r].range + 1 <= dbRange

\* Every range ID has one holder.
RangeHeldOnce ==
    /\ \A c, d \in Contexts :
          HasRange(c) /\ HasRange(d) /\ rangeID[c] = rangeID[d] => c = d
    /\ \A c \in Contexts, r \in Requests :
          HasRange(c) /\ Granted(req[r]) => rangeID[c] # req[r].range + 1
    /\ \A q, r \in Requests :
          Granted(req[q]) /\ Granted(req[r]) /\ req[q].range = req[r].range => q = r

RangeInv == RenewalShape /\ RangeBounded /\ RangeHeldOnce

-----------------------------------------------------------------------------
(* Steps that grant and adopt nothing                                      *)

\* A renewal after such a step is one that was there before.
SameRenewal(old, new) ==
    new.kind = "renew" =>
        /\ old.kind = "renew" /\ new.ctx = old.ctx /\ new.range = old.range
        /\ new.phase \in {"inflight", "answered", "zombie"}
        /\ Waited(new) => Waited(old)
        /\ Granted(new) => Granted(old) /\ Waited(new)

\* What such a step does to a context: only one without a range changes its
\* range ID, to that of the store or to none, and no wait for a renewal ends.
SameRange(c) ==
    /\ HasRange(c)' => HasRange(c)
    /\ \/ rangeID'[c] = rangeID[c]
       \/ ~HasRange(c)' /\ rangeID'[c] <= dbRange

SameWait(r) ==
    Waited(req'[r]) => /\ renewing'[req[r].ctx] = "io"
                       /\ rangeID'[req[r].ctx] = rangeID[req[r].ctx]

LEMMA RangeQuiet ==
  ASSUME RangeInv, dbRange' = dbRange,
         \A r \in Requests : SameRenewal(req[r], req'[r]) /\ SameWait(r),
         \A c \in Contexts : SameRange(c),
         \A c \in Contexts : renewing'[c] # "no" => lock'[c] # "free"
  PROVE  RangeInv'
<1>1. \A r \in Requests : Granted(req'[r]) => /\ Granted(req[r]) /\ Waited(req'[r])
                                              /\ req'[r].range = req[r].range
  BY DEF SameRenewal, Granted
<1>2. \A r \in Requests : Waited(req'[r]) => /\ Waited(req[r])
                                             /\ req'[r].range = req[r].range
                                             /\ req'[r].ctx = req[r].ctx
  BY DEF SameRenewal, Waited
<1>3. \A r \in Requests : /\ Granted(req[r])' <=> Granted(req'[r])
                          /\ Waited(req[r])' <=> Waited(req'[r])
  BY DEF Granted, Waited
<1>4. RenewalShape'
  <2>1. ASSUME NEW r \in Requests
        PROVE  /\ req'[r].kind = "renew" => req'[r].phase \in {"inflight", "answered", "zombie"}
               /\ Granted(req'[r]) => Waited(req'[r])
               /\ Waited(req'[r]) => /\ renewing'[req'[r].ctx] = "io"
                                     /\ rangeID'[req'[r].ctx] = req'[r].range
    BY <1>1, <1>2 DEF RangeInv, RenewalShape, SameRenewal, SameWait
  <2>2. \A q, r \in Requests :
           Waited(req'[q]) /\ Waited(req'[r]) /\ req'[q].ctx = req'[r].ctx => q = r
    BY <1>2 DEF RangeInv, RenewalShape
  <2> QED BY <1>3, <2>1, <2>2 DEF RenewalShape
<1>5. RangeBounded'
  BY <1>1, <1>3 DEF RangeInv, RangeBounded, SameRange, HasRange
<1>6. RangeHeldOnce'
  <2>1. \A c \in Contexts : HasRange(c)' => HasRange(c) /\ rangeID'[c] = rangeID[c]
    BY DEF SameRange
  <2> QED BY <1>1, <1>3, <2>1 DEF RangeInv, RangeHeldOnce
<1> QED BY <1>4, <1>5, <1>6 DEF RangeInv

\* A step that changes one call, which is not a renewal afterwards, and no
\* range ID.
LEMMA RangeOneSlot ==
  ASSUME CountInv, RangeInv, NEW r \in Requests, NEW new,
         req' = [req EXCEPT ![r] = new], new.kind # "renew",
         UNCHANGED <<dbRange, rangeID>>,
         \A c \in Contexts : HasRange(c)' => HasRange(c),
         \A c \in Contexts : renewing[c] = "io" => renewing'[c] = "io",
         \A c \in Contexts : renewing'[c] # "no" => lock'[c] # "free"
  PROVE  RangeInv'
<1>1. /\ req'[r] = new
      /\ \A q \in Requests : q # r => req'[q] = req[q]
  BY DEF CountInv, TypeOK
<1>2. \A q \in Requests : SameRenewal(req[q], req'[q])
  BY <1>1 DEF SameRenewal, RangeInv, RenewalShape
<1>3. \A q \in Requests : Waited(req[q]) => req[q].ctx \in Contexts /\ renewing[req[q].ctx] = "io"
  BY DEF CountInv, RequestShape, Shape, RangeInv, RenewalShape, Waited
<1>4. \A q \in Requests : SameWait(q)
  BY <1>1, <1>3 DEF SameWait, Waited
<1>5. \A c \in Contexts : SameRange(c)
  BY DEF SameRange
<1> QED BY <1>2, <1>4, <1>5, RangeQuiet

\* A step that changes none.
LEMMA RangeNoSlot ==
  ASSUME CountInv, RangeInv, UNCHANGED <<dbRange, req>>,
         \A c \in Contexts : SameRange(c),
         \A c \in Contexts : renewing[c] = "io" =>
            renewing'[c] = "io" /\ rangeID'[c] = rangeID[c],
         \A c \in Contexts : renewing'[c] # "no" => lock'[c] # "free"
  PROVE  RangeInv'
<1>1. \A q \in Requests : SameRenewal(req[q], req'[q])
  BY DEF SameRenewal, RangeInv, RenewalShape
<1>2. \A q \in Requests : Waited(req[q]) => req[q].ctx \in Contexts /\ renewing[req[q].ctx] = "io"
  BY DEF CountInv, RequestShape, Shape, RangeInv, RenewalShape, Waited
<1>3. \A q \in Requests : SameWait(q)
  BY <1>2 DEF SameWait
<1> QED BY <1>1, <1>3, RangeQuiet

-----------------------------------------------------------------------------
(* Before shardInfo is loaded                                              *)

\* The failures of writes and renewals change only the state machine of their
\* context, and start acquireShard only in one that is Acquired.
LEMMA LoadedStateChange ==
  ASSUME TypeOK, NEW c \in Contexts, NEW range, NEW err,
         HandleWriteErrorLocked(c, range, err) \/ AcquireFailed(c, err)
  PROVE  /\ engine' = engine
         /\ \A d \in Contexts :
               /\ state'[d] = "Acquired" => state[d] = "Acquired"
               /\ state[d] # "Acquired" => acquiring'[d] \in {acquiring[d], "no", "retry"}
<1>1. CASE AcquireFailed(c, err)
  BY <1>1, ZenonT(60) DEF TypeOK, AcquireFailed, StopRequested
<1>2. CASE HandleWriteErrorLocked(c, range, err)
  BY <1>2, ZenonT(60) DEF TypeOK, HandleWriteErrorLocked, StopRequested
<1> QED BY <1>1, <1>2

LEMMA LoadedNext ==
  ASSUME CountInv, Loaded, Next
  PROVE  Loaded'
<1> USE DEF CountInv
<1> DEFINE Kept(d) == rangeID'[d] = NotLoaded =>
             /\ nextTaskID'[d] = taskIDUninitialized
             /\ engine'[d] = "none" /\ state'[d] # "Acquired"
             /\ acquiring'[d] \in {"no", "load", "retry"}
             /\ lock'[d] = "free"
<1> SUFFICES ASSUME NEW d \in Contexts PROVE Kept(d)
  BY DEF Loaded, HasRange
<1>1. ASSUME NEW c \in Contexts, Controller(c) PROVE Kept(d)
  BY <1>1 DEF Loaded, HasRange, TypeOK, Controller, Start, Recreate, RequestStop, FinishStop,
     StopEngine, StopRequested
<1>2. ASSUME NEW c \in Contexts, Acquisition(c) PROVE Kept(d)
  <2>1. CASE LoadShardMetadataFails(c)
    BY <1>2, <2>1, LoadedStateChange DEF Loaded, HasRange, LoadShardMetadataFails
  <2>2. CASE LoadShardMetadata(c)
    <3>1. /\ rangeID'[c] # NotLoaded
          /\ d # c => rangeID'[d] = rangeID[d] /\ acquiring'[d] = acquiring[d]
      BY <2>2 DEF TypeOK, LoadShardMetadata
    <3> QED BY <2>2, <3>1 DEF Loaded, HasRange, LoadShardMetadata
  <2>3. CASE ~LoadShardMetadataFails(c) /\ ~LoadShardMetadata(c)
    BY <1>2, <2>3 DEF Loaded, HasRange, TypeOK, Acquisition, AcquireRetry, AcquireExpires,
       StopRequested, AcquireLock, CreateEngine, FinishAcquire
  <2> QED BY <2>1, <2>2, <2>3
<1>3. ASSUME NEW c \in Contexts, Renewal(c) PROVE Kept(d)
  <2>1. ASSUME NEW r \in Requests, SendRenew(c, r) PROVE Kept(d)
    BY <2>1 DEF Loaded, HasRange, SendRenew
  <2>2. ASSUME NEW r \in Requests, RenewSucceeded(c, r) PROVE Kept(d)
    <3>0. rangeID[c] \in Nat \cup {NotLoaded} /\ rangeID' = [rangeID EXCEPT ![c] = rangeID[c] + 1]
      BY <2>2 DEF TypeOK, RenewSucceeded
    <3>1. /\ rangeID'[c] # NotLoaded
          /\ d # c => /\ rangeID'[d] = rangeID[d] /\ nextTaskID'[d] = nextTaskID[d]
                      /\ acquiring'[d] = acquiring[d] /\ lock'[d] = lock[d]
      BY <2>2, <3>0 DEF TypeOK, RenewSucceeded
    <3> QED BY <2>2, <3>1 DEF Loaded, HasRange, RenewSucceeded
  <2>3. ASSUME NEW r \in Requests, RenewFailed(c, r) PROVE Kept(d)
    <3>1. lock' = [lock EXCEPT ![c] = "free"] /\ UNCHANGED <<rangeID, nextTaskID>>
      BY <2>3 DEF RenewFailed
    <3>2. /\ engine' = engine
          /\ state'[d] = "Acquired" => state[d] = "Acquired"
          /\ state[d] # "Acquired" => acquiring'[d] \in {acquiring[d], "no", "retry"}
      BY <2>3, LoadedStateChange DEF RenewFailed
    <3> QED BY <3>1, <3>2 DEF Loaded, HasRange, TypeOK
  <2> QED BY <1>3, <2>1, <2>2, <2>3 DEF Renewal
<1>4. ASSUME NEW c \in Contexts, Write(c) PROVE Kept(d)
  <2>1. ASSUME NEW r \in Requests, HandleWriteError(c, r) PROVE Kept(d)
    BY <2>1, LoadedStateChange DEF Loaded, HasRange, HandleWriteError
  <2>2. CASE \A r \in Requests : ~HandleWriteError(c, r)
    <3>1. UNCHANGED <<rangeID, engine, state, acquiring>>
      BY <1>4, <2>2 DEF Write, BeginWrite, SetTaskKey, TrackAndSend, RenewForKeys, GenerateTaskID
    <3>2. state[c] = "Acquired" \/ lock[c] # "free" \/ engine[c] # "none"
      BY <1>4, <2>2 DEF Write, BeginWrite, SetTaskKey, TrackAndSend, RenewForKeys, GenerateTaskID
    <3>3. d # c => nextTaskID'[d] = nextTaskID[d] /\ lock'[d] = lock[d]
      <4>1. CASE UNCHANGED <<nextTaskID, lock>>
        BY <4>1
      <4>2. ASSUME NEW r \in Requests, BeginWrite(c, r) \/ TrackAndSend(c, r)
            PROVE  d # c => nextTaskID'[d] = nextTaskID[d] /\ lock'[d] = lock[d]
        BY <4>2 DEF TypeOK, BeginWrite, TrackAndSend
      <4>3. ASSUME NEW r \in Requests, NEW cat \in Categories, NEW t \in 0..MaxTime, SetTaskKey(c, r, cat, t)
            PROVE  d # c => nextTaskID'[d] = nextTaskID[d] /\ lock'[d] = lock[d]
        BY <4>3 DEF TypeOK, SetTaskKey
      <4>4. CASE GenerateTaskID(c)
        BY <4>4 DEF TypeOK, GenerateTaskID
      <4>5. CASE RenewForKeys(c)
        BY <4>1, <4>5 DEF RenewForKeys
      <4> QED BY <1>4, <2>2, <4>2, <4>3, <4>4, <4>5 DEF Write
    <3> QED BY <3>1, <3>2, <3>3 DEF Loaded, HasRange
  <2> QED BY <2>1, <2>2
<1>5. ASSUME NEW c \in Contexts, Queue(c) \/ Tick(c) PROVE Kept(d)
  BY <1>5 DEF Loaded, HasRange, Queue, ReadNewRange, SetQueueState, SendUpdate, AbandonUpdate, Tick
<1>6. CASE Store
  BY <1>6 DEF Loaded, HasRange, Store, ApplyWrite, DropWrite, Answer
<1> QED BY <1>1, <1>2, <1>3, <1>4, <1>5, <1>6 DEF Next

-----------------------------------------------------------------------------
(* The steps that are quiet                                                *)

LEMMA RangeController ==
  ASSUME CountInv, RangeInv, NEW c \in Contexts, Controller(c)
  PROVE  RangeInv'
<1>1. CASE Recreate(c)
  <2>1. /\ UNCHANGED <<dbRange, req, renewing, lock>>
        /\ lock[c] = "free"
    BY <1>1 DEF Recreate
  <2>2. renewing[c] # "io"
    BY <2>1 DEF RangeInv, RenewalShape
  <2>3. /\ rangeID'[c] = NotLoaded /\ ~HasRange(c)'
        /\ \A d \in Contexts \ {c} : /\ rangeID'[d] = rangeID[d]
                                     /\ HasRange(d)' <=> HasRange(d)
    BY <1>1 DEF Recreate, CountInv, TypeOK, HasRange
  <2>4. \A d \in Contexts : SameRange(d)
    BY <2>3 DEF SameRange, CountInv, TypeOK
  <2>5. \A d \in Contexts : renewing'[d] # "no" => lock'[d] # "free"
    BY <2>1 DEF RangeInv, RenewalShape
  <2> QED BY <2>1, <2>2, <2>3, <2>4, <2>5, RangeNoSlot
<1>2. CASE ~Recreate(c)
  <2>1. UNCHANGED <<dbRange, req, renewing, lock, rangeID, nextTaskID>>
    BY <1>2 DEF Controller, Start, RequestStop, FinishStop, StopEngine
  <2>2. \A d \in Contexts : SameRange(d)
    BY <2>1 DEF SameRange, HasRange
  <2>3. \A d \in Contexts : renewing'[d] # "no" => lock'[d] # "free"
    BY <2>1 DEF RangeInv, RenewalShape
  <2> QED BY <2>1, <2>2, <2>3, RangeNoSlot
<1> QED BY <1>1, <1>2

LEMMA RangeAcquisition ==
  ASSUME CountInv, Loaded, RangeInv, NEW c \in Contexts, Acquisition(c)
  PROVE  RangeInv'
<1>1. CASE LoadShardMetadata(c) /\ rangeID[c] = NotLoaded
  <2>1. /\ UNCHANGED <<dbRange, req, renewing, lock, nextTaskID>>
        /\ rangeID' = [rangeID EXCEPT ![c] = dbRange]
    BY <1>1 DEF LoadShardMetadata
  <2>2. /\ rangeID'[c] = dbRange
        /\ \A d \in Contexts \ {c} : rangeID'[d] = rangeID[d]
    BY <2>1 DEF CountInv, TypeOK
  <2>3. \A d \in Contexts : HasRange(d)' <=> HasRange(d)
    BY <2>1 DEF HasRange
  <2>4. ~HasRange(c)
    BY <1>1 DEF Loaded
  <2>5. \A d \in Contexts : SameRange(d)
    BY <2>2, <2>3, <2>4 DEF SameRange, CountInv, TypeOK
  <2>6. \A d \in Contexts : renewing'[d] # "no" => lock'[d] # "free"
    BY <2>1 DEF RangeInv, RenewalShape
  <2>7. renewing[c] # "io"
    BY <1>1 DEF Loaded, RangeInv, RenewalShape
  <2> QED BY <2>1, <2>2, <2>5, <2>6, <2>7, RangeNoSlot
<1>2. CASE AcquireLock(c)
  <2>1. /\ UNCHANGED <<dbRange, req, rangeID, nextTaskID>>
        /\ lock[c] = "free"
        /\ lock' = [lock EXCEPT ![c] = "acquire"]
        /\ renewing' = [renewing EXCEPT ![c] = "drain"]
    BY <1>2 DEF AcquireLock
  <2>2. renewing[c] = "no"
    BY <2>1 DEF RangeInv, RenewalShape
  <2>3. \A d \in Contexts : renewing'[d] # "no" => lock'[d] # "free"
    BY <2>1 DEF RangeInv, RenewalShape, CountInv, TypeOK
  <2>4. \A d \in Contexts : renewing[d] = "io" => renewing'[d] = "io"
    BY <2>1, <2>2 DEF CountInv, TypeOK
  <2>5. \A d \in Contexts : SameRange(d)
    BY <2>1 DEF SameRange, HasRange
  <2> QED BY <2>1, <2>3, <2>4, <2>5, RangeNoSlot
<1>3. CASE UNCHANGED <<dbRange, req, renewing, lock, rangeID, nextTaskID>>
  <2>1. \A d \in Contexts : SameRange(d)
    BY <1>3 DEF SameRange, HasRange
  <2>2. \A d \in Contexts : renewing'[d] # "no" => lock'[d] # "free"
    BY <1>3 DEF RangeInv, RenewalShape
  <2> QED BY <1>3, <2>1, <2>2, RangeNoSlot
<1> QED BY <1>1, <1>2, <1>3 DEF Acquisition, LoadShardMetadata, LoadShardMetadataFails,
       AcquireRetry, AcquireExpires, CreateEngine, FinishAcquire

LEMMA RangeWrite ==
  ASSUME CountInv, RangeInv, NEW c \in Contexts, Write(c)
  PROVE  RangeInv'
<1>0. UNCHANGED <<dbRange, rangeID>>
  BY DEF Write, BeginWrite, SetTaskKey, TrackAndSend, HandleWriteError, RenewForKeys,
     GenerateTaskID
<1> DEFINE KeepsLocks ==
             /\ \A d \in Contexts : HasRange(d)' => HasRange(d)
             /\ \A d \in Contexts : renewing[d] = "io" => renewing'[d] = "io"
             /\ \A d \in Contexts : renewing'[d] # "no" => lock'[d] # "free"
<1>1. ASSUME NEW r \in Requests, BeginWrite(c, r) PROVE RangeInv'
  <2>1. KeepsLocks
    BY <1>1 DEF BeginWrite, HasRange, RangeInv, RenewalShape, CountInv, TypeOK
  <2> DEFINE new == [kind |-> "add", ctx |-> c, range |-> 0, tasks |-> {},
                     marks |-> NoMarks, phase |-> "keys", wire |-> "none", err |-> "nil"]
  <2>2. req' = [req EXCEPT ![r] = new] /\ new.kind # "renew"
    BY <1>1 DEF BeginWrite
  <2> HIDE DEF new
  <2> QED BY <1>0, <2>1, <2>2, RangeOneSlot
<1>2. ASSUME NEW r \in Requests, NEW cat \in Categories, NEW t \in 0..MaxTime,
             SetTaskKey(c, r, cat, t)
      PROVE  RangeInv'
  <2>1. KeepsLocks
    <3>1. \A d \in Contexts : HasRange(d)' => HasRange(d)
      BY <1>2 DEF SetTaskKey, HasRange, CountInv, RangeInitialized, TypeOK
    <3> QED BY <1>2, <3>1 DEF SetTaskKey, RangeInv, RenewalShape
  <2>2. PICK tasks : req' = [req EXCEPT ![r].tasks = tasks]
    BY <1>2 DEF SetTaskKey
  <2> DEFINE new == [req[r] EXCEPT !.tasks = tasks]
  <2>3. req' = [req EXCEPT ![r] = new]
    BY <2>2 DEF CountInv, TypeOK
  <2>4. new.kind # "renew"
    BY <1>2 DEF SetTaskKey, SettingKeys, CountInv, RequestShape, Shape, TypeOK, RequestType
  <2> HIDE DEF new
  <2> QED BY <1>0, <2>1, <2>3, <2>4, RangeOneSlot
<1>3. ASSUME NEW r \in Requests, TrackAndSend(c, r) PROVE RangeInv'
  <2>1. KeepsLocks
    <3>1. /\ UNCHANGED <<renewing, nextTaskID>> /\ renewing[c] = "no"
          /\ lock' = [lock EXCEPT ![c] = "free"]
      BY <1>3 DEF TrackAndSend
    <3> QED BY <3>1 DEF HasRange, RangeInv, RenewalShape, CountInv, TypeOK
  <2> DEFINE new == [req[r] EXCEPT !.range = rangeID[c], !.phase = "inflight",
                                   !.wire = "pending"]
  <2>2. req' = [req EXCEPT ![r] = new]
    BY <1>3 DEF TrackAndSend, CountInv, TypeOK
  <2>3. new.kind # "renew"
    BY <1>3 DEF TrackAndSend, SettingKeys, CountInv, RequestShape, Shape, TypeOK, RequestType
  <2> HIDE DEF new
  <2> QED BY <1>0, <2>1, <2>2, <2>3, RangeOneSlot
<1>4. ASSUME NEW r \in Requests, HandleWriteError(c, r) PROVE RangeInv'
  <2>1. KeepsLocks
    BY <1>4 DEF HandleWriteError, HasRange, RangeInv, RenewalShape
  <2>2. req' = [req EXCEPT ![r] = Finished(req[r])]
    BY <1>4 DEF HandleWriteError
  <2>3. Finished(req[r]).kind # "renew"
    BY <1>4 DEF HandleWriteError, Finished, NoRequest, CountInv, TypeOK, RequestType
  <2> QED BY <1>0, <2>1, <2>2, <2>3, RangeOneSlot
<1>5. CASE RenewForKeys(c) \/ GenerateTaskID(c)
  <2>1. req' = req
    BY <1>5 DEF RenewForKeys, GenerateTaskID
  <2>2. \A d \in Contexts : HasRange(d)' => HasRange(d)
    BY <1>5 DEF RenewForKeys, GenerateTaskID, HasRange, CountInv, RangeInitialized, TypeOK
  <2>3. renewing[c] = "no"
    BY <1>5 DEF RenewForKeys, GenerateTaskID, RangeInv, RenewalShape
  <2>4. /\ \A d \in Contexts : renewing[d] = "io" => renewing'[d] = "io"
        /\ \A d \in Contexts : renewing'[d] # "no" => lock'[d] # "free"
    <3>1. CASE UNCHANGED <<lock, renewing>>
      BY <3>1 DEF RangeInv, RenewalShape
    <3>2. CASE /\ renewing' = [renewing EXCEPT ![c] = "drain"]
               /\ \/ lock' = lock /\ lock[c] # "free"
                  \/ lock' = [lock EXCEPT ![c] = "id"]
      BY <2>3, <3>2 DEF RangeInv, RenewalShape, CountInv, TypeOK
    <3> QED BY <1>5, <3>1, <3>2 DEF RenewForKeys, GenerateTaskID
  <2>5. \A d \in Contexts : SameRange(d)
    BY <1>0, <2>2 DEF SameRange
  <2> QED BY <1>0, <2>1, <2>4, <2>5, RangeNoSlot
<1> QED BY <1>1, <1>2, <1>3, <1>4, <1>5 DEF Write

LEMMA RangeQueue ==
  ASSUME CountInv, RangeInv, NEW c \in Contexts, Queue(c)
  PROVE  RangeInv'
<1>0. UNCHANGED <<dbRange, rangeID, nextTaskID, renewing, lock>>
  BY DEF Queue, ReadNewRange, SetQueueState, SendUpdate, AbandonUpdate
<1>1. /\ \A d \in Contexts : HasRange(d)' => HasRange(d)
      /\ \A d \in Contexts : SameRange(d)
      /\ \A d \in Contexts : renewing'[d] # "no" => lock'[d] # "free"
  BY <1>0 DEF HasRange, SameRange, RangeInv, RenewalShape
<1>2. CASE UNCHANGED req
  BY <1>0, <1>1, <1>2, RangeNoSlot
<1>3. ASSUME NEW r \in Requests, NEW new, req' = [req EXCEPT ![r] = new], new.kind # "renew"
      PROVE  RangeInv'
  BY <1>0, <1>1, <1>3, RangeOneSlot
<1>4. ASSUME NEW cat \in Categories, ReadNewRange(c, cat) \/ SetQueueState(c, cat)
      PROVE  RangeInv'
  <2>1. ASSUME NEW r \in Requests,
               req' = [req EXCEPT ![r] =
                 [kind |-> "update", ctx |-> c, range |-> rangeID[c], tasks |-> {},
                  marks |-> [marks[c] EXCEPT ![cat] = readerMark[c][cat]],
                  phase |-> "queued", wire |-> "none", err |-> "nil"]]
        PROVE  RangeInv'
    <3> DEFINE new == [kind |-> "update", ctx |-> c, range |-> rangeID[c], tasks |-> {},
                       marks |-> [marks[c] EXCEPT ![cat] = readerMark[c][cat]],
                       phase |-> "queued", wire |-> "none", err |-> "nil"]
    <3>1. req' = [req EXCEPT ![r] = new] /\ new.kind # "renew"
      BY <2>1
    <3> HIDE DEF new
    <3> QED BY <1>3, <3>1
  <2> QED BY <1>2, <1>4, <2>1 DEF ReadNewRange, SetQueueState
<1>5. ASSUME NEW r \in Requests, SendUpdate(c, r) PROVE RangeInv'
  <2> DEFINE new == [req[r] EXCEPT !.phase = "inflight", !.wire = "pending"]
  <2>1. req' = [req EXCEPT ![r] = new]
    BY <1>5 DEF SendUpdate, CountInv, TypeOK
  <2>2. new.kind # "renew"
    BY <1>5 DEF SendUpdate, CountInv, RequestShape, Shape, TypeOK, RequestType
  <2> HIDE DEF new
  <2> QED BY <1>3, <2>1, <2>2
<1>6. ASSUME NEW r \in Requests, AbandonUpdate(c, r) PROVE RangeInv'
  <2>1. req' = [req EXCEPT ![r] = NoRequest]
    BY <1>6 DEF AbandonUpdate
  <2>2. NoRequest.kind # "renew"
    BY DEF NoRequest
  <2> QED BY <1>3, <2>1, <2>2
<1> QED BY <1>4, <1>5, <1>6 DEF Queue

-----------------------------------------------------------------------------
(* The renewal and the store                                               *)

LEMMA RangeSendRenew ==
  ASSUME CountInv, RangeInv, NEW c \in Contexts, NEW r \in Requests, SendRenew(c, r)
  PROVE  RangeInv'
<1> DEFINE new == [kind |-> "renew", ctx |-> c, range |-> rangeID[c], tasks |-> {},
                   marks |-> marks[c], phase |-> "inflight", wire |-> "pending", err |-> "nil"]
<1>1. /\ req'[r] = new
      /\ \A q \in Requests : q # r => req'[q] = req[q]
  BY DEF SendRenew, CountInv, TypeOK
<1>2. /\ new.kind = "renew" /\ new.phase = "inflight" /\ new.ctx = c /\ new.range = rangeID[c]
      /\ Waited(new) /\ ~Granted(new)
  BY DEF Waited, Granted
<1> HIDE DEF new
<1>3. /\ renewing'[c] = "io" /\ renewing[c] = "drain"
      /\ \A d \in Contexts : d # c => renewing'[d] = renewing[d]
      /\ UNCHANGED <<dbRange, rangeID, nextTaskID, lock>>
  BY DEF SendRenew, CountInv, TypeOK
<1>4. \A q \in Requests : Waited(req[q]) => /\ req[q].ctx \in Contexts
                                            /\ renewing[req[q].ctx] = "io"
                                            /\ req[q].ctx # c
  BY <1>3 DEF CountInv, RequestShape, Shape, RangeInv, RenewalShape, Waited
<1>5. \A q \in Requests : /\ Granted(req[q])' <=> Granted(req'[q])
                          /\ Waited(req[q])' <=> Waited(req'[q])
  BY DEF Granted, Waited
<1>6. RenewalShape'
  <2>1. \A d \in Contexts : renewing'[d] # "no" => lock'[d] # "free"
    BY <1>3 DEF RangeInv, RenewalShape
  <2>2. ASSUME NEW q \in Requests
        PROVE  /\ req'[q].kind = "renew" => req'[q].phase \in {"inflight", "answered", "zombie"}
               /\ Granted(req'[q]) => Waited(req'[q])
               /\ Waited(req'[q]) => /\ renewing'[req'[q].ctx] = "io"
                                     /\ rangeID'[req'[q].ctx] = req'[q].range
    <3>1. CASE q = r
      BY <1>1, <1>2, <1>3, <3>1
    <3>2. CASE q # r
      BY <1>1, <1>3, <1>4, <3>2 DEF RangeInv, RenewalShape
    <3> QED BY <3>1, <3>2
  <2>3. \A p, q \in Requests :
           Waited(req'[p]) /\ Waited(req'[q]) /\ req'[p].ctx = req'[q].ctx => p = q
    BY <1>1, <1>2, <1>4 DEF RangeInv, RenewalShape
  <2> QED BY <1>5, <2>1, <2>2, <2>3 DEF RenewalShape
<1>7. \A q \in Requests : Granted(req'[q]) => Granted(req[q]) /\ req'[q].range = req[q].range
  BY <1>1, <1>2
<1>8. RangeBounded'
  BY <1>3, <1>5, <1>7 DEF RangeInv, RangeBounded
<1>9. RangeHeldOnce'
  <2>1. \A d \in Contexts : HasRange(d)' <=> HasRange(d)
    BY <1>3 DEF HasRange
  <2> QED BY <1>3, <1>5, <1>7, <2>1 DEF RangeInv, RangeHeldOnce
<1> QED BY <1>6, <1>8, <1>9 DEF RangeInv

\* The range ID of the granted renewal becomes that of the context.
LEMMA RangeRenewSucceeded ==
  ASSUME CountInv, RangeInv, NEW c \in Contexts, NEW r \in Requests, RenewSucceeded(c, r)
  PROVE  RangeInv'
<1>1. /\ req'[r] = NoRequest
      /\ \A q \in Requests : q # r => req'[q] = req[q]
  BY DEF RenewSucceeded, CountInv, TypeOK
<1>2. ~Waited(NoRequest) /\ ~Granted(NoRequest) /\ NoRequest.kind # "renew"
  BY DEF Waited, Granted, NoRequest
<1>3. /\ rangeID'[c] = rangeID[c] + 1
      /\ renewing'[c] = "no"
      /\ \A d \in Contexts : d # c => /\ rangeID'[d] = rangeID[d]
                                      /\ nextTaskID'[d] = nextTaskID[d]
                                      /\ renewing'[d] = renewing[d] /\ lock'[d] = lock[d]
      /\ dbRange' = dbRange
  BY DEF RenewSucceeded, CountInv, TypeOK
<1>4. Waited(req[r]) /\ Granted(req[r]) /\ req[r].ctx = c /\ req[r].range = rangeID[c]
  BY DEF RenewSucceeded, Waited, Granted, RangeInv, RenewalShape
<1>5. \A q \in Requests : q # r => /\ Waited(req[q]) => req[q].ctx \in Contexts \ {c}
                                   /\ Granted(req[q]) => req[q].range # rangeID[c]
  BY <1>4 DEF CountInv, RequestShape, Shape, RangeInv, RenewalShape, RangeHeldOnce, Waited
<1>6. \A q \in Requests : /\ Granted(req[q])' <=> Granted(req'[q])
                          /\ Waited(req[q])' <=> Waited(req'[q])
  BY DEF Granted, Waited
<1>7. RenewalShape'
  <2>1. \A d \in Contexts : renewing'[d] # "no" => lock'[d] # "free"
    BY <1>3 DEF RangeInv, RenewalShape
  <2>2. ASSUME NEW q \in Requests
        PROVE  /\ req'[q].kind = "renew" => req'[q].phase \in {"inflight", "answered", "zombie"}
               /\ Granted(req'[q]) => Waited(req'[q])
               /\ Waited(req'[q]) => /\ renewing'[req'[q].ctx] = "io"
                                     /\ rangeID'[req'[q].ctx] = req'[q].range
    BY <1>1, <1>2, <1>3, <1>5 DEF RangeInv, RenewalShape
  <2>3. \A p, q \in Requests :
           Waited(req'[p]) /\ Waited(req'[q]) /\ req'[p].ctx = req'[q].ctx => p = q
    BY <1>1, <1>2 DEF RangeInv, RenewalShape
  <2> QED BY <1>6, <2>1, <2>2, <2>3 DEF RenewalShape
<1>8. \A q \in Requests : Granted(req'[q]) => /\ q # r /\ req'[q] = req[q] /\ Granted(req[q])
                                              /\ req[q].range # rangeID[c]
  BY <1>1, <1>2, <1>5
<1>9. RangeBounded'
  BY <1>3, <1>4, <1>6, <1>8 DEF RangeInv, RangeBounded
<1>10. RangeHeldOnce'
  <2>1. \A d \in Contexts : d # c => (HasRange(d)' <=> HasRange(d))
    BY <1>3 DEF HasRange
  <2>2. \A d \in Contexts : HasRange(d) => rangeID[d] # rangeID[c] + 1
    BY <1>4 DEF RangeInv, RangeHeldOnce
  <2>3. rangeID[c] \in Int /\ \A q \in Requests : req[q].range \in Int
    BY DEF CountInv, TypeOK, RequestType
  <2>4. \A d, e \in Contexts : HasRange(d)' /\ HasRange(e)' /\ rangeID'[d] = rangeID'[e] => d = e
    BY <1>3, <2>1, <2>2 DEF RangeInv, RangeHeldOnce
  <2>5. \A d \in Contexts, q \in Requests :
           HasRange(d)' /\ Granted(req'[q]) => rangeID'[d] # req'[q].range + 1
    BY <1>3, <1>8, <2>1, <2>3 DEF RangeInv, RangeHeldOnce
  <2>6. \A p, q \in Requests :
           Granted(req'[p]) /\ Granted(req'[q]) /\ req'[p].range = req'[q].range => p = q
    BY <1>8 DEF RangeInv, RangeHeldOnce
  <2> QED BY <1>6, <2>4, <2>5, <2>6 DEF RangeHeldOnce
<1> QED BY <1>7, <1>9, <1>10 DEF RangeInv

LEMMA RangeRenewFailed ==
  ASSUME CountInv, RangeInv, NEW c \in Contexts, NEW r \in Requests, RenewFailed(c, r)
  PROVE  RangeInv'
<1>1. /\ UNCHANGED <<dbRange, rangeID, nextTaskID>>
      /\ renewing'[c] = "no" /\ lock'[c] = "free"
      /\ \A d \in Contexts : d # c => renewing'[d] = renewing[d] /\ lock'[d] = lock[d]
  BY DEF RenewFailed, CountInv, TypeOK
<1>2. \A q \in Requests : req'[q] = IF q = r THEN Finished(req[r])
                                    ELSE IF q \in SettingKeys(c) THEN NoRequest
                                    ELSE req[q]
  BY DEF RenewFailed
<1>3. NoRequest.kind # "renew"
  BY DEF NoRequest
<1>4. req[r].kind = "renew" /\ Waited(req[r]) /\ req[r].ctx = c /\ req[r].err # "nil"
  BY DEF RenewFailed, Waited
<1>5. SameRenewal(req[r], Finished(req[r])) /\ ~Waited(Finished(req[r]))
  <2>1. CASE req[r].wire = "pending"
    <3>1. Finished(req[r]) = [req[r] EXCEPT !.phase = "zombie"]
      BY <2>1 DEF Finished
    <3>2. req[r] \in RequestType
      BY DEF CountInv, TypeOK
    <3> QED BY <2>1, <3>1, <3>2 DEF SameRenewal, Waited, Granted, RequestType
  <2>2. CASE req[r].wire # "pending"
    BY <1>3, <2>2 DEF Finished, SameRenewal, Waited
  <2> QED BY <2>1, <2>2
<1>6. \A q \in Requests : SameRenewal(req[q], req'[q])
  BY <1>2, <1>3, <1>5 DEF SameRenewal, RangeInv, RenewalShape
<1>7. \A q \in Requests : Waited(req'[q]) => /\ req[q].ctx \in Contexts \ {c}
                                             /\ renewing[req[q].ctx] = "io"
  <2>1. \A q \in Requests : Waited(req'[q]) => q # r /\ Waited(req[q])
    BY <1>2, <1>3, <1>5 DEF Waited
  <2> QED BY <1>4, <2>1 DEF CountInv, RequestShape, Shape, RangeInv, RenewalShape, Waited
<1>8. \A q \in Requests : SameWait(q)
  BY <1>1, <1>7 DEF SameWait
<1>9. \A d \in Contexts : SameRange(d) /\ (renewing'[d] # "no" => lock'[d] # "free")
  BY <1>1 DEF SameRange, HasRange, RangeInv, RenewalShape
<1> QED BY <1>1, <1>6, <1>8, <1>9, RangeQuiet

\* The store grants the next range ID to the one renewal that expects that of
\* the row.
LEMMA RangeGranted ==
  ASSUME CountInv, RangeInv, NEW r \in Requests, ApplyWrite(r), req[r].kind = "renew"
  PROVE  RangeInv'
<1>1. /\ req[r].range = dbRange /\ dbRange' = dbRange + 1 /\ dbRange \in Nat
      /\ UNCHANGED <<rangeID, nextTaskID, renewing, lock>>
  BY DEF ApplyWrite, Accepted, CountInv, TypeOK
<1>2. \A q \in Requests :
         req'[q] = IF q = r /\ req[q].phase # "zombie" THEN [req[q] EXCEPT !.wire = "applied"]
                   ELSE IF q = r \/ req[q].phase = "zombie" THEN NoRequest
                   ELSE req[q]
  <2>1. dbRange' # dbRange
    BY <1>1
  <2> QED BY <2>1 DEF ApplyWrite
<1>3. ~Waited(NoRequest) /\ ~Granted(NoRequest) /\ NoRequest.kind # "renew"
  BY DEF Waited, Granted, NoRequest
<1> DEFINE new == [req[r] EXCEPT !.wire = "applied"]
<1>4. /\ new.kind = "renew" /\ new.ctx = req[r].ctx /\ new.range = dbRange
      /\ new.phase = req[r].phase
      /\ Waited(new) <=> Waited(req[r])
  <2>1. req[r] \in RequestType
    BY DEF CountInv, TypeOK
  <2> QED BY <1>1, <2>1 DEF Waited, RequestType
<1>5. req'[r] = IF req[r].phase # "zombie" THEN new ELSE NoRequest
  BY <1>2
<1> HIDE DEF new
<1>6. \A q \in Requests : q # r => /\ Waited(req'[q]) => Waited(req[q]) /\ req'[q] = req[q]
                                   /\ Granted(req'[q]) => Granted(req[q]) /\ req'[q] = req[q]
                                   /\ req'[q].kind = "renew" => req'[q] = req[q]
  BY <1>2, <1>3
<1>7. /\ req'[r].kind = "renew" => req'[r] = new /\ Waited(req'[r]) /\ Waited(req[r])
      /\ Waited(req'[r]) \/ Granted(req'[r]) => req'[r] = new /\ Waited(req'[r]) /\ Waited(req[r])
  <2>1. req[r].phase # "zombie" => Waited(req[r])
    BY DEF RangeInv, RenewalShape, Waited
  <2> QED BY <1>3, <1>4, <1>5, <2>1
<1>8. \A q \in Requests : /\ Granted(req[q])' <=> Granted(req'[q])
                          /\ Waited(req[q])' <=> Waited(req'[q])
  BY DEF Granted, Waited
<1>9. RenewalShape'
  <2>1. \A d \in Contexts : renewing'[d] # "no" => lock'[d] # "free"
    BY <1>1 DEF RangeInv, RenewalShape
  <2>2. ASSUME NEW q \in Requests
        PROVE  /\ req'[q].kind = "renew" => req'[q].phase \in {"inflight", "answered", "zombie"}
               /\ Granted(req'[q]) => Waited(req'[q])
               /\ Waited(req'[q]) => /\ renewing'[req'[q].ctx] = "io"
                                     /\ rangeID'[req'[q].ctx] = req'[q].range
    <3>1. CASE q = r
      BY <1>1, <1>4, <1>7, <3>1 DEF RangeInv, RenewalShape
    <3>2. CASE q # r
      BY <1>1, <1>6, <3>2 DEF RangeInv, RenewalShape
    <3> QED BY <3>1, <3>2
  <2>3. \A q \in Requests : Waited(req'[q]) => Waited(req[q]) /\ req'[q].ctx = req[q].ctx
    BY <1>4, <1>6, <1>7
  <2>4. \A p, q \in Requests :
           Waited(req'[p]) /\ Waited(req'[q]) /\ req'[p].ctx = req'[q].ctx => p = q
    BY <2>3 DEF RangeInv, RenewalShape
  <2> QED BY <1>8, <2>1, <2>2, <2>4 DEF RenewalShape
<1>10. \A q \in Requests : Granted(req'[q]) => \/ q = r /\ req'[q].range = dbRange
                                              \/ /\ q # r /\ Granted(req[q])
                                                 /\ req'[q].range = req[q].range
                                                 /\ req[q].range < dbRange
  <2>1. \A q \in Requests : Granted(req[q]) => req[q].range < dbRange
    BY <1>1 DEF RangeInv, RangeBounded, CountInv, TypeOK, RequestType
  <2> QED BY <1>4, <1>6, <1>7, <2>1
<1>11. RangeBounded'
  <2>1. \A c \in Contexts : rangeID[c] \in Int
    BY DEF CountInv, TypeOK
  <2>2. \A q \in Requests : req[q].range \in Int
    BY DEF CountInv, TypeOK, RequestType
  <2>3. \A q \in Requests : Granted(req'[q]) => req'[q].range + 1 <= dbRange'
    BY <1>1, <1>10, <2>2
  <2> QED BY <1>1, <1>8, <2>1, <2>3 DEF RangeInv, RangeBounded
<1>12. RangeHeldOnce'
  <2>1. \A d \in Contexts : HasRange(d)' <=> HasRange(d)
    BY <1>1 DEF HasRange
  <2>2. \A d \in Contexts : rangeID[d] <= dbRange /\ rangeID[d] \in Int
    BY DEF RangeInv, RangeBounded, CountInv, TypeOK
  <2>3. \A d \in Contexts, q \in Requests :
           HasRange(d) /\ Granted(req'[q]) => rangeID'[d] # req'[q].range + 1
    BY <1>1, <1>10, <2>2 DEF RangeInv, RangeHeldOnce
  <2>4. \A p, q \in Requests :
           Granted(req'[p]) /\ Granted(req'[q]) /\ req'[p].range = req'[q].range => p = q
    BY <1>1, <1>10 DEF RangeInv, RangeHeldOnce
  <2> QED BY <1>1, <1>8, <2>1, <2>3, <2>4 DEF RangeInv, RangeHeldOnce
<1> QED BY <1>9, <1>11, <1>12 DEF RangeInv

LEMMA RangeStore ==
  ASSUME CountInv, RangeInv, NEW r \in Requests, ApplyWrite(r) \/ DropWrite(r) \/ Answer(r)
  PROVE  RangeInv'
<1>1. UNCHANGED <<rangeID, nextTaskID, renewing, lock>>
  BY DEF ApplyWrite, DropWrite, Answer
<1>2. /\ \A c \in Contexts : HasRange(c)' => HasRange(c)
      /\ \A c \in Contexts : SameRange(c)
      /\ \A c \in Contexts : renewing'[c] # "no" => lock'[c] # "free"
  BY <1>1 DEF HasRange, SameRange, RangeInv, RenewalShape
<1>3. req[r] \in RequestType
  BY DEF CountInv, TypeOK
<1>4. CASE ApplyWrite(r) /\ req[r].kind = "renew"
  BY <1>4, RangeGranted
<1>5. CASE ApplyWrite(r) /\ req[r].kind # "renew"
  <2> DEFINE new == IF req[r].phase # "zombie" THEN [req[r] EXCEPT !.wire = "applied"]
                    ELSE NoRequest
  <2>1. dbRange' = dbRange
    BY <1>5 DEF ApplyWrite
  <2>2. req' = [req EXCEPT ![r] = new]
    BY <1>5, <2>1 DEF ApplyWrite, CountInv, TypeOK
  <2>3. new.kind # "renew"
    BY <1>3, <1>5 DEF NoRequest, RequestType
  <2> HIDE DEF new
  <2> QED BY <1>1, <1>2, <2>1, <2>2, <2>3, RangeOneSlot
<1>6. CASE DropWrite(r)
  <2>1. req' = [req EXCEPT ![r] = NoRequest] /\ dbRange' = dbRange
    BY <1>6 DEF DropWrite
  <2>2. NoRequest.kind # "renew"
    BY DEF NoRequest
  <2> QED BY <1>1, <1>2, <2>1, <2>2, RangeOneSlot
<1>7. CASE Answer(r)
  <2>1. PICK err \in Answers(req[r]), wire \in {"none", "pending"} :
           req' = [req EXCEPT ![r].phase = "answered", ![r].err = err, ![r].wire = wire]
    BY <1>7 DEF Answer
  <2> DEFINE new == [req[r] EXCEPT !.phase = "answered", !.err = err, !.wire = wire]
  <2>2. /\ req'[r] = new
        /\ \A q \in Requests : q # r => req'[q] = req[q]
        /\ dbRange' = dbRange /\ req[r].phase = "inflight"
    BY <1>7, <2>1 DEF Answer, CountInv, TypeOK
  <2>3. err = "nil" => req[r].wire = "applied"
    BY DEF Answers
  <2>4. SameRenewal(req[r], new)
    BY <1>3, <2>2, <2>3 DEF SameRenewal, Waited, Granted, RequestType
  <2> HIDE DEF new
  <2>5. \A q \in Requests : SameRenewal(req[q], req'[q])
    BY <2>2, <2>4 DEF SameRenewal, RangeInv, RenewalShape
  <2>6. \A q \in Requests : SameWait(q)
    BY <1>1, <2>5 DEF SameWait, SameRenewal, Waited, RangeInv, RenewalShape
  <2> QED BY <1>2, <2>2, <2>5, <2>6, RangeQuiet
<1> QED BY <1>4, <1>5, <1>6, <1>7

LEMMA RangeNext ==
  ASSUME CountInv, Loaded, RangeInv, Next
  PROVE  RangeInv'
<1>1. ASSUME NEW c \in Contexts, Renewal(c) PROVE RangeInv'
  BY <1>1, RangeSendRenew, RangeRenewSucceeded, RangeRenewFailed DEF Renewal
<1>2. ASSUME NEW c \in Contexts, Tick(c) PROVE RangeInv'
  <2>1. UNCHANGED <<dbRange, req, renewing, lock, rangeID, nextTaskID>>
    BY <1>2 DEF Tick
  <2>2. \A d \in Contexts : SameRange(d) /\ (renewing'[d] # "no" => lock'[d] # "free")
    BY <2>1 DEF SameRange, HasRange, RangeInv, RenewalShape
  <2> QED BY <2>1, <2>2, RangeNoSlot
<1> QED BY <1>1, <1>2, RangeController, RangeAcquisition, RangeWrite, RangeQueue, RangeStore
        DEF Next, Store

LEMMA RangeInit == Init => Loaded /\ RangeInv
<1> SUFFICES ASSUME Init PROVE Loaded /\ RangeInv
  OBVIOUS
<1>1. \A r \in Requests : /\ req[r].kind # "renew"
                          /\ ~Waited(req[r]) /\ ~Granted(req[r])
  BY DEF Init, NoRequest, Waited, Granted
<1>2. \A c \in Contexts : ~HasRange(c) /\ rangeID[c] <= dbRange
  BY DEF Init, HasRange
<1>3. Loaded
  BY <1>2 DEF Init, Loaded
<1> QED BY <1>1, <1>2, <1>3 DEF Init, RangeInv, RenewalShape, RangeBounded, RangeHeldOnce

\* The inductive invariant of fencing.
FencingInv == CountInv /\ Loaded /\ RangeInv

LEMMA FencingNext ==
  ASSUME FencingInv, [Next]_vars
  PROVE  FencingInv'
<1>1. CASE Next
  BY <1>1, TypeNext, CountNext, RangeInitializedNext, LoadedNext, RangeNext
     DEF FencingInv, CountInv
<1>2. CASE UNCHANGED vars
  <2>1. CountInv'
    BY <1>2, CountStutter DEF FencingInv
  <2>2. Loaded'
    BY <1>2 DEF FencingInv, vars, Loaded, HasRange
  <2>3. RangeInv'
    BY <1>2 DEF FencingInv, vars, RangeInv, RenewalShape, RangeBounded, RangeHeldOnce,
       Waited, Granted, HasRange
  <2> QED BY <2>1, <2>2, <2>3 DEF FencingInv
<1> QED BY <1>1, <1>2

THEOREM FencingInvariant == Spec => []FencingInv
<1>1. Init => FencingInv
  BY CountInit, RangeInit DEF FencingInv
<1> QED BY <1>1, FencingNext, PTL DEF Spec

\* Two contexts of a shard never hold the range ID that the store accepts,
\* however many are alive and whatever happens to their calls
\* (context_impl.go:1169-1213).
THEOREM FencingCorrect == Spec => []SingleOwner
<1>1. FencingInv => SingleOwner
  BY DEF FencingInv, RangeInv, RangeHeldOnce, SingleOwner
<1> QED BY <1>1, FencingInvariant, PTL

-----------------------------------------------------------------------------
(* Task IDs                                                                *)

\* The IDs that generateTaskID can still return from the range of c, and those
\* of a range that a granted renewal brings.
CanGenerate(c, id) ==
    HasRange(c) /\ nextTaskID[c] <= id /\ id < EndTaskID(rangeID[c])
CanStart(q, id) ==
    Granted(q) /\ FirstTaskID(q.range + 1) <= id /\ id < EndTaskID(q.range + 1)

\* The generator stays inside of the range.
GeneratorInRange ==
    \A c \in Contexts : HasRange(c) =>
        /\ FirstTaskID(rangeID[c]) <= nextTaskID[c]
        /\ nextTaskID[c] <= exclusiveMaxTaskID[c]
        /\ exclusiveMaxTaskID[c] = EndTaskID(rangeID[c])

\* An ID in use is never handed out again.
IDsFresh ==
    \A r \in Requests : \A t \in req[r].tasks :
        /\ t.id < EndTaskID(dbRange)
        /\ \A c \in Contexts : ~CanGenerate(c, t.id)
        /\ \A q \in Requests : ~CanStart(req[q], t.id)

IDInv == GeneratorInRange /\ IDsFresh /\ UniqueTaskIDs

-----------------------------------------------------------------------------
(* Ranges                                                                  *)

LEMMA RangesDisjoint ==
  ASSUME NEW m \in Int, NEW n \in Int, m < n
  PROVE  /\ FirstTaskID(m) \in Int /\ EndTaskID(m) \in Int
         /\ FirstTaskID(n) \in Int /\ EndTaskID(n) \in Int
         /\ EndTaskID(m) <= FirstTaskID(n)
<1>1. RangeSize \in Nat
  BY ConstantsAssumption DEF ConstantsAssumption
<1>2. PICK k \in Nat : n = m + 1 + k
  <2>1. n - m - 1 \in Nat /\ n = m + 1 + (n - m - 1)
    OBVIOUS
  <2> QED BY <2>1
<1>3. n * RangeSize = (m + 1) * RangeSize + k * RangeSize
  BY <1>1, <1>2
<1>4. k * RangeSize \in Nat /\ (m + 1) * RangeSize \in Int /\ m * RangeSize \in Int
      /\ (n + 1) * RangeSize \in Int
  BY <1>1
<1> QED BY <1>3, <1>4 DEF FirstTaskID, EndTaskID

LEMMA RangeBounds ==
  ASSUME NEW n \in Int
  PROVE  /\ FirstTaskID(n) \in Int /\ EndTaskID(n) \in Int
         /\ FirstTaskID(n) + 1 <= EndTaskID(n)
         /\ n \in Nat => FirstTaskID(n) \in Nat
<1>1. RangeSize \in Nat /\ RangeSize >= 1
  BY ConstantsAssumption DEF ConstantsAssumption
<1>2. (n + 1) * RangeSize = n * RangeSize + RangeSize
  BY <1>1
<1>3. n * RangeSize \in Int /\ (n \in Nat => n * RangeSize \in Nat)
  BY <1>1
<1> QED BY <1>1, <1>2, <1>3 DEF FirstTaskID, EndTaskID

\* The end of the ranges moves up with the range ID of the row.
LEMMA EndMonotone ==
  ASSUME NEW m \in Int, NEW n \in Int, m <= n
  PROVE  EndTaskID(m) <= EndTaskID(n) /\ EndTaskID(m) \in Int /\ EndTaskID(n) \in Int
<1>1. CASE m = n
  BY <1>1, RangeBounds
<1>2. CASE m < n
  BY <1>2, RangesDisjoint, RangeBounds
<1> QED BY <1>1, <1>2

\* The types that the arguments below need.
LEMMA IDTypes ==
  ASSUME TypeOK
  PROVE  /\ dbRange \in Nat
         /\ \A c \in Contexts : /\ rangeID[c] \in Int /\ nextTaskID[c] \in Int
                                /\ exclusiveMaxTaskID[c] \in Int
         /\ \A r \in Requests : /\ req[r].range \in Int
                                /\ \A t \in req[r].tasks : t.id \in Nat
<1>1. \A r \in Requests : req[r].range \in Nat \cup {NotLoaded} /\ req[r].tasks \subseteq Tasks
  BY DEF TypeOK, RequestType
<1> QED BY <1>1 DEF TypeOK, Tasks

-----------------------------------------------------------------------------
(* Steps that give no task its ID                                          *)

\* No task is added to a call and no range is granted to it.
SameIDs(old, new) ==
    /\ new.tasks \subseteq old.tasks
    /\ Granted(new) => Granted(old) /\ new.range = old.range

LEMMA IDQuiet ==
  ASSUME TypeOK, TypeOK', IDInv, dbRange <= dbRange',
         \A r \in Requests : req'[r].tasks \subseteq req[r].tasks,
         \A c \in Contexts, id \in Nat :
            CanGenerate(c, id)' => CanGenerate(c, id) \/ \E q \in Requests : CanStart(req[q], id),
         \A q \in Requests, id \in Nat :
            CanStart(req'[q], id) => CanStart(req[q], id) \/ EndTaskID(dbRange) <= id
  PROVE  IDsFresh' /\ UniqueTaskIDs'
<1>1. EndTaskID(dbRange) <= EndTaskID(dbRange')
      /\ EndTaskID(dbRange) \in Int /\ EndTaskID(dbRange') \in Int
  BY EndMonotone, IDTypes DEF TypeOK
<1>2. UniqueTaskIDs'
  BY DEF IDInv, UniqueTaskIDs
<1>3. ASSUME NEW r \in Requests, NEW t \in req'[r].tasks
      PROVE  /\ t.id < EndTaskID(dbRange')
             /\ \A c \in Contexts : ~CanGenerate(c, t.id)'
             /\ \A q \in Requests : ~CanStart(req'[q], t.id)
  <2>1. /\ t.id \in Nat /\ t.id < EndTaskID(dbRange)
        /\ \A c \in Contexts : ~CanGenerate(c, t.id)
        /\ \A q \in Requests : ~CanStart(req[q], t.id)
    BY <1>3, IDTypes DEF IDInv, IDsFresh
  <2> QED BY <1>1, <2>1
<1>4. \A q \in Requests : \A id : CanStart(req[q], id)' <=> CanStart(req'[q], id)
  BY DEF CanStart, Granted, FirstTaskID, EndTaskID
<1>5. EndTaskID(dbRange)' = EndTaskID(dbRange')
  BY DEF EndTaskID
<1>6. IDsFresh'
  BY <1>3, <1>4, <1>5 DEF IDsFresh
<1> QED BY <1>2, <1>6

\* A step that leaves the generators and the range IDs in use alone as well.
LEMMA IDSlots ==
  ASSUME TypeOK, TypeOK', IDInv, dbRange' = dbRange,
         \A r \in Requests : SameIDs(req[r], req'[r]),
         UNCHANGED exclusiveMaxTaskID,
         \A c \in Contexts : HasRange(c)' =>
            /\ HasRange(c) /\ rangeID'[c] = rangeID[c]
            /\ \/ nextTaskID'[c] = nextTaskID[c]
               \/ /\ nextTaskID'[c] = nextTaskID[c] + 1
                  /\ nextTaskID[c] # exclusiveMaxTaskID[c]
  PROVE  IDInv'
<1>1. GeneratorInRange'
  <2>1. ASSUME NEW c \in Contexts, HasRange(c)'
        PROVE  /\ FirstTaskID(rangeID'[c]) <= nextTaskID'[c]
               /\ nextTaskID'[c] <= exclusiveMaxTaskID'[c]
               /\ exclusiveMaxTaskID'[c] = EndTaskID(rangeID'[c])
    <3>1. FirstTaskID(rangeID[c]) \in Int
      BY RangeBounds, IDTypes
    <3> QED BY <2>1, <3>1, IDTypes DEF IDInv, GeneratorInRange
  <2> QED BY <2>1 DEF GeneratorInRange, FirstTaskID, EndTaskID
<1>2. \A c \in Contexts, id \in Nat : CanGenerate(c, id)' => CanGenerate(c, id)
  <2>1. ASSUME NEW c \in Contexts, NEW id \in Nat, CanGenerate(c, id)'
        PROVE  CanGenerate(c, id)
    <3>1. HasRange(c)' /\ nextTaskID'[c] <= id /\ id < EndTaskID(rangeID'[c])
      BY <2>1 DEF CanGenerate, EndTaskID
    <3>2. nextTaskID[c] <= nextTaskID'[c] /\ nextTaskID[c] \in Int /\ nextTaskID'[c] \in Int
      BY <3>1, IDTypes
    <3> QED BY <3>1, <3>2 DEF CanGenerate
  <2> QED BY <2>1
<1>3. \A q \in Requests, id \in Nat : CanStart(req'[q], id) => CanStart(req[q], id)
  BY DEF SameIDs, CanStart
<1>4. \A r \in Requests : req'[r].tasks \subseteq req[r].tasks
  BY DEF SameIDs
<1>5. dbRange <= dbRange'
  BY DEF TypeOK
<1> QED BY <1>1, <1>2, <1>3, <1>4, <1>5, IDQuiet DEF IDInv

LEMMA SameIDsSame == \A q : SameIDs(q, q)
  BY DEF SameIDs

LEMMA SameIDsNoRequest == \A q : SameIDs(q, NoRequest)
  BY DEF SameIDs, NoRequest, Granted

LEMMA SameIDsFinished ==
  ASSUME NEW q \in RequestType
  PROVE  SameIDs(q, Finished(q))
<1>1. CASE q.wire = "pending"
  <2>1. Finished(q) = [q EXCEPT !.phase = "zombie"]
    BY <1>1 DEF Finished
  <2> QED BY <1>1, <2>1 DEF SameIDs, Granted, RequestType
<1>2. CASE q.wire # "pending"
  BY <1>2, SameIDsNoRequest DEF Finished
<1> QED BY <1>1, <1>2

LEMMA SameIDsOneSlot ==
  ASSUME TypeOK, NEW r \in Requests, NEW new, req' = [req EXCEPT ![r] = new],
         SameIDs(req[r], new)
  PROVE  \A q \in Requests : SameIDs(req[q], req'[q])
  BY SameIDsSame DEF TypeOK

LEMMA SlotsRenewal ==
  ASSUME TypeOK, NEW c \in Contexts, Renewal(c)
  PROVE  \A q \in Requests : SameIDs(req[q], req'[q])
<1>1. ASSUME NEW r \in Requests, SendRenew(c, r)
      PROVE  \A q \in Requests : SameIDs(req[q], req'[q])
  <2> DEFINE new == [kind |-> "renew", ctx |-> c, range |-> rangeID[c], tasks |-> {},
                     marks |-> marks[c], phase |-> "inflight", wire |-> "pending",
                     err |-> "nil"]
  <2>1. req' = [req EXCEPT ![r] = new]
    BY <1>1 DEF SendRenew
  <2>2. SameIDs(req[r], new)
    BY DEF SameIDs, Granted
  <2> HIDE DEF new
  <2> QED BY <2>1, <2>2, SameIDsOneSlot
<1>2. ASSUME NEW r \in Requests, RenewSucceeded(c, r)
      PROVE  \A q \in Requests : SameIDs(req[q], req'[q])
  BY <1>2, SameIDsNoRequest, SameIDsOneSlot DEF RenewSucceeded
<1>3. ASSUME NEW r \in Requests, RenewFailed(c, r)
      PROVE  \A q \in Requests : SameIDs(req[q], req'[q])
  <2>1. \A q \in Requests : req'[q] = IF q = r THEN Finished(req[r])
                                      ELSE IF q \in SettingKeys(c) THEN NoRequest
                                      ELSE req[q]
    BY <1>3 DEF RenewFailed
  <2>2. SameIDs(req[r], Finished(req[r]))
    BY SameIDsFinished DEF TypeOK
  <2> QED BY <2>1, <2>2, SameIDsSame, SameIDsNoRequest
<1> QED BY <1>1, <1>2, <1>3 DEF Renewal

LEMMA SlotsWrite ==
  ASSUME TypeOK, NEW c \in Contexts, Write(c),
         \A r \in Requests, cat \in Categories, t \in 0..MaxTime : ~SetTaskKey(c, r, cat, t)
  PROVE  \A q \in Requests : SameIDs(req[q], req'[q])
<1>1. ASSUME NEW r \in Requests, BeginWrite(c, r)
      PROVE  \A q \in Requests : SameIDs(req[q], req'[q])
  <2> DEFINE new == [kind |-> "add", ctx |-> c, range |-> 0, tasks |-> {},
                     marks |-> NoMarks, phase |-> "keys", wire |-> "none", err |-> "nil"]
  <2>1. req' = [req EXCEPT ![r] = new]
    BY <1>1 DEF BeginWrite
  <2>2. SameIDs(req[r], new)
    BY DEF SameIDs, Granted
  <2> HIDE DEF new
  <2> QED BY <2>1, <2>2, SameIDsOneSlot
<1>2. ASSUME NEW r \in Requests, TrackAndSend(c, r)
      PROVE  \A q \in Requests : SameIDs(req[q], req'[q])
  <2> DEFINE new == [req[r] EXCEPT !.range = rangeID[c], !.phase = "inflight",
                                   !.wire = "pending"]
  <2>1. req' = [req EXCEPT ![r] = new]
    BY <1>2 DEF TrackAndSend, TypeOK
  <2>2. req[r] \in RequestType
    BY DEF TypeOK
  <2>3. SameIDs(req[r], new)
    BY <2>2 DEF SameIDs, Granted, RequestType
  <2> HIDE DEF new
  <2> QED BY <2>1, <2>3, SameIDsOneSlot
<1>3. ASSUME NEW r \in Requests, HandleWriteError(c, r)
      PROVE  \A q \in Requests : SameIDs(req[q], req'[q])
  <2>1. req' = [req EXCEPT ![r] = Finished(req[r])]
    BY <1>3 DEF HandleWriteError
  <2>2. SameIDs(req[r], Finished(req[r]))
    BY SameIDsFinished DEF TypeOK
  <2> QED BY <2>1, <2>2, SameIDsOneSlot
<1>4. CASE RenewForKeys(c) \/ GenerateTaskID(c)
  BY <1>4, SameIDsSame DEF RenewForKeys, GenerateTaskID
<1> QED BY <1>1, <1>2, <1>3, <1>4 DEF Write

LEMMA SlotsQueue ==
  ASSUME TypeOK, NEW c \in Contexts, Queue(c)
  PROVE  \A q \in Requests : SameIDs(req[q], req'[q])
<1>1. ASSUME NEW cat \in Categories, ReadNewRange(c, cat) \/ SetQueueState(c, cat)
      PROVE  \A q \in Requests : SameIDs(req[q], req'[q])
  <2>1. CASE UNCHANGED req
    BY <2>1, SameIDsSame
  <2>2. ASSUME NEW r \in Requests,
               req' = [req EXCEPT ![r] =
                 [kind |-> "update", ctx |-> c, range |-> rangeID[c], tasks |-> {},
                  marks |-> [marks[c] EXCEPT ![cat] = readerMark[c][cat]],
                  phase |-> "queued", wire |-> "none", err |-> "nil"]]
        PROVE  \A q \in Requests : SameIDs(req[q], req'[q])
    <3> DEFINE new == [kind |-> "update", ctx |-> c, range |-> rangeID[c], tasks |-> {},
                       marks |-> [marks[c] EXCEPT ![cat] = readerMark[c][cat]],
                       phase |-> "queued", wire |-> "none", err |-> "nil"]
    <3>1. req' = [req EXCEPT ![r] = new]
      BY <2>2
    <3>2. SameIDs(req[r], new)
      BY DEF SameIDs, Granted
    <3> HIDE DEF new
    <3> QED BY <3>1, <3>2, SameIDsOneSlot
  <2> QED BY <1>1, <2>1, <2>2 DEF ReadNewRange, SetQueueState
<1>2. ASSUME NEW r \in Requests, SendUpdate(c, r)
      PROVE  \A q \in Requests : SameIDs(req[q], req'[q])
  <2> DEFINE new == [req[r] EXCEPT !.phase = "inflight", !.wire = "pending"]
  <2>1. req' = [req EXCEPT ![r] = new]
    BY <1>2 DEF SendUpdate, TypeOK
  <2>2. req[r] \in RequestType
    BY DEF TypeOK
  <2>3. SameIDs(req[r], new)
    BY <2>2 DEF SameIDs, Granted, RequestType
  <2> HIDE DEF new
  <2> QED BY <2>1, <2>3, SameIDsOneSlot
<1>3. ASSUME NEW r \in Requests, AbandonUpdate(c, r)
      PROVE  \A q \in Requests : SameIDs(req[q], req'[q])
  BY <1>3, SameIDsNoRequest, SameIDsOneSlot DEF AbandonUpdate
<1> QED BY <1>1, <1>2, <1>3 DEF Queue

LEMMA SlotsStore ==
  ASSUME TypeOK, NEW r \in Requests, DropWrite(r) \/ Answer(r)
  PROVE  \A q \in Requests : SameIDs(req[q], req'[q])
<1>1. CASE DropWrite(r)
  BY <1>1, SameIDsNoRequest, SameIDsOneSlot DEF DropWrite
<1>2. CASE Answer(r)
  <2>1. PICK err \in Answers(req[r]), wire \in {"none", "pending"} :
           req' = [req EXCEPT ![r].phase = "answered", ![r].err = err, ![r].wire = wire]
    BY <1>2 DEF Answer
  <2> DEFINE new == [req[r] EXCEPT !.phase = "answered", !.err = err, !.wire = wire]
  <2>2. req' = [req EXCEPT ![r] = new]
    BY <2>1 DEF TypeOK
  <2>3. err = "nil" => req[r].wire = "applied"
    BY DEF Answers
  <2>4. req[r] \in RequestType
    BY DEF TypeOK
  <2>5. SameIDs(req[r], new)
    BY <2>3, <2>4 DEF SameIDs, Granted, RequestType
  <2> HIDE DEF new
  <2> QED BY <2>2, <2>5, SameIDsOneSlot
<1> QED BY <1>1, <1>2

-----------------------------------------------------------------------------
(* Adopting and granting a range, and giving a task its ID                 *)

LEMMA IDRenewSucceeded ==
  ASSUME FencingInv, TypeOK', IDInv, NEW c \in Contexts, NEW r \in Requests,
         RenewSucceeded(c, r)
  PROVE  IDInv'
<1> USE DEF FencingInv, CountInv
<1>1. /\ UNCHANGED dbRange
      /\ rangeID'[c] = rangeID[c] + 1
      /\ exclusiveMaxTaskID'[c] = EndTaskID(rangeID[c] + 1)
      /\ nextTaskID'[c] \in {FirstTaskID(rangeID[c] + 1), FirstTaskID(rangeID[c] + 1) + 1}
      /\ \A d \in Contexts : d # c => /\ rangeID'[d] = rangeID[d]
                                      /\ nextTaskID'[d] = nextTaskID[d]
                                      /\ exclusiveMaxTaskID'[d] = exclusiveMaxTaskID[d]
  <2>1. rangeID[c] \in Int
    BY IDTypes
  <2>2. FirstTaskID(rangeID[c] + 1) + 0 = FirstTaskID(rangeID[c] + 1)
    BY <2>1, RangeBounds
  <2> QED BY <2>2 DEF RenewSucceeded, TypeOK
<1>2. Granted(req[r]) /\ req[r].range = rangeID[c]
  BY DEF RenewSucceeded, Granted, Waited, RangeInv, RenewalShape
<1>3. /\ rangeID[c] + 1 \in Int
      /\ FirstTaskID(rangeID[c] + 1) \in Int
      /\ EndTaskID(rangeID[c] + 1) \in Int
      /\ FirstTaskID(rangeID[c] + 1) + 1 <= EndTaskID(rangeID[c] + 1)
  BY IDTypes, RangeBounds
<1>4. GeneratorInRange'
  <2>1. ASSUME NEW d \in Contexts, HasRange(d)'
        PROVE  /\ FirstTaskID(rangeID'[d]) <= nextTaskID'[d]
               /\ nextTaskID'[d] <= exclusiveMaxTaskID'[d]
               /\ exclusiveMaxTaskID'[d] = EndTaskID(rangeID'[d])
    <3>1. CASE d = c
      BY <1>1, <1>3, <3>1
    <3>2. CASE d # c
      BY <1>1, <2>1, <3>2 DEF IDInv, GeneratorInRange, HasRange
    <3> QED BY <3>1, <3>2
  <2> QED BY <2>1 DEF GeneratorInRange, FirstTaskID, EndTaskID
<1>5. ASSUME NEW d \in Contexts, NEW id \in Nat, CanGenerate(d, id)'
      PROVE  CanGenerate(d, id) \/ \E q \in Requests : CanStart(req[q], id)
  <2>1. HasRange(d)' /\ nextTaskID'[d] <= id /\ id < EndTaskID(rangeID'[d])
    BY <1>5 DEF CanGenerate, EndTaskID
  <2>2. CASE d = c
    <3>1. FirstTaskID(rangeID[c] + 1) <= id /\ id < EndTaskID(rangeID[c] + 1)
      BY <1>1, <1>3, <2>1, <2>2
    <3> QED BY <1>2, <3>1 DEF CanStart
  <2>3. CASE d # c
    BY <1>1, <2>1, <2>3 DEF CanGenerate, HasRange
  <2> QED BY <2>2, <2>3
<1>6. \A q \in Requests : SameIDs(req[q], req'[q])
  BY SlotsRenewal DEF Renewal
<1>7. \A q \in Requests, id \in Nat : CanStart(req'[q], id) => CanStart(req[q], id)
  BY <1>6 DEF SameIDs, CanStart
<1>8. dbRange <= dbRange' /\ \A q \in Requests : req'[q].tasks \subseteq req[q].tasks
  BY <1>1, <1>6 DEF SameIDs, TypeOK
<1> QED BY <1>4, <1>5, <1>7, <1>8, IDQuiet DEF IDInv

LEMMA IDApplied ==
  ASSUME FencingInv, TypeOK', IDInv, NEW r \in Requests, ApplyWrite(r)
  PROVE  IDInv'
<1> USE DEF FencingInv, CountInv
<1>1. /\ UNCHANGED <<rangeID, nextTaskID, exclusiveMaxTaskID>>
      /\ req[r].range = dbRange
      /\ dbRange' = IF req[r].kind = "renew" THEN dbRange + 1 ELSE dbRange
  BY DEF ApplyWrite, Accepted
<1>2. GeneratorInRange'
  BY <1>1 DEF IDInv, GeneratorInRange, HasRange, FirstTaskID, EndTaskID
<1>3. \A c \in Contexts, id \in Nat : CanGenerate(c, id)' => CanGenerate(c, id)
  BY <1>1 DEF CanGenerate, HasRange, EndTaskID
<1>4. ASSUME NEW q \in Requests
      PROVE  /\ req'[q].tasks \subseteq req[q].tasks
             /\ Granted(req'[q]) => \/ Granted(req[q]) /\ req'[q].range = req[q].range
                                    \/ req'[q].range = dbRange
  <2>1. \/ req'[q] \in {NoRequest, req[q]}
        \/ q = r /\ req'[q] = [req[q] EXCEPT !.wire = "applied"]
    BY DEF ApplyWrite
  <2>2. req[q] \in RequestType
    BY DEF TypeOK
  <2> QED BY <1>1, <2>1, <2>2, SameIDsNoRequest DEF SameIDs, RequestType
<1>5. ASSUME NEW q \in Requests, NEW id \in Nat, CanStart(req'[q], id)
      PROVE  CanStart(req[q], id) \/ EndTaskID(dbRange) <= id
  <2>1. CASE Granted(req[q]) /\ req'[q].range = req[q].range
    BY <1>5, <2>1 DEF CanStart
  <2>2. CASE req'[q].range = dbRange
    <3>1. EndTaskID(dbRange) <= FirstTaskID(dbRange + 1)
          /\ EndTaskID(dbRange) \in Int /\ FirstTaskID(dbRange + 1) \in Int
      <4>1. dbRange \in Int /\ dbRange + 1 \in Int /\ dbRange < dbRange + 1
        BY IDTypes
      <4> QED BY <4>1, RangesDisjoint
    <3> QED BY <1>5, <2>2, <3>1 DEF CanStart
  <2> QED BY <1>4, <1>5, <2>1, <2>2 DEF CanStart
<1>6. dbRange <= dbRange'
  BY <1>1 DEF TypeOK
<1> QED BY <1>2, <1>3, <1>4, <1>5, <1>6, IDQuiet DEF IDInv

\* The ID that a task gets is one that only this context can generate.
LEMMA IDGenerated ==
  ASSUME FencingInv, TypeOK', IDInv, NEW c \in Contexts, NEW r \in Requests,
         NEW cat \in Categories, NEW t \in 0..MaxTime, SetTaskKey(c, r, cat, t)
  PROVE  IDInv'
<1> USE DEF FencingInv, CountInv
<1>0. PICK new \in Int : new = nextTaskID[c]
  BY IDTypes
<1>1. /\ UNCHANGED <<dbRange, rangeID, exclusiveMaxTaskID>>
      /\ new # exclusiveMaxTaskID[c]
      /\ nextTaskID' = [nextTaskID EXCEPT ![c] = @ + 1]
  BY <1>0 DEF SetTaskKey
<1>2. HasRange(c)
  BY DEF SetTaskKey, HasRange, RangeInitialized
<1>3. /\ rangeID[c] \in Nat /\ new \in Nat
      /\ rangeID[c] <= dbRange
  BY <1>0, <1>2 DEF Loaded, RangeInv, RangeBounded, TypeOK, HasRange
<1>4. /\ FirstTaskID(rangeID[c]) <= new /\ new < EndTaskID(rangeID[c])
      /\ exclusiveMaxTaskID[c] = EndTaskID(rangeID[c])
      /\ FirstTaskID(rangeID[c]) \in Int /\ EndTaskID(rangeID[c]) \in Int
  BY <1>0, <1>1, <1>2, <1>3, RangeBounds, IDTypes DEF IDInv, GeneratorInRange
<1>5. /\ nextTaskID'[c] = new + 1
      /\ \A d \in Contexts : d # c => nextTaskID'[d] = nextTaskID[d]
  BY <1>0, <1>1 DEF TypeOK
<1>6. GeneratorInRange'
  <2>1. ASSUME NEW d \in Contexts, HasRange(d)'
        PROVE  /\ FirstTaskID(rangeID'[d]) <= nextTaskID'[d]
               /\ nextTaskID'[d] <= exclusiveMaxTaskID'[d]
               /\ exclusiveMaxTaskID'[d] = EndTaskID(rangeID'[d])
    <3>1. CASE d = c
      BY <1>0, <1>1, <1>3, <1>4, <1>5, <3>1
    <3>2. CASE d # c
      BY <1>1, <1>5, <2>1, <3>2 DEF IDInv, GeneratorInRange, HasRange
    <3> QED BY <3>1, <3>2
  <2> QED BY <2>1 DEF GeneratorInRange, FirstTaskID, EndTaskID
<1>7. PICK task \in [cat : Categories, id : {new}, pos : Int] :
         req' = [req EXCEPT ![r].tasks = @ \cup {task}]
  <2>1. \A n \in Int : [cat |-> cat, id |-> new, pos |-> n]
                           \in [cat : Categories, id : {new}, pos : Int]
    OBVIOUS
  <2>2. taskMinScheduledTime[c] \in Int /\ t \in Int
    BY ConstantsAssumption DEF TypeOK, ConstantsAssumption
  <2> DEFINE scheduledTime == IF t + 1 < taskMinScheduledTime[c]
                              THEN taskMinScheduledTime[c] + 1
                              ELSE t + 1
             pos == IF cat \in Scheduled THEN scheduledTime ELSE nextTaskID[c]
  <2>3. pos \in Int
    BY <1>0, <1>3, <2>2
  <2>4. req' = [req EXCEPT ![r].tasks = @ \cup {[cat |-> cat, id |-> new, pos |-> pos]}]
    BY <1>0 DEF SetTaskKey
  <2> HIDE DEF pos
  <2> QED BY <2>1, <2>3, <2>4
<1>8. /\ req'[r].tasks = req[r].tasks \cup {task}
      /\ req'[r].kind = "add" /\ task.id = new
      /\ \A q \in Requests : q # r => req'[q] = req[q]
  <2>1. req[r].kind = "add" /\ req[r] \in RequestType
    BY DEF SetTaskKey, SettingKeys, RequestShape, Shape, TypeOK
  <2> QED BY <1>7, <2>1 DEF TypeOK, RequestType
<1>9. \A q \in Requests : Granted(req'[q]) => q # r /\ req'[q] = req[q]
  BY <1>8 DEF Granted
<1>10. CanGenerate(c, new)
  BY <1>0, <1>2, <1>3, <1>4 DEF CanGenerate
<1>11. \A q \in Requests : \A u \in req[q].tasks : u.id # new
  BY <1>10 DEF IDInv, IDsFresh
<1>12. UniqueTaskIDs'
  <2>1. ASSUME NEW p \in Requests, NEW q \in Requests, p # q,
               NEW v \in req'[p].tasks, NEW u \in req'[q].tasks
        PROVE  v.id # u.id
    BY <1>8, <1>11, <2>1 DEF IDInv, UniqueTaskIDs
  <2> QED BY <2>1 DEF UniqueTaskIDs
\* IDs that were not handed out are still the same ones, but for the new one.
<1>13. \A d \in Contexts, id \in Nat : CanGenerate(d, id)' => CanGenerate(d, id)
  <2>1. ASSUME NEW d \in Contexts, NEW id \in Nat, CanGenerate(d, id)'
        PROVE  CanGenerate(d, id)
    <3>1. HasRange(d)' /\ nextTaskID'[d] <= id /\ id < EndTaskID(rangeID[d])
      BY <1>1, <2>1 DEF CanGenerate, EndTaskID
    <3>2. nextTaskID[d] <= id /\ HasRange(d)
      BY <1>0, <1>2, <1>3, <1>5, <3>1 DEF HasRange
    <3> QED BY <3>1, <3>2 DEF CanGenerate
  <2> QED BY <2>1
<1>14. \A q \in Requests, id \in Nat : CanStart(req'[q], id) => CanStart(req[q], id)
  BY <1>9 DEF CanStart
\* The new one belongs to the range of c, and no other range has it.
<1>15. \A n \in Int : n # rangeID[c] => ~(FirstTaskID(n) <= new /\ new < EndTaskID(n))
  <2>1. ASSUME NEW n \in Int, n < rangeID[c]
        PROVE  ~(new < EndTaskID(n))
    BY <1>0, <1>3, <1>4, <2>1, RangesDisjoint
  <2>2. ASSUME NEW n \in Int, rangeID[c] < n
        PROVE  ~(FirstTaskID(n) <= new)
    BY <1>0, <1>3, <1>4, <2>2, RangesDisjoint
  <2> QED BY <1>3, <2>1, <2>2
<1>16. new < EndTaskID(dbRange)
  <2>1. EndTaskID(rangeID[c]) <= EndTaskID(dbRange) /\ EndTaskID(dbRange) \in Int
    BY <1>3, EndMonotone, IDTypes
  <2> QED BY <1>0, <1>3, <1>4, <2>1
<1>17. \A d \in Contexts : ~CanGenerate(d, new)'
  <2>1. SUFFICES ASSUME NEW d \in Contexts, HasRange(d)',
                        nextTaskID'[d] <= new, new < EndTaskID(rangeID[d])
                 PROVE  FALSE
    BY <1>1 DEF CanGenerate, EndTaskID
  <2>2. d # c
    BY <1>0, <1>3, <1>5, <2>1
  <2>3. HasRange(d) /\ rangeID[d] # rangeID[c]
    BY <1>2, <1>5, <2>1, <2>2 DEF HasRange, RangeInv, RangeHeldOnce
  <2>4. FirstTaskID(rangeID[d]) <= new
    <3>1. FirstTaskID(rangeID[d]) <= nextTaskID[d] /\ nextTaskID[d] <= new
      BY <1>5, <2>1, <2>2, <2>3 DEF IDInv, GeneratorInRange
    <3>2. FirstTaskID(rangeID[d]) \in Int
      BY IDTypes, RangeBounds
    <3> QED BY <1>0, <1>3, <3>1, <3>2, IDTypes
  <2> QED BY <1>15, <2>1, <2>3, <2>4, IDTypes
<1>18. \A q \in Requests : ~CanStart(req'[q], new)
  <2>1. \A q \in Requests : Granted(req[q]) => rangeID[c] # req[q].range + 1
    BY <1>2 DEF RangeInv, RangeHeldOnce
  <2>2. \A q \in Requests : req[q].range + 1 \in Int
    BY IDTypes
  <2> QED BY <1>9, <1>15, <2>1, <2>2 DEF CanStart
<1>19. IDsFresh'
  <2>1. ASSUME NEW q \in Requests, NEW u \in req'[q].tasks
        PROVE  /\ u.id < EndTaskID(dbRange)
               /\ \A d \in Contexts : ~CanGenerate(d, u.id)'
               /\ \A p \in Requests : ~CanStart(req'[p], u.id)
    <3>1. CASE u = task
      BY <1>8, <1>16, <1>17, <1>18, <3>1
    <3>2. CASE u \in req[q].tasks
      <4>1. /\ u.id \in Nat /\ u.id < EndTaskID(dbRange)
            /\ \A d \in Contexts : ~CanGenerate(d, u.id)
            /\ \A p \in Requests : ~CanStart(req[p], u.id)
        BY <3>2, IDTypes DEF IDInv, IDsFresh
      <4> QED BY <1>13, <1>14, <4>1
    <3> QED BY <1>8, <2>1, <3>1, <3>2
  <2>2. \A q \in Requests : \A id : CanStart(req[q], id)' <=> CanStart(req'[q], id)
    BY DEF CanStart, Granted, FirstTaskID, EndTaskID
  <2>3. EndTaskID(dbRange)' = EndTaskID(dbRange)
    BY <1>1 DEF EndTaskID
  <2> QED BY <2>1, <2>2, <2>3 DEF IDsFresh
<1> QED BY <1>6, <1>12, <1>19 DEF IDInv

-----------------------------------------------------------------------------
(* Every step                                                              *)

LEMMA IDNext ==
  ASSUME FencingInv, FencingInv', IDInv, Next
  PROVE  IDInv'
<1> USE DEF FencingInv, CountInv
<1>1. ASSUME NEW c \in Contexts, Controller(c) PROVE IDInv'
  <2>1. UNCHANGED <<dbRange, req>>
    BY <1>1 DEF Controller, Start, Recreate, RequestStop, FinishStop, StopEngine
  <2>2. CASE Recreate(c)
    <3>1. /\ ~HasRange(c)'
          /\ \A d \in Contexts : d # c => /\ rangeID'[d] = rangeID[d]
                                          /\ nextTaskID'[d] = nextTaskID[d]
                                          /\ exclusiveMaxTaskID'[d] = exclusiveMaxTaskID[d]
      BY <2>2 DEF Recreate, TypeOK, HasRange
    <3>2. GeneratorInRange'
      BY <3>1 DEF IDInv, GeneratorInRange, HasRange, FirstTaskID, EndTaskID
    <3>3. \A d \in Contexts, id \in Nat : CanGenerate(d, id)' => CanGenerate(d, id)
      BY <3>1 DEF CanGenerate, HasRange, EndTaskID
    <3>4. \A q \in Requests, id \in Nat : CanStart(req'[q], id) => CanStart(req[q], id)
      BY <2>1
    <3>5. dbRange <= dbRange' /\ \A q \in Requests : req'[q].tasks \subseteq req[q].tasks
      BY <2>1 DEF TypeOK
    <3> QED BY <3>2, <3>3, <3>4, <3>5, IDQuiet DEF IDInv
  <2>3. CASE ~Recreate(c)
    <3>1. UNCHANGED <<rangeID, nextTaskID, exclusiveMaxTaskID>>
      BY <1>1, <2>3 DEF Controller, Start, RequestStop, FinishStop, StopEngine
    <3> QED BY <2>1, <3>1, SameIDsSame, IDSlots DEF HasRange
  <2> QED BY <2>2, <2>3
<1>2. ASSUME NEW c \in Contexts, Acquisition(c) PROVE IDInv'
  <2>1. UNCHANGED <<dbRange, req, nextTaskID, exclusiveMaxTaskID>>
    BY <1>2 DEF Acquisition, LoadShardMetadata, LoadShardMetadataFails, AcquireRetry,
       AcquireExpires, AcquireLock, CreateEngine, FinishAcquire
  <2>2. rangeID' = rangeID \/ (rangeID[c] = NotLoaded /\ rangeID' = [rangeID EXCEPT ![c] = dbRange])
    BY <1>2 DEF Acquisition, LoadShardMetadata, LoadShardMetadataFails, AcquireRetry,
       AcquireExpires, AcquireLock, CreateEngine, FinishAcquire
  <2>3. \A d \in Contexts : HasRange(d)' => HasRange(d) /\ rangeID'[d] = rangeID[d]
    BY <2>1, <2>2 DEF HasRange, Loaded, TypeOK
  <2> QED BY <2>1, <2>3, SameIDsSame, IDSlots
<1>3. ASSUME NEW c \in Contexts, Renewal(c) PROVE IDInv'
  <2>1. ASSUME NEW r \in Requests, RenewSucceeded(c, r) PROVE IDInv'
    BY <2>1, IDRenewSucceeded
  <2>2. CASE \A r \in Requests : ~RenewSucceeded(c, r)
    <3>1. UNCHANGED <<dbRange, rangeID, nextTaskID, exclusiveMaxTaskID>>
      BY <1>3, <2>2 DEF Renewal, SendRenew, RenewFailed
    <3>2. \A d \in Contexts : HasRange(d)' => HasRange(d)
      BY <3>1 DEF HasRange
    <3> QED BY <1>3, <3>1, <3>2, SlotsRenewal, IDSlots
  <2> QED BY <2>1, <2>2
<1>4. ASSUME NEW c \in Contexts, Write(c) PROVE IDInv'
  <2>1. ASSUME NEW r \in Requests, NEW cat \in Categories, NEW t \in 0..MaxTime,
               SetTaskKey(c, r, cat, t)
        PROVE  IDInv'
    BY <2>1, IDGenerated
  <2>2. CASE \A r \in Requests, cat \in Categories, t \in 0..MaxTime : ~SetTaskKey(c, r, cat, t)
    <3>1. UNCHANGED <<dbRange, rangeID, exclusiveMaxTaskID>>
      BY <1>4, <2>2 DEF Write, BeginWrite, TrackAndSend, HandleWriteError, RenewForKeys,
         GenerateTaskID
    <3>2. \/ nextTaskID' = nextTaskID
          \/ /\ nextTaskID' = [nextTaskID EXCEPT ![c] = @ + 1]
             /\ nextTaskID[c] # exclusiveMaxTaskID[c]
      BY <1>4, <2>2 DEF Write, BeginWrite, TrackAndSend, HandleWriteError, RenewForKeys,
         GenerateTaskID
    <3>3. ASSUME NEW d \in Contexts, HasRange(d)'
          PROVE  /\ HasRange(d)
                 /\ \/ nextTaskID'[d] = nextTaskID[d]
                    \/ /\ nextTaskID'[d] = nextTaskID[d] + 1
                       /\ nextTaskID[d] # exclusiveMaxTaskID[d]
      BY <3>2, <3>3 DEF HasRange, RangeInitialized, TypeOK
    <3> QED BY <1>4, <2>2, <3>1, <3>3, SlotsWrite, IDSlots
  <2> QED BY <2>1, <2>2
<1>5. ASSUME NEW c \in Contexts, Queue(c) PROVE IDInv'
  <2>1. UNCHANGED <<dbRange, rangeID, nextTaskID, exclusiveMaxTaskID>>
    BY <1>5 DEF Queue, ReadNewRange, SetQueueState, SendUpdate, AbandonUpdate
  <2>2. \A d \in Contexts : HasRange(d)' => HasRange(d)
    BY <2>1 DEF HasRange
  <2> QED BY <1>5, <2>1, <2>2, SlotsQueue, IDSlots
<1>6. ASSUME NEW c \in Contexts, Tick(c) PROVE IDInv'
  <2>1. UNCHANGED <<dbRange, req, rangeID, nextTaskID, exclusiveMaxTaskID>>
    BY <1>6 DEF Tick
  <2> QED BY <2>1, SameIDsSame, IDSlots DEF HasRange
<1>7. ASSUME NEW r \in Requests, ApplyWrite(r) PROVE IDInv'
  BY <1>7, IDApplied
<1>8. ASSUME NEW r \in Requests, DropWrite(r) \/ Answer(r) PROVE IDInv'
  <2>1. UNCHANGED <<dbRange, rangeID, nextTaskID, exclusiveMaxTaskID>>
    BY <1>8 DEF DropWrite, Answer
  <2>2. \A d \in Contexts : HasRange(d)' => HasRange(d)
    BY <2>1 DEF HasRange
  <2> QED BY <1>8, <2>1, <2>2, SlotsStore, IDSlots
<1> QED BY <1>1, <1>2, <1>3, <1>4, <1>5, <1>6, <1>7, <1>8 DEF Next, Store

LEMMA IDInit == Init => IDInv
  BY DEF Init, NoRequest, HasRange, IDInv, GeneratorInRange, IDsFresh, UniqueTaskIDs

-----------------------------------------------------------------------------
(* Theorems                                                                *)

THEOREM IDInvariant == Spec => [](FencingInv /\ IDInv)
<1>1. Init => FencingInv /\ IDInv
  BY CountInit, RangeInit, IDInit DEF FencingInv
<1>2. ASSUME FencingInv /\ IDInv, [Next]_vars
      PROVE  (FencingInv /\ IDInv)'
  <2>1. FencingInv'
    BY <1>2, FencingNext
  <2>2. CASE Next
    BY <1>2, <2>1, <2>2, IDNext
  <2>3. CASE UNCHANGED vars
    <3>1. UNCHANGED <<dbRange, req, rangeID, nextTaskID, exclusiveMaxTaskID>>
      BY <2>3 DEF vars
    <3> QED BY <1>2, <2>1, <3>1, SameIDsSame, IDSlots DEF HasRange, FencingInv, CountInv
  <2> QED BY <1>2, <2>2, <2>3
<1> QED BY <1>1, <1>2, PTL DEF Spec

\* No two writes of the shard carry the same task ID, whichever contexts they
\* come from and however late they land (task_key_generator.go:151-185).
THEOREM TaskIDsUnique == Spec => []UniqueTaskIDs
<1>1. IDInv => UniqueTaskIDs
  BY DEF IDInv
<1> QED BY <1>1, IDInvariant, PTL

=============================================================================
