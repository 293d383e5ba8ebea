-------------------------- MODULE ShardReadProofs --------------------------
(***************************************************************************)
(* Proofs of what a shard may serve and what its queues may read           *)
(* (ShardContext).                                                         *)
(*                                                                         *)
(* The argument has three parts.  The state of a context, the progress of  *)
(* acquireShard and the outcome of its writes go together (AcquireInv,     *)
(* WritesInv).  No watermark of a context is above the next key that the   *)
(* context will hand out (MarksInv), and of a write under way the smallest *)
(* key of each category is pending at its context (TasksInv).  Hence the   *)
(* tasks of a write that the store may still accept are ahead of every     *)
(* watermark they could be behind (LiveInv).                               *)
(***************************************************************************)
EXTENDS ShardContextProofs

USE DEF Categories, States, Marks, NoMarks, NotLoaded, taskIDUninitialized,
        dbVars, stateVars, shardVars, genVars, trackerVars, queueVars

-----------------------------------------------------------------------------
(* The state machine                                                       *)

\* acquireShard, the lock and the generator follow the state.
AcquireInv ==
    \A c \in Contexts :
        /\ state[c] = "Acquiring" => acquiring[c] # "no"
        /\ state[c] = "Acquired" => acquiring[c] = "no" /\ engine[c] = "set"
        /\ state[c] = "Initialized" => acquiring[c] = "no"
        /\ lock[c] = "acquire" => acquiring[c] = "renew"
        /\ lock[c] = "keys" => HasRange(c) /\ state[c] \in {"Acquired", "Stopping", "Stopped"}
        /\ acquiring[c] \in {"engine", "acquired"} => HasRange(c)
        /\ engine[c] # "none" => HasRange(c)

\* The range ID that RenewSucceeded adopts is a proper one.
LEMMA RenewedHasRange ==
  ASSUME TypeOK, TypeOK', NEW c \in Contexts, NEW r \in Requests, RenewSucceeded(c, r)
  PROVE  /\ HasRange(c)'
         /\ \A d \in Contexts : HasRange(d) => HasRange(d)'
<1>1. rangeID[c] + 1 \in Nat
  <2>1. rangeID[c] \in Nat \cup {NotLoaded}
    BY DEF TypeOK
  <2> QED BY <2>1
<1>2. FirstTaskID(rangeID[c] + 1) \in Nat
  BY <1>1, RangeBounds
<1>3. /\ nextTaskID'[c] = FirstTaskID(rangeID[c] + 1) + (IF lock[c] = "id" THEN 1 ELSE 0)
      /\ \A d \in Contexts : d # c => nextTaskID'[d] = nextTaskID[d]
  BY DEF RenewSucceeded, TypeOK
<1>4. nextTaskID'[c] \in Nat
  BY <1>2, <1>3
<1> QED BY <1>3, <1>4 DEF HasRange

LEMMA AcquireController ==
  ASSUME TypeOK, AcquireInv, NEW c \in Contexts, Controller(c)
  PROVE  AcquireInv'
<1>1. CASE Start(c)
  BY <1>1 DEF TypeOK, AcquireInv, HasRange, Start
<1>2. CASE Recreate(c)
  BY <1>2 DEF TypeOK, AcquireInv, HasRange, Recreate
<1>3. CASE RequestStop(c)
  BY <1>3 DEF TypeOK, AcquireInv, HasRange, RequestStop, StopRequested, IsValid
<1>4. CASE FinishStop(c)
  BY <1>4 DEF TypeOK, AcquireInv, HasRange, FinishStop
<1>5. CASE StopEngine(c)
  BY <1>5 DEF TypeOK, AcquireInv, HasRange, StopEngine
<1> QED BY <1>1, <1>2, <1>3, <1>4, <1>5 DEF Controller

LEMMA AcquireAcquisition ==
  ASSUME TypeOK, AcquireInv, NEW c \in Contexts, Acquisition(c)
  PROVE  AcquireInv'
<1>1. CASE LoadShardMetadata(c)
  BY <1>1 DEF TypeOK, AcquireInv, HasRange, LoadShardMetadata, IsValid
<1>2. CASE LoadShardMetadataFails(c)
  BY <1>2 DEF TypeOK, AcquireInv, HasRange, LoadShardMetadataFails, AcquireFailed,
     StopRequested, IsValid
<1>3. CASE AcquireRetry(c)
  BY <1>3 DEF TypeOK, AcquireInv, HasRange, AcquireRetry
<1>4. CASE AcquireExpires(c)
  BY <1>4 DEF TypeOK, AcquireInv, HasRange, AcquireExpires, StopRequested
<1>5. CASE AcquireLock(c)
  BY <1>5 DEF TypeOK, AcquireInv, HasRange, AcquireLock
<1>6. CASE CreateEngine(c)
  BY <1>6 DEF TypeOK, AcquireInv, HasRange, CreateEngine
<1>7. CASE FinishAcquire(c)
  BY <1>7 DEF TypeOK, AcquireInv, HasRange, FinishAcquire, CanBecomeAcquired
<1> QED BY <1>1, <1>2, <1>3, <1>4, <1>5, <1>6, <1>7 DEF Acquisition

\* A write whose error is handled, with the lock free or about to be.
LEMMA AcquireHandled ==
  ASSUME TypeOK, AcquireInv, NEW c \in Contexts, NEW range, NEW err,
         HandleWriteErrorLocked(c, range, err), UNCHANGED nextTaskID,
         lock' = [lock EXCEPT ![c] = "free"], lock[c] # "acquire"
  PROVE  AcquireInv'
<1>1. CASE UNCHANGED stateVars
  BY <1>1 DEF TypeOK, AcquireInv, HasRange
<1>2. CASE /\ IsValid(c) /\ state' = [state EXCEPT ![c] = StopRequested(@)]
           /\ UNCHANGED <<engine, acquiring>>
  BY <1>2 DEF TypeOK, AcquireInv, HasRange, StopRequested, IsValid
<1>3. CASE /\ state[c] = "Acquired" /\ state' = [state EXCEPT ![c] = "Acquiring"]
           /\ acquiring' = [acquiring EXCEPT ![c] = "load"] /\ UNCHANGED engine
  BY <1>3 DEF TypeOK, AcquireInv, HasRange
<1> QED BY <1>1, <1>2, <1>3, Zenon DEF HandleWriteErrorLocked

LEMMA AcquireRenewal ==
  ASSUME TypeOK, TypeOK', AcquireInv, NEW c \in Contexts, Renewal(c)
  PROVE  AcquireInv'
<1>1. ASSUME NEW r \in Requests, SendRenew(c, r) PROVE AcquireInv'
  BY <1>1 DEF TypeOK, AcquireInv, HasRange, SendRenew
<1>2. ASSUME NEW r \in Requests, RenewSucceeded(c, r) PROVE AcquireInv'
  <2>1. HasRange(c)' /\ \A d \in Contexts : HasRange(d) => HasRange(d)'
    BY <1>2, RenewedHasRange
  <2>2. /\ state' = state /\ engine' = engine
        /\ lock' = [lock EXCEPT ![c] = IF @ = "keys" THEN "keys" ELSE "free"]
        /\ acquiring' = [acquiring EXCEPT ![c] = IF lock[c] = "acquire" THEN "engine" ELSE @]
    BY <1>2 DEF RenewSucceeded
  <2> QED BY <2>1, <2>2 DEF TypeOK, AcquireInv
<1>3. ASSUME NEW r \in Requests, RenewFailed(c, r) PROVE AcquireInv'
  <2>1. lock' = [lock EXCEPT ![c] = "free"] /\ UNCHANGED nextTaskID
    BY <1>3 DEF RenewFailed
  <2>2. CASE lock[c] = "acquire"
    <3>1. AcquireFailed(c, req[r].err)
      BY <1>3, <2>2 DEF RenewFailed
    <3> QED BY <2>1, <2>2, <3>1 DEF TypeOK, AcquireInv, HasRange, AcquireFailed,
        StopRequested, IsValid
  <2>3. CASE lock[c] # "acquire"
    BY <1>3, <2>1, <2>3, AcquireHandled DEF RenewFailed
  <2> QED BY <2>2, <2>3
<1> QED BY <1>1, <1>2, <1>3 DEF Renewal

LEMMA AcquireWrite ==
  ASSUME TypeOK, AcquireInv, NEW c \in Contexts, Write(c)
  PROVE  AcquireInv'
<1>1. ASSUME NEW r \in Requests, BeginWrite(c, r) PROVE AcquireInv'
  BY <1>1 DEF TypeOK, AcquireInv, HasRange, BeginWrite
<1>2. ASSUME NEW r \in Requests, NEW cat \in Categories, NEW t \in 0..MaxTime,
             SetTaskKey(c, r, cat, t)
      PROVE  AcquireInv'
  <2>1. UNCHANGED <<stateVars, lock>> /\ nextTaskID' = [nextTaskID EXCEPT ![c] = @ + 1]
    BY <1>2 DEF SetTaskKey
  <2>2. \A d \in Contexts : HasRange(d) => HasRange(d)'
    BY <2>1 DEF TypeOK, HasRange
  <2> QED BY <2>1, <2>2 DEF AcquireInv
<1>3. ASSUME NEW r \in Requests, TrackAndSend(c, r) PROVE AcquireInv'
  BY <1>3 DEF TypeOK, AcquireInv, HasRange, TrackAndSend
<1>4. ASSUME NEW r \in Requests, HandleWriteError(c, r) PROVE AcquireInv'
  <2>1. lock' = [lock EXCEPT ![c] = "free"]
    BY <1>4 DEF HandleWriteError, TypeOK
  <2> QED BY <1>4, <2>1, AcquireHandled DEF HandleWriteError
<1>5. CASE RenewForKeys(c)
  BY <1>5 DEF TypeOK, AcquireInv, HasRange, RenewForKeys
<1>6. CASE GenerateTaskID(c)
  <2>1. \A d \in Contexts : HasRange(d) => HasRange(d)'
    BY <1>6 DEF GenerateTaskID, TypeOK, HasRange
  <2>2. UNCHANGED stateVars /\ \A d \in Contexts : lock'[d] \in {lock[d], "id"}
    BY <1>6 DEF GenerateTaskID, TypeOK
  <2> QED BY <2>1, <2>2 DEF AcquireInv
<1> QED BY <1>1, <1>2, <1>3, <1>4, <1>5, <1>6 DEF Write

LEMMA AcquireNext ==
  ASSUME FencingInv, FencingInv', AcquireInv, Next
  PROVE  AcquireInv'
<1> USE DEF FencingInv, CountInv
<1>1. ASSUME NEW c \in Contexts, Queue(c) \/ Tick(c) PROVE AcquireInv'
  <2>1. UNCHANGED <<stateVars, lock, nextTaskID>>
    BY <1>1 DEF Queue, ReadNewRange, SetQueueState, SendUpdate, AbandonUpdate, Tick
  <2> QED BY <2>1 DEF AcquireInv, HasRange
<1>2. CASE Store
  <2>1. UNCHANGED <<stateVars, lock, nextTaskID>>
    BY <1>2 DEF Store, ApplyWrite, DropWrite, Answer
  <2> QED BY <2>1 DEF AcquireInv, HasRange
<1> QED BY <1>1, <1>2, AcquireController, AcquireAcquisition, AcquireRenewal, AcquireWrite
        DEF Next

-----------------------------------------------------------------------------
(* The writes of a context                                                 *)

\* The calls of a context were made with the range ID it has or an older one.
\* A write of tasks with the one it has keeps it from being Acquired once its
\* outcome is unknown, and acquireShard from being done with the renewal.
WriteInv(q) ==
    /\ q.phase = "keys" => lock[q.ctx] = "keys" /\ q.wire = "none"
    /\ q.kind \in {"add", "update"} => HasRange(q.ctx)
    /\ q.kind # "none" /\ q.phase # "keys" => q.range <= rangeID[q.ctx]
    /\ q.kind = "add" /\ q.phase # "keys" /\ q.range = rangeID[q.ctx] =>
          /\ ~(state[q.ctx] = "Acquiring" /\ acquiring[q.ctx] \in {"engine", "acquired"})
          /\ q.phase = "zombie" => state[q.ctx] # "Acquired"
    /\ q.phase = "answered" /\ q.wire = "pending" => q.err = "unknown"
    /\ q.wire # "none" => q.kind # "none"

WritesInv ==
    /\ \A r \in Requests : WriteInv(req[r])
    /\ \A q, r \in Requests :
          req[q].phase = "keys" /\ req[r].phase = "keys" /\ req[q].ctx = req[r].ctx => q = r

\* What a step may do to the owner of a call without touching the call.
Undisturbed(c) ==
    /\ HasRange(c) => HasRange(c)'
    /\ rangeID[c] <= rangeID'[c]
    /\ rangeID'[c] = rangeID[c] \/ ~HasRange(c) \/ rangeID[c] < rangeID'[c]
    /\ rangeID'[c] = rangeID[c] =>
          /\ state'[c] = "Acquiring" /\ acquiring'[c] \in {"engine", "acquired"} =>
                state[c] = "Acquiring" /\ acquiring[c] \in {"engine", "acquired"}
          /\ state'[c] = "Acquired" =>
                \/ state[c] = "Acquired"
                \/ state[c] = "Acquiring" /\ acquiring[c] \in {"engine", "acquired"}

LEMMA WriteUndisturbed ==
  ASSUME TypeOK, TypeOK', RequestShape, NEW r \in Requests, WriteInv(req[r]), req'[r] = req[r],
         req[r].kind # "none" => Undisturbed(req[r].ctx),
         req[r].phase = "keys" => lock'[req[r].ctx] = "keys"
  PROVE  WriteInv(req[r])'
<1>1. req[r].kind # "none" => req[r].ctx \in Contexts
  BY DEF RequestShape, Shape
<1>2. req[r] \in RequestType
  BY DEF TypeOK
<1>3. \A c \in Contexts : rangeID[c] \in Int /\ rangeID'[c] \in Int
  BY DEF TypeOK
<1>4. req[r].kind = "none" => req[r].phase \notin {"keys", "queued"}
  BY DEF RequestShape, Shape
<1>5. req[r].range \in Int
  BY <1>2 DEF RequestType
<1>6. CASE req[r].kind = "none"
  BY <1>4, <1>6 DEF WriteInv
<1>7. CASE req[r].kind # "none"
  <2>1. Undisturbed(req[r].ctx) /\ req[r].ctx \in Contexts
    BY <1>1, <1>7
  <2>2. rangeID[req[r].ctx] \in Int /\ rangeID'[req[r].ctx] \in Int
    BY <1>3, <2>1
  <2> QED BY <1>5, <2>1, <2>2 DEF WriteInv, Undisturbed, HasRange
<1> QED BY <1>6, <1>7

\* A step that touches some calls and leaves the others undisturbed.
LEMMA WritesStep ==
  ASSUME TypeOK, TypeOK', RequestShape, WritesInv,
         \A r \in Requests :
            \/ /\ req'[r] = req[r]
               /\ req[r].kind # "none" => Undisturbed(req[r].ctx)
               /\ req[r].phase = "keys" => lock'[req[r].ctx] = "keys"
            \/ /\ WriteInv(req[r])'
               /\ req'[r].phase = "keys" =>
                     \/ req[r].phase = "keys" /\ req'[r].ctx = req[r].ctx
                     \/ lock[req'[r].ctx] # "keys" /\
                           \A q \in Requests : q # r => req'[q] = req[q]
  PROVE  WritesInv'
<1>1. \A r \in Requests : WriteInv(req[r])'
  BY WriteUndisturbed DEF WritesInv
<1>2. \A q, r \in Requests :
         req'[q].phase = "keys" /\ req'[r].phase = "keys" /\ req'[q].ctx = req'[r].ctx => q = r
  BY DEF WritesInv, WriteInv
<1> QED BY <1>1, <1>2 DEF WritesInv

LEMMA WritesQuiet ==
  ASSUME TypeOK, TypeOK', RequestShape, WritesInv, UNCHANGED req,
         \A r \in Requests : req[r].kind # "none" => Undisturbed(req[r].ctx),
         \A r \in Requests : req[r].phase = "keys" => lock'[req[r].ctx] = "keys"
  PROVE  WritesInv'
  BY WritesStep

LEMMA NothingDisturbed ==
  ASSUME TypeOK, NEW d \in Contexts, UNCHANGED <<state, acquiring, rangeID>>,
         HasRange(d) => HasRange(d)'
  PROVE  Undisturbed(d)
<1>1. rangeID[d] \in Int
  BY IDTypes
<1> QED BY <1>1 DEF Undisturbed

LEMMA KeysLocked ==
  ASSUME RequestShape, WritesInv, NEW r \in Requests, req[r].phase = "keys"
  PROVE  req[r].kind = "add" /\ req[r].ctx \in Contexts /\ lock[req[r].ctx] = "keys"
  BY DEF RequestShape, Shape, WritesInv, WriteInv

LEMMA NoRequestInv == WriteInv(NoRequest)' /\ NoRequest.phase # "keys" /\ NoRequest.kind = "none"
  BY DEF WriteInv, NoRequest

LEMMA WritesController ==
  ASSUME TypeOK, TypeOK', RequestShape, WritesInv, NEW c \in Contexts, Controller(c)
  PROVE  WritesInv'
<1>0. \A d \in Contexts : rangeID[d] \in Int
  BY IDTypes
<1>1. UNCHANGED <<req, lock>>
  BY DEF Controller, Start, Recreate, RequestStop, FinishStop, StopEngine
<1>2. ASSUME NEW d \in Contexts, \E r \in Requests : req[r].ctx = d PROVE Undisturbed(d)
  <2>1. CASE Recreate(c)
    <3>1. d # c
      BY <1>2, <2>1 DEF Recreate
    <3> QED BY <1>0, <2>1, <3>1 DEF Recreate, TypeOK, Undisturbed, HasRange
  <2>2. CASE ~Recreate(c)
    <3>1. UNCHANGED <<rangeID, nextTaskID>>
      BY <2>2 DEF Controller, Start, RequestStop, FinishStop, StopEngine
    <3>2. UNCHANGED acquiring \/ acquiring' = [acquiring EXCEPT ![c] = "load"]
      BY <2>2 DEF Controller, Start, RequestStop, FinishStop, StopEngine
    <3>3. \/ UNCHANGED state
          \/ \E s \in {"Stopping", "Stopped"} : state' = [state EXCEPT ![c] = s]
          \/ /\ state' = [state EXCEPT ![c] = "Acquiring"]
             /\ acquiring' = [acquiring EXCEPT ![c] = "load"]
      BY <2>2 DEF Controller, Start, RequestStop, FinishStop, StopEngine, StopRequested,
         IsValid, TypeOK
    <3> QED BY <1>0, <3>1, <3>2, <3>3 DEF TypeOK, Undisturbed, HasRange
  <2> QED BY <2>1, <2>2
<1>3. \A r \in Requests : req[r].kind # "none" => Undisturbed(req[r].ctx)
  BY <1>2 DEF RequestShape, Shape
<1> QED BY <1>1, <1>3, KeysLocked, WritesQuiet

LEMMA WritesAcquisition ==
  ASSUME FencingInv, TypeOK', WritesInv, NEW c \in Contexts, Acquisition(c)
  PROVE  WritesInv'
<1> USE DEF FencingInv, CountInv
<1>0. dbRange \in Nat /\ \A d \in Contexts : rangeID[d] \in Int
  BY IDTypes
<1>1. UNCHANGED <<req, nextTaskID>>
  BY DEF Acquisition, LoadShardMetadata, LoadShardMetadataFails, AcquireRetry,
     AcquireExpires, AcquireLock, CreateEngine, FinishAcquire
<1>2. \A d \in Contexts : lock[d] = "keys" => lock'[d] = "keys"
  BY DEF Acquisition, LoadShardMetadata, LoadShardMetadataFails, AcquireRetry,
     AcquireExpires, AcquireLock, CreateEngine, FinishAcquire, TypeOK
<1>3. ASSUME NEW d \in Contexts PROVE Undisturbed(d)
  <2>1. CASE LoadShardMetadata(c)
    <3>1. rangeID' = rangeID \/ (rangeID[c] = NotLoaded /\ rangeID' = [rangeID EXCEPT ![c] = dbRange])
      BY <2>1 DEF LoadShardMetadata
    <3>2. state' = state /\ acquiring' = [acquiring EXCEPT ![c] = "renew"]
      BY <2>1 DEF LoadShardMetadata
    <3>3. rangeID[d] <= rangeID'[d] /\ (rangeID'[d] = rangeID[d] \/ ~HasRange(d))
      BY <1>0, <3>1 DEF TypeOK, Loaded
    <3> QED BY <1>0, <1>1, <3>2, <3>3 DEF Undisturbed, HasRange, TypeOK
  <2>2. CASE FinishAcquire(c)
    BY <1>0, <1>1, <2>2 DEF FinishAcquire, CanBecomeAcquired, Undisturbed, HasRange, TypeOK
  <2>3. CASE CreateEngine(c)
    BY <1>0, <1>1, <2>3 DEF CreateEngine, Undisturbed, HasRange, TypeOK
  <2>4. CASE AcquireLock(c) \/ AcquireRetry(c)
    BY <1>0, <1>1, <2>4 DEF AcquireLock, AcquireRetry, Undisturbed, HasRange, TypeOK
  <2>5. CASE LoadShardMetadataFails(c) \/ AcquireExpires(c)
    BY <1>0, <1>1, <2>5 DEF LoadShardMetadataFails, AcquireExpires, AcquireFailed,
       StopRequested, IsValid, Undisturbed, HasRange, TypeOK
  <2> QED BY <2>1, <2>2, <2>3, <2>4, <2>5 DEF Acquisition
<1>4. \A r \in Requests : req[r].kind # "none" => Undisturbed(req[r].ctx)
  BY <1>3 DEF RequestShape, Shape
<1> QED BY <1>1, <1>2, <1>4, KeysLocked, WritesQuiet

\* The failures of a write and of a renewal make no context Acquired.
LEMMA HandledUndisturbed ==
  ASSUME TypeOK, NEW c \in Contexts, NEW range, NEW err,
         HandleWriteErrorLocked(c, range, err) \/ AcquireFailed(c, err),
         UNCHANGED <<rangeID, nextTaskID>>
  PROVE  \A d \in Contexts : Undisturbed(d)
<1>0. \A d \in Contexts : rangeID[d] \in Int
  BY IDTypes
<1>1. CASE UNCHANGED stateVars
  BY <1>0, <1>1 DEF Undisturbed, HasRange
<1>2. CASE /\ state' = [state EXCEPT ![c] = StopRequested(@)] /\ state[c] # "Stopped"
           /\ UNCHANGED acquiring
  BY <1>0, <1>2 DEF Undisturbed, HasRange, StopRequested, TypeOK
<1>3. CASE acquiring' = [acquiring EXCEPT ![c] = "load"] /\ state' = [state EXCEPT ![c] = "Acquiring"]
  BY <1>0, <1>3 DEF Undisturbed, HasRange, TypeOK
<1>4. CASE AcquireFailed(c, err)
  BY <1>0, <1>4 DEF AcquireFailed, StopRequested, Undisturbed, HasRange, TypeOK
<1>5. CASE HandleWriteErrorLocked(c, range, err)
  <2>1. IsValid(c) => state[c] # "Stopped"
    BY DEF IsValid
  <2> QED BY <1>1, <1>2, <1>3, <1>5, <2>1, Zenon DEF HandleWriteErrorLocked
<1> QED BY <1>4, <1>5

\* A call that its caller is done with.
LEMMA WriteFinished ==
  ASSUME TypeOK, TypeOK', NEW r \in Requests, WriteInv(req[r]),
         req[r].kind # "none", req[r].phase = "answered", req'[r] = Finished(req[r]),
         Undisturbed(req[r].ctx), req[r].ctx \in Contexts,
         req[r].kind = "add" /\ req[r].wire = "pending" /\ req[r].range = rangeID'[req[r].ctx]
            => state'[req[r].ctx] # "Acquired"
  PROVE  WriteInv(req[r])' /\ req'[r].phase # "keys"
<1>1. CASE req[r].wire # "pending"
  <2>1. req'[r] = NoRequest
    BY <1>1 DEF Finished
  <2> QED BY <2>1, NoRequestInv
<1>2. CASE req[r].wire = "pending"
  <2>1. req'[r] = [req[r] EXCEPT !.phase = "zombie"] /\ req[r] \in RequestType
    BY <1>2 DEF Finished, TypeOK
  <2>2. /\ req'[r].kind = req[r].kind /\ req'[r].ctx = req[r].ctx
        /\ req'[r].range = req[r].range /\ req'[r].phase = "zombie"
        /\ req[r].range \in Int
    BY <2>1 DEF RequestType
  <2>3. rangeID[req[r].ctx] \in Int /\ rangeID'[req[r].ctx] \in Int
    BY DEF TypeOK
  <2> QED BY <1>2, <2>2, <2>3 DEF WriteInv, Undisturbed, HasRange
<1> QED BY <1>1, <1>2

LEMMA WritesRenewal ==
  ASSUME FencingInv, TypeOK', AcquireInv, WritesInv, NEW c \in Contexts, Renewal(c)
  PROVE  WritesInv'
<1> USE DEF FencingInv, CountInv
<1>0. \A d \in Contexts : rangeID[d] \in Int
  BY IDTypes
<1>1. ASSUME NEW r \in Requests, SendRenew(c, r) PROVE WritesInv'
  <2>1. UNCHANGED <<stateVars, lock, rangeID, nextTaskID>>
    BY <1>1 DEF SendRenew
  <2>2. \A d \in Contexts : Undisturbed(d)
    BY <2>1, NothingDisturbed DEF HasRange
  <2>3. /\ req'[r].kind = "renew" /\ req'[r].phase = "inflight"
        /\ req'[r].ctx = c /\ req'[r].range = rangeID[c]
        /\ \A q \in Requests : q # r => req'[q] = req[q]
    BY <1>1 DEF SendRenew, TypeOK
  <2>4. WriteInv(req[r])'
    BY <1>0, <2>1, <2>3 DEF WriteInv
  <2>5. \A q \in Requests : req[q].kind # "none" => Undisturbed(req[q].ctx)
    BY <2>2 DEF RequestShape, Shape
  <2> QED BY <2>1, <2>3, <2>4, <2>5, KeysLocked, WritesStep
<1>2. ASSUME NEW r \in Requests, RenewSucceeded(c, r) PROVE WritesInv'
  <2>1. HasRange(c)' /\ \A d \in Contexts : HasRange(d) => HasRange(d)'
    BY <1>2, RenewedHasRange
  <2>2. /\ UNCHANGED state
        /\ rangeID'[c] = rangeID[c] + 1
        /\ \A d \in Contexts : d # c => rangeID'[d] = rangeID[d] /\ acquiring'[d] = acquiring[d]
        /\ \A d \in Contexts : lock[d] = "keys" => lock'[d] = "keys"
    BY <1>2 DEF RenewSucceeded, TypeOK
  <2>3. \A d \in Contexts : Undisturbed(d)
    BY <1>0, <2>1, <2>2 DEF Undisturbed
  <2>4. req'[r] = NoRequest /\ \A q \in Requests : q # r => req'[q] = req[q]
    BY <1>2 DEF RenewSucceeded, TypeOK
  <2>5. \A q \in Requests : req[q].kind # "none" => Undisturbed(req[q].ctx)
    BY <2>3 DEF RequestShape, Shape
  <2>6. WriteInv(req[r])' /\ req'[r].phase # "keys"
    BY <2>4, NoRequestInv
  <2> QED BY <2>2, <2>4, <2>5, <2>6, KeysLocked, WritesStep
<1>3. ASSUME NEW r \in Requests, RenewFailed(c, r) PROVE WritesInv'
  <2>1. UNCHANGED <<rangeID, nextTaskID>>
    BY <1>3 DEF RenewFailed
  <2>2. HandleWriteErrorLocked(c, req[r].range, req[r].err) \/ AcquireFailed(c, req[r].err)
    BY <1>3 DEF RenewFailed
  <2>3. \A d \in Contexts : Undisturbed(d)
    BY <2>1, <2>2, HandledUndisturbed
  <2>4. \A q \in Requests : req'[q] = IF q = r THEN Finished(req[r])
                                      ELSE IF q \in SettingKeys(c) THEN NoRequest
                                      ELSE req[q]
    BY <1>3 DEF RenewFailed
  <2>5. req[r].kind = "renew" /\ req[r].phase = "answered" /\ req[r].ctx = c
    BY <1>3 DEF RenewFailed
  <2>6. WriteInv(req[r])' /\ req'[r].phase # "keys"
    BY <2>3, <2>4, <2>5, WriteFinished DEF WritesInv
  <2>7. ASSUME NEW q \in Requests, q # r, q \in SettingKeys(c)
        PROVE  WriteInv(req[q])' /\ req'[q].phase # "keys"
    BY <2>4, <2>7, NoRequestInv
  <2>8. ASSUME NEW q \in Requests, q # r, q \notin SettingKeys(c)
        PROVE  /\ req'[q] = req[q]
               /\ req[q].kind # "none" => Undisturbed(req[q].ctx)
               /\ req[q].phase = "keys" => lock'[req[q].ctx] = "keys"
    <3>1. req[q].phase = "keys" => req[q].ctx # c
      BY <2>8 DEF SettingKeys
    <3>2. \A d \in Contexts : d # c => lock'[d] = lock[d]
      BY <1>3 DEF RenewFailed, TypeOK
    <3> QED BY <2>3, <2>4, <2>8, <3>1, <3>2, KeysLocked DEF RequestShape, Shape
  <2> QED BY <2>6, <2>7, <2>8, WritesStep
<1> QED BY <1>1, <1>2, <1>3 DEF Renewal

LEMMA WritesWrite ==
  ASSUME FencingInv, TypeOK', AcquireInv, WritesInv, NEW c \in Contexts, Write(c)
  PROVE  WritesInv'
<1> USE DEF FencingInv, CountInv
<1>0. \A d \in Contexts : rangeID[d] \in Int
  BY IDTypes
<1>1. ASSUME NEW r \in Requests, BeginWrite(c, r) PROVE WritesInv'
  <2>1. /\ UNCHANGED <<stateVars, rangeID, nextTaskID>>
        /\ lock' = [lock EXCEPT ![c] = "keys"] /\ lock[c] = "free"
        /\ state[c] = "Acquired"
    BY <1>1 DEF BeginWrite
  <2>2. \A d \in Contexts : Undisturbed(d)
    BY <2>1, NothingDisturbed DEF HasRange
  <2>3. /\ req'[r].kind = "add" /\ req'[r].phase = "keys" /\ req'[r].ctx = c
        /\ req'[r].wire = "none"
        /\ \A q \in Requests : q # r => req'[q] = req[q]
    BY <1>1 DEF BeginWrite, TypeOK
  <2>4. lock'[c] = "keys" /\ \A d \in Contexts : lock[d] = "keys" => lock'[d] = "keys"
    BY <2>1 DEF TypeOK
  <2>5. HasRange(c)'
    BY <2>1 DEF AcquireInv, HasRange
  <2>6. WriteInv(req[r])'
    BY <2>3, <2>4, <2>5 DEF WriteInv, HasRange
  <2>7. \A q \in Requests : req[q].kind # "none" => Undisturbed(req[q].ctx)
    BY <2>2 DEF RequestShape, Shape
  <2> QED BY <2>1, <2>3, <2>4, <2>6, <2>7, KeysLocked, WritesStep
<1>2. ASSUME NEW r \in Requests, NEW cat \in Categories, NEW t \in 0..MaxTime,
             SetTaskKey(c, r, cat, t)
      PROVE  WritesInv'
  <2>1. /\ UNCHANGED <<stateVars, lock, rangeID>>
        /\ nextTaskID' = [nextTaskID EXCEPT ![c] = @ + 1]
    BY <1>2 DEF SetTaskKey
  <2>2. \A d \in Contexts : HasRange(d) => HasRange(d)'
    BY <2>1 DEF TypeOK, HasRange
  <2>3. \A d \in Contexts : Undisturbed(d)
    BY <2>1, <2>2, NothingDisturbed
  <2>4. PICK task : req' = [req EXCEPT ![r].tasks = @ \cup {task}]
    BY <1>2 DEF SetTaskKey
  <2>5. /\ req'[r].kind = req[r].kind /\ req'[r].phase = req[r].phase
        /\ req'[r].ctx = req[r].ctx /\ req'[r].wire = req[r].wire
        /\ req[r].phase = "keys"
        /\ \A q \in Requests : q # r => req'[q] = req[q]
    <3>1. req[r] \in RequestType /\ req[r].phase = "keys"
      BY <1>2 DEF SetTaskKey, SettingKeys, TypeOK
    <3> QED BY <2>4, <3>1 DEF TypeOK, RequestType
  <2>6. WriteInv(req[r])'
    <3>1. req[r].ctx \in Contexts
      BY <2>5, KeysLocked
    <3> QED BY <2>1, <2>2, <2>5, <3>1 DEF WritesInv, WriteInv, HasRange
  <2>7. \A q \in Requests : req[q].kind # "none" => Undisturbed(req[q].ctx)
    BY <2>3 DEF RequestShape, Shape
  <2> QED BY <2>1, <2>5, <2>6, <2>7, KeysLocked, WritesStep
<1>3. ASSUME NEW r \in Requests, TrackAndSend(c, r) PROVE WritesInv'
  <2>1. /\ UNCHANGED <<stateVars, rangeID, nextTaskID>>
        /\ lock' = [lock EXCEPT ![c] = "free"] /\ lock[c] = "keys"
    BY <1>3 DEF TrackAndSend
  <2>2. \A d \in Contexts : Undisturbed(d)
    BY <2>1, NothingDisturbed DEF HasRange
  <2>3. /\ req'[r].kind = req[r].kind /\ req'[r].phase = "inflight"
        /\ req'[r].ctx = c /\ req'[r].range = rangeID[c]
        /\ req[r].phase = "keys" /\ req[r].ctx = c
        /\ \A q \in Requests : q # r => req'[q] = req[q]
    <3>1. req[r] \in RequestType /\ req[r].phase = "keys" /\ req[r].ctx = c
      BY <1>3 DEF TrackAndSend, SettingKeys, TypeOK
    <3> QED BY <1>3, <3>1 DEF TrackAndSend, TypeOK, RequestType
  <2>4. WriteInv(req[r])'
    BY <1>0, <2>1, <2>3, KeysLocked DEF WriteInv, AcquireInv, HasRange
  <2>5. \A q \in Requests : q # r /\ req[q].phase = "keys" => lock'[req[q].ctx] = "keys"
    BY <2>1, <2>3, KeysLocked DEF WritesInv, TypeOK
  <2>6. \A q \in Requests : req[q].kind # "none" => Undisturbed(req[q].ctx)
    BY <2>2 DEF RequestShape, Shape
  <2> QED BY <2>3, <2>4, <2>5, <2>6, WritesStep
<1>4. ASSUME NEW r \in Requests, HandleWriteError(c, r) PROVE WritesInv'
  <2>1. /\ UNCHANGED <<rangeID, nextTaskID, lock>>
        /\ HandleWriteErrorLocked(c, req[r].range, req[r].err)
        /\ req[r].kind \in {"add", "update"} /\ req[r].phase = "answered" /\ req[r].ctx = c
    BY <1>4 DEF HandleWriteError
  <2>2. \A d \in Contexts : Undisturbed(d)
    BY <2>1, HandledUndisturbed
  <2>3. req'[r] = Finished(req[r]) /\ \A q \in Requests : q # r => req'[q] = req[q]
    BY <1>4 DEF HandleWriteError, TypeOK
  <2>4. req[r].wire = "pending" /\ req[r].range = rangeID'[c] => state'[c] # "Acquired"
    <3>1. SUFFICES ASSUME req[r].err = "unknown", req[r].range = rangeID[c]
                   PROVE  state'[c] # "Acquired"
      BY <2>1 DEF WritesInv, WriteInv
    <3> QED BY <2>1, <3>1 DEF HandleWriteErrorLocked, IsValid, StopRequested, TypeOK
  <2>5. WriteInv(req[r])' /\ req'[r].phase # "keys"
    BY <2>1, <2>2, <2>3, <2>4, WriteFinished DEF WritesInv
  <2>6. \A q \in Requests : req[q].kind # "none" => Undisturbed(req[q].ctx)
    BY <2>2 DEF RequestShape, Shape
  <2> QED BY <2>1, <2>3, <2>5, <2>6, KeysLocked, WritesStep
<1>5. CASE RenewForKeys(c) \/ GenerateTaskID(c)
  <2>1. /\ UNCHANGED <<stateVars, rangeID, req>>
        /\ \A d \in Contexts : lock[d] = "keys" => lock'[d] = "keys"
        /\ \A d \in Contexts : nextTaskID'[d] \in {nextTaskID[d], nextTaskID[d] + 1}
    BY <1>5 DEF RenewForKeys, GenerateTaskID, TypeOK
  <2>2. \A d \in Contexts : HasRange(d) => HasRange(d)'
    BY <2>1 DEF TypeOK, HasRange
  <2>3. \A d \in Contexts : Undisturbed(d)
    BY <2>1, <2>2, NothingDisturbed
  <2>4. \A q \in Requests : req[q].kind # "none" => Undisturbed(req[q].ctx)
    BY <2>3 DEF RequestShape, Shape
  <2> QED BY <2>1, <2>4, KeysLocked, WritesQuiet
<1> QED BY <1>1, <1>2, <1>3, <1>4, <1>5 DEF Write

LEMMA WritesQueue ==
  ASSUME FencingInv, TypeOK', AcquireInv, WritesInv, NEW c \in Contexts, Queue(c) \/ Tick(c)
  PROVE  WritesInv'
<1> USE DEF FencingInv, CountInv
<1>0. \A d \in Contexts : rangeID[d] \in Int
  BY IDTypes
<1>1. UNCHANGED <<stateVars, lock, rangeID, nextTaskID>>
  BY DEF Queue, ReadNewRange, SetQueueState, SendUpdate, AbandonUpdate, Tick
<1>2. \A q \in Requests : req[q].kind # "none" => Undisturbed(req[q].ctx)
  <2>1. \A d \in Contexts : Undisturbed(d)
    BY <1>1, NothingDisturbed DEF HasRange
  <2> QED BY <2>1 DEF RequestShape, Shape
<1>3. \A q \in Requests : req[q].phase = "keys" => lock'[req[q].ctx] = "keys"
  BY <1>1, KeysLocked
<1>4. CASE UNCHANGED req
  BY <1>2, <1>3, <1>4, WritesQuiet
<1>5. ASSUME NEW cat \in Categories, SetQueueState(c, cat), NEW r \in Requests,
             req' = [req EXCEPT ![r] =
                   [kind |-> "update", ctx |-> c, range |-> rangeID[c], tasks |-> {},
                    marks |-> [marks[c] EXCEPT ![cat] = readerMark[c][cat]],
                    phase |-> "queued", wire |-> "none", err |-> "nil"]]
      PROVE  WritesInv'
  <2>1. /\ req'[r].kind = "update" /\ req'[r].phase = "queued" /\ req'[r].ctx = c
        /\ req'[r].range = rangeID[c]
        /\ \A q \in Requests : q # r => req'[q] = req[q]
    BY <1>5 DEF TypeOK
  <2>2. HasRange(c)
    BY <1>5 DEF SetQueueState, AcquireInv
  <2>3. WriteInv(req[r])'
    BY <1>0, <1>1, <2>1, <2>2 DEF WriteInv, HasRange
  <2> QED BY <1>2, <1>3, <2>1, <2>3, WritesStep
<1>6. ASSUME NEW r \in Requests, SendUpdate(c, r) PROVE WritesInv'
  <2>1. req[r] \in RequestType /\ req[r].kind = "update" /\ req[r].phase = "queued"
    BY <1>6 DEF SendUpdate, TypeOK, RequestShape, Shape
  <2>2. /\ req'[r].kind = "update" /\ req'[r].phase = "inflight"
        /\ req'[r].ctx = req[r].ctx /\ req'[r].range = req[r].range
        /\ \A q \in Requests : q # r => req'[q] = req[q]
    BY <1>6, <2>1 DEF SendUpdate, TypeOK, RequestType
  <2>3. WriteInv(req[r])'
    BY <1>1, <2>1, <2>2 DEF WritesInv, WriteInv, HasRange
  <2> QED BY <1>2, <1>3, <2>2, <2>3, WritesStep
<1>7. ASSUME NEW r \in Requests, AbandonUpdate(c, r) PROVE WritesInv'
  <2>1. req'[r] = NoRequest /\ \A q \in Requests : q # r => req'[q] = req[q]
    BY <1>7 DEF AbandonUpdate, TypeOK
  <2>2. WriteInv(req[r])' /\ req'[r].phase # "keys"
    BY <2>1, NoRequestInv
  <2> QED BY <1>2, <1>3, <2>1, <2>2, WritesStep
<1> QED BY <1>4, <1>5, <1>6, <1>7 DEF Queue, ReadNewRange, SetQueueState, Tick

LEMMA WritesStore ==
  ASSUME FencingInv, TypeOK', WritesInv, Store
  PROVE  WritesInv'
<1> USE DEF FencingInv, CountInv
<1>1. UNCHANGED <<stateVars, lock, rangeID, nextTaskID>>
  BY DEF Store, ApplyWrite, DropWrite, Answer
<1>2. \A q \in Requests : req[q].kind # "none" => Undisturbed(req[q].ctx)
  <2>1. \A d \in Contexts : Undisturbed(d)
    BY <1>1, NothingDisturbed DEF HasRange
  <2> QED BY <2>1 DEF RequestShape, Shape
<1>3. \A q \in Requests : req[q].phase = "keys" => lock'[req[q].ctx] = "keys"
  BY <1>1, KeysLocked
<1>4. ASSUME NEW r \in Requests, ApplyWrite(r) PROVE WritesInv'
  <2>1. ASSUME NEW q \in Requests, req'[q] # req[q]
        PROVE  /\ WriteInv(req[q])'
               /\ req'[q].phase = "keys" => req[q].phase = "keys" /\ req'[q].ctx = req[q].ctx
    <3>1. CASE req'[q] = NoRequest
      BY <3>1, NoRequestInv
    <3>2. CASE req'[q] = [req[q] EXCEPT !.wire = "applied"] /\ req[q].wire = "pending"
      <4>1. /\ req'[q].kind = req[q].kind /\ req'[q].phase = req[q].phase
            /\ req'[q].ctx = req[q].ctx /\ req'[q].range = req[q].range
            /\ req'[q].wire = "applied" /\ req[q].wire = "pending"
        BY <3>2 DEF TypeOK, RequestType
      <4>2. WriteInv(req[q])'
        BY <1>1, <4>1 DEF WritesInv, WriteInv, HasRange
      <4> QED BY <4>1, <4>2
    <3> QED BY <1>4, <2>1, <3>1, <3>2 DEF ApplyWrite
  <2> QED BY <1>2, <1>3, <2>1, WritesStep
<1>5. ASSUME NEW r \in Requests, DropWrite(r) PROVE WritesInv'
  <2>1. req'[r] = NoRequest /\ \A q \in Requests : q # r => req'[q] = req[q]
    BY <1>5 DEF DropWrite, TypeOK
  <2>2. WriteInv(req[r])' /\ req'[r].phase # "keys"
    BY <2>1, NoRequestInv
  <2> QED BY <1>2, <1>3, <2>1, <2>2, WritesStep
<1>6. ASSUME NEW r \in Requests, Answer(r) PROVE WritesInv'
  <2>1. PICK err \in Answers(req[r]) :
           req' = [req EXCEPT ![r].phase = "answered", ![r].err = err,
                              ![r].wire = IF @ = "pending" /\ err = "unknown"
                                          THEN "pending" ELSE "none"]
    BY <1>6 DEF Answer
  <2>2. /\ req'[r].kind = req[r].kind /\ req'[r].phase = "answered"
        /\ req'[r].ctx = req[r].ctx /\ req'[r].range = req[r].range
        /\ req'[r].wire # "none" => req'[r].err = "unknown" /\ req[r].wire # "none"
        /\ req[r].phase = "inflight"
        /\ \A q \in Requests : q # r => req'[q] = req[q]
    <3>1. req[r] \in RequestType /\ req[r].phase = "inflight"
      BY <1>6 DEF Answer, TypeOK
    <3> QED BY <2>1, <3>1 DEF TypeOK, RequestType
  <2>3. WriteInv(req[r])'
    BY <1>1, <2>2 DEF WritesInv, WriteInv, HasRange
  <2> QED BY <1>2, <1>3, <2>2, <2>3, WritesStep
<1> QED BY <1>4, <1>5, <1>6 DEF Store

LEMMA WritesNext ==
  ASSUME FencingInv, FencingInv', AcquireInv, WritesInv, Next
  PROVE  WritesInv'
<1> USE DEF FencingInv, CountInv
<1> QED BY WritesController, WritesAcquisition, WritesRenewal, WritesWrite, WritesQueue,
        WritesStore DEF Next

-----------------------------------------------------------------------------
(* What a step does to the calls and to the range IDs                      *)

\* The call stays what it was.
SameCall(old, new) ==
    /\ new.kind = old.kind /\ new.ctx = old.ctx
    /\ new.marks = old.marks /\ new.tasks = old.tasks
    /\ Granted(new) => Granted(old)
    /\ new.kind # "add" => new.range = old.range
    /\ new.phase = "keys" => old.phase = "keys"
    /\ new.kind = "add" /\ new.wire = "pending" =>
          old.phase = "keys" \/ (old.wire = "pending" /\ new.range = old.range)

\* A new call of c, which has no tasks yet and only the watermarks of c.
NewCall(c, new) ==
    /\ new.ctx = c /\ new.tasks = {} /\ ~Granted(new)
    /\ new.kind # "add" =>
          /\ new.range = rangeID[c]
          /\ \A cat \in Categories : new.marks[cat] \in {marks[c][cat], readerMark[c][cat]}

CallStep(r) ==
    \/ req'[r] = NoRequest
    \/ SameCall(req[r], req'[r])
    \/ \E c \in Contexts : NewCall(c, req'[r])

\* A context only gets a range by adopting a granted one.
RangeStep(d) ==
    HasRange(d)' =>
        \/ HasRange(d) /\ rangeID'[d] = rangeID[d]
        \/ \E q \in Requests : /\ Granted(req[q]) /\ req[q].ctx = d
                               /\ rangeID'[d] = req[q].range + 1

LEMMA CallSame == ASSUME NEW r \in Requests, req'[r] = req[r] PROVE CallStep(r)
  BY DEF CallStep, SameCall

LEMMA CallFinished ==
  ASSUME TypeOK, NEW r \in Requests, req[r].phase = "answered", req'[r] = Finished(req[r])
  PROVE  CallStep(r)
<1>1. CASE req[r].wire = "pending"
  <2>1. req'[r] = [req[r] EXCEPT !.phase = "zombie"] /\ req[r] \in RequestType
    BY <1>1 DEF Finished, TypeOK
  <2> QED BY <1>1, <2>1 DEF CallStep, SameCall, Granted, RequestType
<1>2. CASE req[r].wire # "pending"
  BY <1>2 DEF Finished, CallStep
<1> QED BY <1>1, <1>2

LEMMA CallsRenewal ==
  ASSUME TypeOK, NEW c \in Contexts, Renewal(c)
  PROVE  \A q \in Requests : CallStep(q)
<1>1. ASSUME NEW r \in Requests, SendRenew(c, r) PROVE \A q \in Requests : CallStep(q)
  <2>1. req'[r] = [kind |-> "renew", ctx |-> c, range |-> rangeID[c], tasks |-> {},
                   marks |-> marks[c], phase |-> "inflight", wire |-> "pending",
                   err |-> "nil"]
        /\ \A q \in Requests : q # r => req'[q] = req[q]
    BY <1>1 DEF SendRenew, TypeOK
  <2>2. NewCall(c, req'[r])
    BY <2>1 DEF NewCall, Granted
  <2> QED BY <2>1, <2>2, CallSame DEF CallStep
<1>2. ASSUME NEW r \in Requests, RenewSucceeded(c, r) PROVE \A q \in Requests : CallStep(q)
  <2>1. req'[r] = NoRequest /\ \A q \in Requests : q # r => req'[q] = req[q]
    BY <1>2 DEF RenewSucceeded, TypeOK
  <2> QED BY <2>1, CallSame DEF CallStep
<1>3. ASSUME NEW r \in Requests, RenewFailed(c, r) PROVE \A q \in Requests : CallStep(q)
  <2>1. \A q \in Requests : req'[q] = IF q = r THEN Finished(req[r])
                                      ELSE IF q \in SettingKeys(c) THEN NoRequest
                                      ELSE req[q]
    BY <1>3 DEF RenewFailed
  <2>2. req[r].phase = "answered"
    BY <1>3 DEF RenewFailed
  <2>3. CallStep(r)
    BY <2>1, <2>2, CallFinished
  <2>4. ASSUME NEW q \in Requests, q # r PROVE CallStep(q)
    <3>1. req'[q] = NoRequest \/ req'[q] = req[q]
      BY <2>1, <2>4
    <3> QED BY <3>1, CallSame DEF CallStep
  <2> QED BY <2>3, <2>4
<1> QED BY <1>1, <1>2, <1>3 DEF Renewal

LEMMA CallsWrite ==
  ASSUME TypeOK, RequestShape, NEW c \in Contexts, Write(c),
         \A r \in Requests, cat \in Categories, t \in 0..MaxTime : ~SetTaskKey(c, r, cat, t)
  PROVE  \A q \in Requests : CallStep(q)
<1>1. ASSUME NEW r \in Requests, BeginWrite(c, r) PROVE \A q \in Requests : CallStep(q)
  <2>1. req'[r] = [kind |-> "add", ctx |-> c, range |-> 0, tasks |-> {},
                   marks |-> NoMarks, phase |-> "keys", wire |-> "none", err |-> "nil"]
        /\ \A q \in Requests : q # r => req'[q] = req[q]
    BY <1>1 DEF BeginWrite, TypeOK
  <2>2. NewCall(c, req'[r])
    BY <2>1 DEF NewCall, Granted
  <2> QED BY <2>1, <2>2, CallSame DEF CallStep
<1>2. ASSUME NEW r \in Requests, TrackAndSend(c, r) PROVE \A q \in Requests : CallStep(q)
  <2>1. req[r] \in RequestType /\ req[r].phase = "keys" /\ req[r].kind = "add"
    BY <1>2 DEF TrackAndSend, SettingKeys, TypeOK, RequestShape, Shape
  <2>2. req'[r] = [req[r] EXCEPT !.range = rangeID[c], !.phase = "inflight",
                                 !.wire = "pending"]
        /\ \A q \in Requests : q # r => req'[q] = req[q]
    BY <1>2 DEF TrackAndSend, TypeOK
  <2>3. SameCall(req[r], req'[r])
    BY <2>1, <2>2 DEF SameCall, Granted, RequestType
  <2> QED BY <2>2, <2>3, CallSame DEF CallStep
<1>3. ASSUME NEW r \in Requests, HandleWriteError(c, r) PROVE \A q \in Requests : CallStep(q)
  <2>1. /\ req'[r] = Finished(req[r]) /\ req[r].phase = "answered"
        /\ \A q \in Requests : q # r => req'[q] = req[q]
    BY <1>3 DEF HandleWriteError, TypeOK
  <2> QED BY <2>1, CallFinished, CallSame
<1>4. CASE RenewForKeys(c) \/ GenerateTaskID(c)
  BY <1>4, CallSame DEF RenewForKeys, GenerateTaskID
<1> QED BY <1>1, <1>2, <1>3, <1>4 DEF Write

LEMMA CallsQueue ==
  ASSUME TypeOK, RequestShape, NEW c \in Contexts, Queue(c)
  PROVE  \A q \in Requests : CallStep(q)
<1>1. CASE UNCHANGED req
  BY <1>1, CallSame
<1>2. ASSUME NEW cat \in Categories, NEW r \in Requests,
             req' = [req EXCEPT ![r] =
                   [kind |-> "update", ctx |-> c, range |-> rangeID[c], tasks |-> {},
                    marks |-> [marks[c] EXCEPT ![cat] = readerMark[c][cat]],
                    phase |-> "queued", wire |-> "none", err |-> "nil"]]
      PROVE  \A q \in Requests : CallStep(q)
  <2>1. /\ req'[r].ctx = c /\ req'[r].tasks = {} /\ req'[r].kind = "update"
        /\ req'[r].range = rangeID[c]
        /\ req'[r].marks = [marks[c] EXCEPT ![cat] = readerMark[c][cat]]
        /\ \A q \in Requests : q # r => req'[q] = req[q]
    BY <1>2 DEF TypeOK
  <2>2. \A k \in Categories : req'[r].marks[k] \in {marks[c][k], readerMark[c][k]}
    BY <2>1 DEF TypeOK
  <2>3. NewCall(c, req'[r])
    BY <2>1, <2>2 DEF NewCall, Granted
  <2> QED BY <2>1, <2>3, CallSame DEF CallStep
<1>3. ASSUME NEW r \in Requests, SendUpdate(c, r) PROVE \A q \in Requests : CallStep(q)
  <2>1. req[r] \in RequestType /\ req[r].kind = "update"
    BY <1>3 DEF SendUpdate, TypeOK, RequestShape, Shape
  <2>2. req'[r] = [req[r] EXCEPT !.phase = "inflight", !.wire = "pending"]
        /\ \A q \in Requests : q # r => req'[q] = req[q]
    BY <1>3 DEF SendUpdate, TypeOK
  <2>3. SameCall(req[r], req'[r])
    BY <2>1, <2>2 DEF SameCall, Granted, RequestType
  <2> QED BY <2>2, <2>3, CallSame DEF CallStep
<1>4. ASSUME NEW r \in Requests, AbandonUpdate(c, r) PROVE \A q \in Requests : CallStep(q)
  <2>1. req'[r] = NoRequest /\ \A q \in Requests : q # r => req'[q] = req[q]
    BY <1>4 DEF AbandonUpdate, TypeOK
  <2> QED BY <2>1, CallSame DEF CallStep
<1> QED BY <1>1, <1>2, <1>3, <1>4 DEF Queue, ReadNewRange, SetQueueState

LEMMA CallsStore ==
  ASSUME TypeOK, RequestShape, NEW r \in Requests, DropWrite(r) \/ Answer(r)
  PROVE  \A q \in Requests : CallStep(q)
<1>1. CASE DropWrite(r)
  <2>1. req'[r] = NoRequest /\ \A q \in Requests : q # r => req'[q] = req[q]
    BY <1>1 DEF DropWrite, TypeOK
  <2> QED BY <2>1, CallSame DEF CallStep
<1>2. CASE Answer(r)
  <2>1. PICK err \in Answers(req[r]) :
           req' = [req EXCEPT ![r].phase = "answered", ![r].err = err,
                              ![r].wire = IF @ = "pending" /\ err = "unknown"
                                          THEN "pending" ELSE "none"]
    BY <1>2 DEF Answer
  <2>2. /\ req'[r].kind = req[r].kind /\ req'[r].phase = "answered"
        /\ req'[r].ctx = req[r].ctx /\ req'[r].range = req[r].range
        /\ req'[r].marks = req[r].marks /\ req'[r].tasks = req[r].tasks
        /\ req'[r].wire = "pending" => req[r].wire = "pending"
        /\ req'[r].wire # "applied" /\ req'[r].err = err
        /\ \A q \in Requests : q # r => req'[q] = req[q]
    <3>1. req[r] \in RequestType
      BY DEF TypeOK
    <3> QED BY <2>1, <3>1 DEF TypeOK, RequestType
  <2>3. err = "nil" => req[r].wire = "applied"
    BY DEF Answers
  <2>4. SameCall(req[r], req'[r])
    BY <2>2, <2>3 DEF SameCall, Granted
  <2> QED BY <2>2, <2>4, CallSame DEF CallStep
<1> QED BY <1>1, <1>2

LEMMA RangeStepNext ==
  ASSUME FencingInv, TypeOK', Next
  PROVE  \A d \in Contexts : RangeStep(d)
<1> USE DEF FencingInv, CountInv
<1>1. CASE UNCHANGED <<nextTaskID, rangeID>>
  BY <1>1 DEF RangeStep, HasRange
<1>2. ASSUME NEW c \in Contexts, Recreate(c) PROVE \A d \in Contexts : RangeStep(d)
  BY <1>2 DEF Recreate, RangeStep, HasRange, TypeOK
<1>3. ASSUME NEW c \in Contexts, LoadShardMetadata(c) PROVE \A d \in Contexts : RangeStep(d)
  <2>1. /\ nextTaskID' = nextTaskID
        /\ \/ rangeID' = rangeID
           \/ rangeID[c] = NotLoaded /\ rangeID' = [rangeID EXCEPT ![c] = dbRange]
    BY <1>3 DEF LoadShardMetadata
  <2> QED BY <2>1 DEF RangeStep, HasRange, Loaded, TypeOK
<1>4. ASSUME NEW c \in Contexts, NEW r \in Requests, RenewSucceeded(c, r)
      PROVE  \A d \in Contexts : RangeStep(d)
  <2>1. Granted(req[r]) /\ req[r].range = rangeID[c] /\ req[r].ctx = c
    BY <1>4 DEF RenewSucceeded, Granted, Waited, RangeInv, RenewalShape
  <2>2. /\ rangeID'[c] = rangeID[c] + 1
        /\ \A d \in Contexts : d # c => /\ rangeID'[d] = rangeID[d]
                                        /\ nextTaskID'[d] = nextTaskID[d]
    BY <1>4 DEF RenewSucceeded, TypeOK
  <2> QED BY <2>1, <2>2 DEF RangeStep, HasRange
<1>5. ASSUME NEW c \in Contexts, Write(c) PROVE \A d \in Contexts : RangeStep(d)
  <2>1. /\ rangeID' = rangeID
        /\ \/ nextTaskID' = nextTaskID
           \/ /\ nextTaskID' = [nextTaskID EXCEPT ![c] = @ + 1]
              /\ nextTaskID[c] # exclusiveMaxTaskID[c]
    BY <1>5 DEF Write, BeginWrite, SetTaskKey, TrackAndSend, HandleWriteError, RenewForKeys,
       GenerateTaskID
  <2> QED BY <2>1 DEF RangeStep, HasRange, RangeInitialized, TypeOK
<1>6. ASSUME NEW c \in Contexts, Controller(c) \/ Acquisition(c)
      PROVE  Recreate(c) \/ LoadShardMetadata(c) \/ UNCHANGED <<nextTaskID, rangeID>>
  BY <1>6 DEF Controller, Start, RequestStop, FinishStop, StopEngine, Acquisition,
     LoadShardMetadataFails, AcquireRetry, AcquireExpires, AcquireLock, CreateEngine,
     FinishAcquire
<1>7. ASSUME NEW c \in Contexts, Renewal(c)
      PROVE  (\E r \in Requests : RenewSucceeded(c, r)) \/ UNCHANGED <<nextTaskID, rangeID>>
  BY <1>7 DEF Renewal, SendRenew, RenewFailed
<1>8. ASSUME NEW c \in Contexts, Queue(c) \/ Tick(c) PROVE UNCHANGED <<nextTaskID, rangeID>>
  BY <1>8 DEF Queue, ReadNewRange, SetQueueState, SendUpdate, AbandonUpdate, Tick
<1>9. CASE Store
  BY <1>1, <1>9 DEF Store, ApplyWrite, DropWrite, Answer
<1> QED BY <1>1, <1>2, <1>3, <1>4, <1>5, <1>6, <1>7, <1>8, <1>9 DEF Next

\* Every step but two leaves the row alone and the tasks of the calls.
LEMMA CallsNext ==
  ASSUME FencingInv, Next
  PROVE  \/ UNCHANGED dbVars /\ \A q \in Requests : CallStep(q)
         \/ \E c \in Contexts, r \in Requests, cat \in Categories, t \in 0..MaxTime :
               SetTaskKey(c, r, cat, t)
         \/ \E r \in Requests : ApplyWrite(r)
<1> USE DEF FencingInv, CountInv
<1>1. ASSUME NEW c \in Contexts, Controller(c) \/ Acquisition(c) \/ Tick(c)
      PROVE  UNCHANGED dbVars /\ \A q \in Requests : CallStep(q)
  <2>1. UNCHANGED <<dbVars, req>>
    BY <1>1 DEF Controller, Start, Recreate, RequestStop, FinishStop, StopEngine, Acquisition,
       LoadShardMetadata, LoadShardMetadataFails, AcquireRetry, AcquireExpires, AcquireLock,
       CreateEngine, FinishAcquire, Tick
  <2> QED BY <2>1, CallSame
<1>2. ASSUME NEW c \in Contexts, Renewal(c)
      PROVE  UNCHANGED dbVars /\ \A q \in Requests : CallStep(q)
  BY <1>2, CallsRenewal DEF Renewal, SendRenew, RenewSucceeded, RenewFailed
<1>3. ASSUME NEW c \in Contexts, Write(c),
             \A r \in Requests, cat \in Categories, t \in 0..MaxTime : ~SetTaskKey(c, r, cat, t)
      PROVE  UNCHANGED dbVars /\ \A q \in Requests : CallStep(q)
  <2>1. UNCHANGED dbVars
    BY <1>3 DEF Write, BeginWrite, TrackAndSend, HandleWriteError, RenewForKeys, GenerateTaskID
  <2> QED BY <1>3, <2>1, CallsWrite
<1>4. ASSUME NEW c \in Contexts, Queue(c)
      PROVE  UNCHANGED dbVars /\ \A q \in Requests : CallStep(q)
  BY <1>4, CallsQueue DEF Queue, ReadNewRange, SetQueueState, SendUpdate, AbandonUpdate
<1>5. ASSUME NEW r \in Requests, DropWrite(r) \/ Answer(r)
      PROVE  UNCHANGED dbVars /\ \A q \in Requests : CallStep(q)
  BY <1>5, CallsStore DEF DropWrite, Answer
<1> QED BY <1>1, <1>2, <1>3, <1>4, <1>5 DEF Next, Store

-----------------------------------------------------------------------------
(* Watermarks                                                              *)

\* The context that the writes the store accepts come from: it holds the range
\* ID of the row, or is about to adopt it.
Owner(c) ==
    \/ HasRange(c) /\ rangeID[c] = dbRange
    \/ \E q \in Requests : Granted(req[q]) /\ req[q].ctx = c /\ req[q].range + 1 = dbRange

\* The watermarks of c: those of its readers, of its shardInfo, of the copies of
\* it that are on the way, and of the row if that is its own.
MarkOf(c, cat, m) ==
    \/ m = readerMark[c][cat]
    \/ m = marks[c][cat]
    \/ Owner(c) /\ m = dbMarks[cat]
    \/ \E q \in Requests : /\ req[q].kind \in {"update", "renew"} /\ req[q].ctx = c
                           /\ m = req[q].marks[cat]

\* No key that c will still hand out is below this one.
Bound(c, cat) ==
    IF cat \in Scheduled THEN taskMinScheduledTime[c]
    ELSE IF HasRange(c) THEN nextTaskID[c]
    ELSE EndTaskID(rangeID[c])

LEMMA OwnerStep ==
  ASSUME UNCHANGED dbRange, NEW c \in Contexts, RangeStep(c),
         \A q \in Requests : Granted(req'[q]) =>
            Granted(req[q]) /\ req'[q].ctx = req[q].ctx /\ req'[q].range = req[q].range
  PROVE  Owner(c)' => Owner(c)
<1>1. CASE HasRange(c)' /\ rangeID'[c] = dbRange'
  BY <1>1 DEF RangeStep, Owner
<1>2. ASSUME NEW q \in Requests, Granted(req'[q]), req'[q].ctx = c, req'[q].range + 1 = dbRange'
      PROVE  Owner(c)
  BY <1>2 DEF Owner
<1> QED BY <1>1, <1>2 DEF Owner, Granted

LEMMA CallGranted ==
  ASSUME NEW q \in Requests, CallStep(q), Granted(req'[q])
  PROVE  Granted(req[q]) /\ req'[q].ctx = req[q].ctx /\ req'[q].range = req[q].range
<1>1. ~Granted(NoRequest)
  BY DEF NoRequest, Granted
<1>2. req'[q] # NoRequest
  BY <1>1
<1>3. \A c \in Contexts : ~NewCall(c, req'[q])
  BY DEF NewCall
<1> QED BY <1>2, <1>3 DEF CallStep, SameCall, Granted

\* The watermarks of c before and after a step.
LEMMA ReaderStep ==
  ASSUME TypeOK, Next, NEW c \in Contexts, NEW cat \in Categories
  PROVE  \/ readerMark'[c][cat] \in {readerMark[c][cat], 0}
         \/ CreateEngine(c) /\ readerMark'[c][cat] = marks[c][cat]
         \/ ReadNewRange(c, cat)
<1>1. CASE UNCHANGED readerMark
  BY <1>1
<1>2. ASSUME NEW d \in Contexts, Recreate(d)
      PROVE  readerMark'[c][cat] \in {readerMark[c][cat], 0}
  BY <1>2 DEF Recreate, TypeOK
<1>3. ASSUME NEW d \in Contexts, CreateEngine(d)
      PROVE  \/ readerMark'[c][cat] = readerMark[c][cat]
             \/ d = c /\ readerMark'[c][cat] = marks[c][cat]
  <2>1. UNCHANGED readerMark \/ readerMark' = [readerMark EXCEPT ![d] = marks[d]]
    BY <1>3 DEF CreateEngine
  <2> QED BY <2>1 DEF TypeOK
<1>4. ASSUME NEW d \in Contexts, NEW k \in Categories, ReadNewRange(d, k)
      PROVE  readerMark'[c][cat] = readerMark[c][cat] \/ (d = c /\ k = cat)
  <2>1. PICK n : readerMark' = [readerMark EXCEPT ![d][k] = n]
    BY <1>4 DEF ReadNewRange
  <2> QED BY <2>1 DEF TypeOK
<1>5. ASSUME NEW d \in Contexts, Controller(d) \/ Acquisition(d)
      PROVE  Recreate(d) \/ CreateEngine(d) \/ UNCHANGED readerMark
  BY <1>5 DEF Controller, Start, RequestStop, FinishStop, StopEngine, Acquisition,
     LoadShardMetadata, LoadShardMetadataFails, AcquireRetry, AcquireExpires, AcquireLock,
     FinishAcquire
<1>6. ASSUME NEW d \in Contexts, Renewal(d) \/ Write(d) \/ Tick(d)
      PROVE  UNCHANGED readerMark
  BY <1>6 DEF Renewal, SendRenew, RenewSucceeded, RenewFailed, Write, BeginWrite, SetTaskKey,
     TrackAndSend, HandleWriteError, RenewForKeys, GenerateTaskID, Tick
<1>7. ASSUME NEW d \in Contexts, Queue(d)
      PROVE  (\E k \in Categories : ReadNewRange(d, k)) \/ UNCHANGED readerMark
  BY <1>7 DEF Queue, SetQueueState, SendUpdate, AbandonUpdate
<1>8. CASE Store
  BY <1>1, <1>8 DEF Store, ApplyWrite, DropWrite, Answer
<1> QED BY <1>1, <1>2, <1>3, <1>4, <1>5, <1>6, <1>7, <1>8 DEF Next

LEMMA InfoStep ==
  ASSUME TypeOK, Next, NEW c \in Contexts, NEW cat \in Categories
  PROVE  \/ marks'[c][cat] \in {readerMark[c][cat], marks[c][cat], 0}
         \/ /\ LoadShardMetadata(c) /\ rangeID[c] = NotLoaded
            /\ marks'[c][cat] = dbMarks[cat]
<1>1. CASE UNCHANGED marks
  BY <1>1
<1>2. ASSUME NEW d \in Contexts, Recreate(d)
      PROVE  marks'[c][cat] \in {readerMark[c][cat], marks[c][cat], 0}
  BY <1>2 DEF Recreate, TypeOK
<1>3. ASSUME NEW d \in Contexts, LoadShardMetadata(d)
      PROVE  \/ marks'[c][cat] = marks[c][cat]
             \/ /\ d = c /\ rangeID[c] = NotLoaded
                /\ marks'[c][cat] = dbMarks[cat]
  <2>1. marks' = marks \/ (rangeID[d] = NotLoaded /\ marks' = [marks EXCEPT ![d] = dbMarks])
    BY <1>3 DEF LoadShardMetadata
  <2> QED BY <2>1 DEF TypeOK
<1>4. ASSUME NEW d \in Contexts, NEW k \in Categories, SetQueueState(d, k)
      PROVE  marks'[c][cat] \in {readerMark[c][cat], marks[c][cat], 0}
  BY <1>4 DEF SetQueueState, TypeOK
<1>5. ASSUME NEW d \in Contexts, Controller(d) \/ Acquisition(d)
      PROVE  Recreate(d) \/ LoadShardMetadata(d) \/ UNCHANGED marks
  BY <1>5 DEF Controller, Start, RequestStop, FinishStop, StopEngine, Acquisition,
     LoadShardMetadataFails, AcquireRetry, AcquireExpires, AcquireLock, CreateEngine,
     FinishAcquire
<1>6. ASSUME NEW d \in Contexts, Renewal(d) \/ Write(d) \/ Tick(d)
      PROVE  UNCHANGED marks
  BY <1>6 DEF Renewal, SendRenew, RenewSucceeded, RenewFailed, Write, BeginWrite, SetTaskKey,
     TrackAndSend, HandleWriteError, RenewForKeys, GenerateTaskID, Tick
<1>7. ASSUME NEW d \in Contexts, Queue(d)
      PROVE  (\E k \in Categories : SetQueueState(d, k)) \/ UNCHANGED marks
  BY <1>7 DEF Queue, ReadNewRange, SendUpdate, AbandonUpdate
<1>8. CASE Store
  BY <1>1, <1>8 DEF Store, ApplyWrite, DropWrite, Answer
<1> QED BY <1>1, <1>2, <1>3, <1>4, <1>5, <1>6, <1>7, <1>8 DEF Next

\* After a step the watermarks of c are ones it had, or none, or those of the
\* row it has read, or how far a queue may read now.
LEMMA MarksNext ==
  ASSUME FencingInv, TypeOK', WritesInv, Next,
         NEW c \in Contexts, NEW cat \in Categories, NEW m, MarkOf(c, cat, m)'
  PROVE  \/ MarkOf(c, cat, m) \/ m = 0
         \/ LoadShardMetadata(c) /\ rangeID[c] = NotLoaded /\ m = dbMarks[cat]
         \/ ReadNewRange(c, cat) /\ m = readerMark'[c][cat]
<1> USE DEF FencingInv, CountInv
<1>1. CASE m = readerMark'[c][cat]
  BY <1>1, ReaderStep DEF MarkOf
<1>2. CASE m = marks'[c][cat]
  BY <1>2, InfoStep DEF MarkOf
<1>3. CASE UNCHANGED dbVars /\ \A q \in Requests : CallStep(q)
  <2>1. CASE Owner(c)' /\ m = dbMarks'[cat]
    BY <1>3, <2>1, OwnerStep, RangeStepNext, CallGranted DEF MarkOf
  <2>2. ASSUME NEW q \in Requests, req'[q].kind \in {"update", "renew"}, req'[q].ctx = c,
               m = req'[q].marks[cat]
        PROVE  MarkOf(c, cat, m)
    <3>1. CASE SameCall(req[q], req'[q])
      BY <2>2, <3>1 DEF SameCall, MarkOf
    <3>2. ASSUME NEW d \in Contexts, NewCall(d, req'[q])
          PROVE  MarkOf(c, cat, m)
      BY <2>2, <3>2 DEF NewCall, MarkOf
    <3>3. req'[q] # NoRequest
      BY <2>2 DEF NoRequest
    <3> QED BY <1>3, <3>1, <3>2, <3>3 DEF CallStep
  <2> QED BY <1>1, <1>2, <2>1, <2>2 DEF MarkOf
<1>4. ASSUME NEW d \in Contexts, NEW r \in Requests, NEW k \in Categories,
             NEW t \in 0..MaxTime, SetTaskKey(d, r, k, t)
      PROVE  m \in {readerMark'[c][cat], marks'[c][cat]} \/ MarkOf(c, cat, m)
  <2>1. PICK task : req' = [req EXCEPT ![r].tasks = @ \cup {task}]
    BY <1>4 DEF SetTaskKey
  <2>2. /\ req[r].kind = "add" /\ req'[r].kind = "add"
        /\ \A q \in Requests : q # r => req'[q] = req[q]
    <3>1. req[r] \in RequestType /\ req[r].kind = "add"
      BY <1>4 DEF SetTaskKey, SettingKeys, TypeOK, RequestShape, Shape
    <3> QED BY <2>1, <3>1 DEF TypeOK, RequestType
  <2>3. UNCHANGED dbVars
    BY <1>4 DEF SetTaskKey
  <2>4. \A q \in Requests : Granted(req'[q]) => q # r
    BY <2>2 DEF Granted
  <2>5. Owner(c)' => Owner(c)
    BY <2>2, <2>3, <2>4, OwnerStep, RangeStepNext
  <2> QED BY <2>2, <2>3, <2>5 DEF MarkOf
<1>5. ASSUME NEW r \in Requests, ApplyWrite(r)
      PROVE  m \in {readerMark'[c][cat], marks'[c][cat]} \/ MarkOf(c, cat, m)
  <2>1. /\ req[r].wire = "pending" /\ req[r].range = dbRange
        /\ UNCHANGED <<rangeID, nextTaskID>>
        /\ \A q \in Requests :
              \/ req'[q] \in {NoRequest, req[q]}
              \/ q = r /\ req'[q] = [req[q] EXCEPT !.wire = "applied"]
    BY <1>5 DEF ApplyWrite, Accepted
  <2>2. req[r].kind # "none" /\ req[r].ctx \in Contexts /\ req[r].range <= rangeID[req[r].ctx]
    BY <2>1 DEF WritesInv, WriteInv, RequestShape, Shape
  <2>3. \A q \in Requests : \/ req'[q] = NoRequest
                            \/ /\ req'[q].kind = req[q].kind /\ req'[q].ctx = req[q].ctx
                               /\ req'[q].marks = req[q].marks /\ req'[q].range = req[q].range
                               /\ q # r => req'[q] = req[q]
    BY <2>1 DEF TypeOK, RequestType
  <2>4. ASSUME NEW q \in Requests, req'[q].kind \in {"update", "renew"}, req'[q].ctx = c,
               m = req'[q].marks[cat]
        PROVE  MarkOf(c, cat, m)
    BY <2>3, <2>4 DEF MarkOf, NoRequest
  <2>5. ASSUME Owner(c)', m = dbMarks'[cat], req[r].kind # "renew"
        PROVE  MarkOf(c, cat, m)
    <3>1. UNCHANGED dbRange
      BY <1>5, <2>5 DEF ApplyWrite
    <3>2. \A q \in Requests : Granted(req'[q]) =>
             Granted(req[q]) /\ req'[q].ctx = req[q].ctx /\ req'[q].range = req[q].range
      BY <2>3, <2>5 DEF Granted, NoRequest
    <3>3. Owner(c)
      BY <2>5, <3>1, <3>2, OwnerStep, RangeStepNext
    <3>4. CASE req[r].kind = "add"
      <4>1. UNCHANGED dbMarks
        BY <1>5, <3>4 DEF ApplyWrite
      <4> QED BY <2>5, <3>3, <4>1 DEF MarkOf
    <3>5. CASE req[r].kind = "update"
      <4>1. dbMarks' = req[r].marks
        BY <1>5, <3>5 DEF ApplyWrite
      <4>2. HasRange(req[r].ctx) /\ rangeID[req[r].ctx] = dbRange
        <5>1. HasRange(req[r].ctx) /\ rangeID[req[r].ctx] <= dbRange
          BY <2>2, <3>5 DEF WritesInv, WriteInv, RangeInv, RangeBounded
        <5> QED BY <2>1, <2>2, <5>1, IDTypes
      <4>3. req[r].ctx = c
        BY <2>2, <3>3, <4>2 DEF Owner, RangeInv, RangeHeldOnce
      <4> QED BY <2>5, <3>5, <4>1, <4>3 DEF MarkOf
    <3> QED BY <2>2, <2>5, <3>4, <3>5 DEF TypeOK, RequestType
  <2>6. ASSUME Owner(c)', m = dbMarks'[cat], req[r].kind = "renew"
        PROVE  MarkOf(c, cat, m)
    <3>1. dbRange' = dbRange + 1 /\ dbMarks' = req[r].marks
      BY <1>5, <2>1, <2>6 DEF ApplyWrite
    <3>2. rangeID'[c] # dbRange'
      <4>1. rangeID[c] <= dbRange /\ rangeID[c] \in Int /\ dbRange \in Int
        BY IDTypes DEF RangeInv, RangeBounded
      <4> QED BY <2>1, <3>1, <4>1
    <3>3. PICK q \in Requests : Granted(req'[q]) /\ req'[q].ctx = c /\ req'[q].range + 1 = dbRange'
      BY <2>6, <3>2 DEF Owner, Granted
    <3>4. q = r
      <4>1. SUFFICES ASSUME q # r PROVE FALSE
        OBVIOUS
      <4>2. req'[q] = req[q]
        BY <2>3, <3>3, <4>1 DEF Granted, NoRequest
      <4>3. req[q].range + 1 <= dbRange
        BY <3>3, <4>2 DEF RangeInv, RangeBounded
      <4> QED BY <3>1, <3>3, <4>2, <4>3, IDTypes
    <3>5. req[r].ctx = c
      BY <2>3, <3>3, <3>4 DEF Granted, NoRequest
    <3> QED BY <2>6, <3>1, <3>5 DEF MarkOf
  <2> QED BY <2>4, <2>5, <2>6 DEF MarkOf
<1> QED BY <1>1, <1>2, <1>3, <1>4, <1>5, CallsNext

\* The watermarks of a context are below the keys it will still hand out, and
\* those of the immediate categories are below the end of their range.
MarksBounded == \A c \in Contexts, cat \in Categories : \A m : MarkOf(c, cat, m) => m <= Bound(c, cat)
NothingRead == \A c \in Contexts, cat \in Categories : engine[c] = "none" => readerMark[c][cat] = 0
MarksInRange ==
    /\ \A cat \in Immediate : dbMarks[cat] <= EndTaskID(dbRange)
    /\ \A r \in Requests, cat \in Immediate : req[r].kind \in {"update", "renew"} =>
          req[r].marks[cat] <= EndTaskID(req[r].range)

MarksInv == MarksBounded /\ NothingRead /\ MarksInRange

LEMMA BoundType ==
  ASSUME TypeOK, NEW c \in Contexts, NEW cat \in Categories
  PROVE  Bound(c, cat) \in Nat
<1>1. taskMinScheduledTime[c] \in Nat /\ (HasRange(c) => nextTaskID[c] \in Nat)
  BY DEF TypeOK, HasRange
<1>2. EndTaskID(rangeID[c]) \in Nat
  <2>1. rangeID[c] \in Nat \cup {NotLoaded}
    BY DEF TypeOK
  <2>2. rangeID[c] + 1 \in Nat
    BY <2>1
  <2>3. FirstTaskID(rangeID[c] + 1) \in Nat
    BY <2>2, RangeBounds
  <2> QED BY <2>3 DEF FirstTaskID, EndTaskID
<1> QED BY <1>1, <1>2 DEF Bound

LEMMA BoundTypeNext ==
  ASSUME TypeOK', NEW c \in Contexts, NEW cat \in Categories
  PROVE  Bound(c, cat)' \in Nat
<1>1. taskMinScheduledTime'[c] \in Nat /\ (HasRange(c)' => nextTaskID'[c] \in Nat)
  BY DEF TypeOK, HasRange
<1>2. EndTaskID(rangeID'[c]) \in Nat
  <2>1. rangeID'[c] \in Nat \cup {NotLoaded}
    BY DEF TypeOK
  <2>2. rangeID'[c] + 1 \in Nat
    BY <2>1
  <2>3. FirstTaskID(rangeID'[c] + 1) \in Nat
    BY <2>2, RangeBounds
  <2> QED BY <2>3 DEF FirstTaskID, EndTaskID
<1> QED BY <1>1, <1>2 DEF Bound, EndTaskID

LEMMA BoundEnd ==
  ASSUME TypeOK, GeneratorInRange, NEW c \in Contexts, NEW cat \in Immediate
  PROVE  Bound(c, cat) <= EndTaskID(rangeID[c]) /\ EndTaskID(rangeID[c]) \in Int
<1>1. cat \notin Scheduled
  BY ConstantsAssumption DEF ConstantsAssumption
<1>2. EndTaskID(rangeID[c]) \in Int
  BY IDTypes, RangeBounds
<1> QED BY <1>1, <1>2, IDTypes DEF Bound, GeneratorInRange

LEMMA MarkType ==
  ASSUME TypeOK, NEW c \in Contexts, NEW cat \in Categories, NEW m, MarkOf(c, cat, m)
  PROVE  m \in Nat
<1>1. readerMark[c][cat] \in Nat /\ marks[c][cat] \in Nat /\ dbMarks[cat] \in Nat
  BY DEF TypeOK
<1>2. \A q \in Requests : req[q].marks[cat] \in Nat
  <2>1. \A q \in Requests : req[q].marks \in Marks
    BY DEF TypeOK, RequestType
  <2> QED BY <2>1
<1> QED BY <1>1, <1>2 DEF MarkOf

\* The min scheduled time moves only forward.
LEMMA MinTimeStep ==
  ASSUME TypeOK, TypeOK', Next, NEW c \in Contexts, ~Recreate(c)
  PROVE  taskMinScheduledTime[c] <= taskMinScheduledTime'[c]
<1>0. /\ taskMinScheduledTime[c] \in Nat /\ taskMinScheduledTime'[c] \in Nat
      /\ taskMinScheduledTime \in [Contexts -> Nat]
  BY DEF TypeOK
<1>1. CASE UNCHANGED taskMinScheduledTime
  BY <1>0, <1>1
<1>2. ASSUME NEW d \in Contexts, Recreate(d)
      PROVE  taskMinScheduledTime[c] <= taskMinScheduledTime'[c]
  <2>1. d # c
    BY <1>2
  <2> QED BY <1>0, <1>2, <2>1 DEF Recreate
<1>3. ASSUME NEW d \in Contexts, NEW n \in Int,
             taskMinScheduledTime' = [taskMinScheduledTime EXCEPT ![d] = MaxOf(@, n)]
      PROVE  taskMinScheduledTime[c] <= taskMinScheduledTime'[c]
  BY <1>0, <1>3 DEF MaxOf
<1>4. ASSUME NEW d \in Contexts, LoadShardMetadata(d)
      PROVE  taskMinScheduledTime[c] <= taskMinScheduledTime'[c]
  <2>1. CASE rangeID[d] # NotLoaded
    BY <1>1, <1>4, <2>1 DEF LoadShardMetadata
  <2>2. CASE rangeID[d] = NotLoaded
    <3>1. PICK m \in {0} \cup {dbMarks[cat] : cat \in Scheduled} :
             taskMinScheduledTime' =
               [taskMinScheduledTime EXCEPT ![d] = MaxOf(@, MinScheduledTimeAbove(m))]
      BY <1>4, <2>2 DEF LoadShardMetadata
    <3>2. m + 1 \in Int
      BY <3>1 DEF TypeOK
    <3> QED BY <1>3, <3>1, <3>2 DEF MinScheduledTimeAbove
  <2> QED BY <2>1, <2>2
<1>5. ASSUME NEW d \in Contexts, NEW r \in Requests, BeginWrite(d, r)
      PROVE  taskMinScheduledTime[c] <= taskMinScheduledTime'[c]
  <2>1. now[d] \in Int
    BY DEF TypeOK
  <2> QED BY <1>3, <1>5, <2>1 DEF BeginWrite
<1>6. ASSUME NEW d \in Contexts, NEW cat \in Categories, ReadNewRange(d, cat)
      PROVE  taskMinScheduledTime[c] <= taskMinScheduledTime'[c]
  <2>1. now[d] + MaxTimeShift \in Int
    BY ConstantsAssumption DEF TypeOK, ConstantsAssumption
  <2> QED BY <1>3, <1>6, <2>1 DEF ReadNewRange
<1>7. ASSUME NEW d \in Contexts, Controller(d) \/ Acquisition(d)
      PROVE  Recreate(d) \/ LoadShardMetadata(d) \/ UNCHANGED taskMinScheduledTime
  BY <1>7 DEF Controller, Start, RequestStop, FinishStop, StopEngine, Acquisition,
     LoadShardMetadataFails, AcquireRetry, AcquireExpires, AcquireLock, CreateEngine,
     FinishAcquire
<1>8. ASSUME NEW d \in Contexts, Renewal(d) \/ Tick(d)
      PROVE  UNCHANGED taskMinScheduledTime
  BY <1>8 DEF Renewal, SendRenew, RenewSucceeded, RenewFailed, Tick
<1>9. ASSUME NEW d \in Contexts, Write(d)
      PROVE  (\E r \in Requests : BeginWrite(d, r)) \/ UNCHANGED taskMinScheduledTime
  BY <1>9 DEF Write, SetTaskKey, TrackAndSend, HandleWriteError, RenewForKeys, GenerateTaskID
<1>10. ASSUME NEW d \in Contexts, Queue(d)
       PROVE  (\E cat \in Categories : ReadNewRange(d, cat)) \/ UNCHANGED taskMinScheduledTime
  BY <1>10 DEF Queue, SetQueueState, SendUpdate, AbandonUpdate
<1>11. CASE Store
  BY <1>1, <1>11 DEF Store, ApplyWrite, DropWrite, Answer
<1> QED BY <1>1, <1>2, <1>4, <1>5, <1>6, <1>7, <1>8, <1>9, <1>10, <1>11 DEF Next

\* What is still handed out moves only up, but for a context that is replaced.
LEMMA BoundStep ==
  ASSUME FencingInv, TypeOK', GeneratorInRange, Next,
         NEW c \in Contexts, ~Recreate(c), NEW cat \in Categories
  PROVE  Bound(c, cat) <= Bound(c, cat)'
<1> USE DEF FencingInv, CountInv
<1>0. /\ dbRange \in Nat /\ rangeID[c] \in Int /\ rangeID'[c] \in Int
      /\ nextTaskID[c] \in Int /\ nextTaskID'[c] \in Int
  BY IDTypes DEF TypeOK
<1>1. \A n \in Int : EndTaskID(n) = FirstTaskID(n + 1) /\ EndTaskID(n) \in Int
  BY RangeBounds DEF EndTaskID, FirstTaskID
<1>2. \/ /\ rangeID'[c] = rangeID[c] /\ (HasRange(c) <=> HasRange(c)')
         /\ HasRange(c) => nextTaskID[c] <= nextTaskID'[c]
      \/ /\ ~HasRange(c) /\ ~HasRange(c)' /\ rangeID[c] <= rangeID'[c]
      \/ /\ HasRange(c)' /\ rangeID'[c] = rangeID[c] + 1
         /\ FirstTaskID(rangeID[c] + 1) <= nextTaskID'[c]
  <2>1. CASE UNCHANGED <<nextTaskID, rangeID>>
    BY <1>0, <2>1 DEF HasRange
  <2>2. ASSUME NEW d \in Contexts, d # c, Recreate(d)
        PROVE  rangeID'[c] = rangeID[c] /\ nextTaskID'[c] = nextTaskID[c]
    BY <2>2 DEF Recreate, TypeOK
  <2>3. ASSUME NEW d \in Contexts, LoadShardMetadata(d)
        PROVE  \/ rangeID'[c] = rangeID[c] /\ nextTaskID'[c] = nextTaskID[c]
               \/ ~HasRange(c) /\ ~HasRange(c)' /\ rangeID[c] <= rangeID'[c]
    <3>1. /\ nextTaskID' = nextTaskID
          /\ \/ rangeID' = rangeID
             \/ rangeID[d] = NotLoaded /\ rangeID' = [rangeID EXCEPT ![d] = dbRange]
      BY <2>3 DEF LoadShardMetadata
    <3> QED BY <1>0, <3>1 DEF HasRange, Loaded, TypeOK
  <2>4. ASSUME NEW d \in Contexts, NEW r \in Requests, RenewSucceeded(d, r)
        PROVE  \/ rangeID'[c] = rangeID[c] /\ nextTaskID'[c] = nextTaskID[c]
               \/ /\ HasRange(c)' /\ rangeID'[c] = rangeID[c] + 1
                  /\ FirstTaskID(rangeID[c] + 1) <= nextTaskID'[c]
    <3>1. CASE d = c
      <4>1. HasRange(c)'
        BY <2>4, <3>1, RenewedHasRange
      <4>2. /\ rangeID'[c] = rangeID[c] + 1
            /\ nextTaskID'[c] = FirstTaskID(rangeID[c] + 1) + (IF lock[c] = "id" THEN 1 ELSE 0)
        BY <2>4, <3>1 DEF RenewSucceeded, TypeOK
      <4>3. FirstTaskID(rangeID[c] + 1) \in Int
        BY <1>0, RangeBounds
      <4> QED BY <4>1, <4>2, <4>3
    <3>2. CASE d # c
      BY <2>4, <3>2 DEF RenewSucceeded, TypeOK
    <3> QED BY <3>1, <3>2
  <2>5. ASSUME NEW d \in Contexts, Write(d)
        PROVE  /\ rangeID'[c] = rangeID[c]
               /\ \/ nextTaskID'[c] = nextTaskID[c]
                  \/ nextTaskID'[c] = nextTaskID[c] + 1 /\ HasRange(c) /\ HasRange(c)'
    <3>1. /\ rangeID' = rangeID
          /\ \/ nextTaskID' = nextTaskID
             \/ /\ nextTaskID' = [nextTaskID EXCEPT ![d] = @ + 1]
                /\ nextTaskID[d] # exclusiveMaxTaskID[d]
      BY <2>5 DEF Write, BeginWrite, SetTaskKey, TrackAndSend, HandleWriteError, RenewForKeys,
         GenerateTaskID
    <3> QED BY <1>0, <3>1 DEF HasRange, RangeInitialized, TypeOK
  <2>6. ASSUME NEW d \in Contexts, Controller(d) \/ Acquisition(d)
        PROVE  Recreate(d) \/ LoadShardMetadata(d) \/ UNCHANGED <<nextTaskID, rangeID>>
    BY <2>6 DEF Controller, Start, RequestStop, FinishStop, StopEngine, Acquisition,
       LoadShardMetadataFails, AcquireRetry, AcquireExpires, AcquireLock, CreateEngine,
       FinishAcquire
  <2>7. ASSUME NEW d \in Contexts, Renewal(d)
        PROVE  (\E r \in Requests : RenewSucceeded(d, r)) \/ UNCHANGED <<nextTaskID, rangeID>>
    BY <2>7 DEF Renewal, SendRenew, RenewFailed
  <2>8. ASSUME NEW d \in Contexts, Queue(d) \/ Tick(d) PROVE UNCHANGED <<nextTaskID, rangeID>>
    BY <2>8 DEF Queue, ReadNewRange, SetQueueState, SendUpdate, AbandonUpdate, Tick
  <2>9. CASE Store
    BY <2>1, <2>9 DEF Store, ApplyWrite, DropWrite, Answer
  <2>10. rangeID'[c] = rangeID[c] /\ nextTaskID'[c] = nextTaskID[c]
           => (HasRange(c) <=> HasRange(c)')
    BY DEF HasRange
  <2> QED BY <1>0, <2>1, <2>2, <2>3, <2>4, <2>5, <2>6, <2>7, <2>8, <2>9, <2>10 DEF Next
<1>3. taskMinScheduledTime[c] <= taskMinScheduledTime'[c]
  BY MinTimeStep
<1>4. CASE cat \in Scheduled
  BY <1>3, <1>4 DEF Bound
<1>5. CASE cat \notin Scheduled
  <2>1. CASE rangeID'[c] = rangeID[c] /\ (HasRange(c) <=> HasRange(c)')
             /\ (HasRange(c) => nextTaskID[c] <= nextTaskID'[c])
    BY <1>0, <1>1, <1>5, <2>1 DEF Bound, EndTaskID
  <2>2. CASE ~HasRange(c) /\ ~HasRange(c)' /\ rangeID[c] <= rangeID'[c]
    <3>1. EndTaskID(rangeID[c]) <= EndTaskID(rangeID'[c])
      BY <1>0, <2>2, EndMonotone
    <3> QED BY <1>5, <2>2, <3>1 DEF Bound, EndTaskID
  <2>3. CASE /\ HasRange(c)' /\ rangeID'[c] = rangeID[c] + 1
             /\ FirstTaskID(rangeID[c] + 1) <= nextTaskID'[c]
    <3>1. HasRange(c) => nextTaskID[c] <= EndTaskID(rangeID[c])
      BY DEF GeneratorInRange
    <3>2. EndTaskID(rangeID[c]) <= nextTaskID'[c] /\ EndTaskID(rangeID[c]) \in Int
      BY <1>0, <1>1, <2>3
    <3> QED BY <1>0, <1>5, <2>3, <3>1, <3>2 DEF Bound
  <2> QED BY <1>2, <2>1, <2>2, <2>3
<1> QED BY <1>4, <1>5

LEMMA MarksBoundedNext ==
  ASSUME FencingInv, FencingInv', GeneratorInRange, AcquireInv, WritesInv, MarksInv, Next
  PROVE  MarksBounded'
<1> USE DEF FencingInv, CountInv
<1> SUFFICES ASSUME NEW c \in Contexts, NEW cat \in Categories, NEW m, MarkOf(c, cat, m)'
             PROVE  m <= Bound(c, cat)'
  BY DEF MarksBounded
<1>1. Bound(c, cat) \in Nat /\ Bound(c, cat)' \in Nat
  BY BoundType, BoundTypeNext
<1>2. CASE m = 0
  BY <1>1, <1>2
<1>3. CASE Recreate(c)
  <2>1. /\ readerMark'[c][cat] = 0 /\ marks'[c][cat] = 0 /\ ~HasRange(c)'
        /\ req' = req /\ \A r \in Requests : req[r].ctx # c
    BY <1>3 DEF Recreate, TypeOK, HasRange
  <2>2. ~Owner(c)'
    BY <2>1 DEF Owner
  <2>3. m = 0
    BY <2>1, <2>2 DEF MarkOf
  <2> QED BY <1>2, <2>3
<1>4. CASE MarkOf(c, cat, m) /\ ~Recreate(c)
  <2>1. m \in Nat /\ m <= Bound(c, cat)
    BY <1>4, MarkType DEF MarksInv, MarksBounded
  <2>2. Bound(c, cat) <= Bound(c, cat)'
    BY <1>4, BoundStep
  <2> QED BY <1>1, <2>1, <2>2
<1>5. CASE LoadShardMetadata(c) /\ rangeID[c] = NotLoaded /\ m = dbMarks[cat]
  <2>1. CASE cat \in Scheduled
    <3>1. PICK k \in {0} \cup {dbMarks[s] : s \in Scheduled} :
             /\ \A s \in Scheduled : dbMarks[s] <= k
             /\ taskMinScheduledTime' =
                   [taskMinScheduledTime EXCEPT ![c] = MaxOf(@, MinScheduledTimeAbove(k))]
      BY <1>5 DEF LoadShardMetadata
    <3>2. k \in Nat /\ dbMarks[cat] \in Nat /\ dbMarks[cat] <= k
      BY <2>1, <3>1 DEF TypeOK
    <3>3. k + 1 <= taskMinScheduledTime'[c] /\ taskMinScheduledTime'[c] \in Nat
      BY <3>1, <3>2 DEF TypeOK, MaxOf, MinScheduledTimeAbove
    <3> QED BY <1>5, <2>1, <3>2, <3>3 DEF Bound
  <2>2. CASE cat \in Immediate
    <3>1. ~HasRange(c)' /\ rangeID'[c] = dbRange
      BY <1>5 DEF LoadShardMetadata, Loaded, HasRange, TypeOK
    <3>2. Bound(c, cat)' = EndTaskID(dbRange)
      BY <2>2, <3>1, ConstantsAssumption DEF Bound, EndTaskID, ConstantsAssumption
    <3> QED BY <1>5, <2>2, <3>2 DEF MarksInv, MarksInRange
  <2> QED BY <2>1, <2>2
<1>6. CASE ReadNewRange(c, cat) /\ m = readerMark'[c][cat]
  <2>1. HasRange(c)' /\ nextTaskID' = nextTaskID
    BY <1>6 DEF ReadNewRange, AcquireInv, HasRange
  <2> DEFINE nextPos == IF cat \in Scheduled THEN taskMinScheduledTime'[c] ELSE nextTaskID[c]
  <2>2. nextPos = Bound(c, cat)'
    BY <2>1 DEF Bound
  <2>3. PICK w \in {nextPos} \cup {t.pos : t \in {k \in pendingTaskKeys[c] : k.cat = cat}} :
           /\ w <= nextPos
           /\ readerMark' = [readerMark EXCEPT ![c][cat] = MaxOf(@, w)]
    BY <1>6, Zenon DEF ReadNewRange
  <2>4. readerMark[c][cat] <= Bound(c, cat)'
    <3>1. MarkOf(c, cat, readerMark[c][cat])
      BY DEF MarkOf
    <3>2. readerMark[c][cat] <= Bound(c, cat) /\ readerMark[c][cat] \in Nat
      BY <3>1, MarkType DEF MarksInv, MarksBounded
    <3>3. Bound(c, cat) <= Bound(c, cat)'
      BY <1>6, BoundStep DEF ReadNewRange, Recreate
    <3> QED BY <1>1, <3>2, <3>3
  <2>5. readerMark'[c][cat] \in {readerMark[c][cat], w}
    BY <2>3 DEF MaxOf, TypeOK
  <2> HIDE DEF nextPos
  <2> QED BY <1>6, <2>2, <2>3, <2>4, <2>5
<1> QED BY <1>2, <1>3, <1>4, <1>5, <1>6, MarksNext

LEMMA NothingReadNext ==
  ASSUME TypeOK, TypeOK', NothingRead, Next
  PROVE  NothingRead'
<1> SUFFICES ASSUME NEW c \in Contexts, NEW cat \in Categories, engine'[c] = "none",
                    readerMark'[c][cat] # 0
             PROVE  FALSE
  BY DEF NothingRead
<1>1. CASE Recreate(c)
  BY <1>1 DEF Recreate, TypeOK
<1>2. CASE ~Recreate(c)
  <2>1. engine[c] = "none" /\ ~CreateEngine(c)
    <3>1. CASE UNCHANGED engine
      BY <3>1 DEF CreateEngine, TypeOK
    <3>2. ASSUME NEW d \in Contexts, Controller(d) PROVE engine[c] = "none" /\ ~CreateEngine(c)
      BY <1>2, <3>1, <3>2 DEF Controller, Start, Recreate, RequestStop, FinishStop, StopEngine,
         CreateEngine, TypeOK
    <3>3. ASSUME NEW d \in Contexts, Acquisition(d)
          PROVE  engine[c] = "none" /\ ~CreateEngine(c)
      <4>1. CASE CreateEngine(d)
        BY <4>1 DEF CreateEngine, TypeOK
      <4>2. CASE FinishAcquire(d)
        BY <4>2 DEF FinishAcquire, CreateEngine, TypeOK
      <4>3. CASE UNCHANGED engine
        BY <3>1, <4>3
      <4> QED BY <3>3, <4>1, <4>2, <4>3 DEF Acquisition, LoadShardMetadata,
          LoadShardMetadataFails, AcquireFailed, AcquireRetry, AcquireExpires, AcquireLock
    <3>4. ASSUME NEW d \in Contexts, Renewal(d) \/ Write(d) PROVE UNCHANGED engine
      BY <3>4 DEF Renewal, SendRenew, RenewSucceeded, RenewFailed, AcquireFailed,
         HandleWriteErrorLocked, Write, BeginWrite, SetTaskKey, TrackAndSend, HandleWriteError,
         RenewForKeys, GenerateTaskID
    <3>5. ASSUME NEW d \in Contexts, Queue(d) \/ Tick(d) PROVE UNCHANGED engine
      BY <3>5 DEF Queue, ReadNewRange, SetQueueState, SendUpdate, AbandonUpdate, Tick
    <3>6. CASE Store
      BY <3>1, <3>6 DEF Store, ApplyWrite, DropWrite, Answer
    <3> QED BY <3>1, <3>2, <3>3, <3>4, <3>5, <3>6 DEF Next
  <2>2. readerMark[c][cat] = 0
    BY <2>1 DEF NothingRead
  <2> QED BY <2>1, <2>2, ReaderStep DEF ReadNewRange
<1> QED BY <1>1, <1>2

LEMMA MarksInRangeNext ==
  ASSUME FencingInv, FencingInv', GeneratorInRange, WritesInv, MarksInv, Next
  PROVE  MarksInRange'
<1> USE DEF FencingInv, CountInv
<1>0. Immediate \subseteq Categories
  OBVIOUS
<1>1. CASE UNCHANGED dbVars /\ \A q \in Requests : CallStep(q)
  <2>1. \A cat \in Immediate : dbMarks'[cat] <= EndTaskID(dbRange)'
    BY <1>1 DEF MarksInv, MarksInRange, EndTaskID
  <2>2. ASSUME NEW r \in Requests, NEW cat \in Immediate, req'[r].kind \in {"update", "renew"}
        PROVE  req'[r].marks[cat] <= EndTaskID(req'[r].range)
    <3>1. CASE SameCall(req[r], req'[r])
      BY <2>2, <3>1 DEF SameCall, MarksInv, MarksInRange
    <3>2. ASSUME NEW c \in Contexts, NewCall(c, req'[r])
          PROVE  req'[r].marks[cat] <= EndTaskID(req'[r].range)
      <4>1. req'[r].range = rangeID[c] /\ MarkOf(c, cat, req'[r].marks[cat])
        BY <1>0, <2>2, <3>2 DEF NewCall, MarkOf
      <4>2. /\ req'[r].marks[cat] <= Bound(c, cat) /\ req'[r].marks[cat] \in Nat
            /\ Bound(c, cat) \in Nat
        BY <1>0, <4>1, MarkType, BoundType DEF MarksInv, MarksBounded
      <4> QED BY <4>1, <4>2, BoundEnd
    <3>3. req'[r] # NoRequest
      BY <2>2 DEF NoRequest
    <3> QED BY <1>1, <3>1, <3>2, <3>3 DEF CallStep
  <2> QED BY <2>1, <2>2 DEF MarksInRange, EndTaskID
<1>2. ASSUME NEW c \in Contexts, NEW r \in Requests, NEW k \in Categories,
             NEW t \in 0..MaxTime, SetTaskKey(c, r, k, t)
      PROVE  MarksInRange'
  <2>1. PICK task : req' = [req EXCEPT ![r].tasks = @ \cup {task}]
    BY <1>2 DEF SetTaskKey
  <2>2. /\ req'[r].kind = "add"
        /\ \A q \in Requests : q # r => req'[q] = req[q]
    <3>1. req[r] \in RequestType /\ req[r].kind = "add"
      BY <1>2 DEF SetTaskKey, SettingKeys, TypeOK, RequestShape, Shape
    <3> QED BY <2>1, <3>1 DEF TypeOK, RequestType
  <2>3. UNCHANGED dbVars
    BY <1>2 DEF SetTaskKey
  <2> QED BY <2>2, <2>3 DEF MarksInv, MarksInRange, EndTaskID
<1>3. ASSUME NEW r \in Requests, ApplyWrite(r) PROVE MarksInRange'
  <2>1. /\ req[r].wire = "pending" /\ req[r].range = dbRange
        /\ \A q \in Requests :
              \/ req'[q] \in {NoRequest, req[q]}
              \/ q = r /\ req'[q] = [req[q] EXCEPT !.wire = "applied"]
    BY <1>3 DEF ApplyWrite, Accepted
  <2>2. \A q \in Requests : req'[q].kind \in {"update", "renew"} =>
           /\ req'[q].kind = req[q].kind /\ req'[q].marks = req[q].marks
           /\ req'[q].range = req[q].range
    <3> SUFFICES ASSUME NEW q \in Requests, req'[q].kind \in {"update", "renew"}
                 PROVE  /\ req'[q].kind = req[q].kind /\ req'[q].marks = req[q].marks
                        /\ req'[q].range = req[q].range
      OBVIOUS
    <3>1. req[q] \in RequestType /\ NoRequest.kind = "none"
      BY DEF TypeOK, NoRequest
    <3>2. CASE req'[q] = [req[q] EXCEPT !.wire = "applied"]
      BY <3>1, <3>2 DEF RequestType
    <3>3. CASE req'[q] \in {NoRequest, req[q]}
      BY <3>1, <3>3
    <3> QED BY <2>1, <3>2, <3>3
  <2>3. \A q \in Requests, cat \in Immediate : req'[q].kind \in {"update", "renew"} =>
           req'[q].marks[cat] <= EndTaskID(req'[q].range)
    BY <2>2 DEF MarksInv, MarksInRange
  <2>4. /\ dbMarks' = IF req[r].kind = "add" THEN dbMarks ELSE req[r].marks
        /\ dbRange' = IF req[r].kind = "renew" THEN dbRange + 1 ELSE dbRange
    BY <1>3, <2>1 DEF ApplyWrite
  <2>5. ASSUME NEW cat \in Immediate PROVE dbMarks'[cat] <= EndTaskID(dbRange')
    <3>1. req[r].kind \in {"add", "update", "renew"}
      BY <2>1 DEF WritesInv, WriteInv, TypeOK, RequestType
    <3>2. dbMarks'[cat] <= EndTaskID(dbRange) /\ dbMarks'[cat] \in Nat
      BY <1>0, <2>1, <2>4, <3>1 DEF MarksInv, MarksInRange, TypeOK
    <3>3. EndTaskID(dbRange) <= EndTaskID(dbRange')
          /\ EndTaskID(dbRange) \in Int /\ EndTaskID(dbRange') \in Int
      <4>1. dbRange \in Int /\ dbRange' \in Int /\ dbRange <= dbRange'
        BY <2>4 DEF TypeOK
      <4> QED BY <4>1, EndMonotone
    <3> QED BY <3>2, <3>3
  <2> QED BY <2>3, <2>5 DEF MarksInRange, EndTaskID
<1> QED BY <1>1, <1>2, <1>3, CallsNext

LEMMA MarksInvNext ==
  ASSUME FencingInv, FencingInv', GeneratorInRange, AcquireInv, WritesInv, MarksInv, Next
  PROVE  MarksInv'
  BY MarksBoundedNext, NothingReadNext, MarksInRangeNext DEF MarksInv, FencingInv, CountInv

-----------------------------------------------------------------------------
(* Pending keys                                                            *)

\* The tasks of a call have their smallest keys among them, and those are
\* pending at the context as long as the call may still write the tasks.
HasMinKeys(tasks) == \A t \in tasks : \E k \in MinKeys(tasks) : k.cat = t.cat /\ KeyLE(k, t)

TasksInv ==
    \A r \in Requests :
        /\ \A t \in req[r].tasks : t.cat \in Immediate => t.pos = t.id
        /\ HasMinKeys(req[r].tasks)
        /\ CanLand(r) => MinKeys(req[r].tasks) \subseteq pendingTaskKeys[req[r].ctx]

LEMMA KeyOrder ==
  ASSUME NEW t \in Tasks, NEW u \in Tasks, NEW v \in Tasks
  PROVE  /\ KeyLE(t, t) /\ (KeyLE(t, u) \/ KeyLE(u, t))
         /\ KeyLE(t, u) /\ KeyLE(u, v) => KeyLE(t, v)
  BY DEF KeyLE, Tasks

LEMMA MinKeysAdd ==
  ASSUME NEW S \in SUBSET Tasks, NEW u \in Tasks, HasMinKeys(S)
  PROVE  HasMinKeys(S \cup {u})
<1> DEFINE T == S \cup {u}
<1>1. ASSUME NEW k \in MinKeys(S), k.cat = u.cat, KeyLE(k, u) PROVE HasMinKeys(T)
  <2>1. \A m \in MinKeys(S) : m \in MinKeys(T)
    BY <1>1, KeyOrder DEF MinKeys
  <2> QED BY <1>1, <2>1 DEF HasMinKeys
<1>2. ASSUME \A k \in MinKeys(S) : k.cat = u.cat => ~KeyLE(k, u) PROVE HasMinKeys(T)
  <2>1. ASSUME NEW v \in S, v.cat = u.cat PROVE KeyLE(u, v)
    <3>1. PICK k \in MinKeys(S) : k.cat = v.cat /\ KeyLE(k, v)
      BY DEF HasMinKeys
    <3>2. k \in Tasks /\ ~KeyLE(k, u)
      BY <1>2, <2>1, <3>1 DEF MinKeys
    <3>3. KeyLE(u, k)
      BY <3>2, KeyOrder
    <3> QED BY <3>1, <3>2, <3>3, KeyOrder
  <2>2. KeyLE(u, u)
    BY KeyOrder
  <2>3. u \in MinKeys(T)
    BY <2>1, <2>2 DEF MinKeys
  <2>4. ASSUME NEW t \in T PROVE \E k \in MinKeys(T) : k.cat = t.cat /\ KeyLE(k, t)
    <3>1. CASE t.cat = u.cat
      BY <2>1, <2>2, <2>3, <2>4, <3>1
    <3>2. CASE t.cat # u.cat
      <4>1. t \in S
        BY <2>4, <3>2
      <4>2. PICK k \in MinKeys(S) : k.cat = t.cat /\ KeyLE(k, t)
        BY <4>1 DEF HasMinKeys
      <4>3. k \in MinKeys(T)
        BY <3>2, <4>2 DEF MinKeys
      <4> QED BY <4>2, <4>3
    <3> QED BY <3>1, <3>2
  <2> QED BY <2>4 DEF HasMinKeys
<1> QED BY <1>1, <1>2

\* A call that gets under way is sent by TrackAndSend.
LEMMA TrackedBy ==
  ASSUME TypeOK, RequestShape, WritesInv, Next, NEW r \in Requests,
         req[r].phase = "keys", req'[r].wire = "pending"
  PROVE  \E c \in Contexts : TrackAndSend(c, r)
<1>1. req[r] \in RequestType /\ req[r].wire = "none" /\ req[r].kind = "add"
  BY DEF TypeOK, WritesInv, WriteInv, RequestShape, Shape
<1>2. req'[r] # req[r] /\ req'[r] # NoRequest
  BY <1>1 DEF NoRequest
<1>3. ASSUME NEW c \in Contexts, Controller(c) \/ Acquisition(c) \/ Tick(c) PROVE FALSE
  <2>1. UNCHANGED req
    BY <1>3 DEF Controller, Start, Recreate, RequestStop, FinishStop, StopEngine, Acquisition,
       LoadShardMetadata, LoadShardMetadataFails, AcquireRetry, AcquireExpires, AcquireLock,
       CreateEngine, FinishAcquire, Tick
  <2> QED BY <1>2, <2>1
<1>4. ASSUME NEW c \in Contexts, Renewal(c) PROVE FALSE
  <2>1. ASSUME NEW q \in Requests, SendRenew(c, q) PROVE FALSE
    <3>1. PICK new : req' = [req EXCEPT ![q] = new]
      BY <2>1 DEF SendRenew
    <3>2. q # r
      BY <1>1, <2>1 DEF SendRenew
    <3> QED BY <1>2, <3>1, <3>2 DEF TypeOK
  <2>2. ASSUME NEW q \in Requests, RenewSucceeded(c, q) PROVE FALSE
    BY <1>2, <2>2 DEF RenewSucceeded, TypeOK
  <2>3. ASSUME NEW q \in Requests, RenewFailed(c, q) PROVE FALSE
    <3>1. q # r
      BY <1>1, <2>3 DEF RenewFailed
    <3>2. req'[r] \in {NoRequest, req[r]}
      BY <2>3, <3>1 DEF RenewFailed
    <3> QED BY <1>2, <3>2
  <2> QED BY <1>4, <2>1, <2>2, <2>3 DEF Renewal
<1>5. ASSUME NEW c \in Contexts, Write(c) PROVE \E d \in Contexts : TrackAndSend(d, r)
  <2>1. ASSUME NEW q \in Requests, BeginWrite(c, q) PROVE FALSE
    <3>1. PICK new : req' = [req EXCEPT ![q] = new]
      BY <2>1 DEF BeginWrite
    <3>2. q # r
      BY <1>1, <2>1 DEF BeginWrite
    <3> QED BY <1>2, <3>1, <3>2 DEF TypeOK
  <2>2. ASSUME NEW q \in Requests, NEW cat \in Categories, NEW t \in 0..MaxTime,
               SetTaskKey(c, q, cat, t)
        PROVE  FALSE
    <3>1. PICK task : req' = [req EXCEPT ![q].tasks = @ \cup {task}]
      BY <2>2 DEF SetTaskKey
    <3>2. req'[r].wire = req[r].wire
      BY <1>1, <3>1 DEF TypeOK, RequestType
    <3> QED BY <1>1, <3>2
  <2>3. ASSUME NEW q \in Requests, TrackAndSend(c, q) PROVE q = r
    <3>1. req' = [req EXCEPT ![q].range = rangeID[c], ![q].phase = "inflight",
                             ![q].wire = "pending"]
      BY <2>3 DEF TrackAndSend
    <3> QED BY <1>2, <3>1 DEF TypeOK
  <2>4. ASSUME NEW q \in Requests, HandleWriteError(c, q) PROVE FALSE
    <3>1. q # r /\ req' = [req EXCEPT ![q] = Finished(@)]
      BY <1>1, <2>4 DEF HandleWriteError
    <3> QED BY <1>2, <3>1 DEF TypeOK
  <2>5. CASE RenewForKeys(c) \/ GenerateTaskID(c)
    BY <1>2, <2>5 DEF RenewForKeys, GenerateTaskID
  <2> QED BY <1>5, <2>1, <2>2, <2>3, <2>4, <2>5 DEF Write
<1>6. ASSUME NEW c \in Contexts, Queue(c) PROVE FALSE
  <2>1. CASE UNCHANGED req
    BY <1>2, <2>1
  <2>2. ASSUME NEW cat \in Categories, SetQueueState(c, cat), req' # req PROVE FALSE
    <3>1. PICK q \in Requests : req[q].kind = "none" /\ \E new : req' = [req EXCEPT ![q] = new]
      BY <2>2 DEF SetQueueState
    <3> QED BY <1>1, <1>2, <3>1 DEF TypeOK
  <2>3. ASSUME NEW q \in Requests, SendUpdate(c, q) \/ AbandonUpdate(c, q) PROVE FALSE
    BY <1>1, <1>2, <2>3 DEF SendUpdate, AbandonUpdate, TypeOK
  <2> QED BY <1>6, <2>1, <2>2, <2>3 DEF Queue, ReadNewRange
<1>7. CASE Store
  <2>1. ASSUME NEW q \in Requests, ApplyWrite(q) PROVE FALSE
    <3>1. q # r
      BY <1>1, <2>1 DEF ApplyWrite
    <3>2. req'[r] \in {NoRequest, req[r]}
      BY <2>1, <3>1 DEF ApplyWrite
    <3> QED BY <1>2, <3>2
  <2>2. ASSUME NEW q \in Requests, DropWrite(q) \/ Answer(q) PROVE FALSE
    BY <1>1, <1>2, <2>2 DEF DropWrite, Answer, TypeOK
  <2> QED BY <1>7, <2>1, <2>2 DEF Store
<1> QED BY <1>3, <1>4, <1>5, <1>6, <1>7 DEF Next

\* The keys pending at a context stay so until their write has returned with a
\* definite outcome or the context adopts a new range.
LEMMA PendingStep ==
  ASSUME TypeOK, Next, NEW c \in Contexts
  PROVE  \/ pendingTaskKeys[c] \subseteq pendingTaskKeys'[c]
         \/ Recreate(c)
         \/ \E q \in Requests : RenewSucceeded(c, q)
         \/ \E q \in Requests : /\ Answer(q) /\ req[q].kind = "add" /\ req'[q].wire = "none"
                                /\ pendingTaskKeys'[c] = pendingTaskKeys[c] \ MinKeys(req[q].tasks)
<1>1. CASE UNCHANGED pendingTaskKeys
  BY <1>1
<1>2. ASSUME NEW d \in Contexts, Recreate(d) \/ \E q \in Requests : RenewSucceeded(d, q)
      PROVE  d = c \/ pendingTaskKeys'[c] = pendingTaskKeys[c]
  BY <1>2 DEF Recreate, RenewSucceeded, TypeOK
<1>3. ASSUME NEW d \in Contexts, NEW q \in Requests, TrackAndSend(d, q)
      PROVE  pendingTaskKeys[c] \subseteq pendingTaskKeys'[c]
  BY <1>3 DEF TrackAndSend, TypeOK
<1>4. ASSUME NEW q \in Requests, Answer(q)
      PROVE  \/ pendingTaskKeys'[c] = pendingTaskKeys[c]
             \/ /\ req[q].kind = "add" /\ req'[q].wire = "none"
                /\ pendingTaskKeys'[c] = pendingTaskKeys[c] \ MinKeys(req[q].tasks)
  <2>1. PICK err \in Answers(req[q]) :
           /\ req' = [req EXCEPT ![q].phase = "answered", ![q].err = err,
                                 ![q].wire = IF @ = "pending" /\ err = "unknown"
                                             THEN "pending" ELSE "none"]
           /\ IF req[q].kind = "add" THEN CompletionFn(q, err) ELSE UNCHANGED trackerVars
    BY <1>4 DEF Answer
  <2>2. CASE UNCHANGED pendingTaskKeys
    BY <2>2
  <2>3. CASE /\ req[q].kind = "add" /\ ~(err # "nil" /\ OperationPossiblySucceeded(err))
             /\ pendingTaskKeys' =
                   [pendingTaskKeys EXCEPT ![req[q].ctx] = @ \ MinKeys(req[q].tasks)]
    <3>1. err # "unknown" /\ req[q] \in RequestType
      BY <2>3 DEF OperationPossiblySucceeded, TypeOK
    <3>2. req'[q].wire = "none"
      BY <2>1, <3>1 DEF TypeOK, RequestType
    <3> QED BY <2>3, <3>2 DEF TypeOK
  <2> QED BY <2>1, <2>2, <2>3 DEF CompletionFn, RequestCompleted
<1>5. ASSUME NEW d \in Contexts, Controller(d) \/ Acquisition(d) \/ Queue(d) \/ Tick(d)
      PROVE  Recreate(d) \/ UNCHANGED pendingTaskKeys
  BY <1>5 DEF Controller, Start, RequestStop, FinishStop, StopEngine, Acquisition,
     LoadShardMetadata, LoadShardMetadataFails, AcquireRetry, AcquireExpires, AcquireLock,
     CreateEngine, FinishAcquire, Queue, ReadNewRange, SetQueueState, SendUpdate,
     AbandonUpdate, Tick
<1>6. ASSUME NEW d \in Contexts, Renewal(d)
      PROVE  (\E q \in Requests : RenewSucceeded(d, q)) \/ UNCHANGED pendingTaskKeys
  BY <1>6 DEF Renewal, SendRenew, RenewFailed
<1>7. ASSUME NEW d \in Contexts, Write(d)
      PROVE  (\E q \in Requests : TrackAndSend(d, q)) \/ UNCHANGED pendingTaskKeys
  BY <1>7 DEF Write, BeginWrite, SetTaskKey, HandleWriteError, RenewForKeys, GenerateTaskID
<1>8. CASE Store
  BY <1>1, <1>4, <1>8 DEF Store, ApplyWrite, DropWrite
<1> QED BY <1>1, <1>2, <1>3, <1>5, <1>6, <1>7, <1>8 DEF Next

LEMMA PendingKept ==
  ASSUME FencingInv, UniqueTaskIDs, WritesInv, Next, NEW r \in Requests,
         CanLand(r), CanLand(r)', req'[r].ctx = req[r].ctx,
         MinKeys(req[r].tasks) \subseteq pendingTaskKeys[req[r].ctx]
  PROVE  MinKeys(req[r].tasks) \subseteq pendingTaskKeys'[req[r].ctx]
<1> USE DEF FencingInv, CountInv
<1> DEFINE c == req[r].ctx
<1>1. c \in Contexts /\ req[r].range = dbRange /\ req[r].range <= rangeID[c]
  <2>1. req[r].phase # "keys" /\ req[r].kind = "add"
    BY DEF CanLand, WritesInv, WriteInv
  <2> QED BY <2>1 DEF CanLand, Accepted, WritesInv, WriteInv, RequestShape, Shape
<1>2. ~Recreate(c)
  BY DEF Recreate
<1>3. ASSUME NEW q \in Requests, RenewSucceeded(c, q) PROVE FALSE
  <2>1. Granted(req[q]) /\ req[q].range = rangeID[c]
    BY <1>3 DEF RenewSucceeded, Granted, Waited, RangeInv, RenewalShape
  <2>2. req[q].range + 1 <= dbRange
    BY <2>1 DEF RangeInv, RangeBounded
  <2> QED BY <1>1, <2>1, <2>2, IDTypes
<1>4. ASSUME NEW q \in Requests, req'[q].wire = "none" PROVE MinKeys(req[r].tasks) \cap MinKeys(req[q].tasks) = {}
  <2>1. q # r
    BY <1>4 DEF CanLand
  <2> QED BY <2>1 DEF UniqueTaskIDs, MinKeys
<1> QED BY <1>1, <1>2, <1>3, <1>4, PendingStep

LEMMA TasksNext ==
  ASSUME FencingInv, IDInv, WritesInv, TasksInv, Next
  PROVE  TasksInv'
<1> USE DEF FencingInv, CountInv
<1>1. \A r \in Requests : HasMinKeys(req[r].tasks)
  BY DEF TasksInv
<1>2. MinKeys({}) = {} /\ HasMinKeys({})
  BY DEF MinKeys, HasMinKeys
<1>3. ASSUME UNCHANGED dbVars, NEW r \in Requests, CallStep(r)
      PROVE  /\ \A t \in req'[r].tasks : t.cat \in Immediate => t.pos = t.id
             /\ HasMinKeys(req'[r].tasks)
             /\ CanLand(r)' => MinKeys(req'[r].tasks) \subseteq pendingTaskKeys'[req'[r].ctx]
  <2>1. CASE req'[r].tasks = {}
    BY <1>2, <2>1
  <2>2. CASE SameCall(req[r], req'[r])
    <3>1. req'[r].tasks = req[r].tasks /\ req'[r].ctx = req[r].ctx /\ req'[r].kind = req[r].kind
      BY <2>2 DEF SameCall
    <3>2. CASE CanLand(r)' /\ req[r].phase = "keys"
      <4>1. PICK c \in Contexts : TrackAndSend(c, r)
        BY <3>2, TrackedBy DEF CanLand
      <4> QED BY <1>1, <3>1, <4>1 DEF TrackAndSend, SettingKeys, TypeOK, TasksInv
    <3>3. CASE CanLand(r)' /\ req[r].phase # "keys"
      <4>1. CanLand(r)
        BY <1>3, <2>2, <3>1, <3>3 DEF CanLand, Accepted, SameCall
      <4> QED BY <3>1, <3>3, <4>1, PendingKept DEF TasksInv, IDInv
    <3> QED BY <1>1, <3>1, <3>2, <3>3 DEF TasksInv
  <2> QED BY <1>3, <2>1, <2>2 DEF CallStep, NewCall, NoRequest
<1>4. ASSUME NEW c \in Contexts, NEW r \in Requests, NEW k \in Categories,
             NEW n \in 0..MaxTime, SetTaskKey(c, r, k, n)
      PROVE  TasksInv'
  <2>1. PICK task : /\ req' = [req EXCEPT ![r].tasks = @ \cup {task}]
                    /\ task.cat \in Immediate => task.pos = task.id
    <3>1. Immediate \cap Scheduled = {}
      BY ConstantsAssumption DEF ConstantsAssumption
    <3> DEFINE scheduledTime == IF n + 1 < taskMinScheduledTime[c]
                                THEN taskMinScheduledTime[c] + 1 ELSE n + 1
               task == [cat |-> k, id |-> nextTaskID[c],
                        pos |-> IF k \in Scheduled THEN scheduledTime ELSE nextTaskID[c]]
    <3>2. req' = [req EXCEPT ![r].tasks = @ \cup {task}]
      BY <1>4 DEF SetTaskKey
    <3>3. task.cat \in Immediate => task.pos = task.id
      BY <3>1
    <3> QED BY <3>2, <3>3
  <2>2. /\ req'[r].tasks = req[r].tasks \cup {task} /\ req'[r].wire = "none"
        /\ \A q \in Requests : q # r => req'[q] = req[q]
    <3>1. req[r] \in RequestType /\ req[r].wire = "none"
      BY <1>4 DEF SetTaskKey, SettingKeys, TypeOK, WritesInv, WriteInv
    <3> QED BY <2>1, <3>1 DEF TypeOK, RequestType
  <2>3. HasMinKeys(req'[r].tasks)
    <3>1. req'[r].tasks \subseteq Tasks
      BY TypeNext DEF TypeOK, RequestType
    <3>2. req[r].tasks \in SUBSET Tasks /\ task \in Tasks
      BY <2>2, <3>1
    <3> QED BY <1>1, <2>2, <3>2, MinKeysAdd
  <2>4. UNCHANGED <<dbVars, pendingTaskKeys>>
    BY <1>4 DEF SetTaskKey
  <2>5. ASSUME NEW q \in Requests, q # r
        PROVE  /\ \A t \in req'[q].tasks : t.cat \in Immediate => t.pos = t.id
               /\ HasMinKeys(req'[q].tasks)
               /\ CanLand(q)' => MinKeys(req'[q].tasks) \subseteq pendingTaskKeys'[req'[q].ctx]
    BY <2>2, <2>4, <2>5 DEF TasksInv, CanLand, Accepted
  <2>6. \A t \in req'[r].tasks : t.cat \in Immediate => t.pos = t.id
    BY <2>1, <2>2 DEF TasksInv
  <2> QED BY <2>2, <2>3, <2>5, <2>6 DEF TasksInv, CanLand, HasMinKeys, MinKeys
<1>5. ASSUME NEW r \in Requests, ApplyWrite(r) PROVE TasksInv'
  <2>1. /\ UNCHANGED <<pendingTaskKeys, rangeID>> /\ req[r].range = dbRange
        /\ dbRange' = IF req[r].kind = "renew" THEN dbRange + 1 ELSE dbRange
        /\ \A q \in Requests :
              \/ req'[q] \in {NoRequest, req[q]}
              \/ q = r /\ req'[q] = [req[q] EXCEPT !.wire = "applied"]
    BY <1>5 DEF ApplyWrite, Accepted
  <2>2. ASSUME NEW q \in Requests
        PROVE  /\ \A t \in req'[q].tasks : t.cat \in Immediate => t.pos = t.id
               /\ HasMinKeys(req'[q].tasks)
               /\ CanLand(q)' => MinKeys(req'[q].tasks) \subseteq pendingTaskKeys'[req'[q].ctx]
    <3>0. req[q] \in RequestType
      BY DEF TypeOK
    <3>1. CASE req'[q] = NoRequest
      BY <1>2, <3>1 DEF NoRequest
    <3>2. CASE req'[q] = [req[q] EXCEPT !.wire = "applied"]
      <4>1. req'[q].tasks = req[q].tasks /\ req'[q].wire = "applied"
        BY <3>0, <3>2 DEF RequestType
      <4> QED BY <1>1, <4>1 DEF TasksInv, CanLand
    <3>3. CASE req'[q] = req[q]
      <4>1. CanLand(q)' => CanLand(q)
        <5> SUFFICES ASSUME CanLand(q)' PROVE Accepted(req[q])
          BY <3>3 DEF CanLand
        <5>1. req[q].range = dbRange' /\ req[q].kind = "add" /\ req[q].wire = "pending"
          BY <3>3 DEF CanLand, Accepted
        <5>2. req[q].phase # "keys" /\ req[q].ctx \in Contexts
          BY <5>1 DEF WritesInv, WriteInv, RequestShape, Shape
        <5>3. req[q].range <= rangeID[req[q].ctx] /\ rangeID[req[q].ctx] <= dbRange
          BY <5>1, <5>2 DEF WritesInv, WriteInv, RangeInv, RangeBounded
        <5> QED BY <2>1, <5>1, <5>2, <5>3, IDTypes DEF Accepted
      <4> QED BY <2>1, <3>3, <4>1 DEF TasksInv
    <3> QED BY <2>1, <3>1, <3>2, <3>3
  <2> QED BY <2>2 DEF TasksInv, HasMinKeys, MinKeys, CanLand, KeyLE
<1>6. ASSUME UNCHANGED dbVars, \A r \in Requests : CallStep(r) PROVE TasksInv'
  BY <1>3, <1>6 DEF TasksInv, HasMinKeys, MinKeys, CanLand, KeyLE
<1> QED BY <1>4, <1>5, <1>6, CallsNext

-----------------------------------------------------------------------------
(* Tasks ahead of the readers                                              *)

\* The key of t is ahead of what c has read or persisted, and its ID of every
\* ID that another context has the range for.
Ahead(c, t) ==
    /\ \A m : MarkOf(c, t.cat, m) => m <= t.pos
    /\ \A d \in Contexts \ {c} : HasRange(d) => EndTaskID(rangeID[d]) <= t.id
    /\ \A q \in Requests : Granted(req[q]) /\ req[q].ctx # c =>
          EndTaskID(req[q].range + 1) <= t.id

\* The writes of tasks that the store may accept now or, while their keys are
\* being set, later.
Live(r) ==
    /\ req[r].kind = "add" /\ Owner(req[r].ctx)
    /\ req[r].phase = "keys" \/ (req[r].wire = "pending" /\ req[r].range = dbRange)

LiveInv == \A r \in Requests : Live(r) => \A t \in req[r].tasks : Ahead(req[r].ctx, t)

LEMMA LandingIsLive ==
  ASSUME FencingInv, WritesInv, NEW r \in Requests, CanLand(r)
  PROVE  Live(r) /\ req[r].ctx \in Contexts
<1> USE DEF FencingInv, CountInv
<1>1. req[r].phase # "keys" /\ req[r].kind = "add" /\ req[r].range = dbRange
  BY DEF CanLand, Accepted, WritesInv, WriteInv
<1>2. req[r].ctx \in Contexts /\ HasRange(req[r].ctx) /\ req[r].range <= rangeID[req[r].ctx]
  BY <1>1 DEF WritesInv, WriteInv, RequestShape, Shape
<1>3. rangeID[req[r].ctx] <= dbRange
  BY <1>2 DEF RangeInv, RangeBounded
<1>4. rangeID[req[r].ctx] = dbRange
  BY <1>1, <1>2, <1>3, IDTypes
<1> QED BY <1>1, <1>2, <1>4 DEF Live, Owner, CanLand

\* A live write sees no watermark that it did not see before.
LEMMA AheadStep ==
  ASSUME FencingInv, TypeOK', WritesInv, TasksInv, Next, NEW r \in Requests, Live(r),
         NEW c \in Contexts, req[r].ctx = c, NEW t \in req[r].tasks, Ahead(c, t),
         \A q \in Requests : Granted(req'[q]) /\ req'[q].ctx # c =>
            Granted(req[q]) /\ req'[q].ctx = req[q].ctx /\ req'[q].range = req[q].range
  PROVE  Ahead(c, t)'
<1> USE DEF FencingInv, CountInv
<1>1. /\ HasRange(c) /\ rangeID[c] # NotLoaded
      /\ t \in Tasks /\ t.cat \in Categories /\ t.pos \in Nat
  <2>1. HasRange(c) /\ t \in Tasks
    BY DEF Live, WritesInv, WriteInv, RequestShape, Shape, TypeOK, RequestType
  <2> QED BY <2>1 DEF Loaded, Tasks
<1>2. ASSUME NEW m, MarkOf(c, t.cat, m)' PROVE m <= t.pos
  <2>1. CASE MarkOf(c, t.cat, m)
    BY <2>1 DEF Ahead
  <2>2. CASE m = 0
    BY <1>1, <2>2
  <2>3. CASE ReadNewRange(c, t.cat) /\ m = readerMark'[c][t.cat]
    <3>1. lock[c] = "free"
      BY <2>3 DEF ReadNewRange
    <3>2. CanLand(r)
      BY <3>1 DEF Live, CanLand, Accepted, WritesInv, WriteInv
    <3>3. PICK k \in MinKeys(req[r].tasks) : k.cat = t.cat /\ KeyLE(k, t)
      BY DEF TasksInv, HasMinKeys
    <3>4. k \in pendingTaskKeys[c] /\ k.pos \in Nat
      <4>1. k \in pendingTaskKeys[c]
        BY <3>2, <3>3 DEF TasksInv
      <4>2. k \in Tasks
        BY <1>1, <4>1 DEF TypeOK
      <4> QED BY <4>1, <4>2 DEF Tasks
    <3> DEFINE nextPos == IF t.cat \in Scheduled THEN taskMinScheduledTime'[c] ELSE nextTaskID[c]
               limits  == {nextPos} \cup {u.pos : u \in {x \in pendingTaskKeys[c] : x.cat = t.cat}}
    <3>5. PICK w \in limits :
             /\ \A l \in limits : w <= l
             /\ readerMark' = [readerMark EXCEPT ![c][t.cat] = MaxOf(@, w)]
      BY <2>3, Zenon DEF ReadNewRange
    <3>6. w <= k.pos
      BY <3>3, <3>4, <3>5
    <3>7. w <= t.pos
      <4>1. k.pos <= t.pos
        BY <1>1, <3>3, <3>4 DEF KeyLE
      <4>2. w \in Int
        <5>1. nextPos \in Int
          BY <1>1, IDTypes DEF TypeOK
        <5>2. \A u \in pendingTaskKeys[c] : u.pos \in Int
          BY <1>1 DEF TypeOK, Tasks
        <5> HIDE DEF nextPos
        <5> QED BY <5>1, <5>2
      <4> QED BY <1>1, <3>4, <3>6, <4>1, <4>2
    <3>8. MarkOf(c, t.cat, readerMark[c][t.cat])
      BY DEF MarkOf
    <3>9. readerMark[c][t.cat] <= t.pos
      BY <3>8 DEF Ahead
    <3>10. m \in {readerMark[c][t.cat], w}
      <4>1. ASSUME NEW cat \in Categories, NEW n,
                   readerMark' = [readerMark EXCEPT ![c][cat] = n]
            PROVE  readerMark'[c][cat] = n
        BY <4>1 DEF TypeOK
      <4>2. readerMark'[c][t.cat] = MaxOf(readerMark[c][t.cat], w)
        BY <1>1, <3>5, <4>1
      <4> QED BY <2>3, <4>2 DEF MaxOf
    <3> QED BY <3>7, <3>9, <3>10
  <2> QED BY <1>1, <1>2, <2>1, <2>2, <2>3, MarksNext
<1>3. ASSUME NEW d \in Contexts \ {c}, HasRange(d)' PROVE EndTaskID(rangeID'[d]) <= t.id
  <2>1. CASE HasRange(d) /\ rangeID'[d] = rangeID[d]
    BY <2>1 DEF Ahead
  <2>2. ASSUME NEW q \in Requests, Granted(req[q]), req[q].ctx = d, rangeID'[d] = req[q].range + 1
        PROVE  EndTaskID(rangeID'[d]) <= t.id
    BY <2>2 DEF Ahead
  <2> QED BY <1>3, <2>1, <2>2, RangeStepNext DEF RangeStep
<1>4. ASSUME NEW q \in Requests, Granted(req'[q]), req'[q].ctx # c
      PROVE  EndTaskID(req'[q].range + 1) <= t.id
  BY <1>4 DEF Ahead
<1> QED BY <1>2, <1>3, <1>4 DEF Ahead, EndTaskID, Granted

\* A write whose keys are being set uses one that is ahead of everything.
LEMMA NewKeyAhead ==
  ASSUME FencingInv, TypeOK', IDInv, AcquireInv, WritesInv, MarksInv, Next,
         NEW c \in Contexts, NEW r \in Requests, NEW cat \in Categories,
         NEW n \in 0..MaxTime, SetTaskKey(c, r, cat, n), Owner(c),
         NEW t, t.cat = cat, t.id = nextTaskID[c],
         cat \in Scheduled => t.pos \in Nat /\ taskMinScheduledTime[c] <= t.pos,
         cat \notin Scheduled => t.pos = nextTaskID[c],
         \A q \in Requests : Granted(req'[q]) =>
            Granted(req[q]) /\ req'[q].ctx = req[q].ctx /\ req'[q].range = req[q].range
  PROVE  Ahead(c, t)'
<1> USE DEF FencingInv, CountInv
<1>1. lock[c] = "keys" /\ renewing[c] = "no" /\ HasRange(c) /\ rangeID[c] # NotLoaded
  BY DEF SetTaskKey, AcquireInv, Loaded
<1>2. /\ \A q \in Requests : Granted(req[q]) => req[q].ctx # c
      /\ rangeID[c] = dbRange
  BY <1>1 DEF RangeInv, RenewalShape, Owner
<1>3. FirstTaskID(dbRange) <= t.id /\ t.id \in Int /\ FirstTaskID(dbRange) \in Int
  BY <1>1, <1>2, IDTypes, RangeBounds DEF IDInv, GeneratorInRange
<1>4. \A i \in Int : i < dbRange => EndTaskID(i) <= t.id
  BY <1>3, IDTypes, RangesDisjoint
<1>5. ASSUME NEW m, MarkOf(c, cat, m)' PROVE m <= t.pos
  <2>1. t.pos \in Nat /\ Bound(c, cat) <= t.pos /\ Bound(c, cat) \in Nat
    BY <1>1, BoundType, IDTypes DEF Bound, TypeOK, HasRange
  <2>2. MarkOf(c, cat, m) \/ m = 0
    BY <1>1, <1>5, MarksNext DEF ReadNewRange
  <2>3. CASE MarkOf(c, cat, m)
    BY <2>1, <2>3, MarkType DEF MarksInv, MarksBounded
  <2> QED BY <2>1, <2>2, <2>3
<1>6. ASSUME NEW d \in Contexts \ {c}, HasRange(d)' PROVE EndTaskID(rangeID'[d]) <= t.id
  <2>1. rangeID' = rangeID /\ HasRange(d)
    BY <1>6 DEF SetTaskKey, HasRange, TypeOK
  <2>2. rangeID[d] # dbRange /\ rangeID[d] <= dbRange
    BY <1>1, <1>2, <1>6, <2>1 DEF RangeInv, RangeBounded, RangeHeldOnce
  <2> QED BY <1>4, <2>1, <2>2, IDTypes
<1>7. ASSUME NEW q \in Requests, Granted(req'[q]) PROVE EndTaskID(req'[q].range + 1) <= t.id
  <2>1. Granted(req[q]) /\ req'[q].range = req[q].range
    BY <1>7
  <2>2. req[q].range + 1 <= dbRange /\ req[q].range + 1 # dbRange
    BY <1>1, <1>2, <2>1 DEF RangeInv, RangeBounded, RangeHeldOnce
  <2> QED BY <1>4, <2>1, <2>2, IDTypes
<1> QED BY <1>5, <1>6, <1>7 DEF Ahead, EndTaskID, Granted

LEMMA LiveNext ==
  ASSUME FencingInv, TypeOK', IDInv, AcquireInv, WritesInv, MarksInv, TasksInv, LiveInv, Next
  PROVE  LiveInv'
<1> USE DEF FencingInv, CountInv
<1> SUFFICES ASSUME NEW r \in Requests, Live(r)', NEW t \in req'[r].tasks,
                    NEW c \in Contexts, req'[r].ctx = c
             PROVE  Ahead(c, t)'
  <2>1. RequestShape'
    BY CountNext
  <2>2. \A r \in Requests : Live(r)' => req'[r].ctx \in Contexts
    BY <2>1 DEF RequestShape, Shape, Live
  <2> QED BY <2>2 DEF LiveInv, Ahead, Live
<1>1. CASE UNCHANGED dbVars /\ \A q \in Requests : CallStep(q)
  <2>1. \A q \in Requests : Granted(req'[q]) =>
           Granted(req[q]) /\ req'[q].ctx = req[q].ctx /\ req'[q].range = req[q].range
    BY <1>1, CallGranted
  <2>2. SameCall(req[r], req'[r])
    BY <1>1 DEF CallStep, NewCall, NoRequest
  <2>3. Owner(c)
    BY <1>1, <2>1, OwnerStep, RangeStepNext DEF Live
  <2>4. Live(r) /\ req[r].ctx = c /\ t \in req[r].tasks
    BY <1>1, <2>2, <2>3 DEF SameCall, Live
  <2> QED BY <2>1, <2>4, AheadStep DEF LiveInv
<1>2. ASSUME NEW d \in Contexts, NEW p \in Requests, NEW k \in Categories,
             NEW n \in 0..MaxTime, SetTaskKey(d, p, k, n)
      PROVE  Ahead(c, t)'
  <2> DEFINE scheduledTime == IF n + 1 < taskMinScheduledTime[d]
                              THEN taskMinScheduledTime[d] + 1 ELSE n + 1
             task == [cat |-> k, id |-> nextTaskID[d],
                      pos |-> IF k \in Scheduled THEN scheduledTime ELSE nextTaskID[d]]
  <2>1. req' = [req EXCEPT ![p].tasks = @ \cup {task}] /\ UNCHANGED dbVars
    BY <1>2 DEF SetTaskKey
  <2>2. /\ task.cat = k /\ task.id = nextTaskID[d]
        /\ k \in Scheduled => task.pos \in Nat /\ taskMinScheduledTime[d] <= task.pos
        /\ k \notin Scheduled => task.pos = nextTaskID[d]
    <3>1. taskMinScheduledTime[d] \in Nat
      BY DEF TypeOK
    <3> QED BY <3>1
  <2> HIDE DEF task
  <2>3. /\ req[p].ctx = d /\ req[p].phase = "keys"
        /\ req'[p].kind = req[p].kind /\ req[p].kind = "add"
        /\ req'[p].ctx = req[p].ctx /\ req'[p].phase = req[p].phase
        /\ req'[p].tasks = req[p].tasks \cup {task}
        /\ \A q \in Requests : q # p => req'[q] = req[q]
    <3>1. req[p] \in RequestType /\ req[p].ctx = d /\ req[p].phase = "keys"
      BY <1>2 DEF SetTaskKey, SettingKeys, TypeOK
    <3>2. req[p].kind = "add"
      BY <3>1 DEF RequestShape, Shape
    <3> QED BY <2>1, <3>1, <3>2 DEF TypeOK, RequestType
  <2>4. \A q \in Requests : Granted(req'[q]) =>
           Granted(req[q]) /\ req'[q].ctx = req[q].ctx /\ req'[q].range = req[q].range
    BY <2>3 DEF Granted
  <2>5. Owner(c)
    BY <2>1, <2>4, OwnerStep, RangeStepNext DEF Live
  <2>6. Live(r) /\ req[r].ctx = c
    BY <2>1, <2>3, <2>5 DEF Live
  <2>7. CASE t \in req[r].tasks
    BY <2>4, <2>6, <2>7, AheadStep DEF LiveInv
  <2>8. CASE r = p /\ t = task
    <3>1. d = c
      BY <2>3, <2>6, <2>8
    <3> QED BY <1>2, <2>2, <2>4, <2>5, <2>8, <3>1, NewKeyAhead
  <2> QED BY <2>3, <2>7, <2>8
<1>3. ASSUME NEW p \in Requests, ApplyWrite(p) PROVE Ahead(c, t)'
  <2>1. /\ UNCHANGED <<rangeID, nextTaskID>> /\ req[p].range = dbRange
        /\ dbRange' = IF req[p].kind = "renew" THEN dbRange + 1 ELSE dbRange
        /\ \A q \in Requests :
              \/ req'[q] \in {NoRequest, req[q]}
              \/ q = p /\ req'[q] = [req[q] EXCEPT !.wire = "applied"]
    BY <1>3 DEF ApplyWrite, Accepted
  <2>2. /\ req'[r] # NoRequest /\ req'[r].kind = "add"
        /\ req'[r].phase = "keys" \/ (req'[r].wire = "pending" /\ req'[r].range = dbRange')
    BY DEF Live, NoRequest
  <2>3. /\ req[r].kind = "add" /\ req[r].ctx = c /\ t \in req[r].tasks
        /\ req[r].phase = req'[r].phase /\ req[r].range = req'[r].range
        /\ req'[r].wire = "pending" => req[r].wire = "pending"
    <3>1. req[r] \in RequestType
      BY DEF TypeOK
    <3>2. CASE req'[r] = [req[r] EXCEPT !.wire = "applied"]
      BY <2>2, <3>1, <3>2 DEF RequestType
    <3>3. CASE req'[r] = req[r]
      BY <2>2, <3>3
    <3>4. req'[r] = req[r] \/ req'[r] = [req[r] EXCEPT !.wire = "applied"]
      BY <2>1, <2>2, Zenon
    <3> QED BY <3>2, <3>3, <3>4
  <2>4. HasRange(c) /\ rangeID[c] <= dbRange
    BY <2>3 DEF WritesInv, WriteInv, RangeInv, RangeBounded
  <2>5. \A q \in Requests : q # p /\ Granted(req'[q]) =>
           Granted(req[q]) /\ req'[q].ctx = req[q].ctx /\ req'[q].range = req[q].range
    <3>1. ~Granted(NoRequest)
      BY DEF Granted, NoRequest
    <3>2. ASSUME NEW q \in Requests, q # p PROVE req'[q] \in {NoRequest, req[q]}
      BY <2>1, <3>2, Zenon
    <3> QED BY <3>1, <3>2
  <2>6. req'[p].kind \in {"none", req[p].kind} /\ req'[p].ctx \in {NoContext, req[p].ctx}
        /\ (Granted(req'[p]) => req'[p].range = req[p].range /\ req'[p].ctx = req[p].ctx)
    <3>1. req[p] \in RequestType
      BY DEF TypeOK
    <3>2. CASE req'[p] = [req[p] EXCEPT !.wire = "applied"]
      BY <3>1, <3>2 DEF RequestType
    <3>3. CASE req'[p] \in {NoRequest, req[p]}
      BY <3>3 DEF NoRequest, Granted
    <3>4. req'[p] \in {NoRequest, req[p]} \/ req'[p] = [req[p] EXCEPT !.wire = "applied"]
      BY <2>1, Zenon
    <3> QED BY <3>2, <3>3, <3>4
  <2>7. CASE req[p].kind # "renew"
    <3>1. UNCHANGED dbRange
      BY <2>1, <2>7
    <3>2. \A q \in Requests : Granted(req'[q]) =>
             Granted(req[q]) /\ req'[q].ctx = req[q].ctx /\ req'[q].range = req[q].range
      BY <2>5, <2>6, <2>7 DEF Granted
    <3>3. Owner(c)
      BY <3>1, <3>2, OwnerStep, RangeStepNext DEF Live
    <3>4. Live(r)
      BY <2>2, <2>3, <3>1, <3>3 DEF Live
    <3> QED BY <2>3, <3>2, <3>4, AheadStep DEF LiveInv
  <2>8. CASE req[p].kind = "renew"
    <3>1. dbRange' = dbRange + 1
      BY <2>1, <2>8
    <3>2. req[r].phase = "keys"
      <4> SUFFICES ASSUME req[r].phase # "keys" PROVE FALSE
        OBVIOUS
      <4>1. req[r].range <= rangeID[c] /\ req[r].range = dbRange + 1
        BY <2>2, <2>3, <3>1 DEF WritesInv, WriteInv
      <4> QED BY <2>4, <4>1, IDTypes
    <3>3. PICK q \in Requests : Granted(req'[q]) /\ req'[q].ctx = c /\ req'[q].range + 1 = dbRange'
      <4>1. rangeID'[c] # dbRange'
        BY <2>1, <2>4, <3>1, IDTypes
      <4> QED BY <4>1 DEF Live, Owner, Granted
    <3>4. q = p
      <4> SUFFICES ASSUME q # p PROVE FALSE
        OBVIOUS
      <4>1. req[q].range + 1 <= dbRange /\ req[q].range + 1 = dbRange + 1
        BY <2>5, <3>1, <3>3 DEF RangeInv, RangeBounded
      <4> QED BY <4>1, IDTypes
    <3>5. req[p].ctx = c /\ rangeID[c] = dbRange
      <4>1. req[p].ctx = c /\ Granted(req'[p])
        BY <2>6, <3>3, <3>4
      <4>2. RangeInv'
        BY RangeNext
      <4>3. rangeID'[c] = req'[p].range
        BY <3>3, <3>4, <4>1, <4>2 DEF RangeInv, RenewalShape
      <4> QED BY <2>1, <2>6, <4>1, <4>3
    <3>6. Live(r)
      BY <2>3, <2>4, <3>2, <3>5 DEF Live, Owner
    <3>7. \A g \in Requests : Granted(req'[g]) /\ req'[g].ctx # c =>
             Granted(req[g]) /\ req'[g].ctx = req[g].ctx /\ req'[g].range = req[g].range
      BY <2>5, <2>6, <3>5
    <3> QED BY <2>3, <3>6, <3>7, AheadStep DEF LiveInv
  <2> QED BY <2>7, <2>8
<1> QED BY <1>1, <1>2, <1>3, CallsNext

-----------------------------------------------------------------------------
(* Theorems                                                                *)

\* The inductive invariant of what may be served and read.
ReadInv ==
    /\ FencingInv /\ IDInv /\ AcquireInv /\ WritesInv
    /\ MarksInv /\ TasksInv /\ LiveInv

LEMMA ReadInit == Init => ReadInv
<1> SUFFICES ASSUME Init PROVE ReadInv
  OBVIOUS
<1>1. FencingInv /\ IDInv
  BY CountInit, RangeInit, IDInit DEF FencingInv
<1>2. \A r \in Requests : /\ req[r].kind = "none" /\ req[r].tasks = {} /\ req[r].phase = "idle"
                          /\ req[r].wire = "none"
  BY DEF Init, NoRequest
<1>3. AcquireInv /\ WritesInv
  BY <1>2 DEF Init, AcquireInv, WritesInv, WriteInv, HasRange
<1>4. MarksInv
  <2>1. \A c \in Contexts, cat \in Categories : \A m : MarkOf(c, cat, m) => m = 0
    BY <1>2 DEF Init, MarkOf
  <2>2. MarksBounded
    <3>1. TypeOK
      BY TypeInit
    <3> QED BY <2>1, <3>1, BoundType DEF MarksBounded
  <2>3. \A cat \in Immediate : dbMarks[cat] <= EndTaskID(dbRange)
    <3>1. EndTaskID(0) \in Nat
      <4>1. FirstTaskID(1) \in Nat
        BY RangeBounds
      <4> QED BY <4>1 DEF FirstTaskID, EndTaskID
    <3> QED BY <3>1 DEF Init
  <2> QED BY <1>2, <2>2, <2>3 DEF Init, MarksInv, NothingRead, MarksInRange
<1>5. TasksInv /\ LiveInv
  BY <1>2 DEF TasksInv, HasMinKeys, MinKeys, LiveInv
<1> QED BY <1>1, <1>3, <1>4, <1>5 DEF ReadInv

LEMMA ReadNext ==
  ASSUME ReadInv, [Next]_vars
  PROVE  ReadInv'
<1>1. FencingInv'
  BY FencingNext DEF ReadInv
<1>2. CASE Next
  <2>1. FencingInv' /\ TypeOK' /\ GeneratorInRange
    BY <1>1 DEF ReadInv, FencingInv, CountInv, IDInv
  <2> QED BY <1>2, <2>1, IDNext, AcquireNext, WritesNext, MarksInvNext, TasksNext, LiveNext
          DEF ReadInv
<1>3. CASE UNCHANGED vars
  <2> USE <1>3 DEF ReadInv, vars
  <2>1. IDInv'
    BY DEF IDInv, GeneratorInRange, IDsFresh, CanGenerate, CanStart, UniqueTaskIDs, HasRange,
       Granted
  <2>2. AcquireInv' /\ WritesInv'
    BY DEF AcquireInv, WritesInv, WriteInv, HasRange
  <2>3. MarksInv'
    <3>1. \A c \in Contexts, cat \in Categories : \A m :
             (MarkOf(c, cat, m)' <=> MarkOf(c, cat, m)) /\ Bound(c, cat)' = Bound(c, cat)
      BY DEF MarkOf, Owner, Granted, Bound, HasRange, EndTaskID
    <3>2. NothingRead' /\ MarksInRange'
      BY DEF MarksInv, NothingRead, MarksInRange, EndTaskID
    <3> QED BY <3>1, <3>2 DEF MarksInv, MarksBounded
  <2>4. TasksInv'
    BY DEF TasksInv, CanLand, Accepted, HasMinKeys, MinKeys, KeyLE
  <2>5. LiveInv'
    BY DEF LiveInv, Live, Ahead, Owner, Granted, MarkOf, HasRange, EndTaskID
  <2> QED BY <1>1, <2>1, <2>2, <2>3, <2>4, <2>5
<1> QED BY <1>2, <1>3

THEOREM ReadInvariant == Spec => []ReadInv
<1> QED BY ReadInit, ReadNext, PTL DEF Spec

\* acquireShard runs while the state is Acquiring and the engine is there once it
\* is Acquired (context_impl.go:1602-1607).
THEOREM AcquisitionRuns == Spec => []AcquireRunsWhileAcquiring
<1>1. ReadInv => AcquireRunsWhileAcquiring
  BY DEF ReadInv, AcquireInv, AcquireRunsWhileAcquiring
<1> QED BY <1>1, ReadInvariant, PTL

\* A context that has returned an unknown outcome serves nothing until the write
\* has landed or never can (context_impl.go:1442-1445).
THEOREM OutcomeSettled == Spec => []OutcomeSettledWhenAcquired
<1>1. ReadInv => OutcomeSettledWhenAcquired
  <2> SUFFICES ASSUME ReadInv, NEW r \in Requests, CanLand(r), req[r].phase = "zombie"
               PROVE  state[req[r].ctx] # "Acquired"
    BY DEF OutcomeSettledWhenAcquired
  <2> USE DEF ReadInv, FencingInv, CountInv
  <2>1. req[r].kind = "add" /\ req[r].range = dbRange
    BY DEF CanLand, Accepted
  <2>2. req[r].ctx \in Contexts /\ req[r].range <= rangeID[req[r].ctx]
    BY <2>1 DEF RequestShape, Shape, WritesInv, WriteInv
  <2>3. req[r].range = rangeID[req[r].ctx]
    <3>1. rangeID[req[r].ctx] <= dbRange
      BY <2>2 DEF RangeInv, RangeBounded
    <3> QED BY <2>1, <2>2, <3>1, IDTypes
  <2> QED BY <2>1, <2>3 DEF WritesInv, WriteInv
<1> QED BY <1>1, ReadInvariant, PTL

\* A key that a queue has read past is never used by a write that can still land
\* (task_key_manager.go:88-119).
THEOREM ReadersAreBehind == Spec => []NoTaskBehindReader
<1>1. ReadInv => NoTaskBehindReader
  <2> SUFFICES ASSUME ReadInv, NEW r \in Requests, CanLand(r), NEW t \in req[r].tasks
               PROVE  readerMark[req[r].ctx][t.cat] <= t.pos
    BY DEF NoTaskBehindReader
  <2>1. Ahead(req[r].ctx, t)
    BY LandingIsLive DEF ReadInv, LiveInv
  <2> QED BY <2>1 DEF Ahead, MarkOf
<1> QED BY <1>1, ReadInvariant, PTL

\* Nor is a key below a persisted watermark, where the next owner of the shard
\* resumes (context_impl.go:1835-1843).
THEOREM ResumesAhead == Spec => []NoTaskBehindPersistedState
<1>1. ReadInv => NoTaskBehindPersistedState
  <2> SUFFICES ASSUME ReadInv, NEW r \in Requests, CanLand(r), NEW t \in req[r].tasks
               PROVE  dbMarks[t.cat] <= t.pos
    BY DEF NoTaskBehindPersistedState
  <2>1. Ahead(req[r].ctx, t) /\ Live(r)
    BY LandingIsLive DEF ReadInv, LiveInv
  <2> QED BY <2>1 DEF Ahead, MarkOf, Live
<1> QED BY <1>1, ReadInvariant, PTL

\* For immediate categories no context, not even one that has lost the shard, has
\* read past the key of such a write.
THEOREM StaleReadersAreBehind == Spec => []NoImmediateTaskBehindAnyReader
<1>1. ReadInv => NoImmediateTaskBehindAnyReader
  <2> SUFFICES ASSUME ReadInv, NEW r \in Requests, CanLand(r), NEW t \in req[r].tasks,
                      NEW c \in Contexts, t.cat \in Immediate
               PROVE  readerMark[c][t.cat] <= t.pos
    BY DEF NoImmediateTaskBehindAnyReader
  <2> USE DEF ReadInv, FencingInv, CountInv
  <2>1. Live(r) /\ Ahead(req[r].ctx, t)
    BY LandingIsLive DEF LiveInv
  <2>2. CASE c = req[r].ctx
    BY <2>1, <2>2 DEF Ahead, MarkOf
  <2>3. CASE c # req[r].ctx /\ HasRange(c)
    <3>1. EndTaskID(rangeID[c]) <= t.id
      BY <2>1, <2>3 DEF Ahead
    <3>2. MarkOf(c, t.cat, readerMark[c][t.cat])
      BY DEF MarkOf
    <3>3. readerMark[c][t.cat] <= Bound(c, t.cat) /\ readerMark[c][t.cat] \in Nat
      BY <3>2, MarkType DEF MarksInv, MarksBounded
    <3>4. Bound(c, t.cat) <= EndTaskID(rangeID[c]) /\ EndTaskID(rangeID[c]) \in Int
      BY BoundEnd DEF IDInv
    <3>5. t.id = t.pos /\ t.id \in Nat /\ Bound(c, t.cat) \in Nat
      BY BoundType, IDTypes DEF TasksInv
    <3> QED BY <3>1, <3>3, <3>4, <3>5
  <2>4. CASE ~HasRange(c)
    <3>1. readerMark[c][t.cat] = 0
      BY <2>4 DEF AcquireInv, MarksInv, NothingRead
    <3>2. t.pos \in Nat
      BY IDTypes DEF TasksInv
    <3> QED BY <3>1, <3>2
  <2> QED BY <2>2, <2>3, <2>4
<1> QED BY <1>1, ReadInvariant, PTL

\* A context that is stopping only stops, and a stopped one is only replaced by
\* one that has nothing loaded (context_impl.go:1600-1601).
THEOREM StoppingIsFinal == Spec => StopIsFinal
<1>1. ASSUME TypeOK, AcquireInv, [Next]_vars, NEW c \in Contexts
      PROVE  /\ state[c] = "Stopping" => state'[c] \in {"Stopping", "Stopped"}
             /\ state[c] = "Stopped" => \/ state'[c] = "Stopped"
                                        \/ state'[c] = "Initialized" /\ rangeID'[c] = NotLoaded
  <2> USE <1>1
  <2>1. CASE UNCHANGED state
    BY <2>1
  <2>2. ASSUME NEW d \in Contexts, Controller(d)
        PROVE  /\ state[c] = "Stopping" => state'[c] \in {"Stopping", "Stopped"}
               /\ state[c] = "Stopped" => \/ state'[c] = "Stopped"
                                          \/ state'[c] = "Initialized" /\ rangeID'[c] = NotLoaded
    BY <2>2 DEF Controller, Start, Recreate, RequestStop, FinishStop, StopEngine, IsValid, TypeOK
  <2>3. ASSUME NEW d \in Contexts,
               \/ state' = [state EXCEPT ![d] = StopRequested(@)]
               \/ state[d] \in {"Acquired", "Acquiring"} /\ state' = [state EXCEPT ![d] = "Acquiring"]
               \/ state[d] \in {"Acquired", "Acquiring"} /\ state' = [state EXCEPT ![d] = "Acquired"]
        PROVE  state[c] \in {"Stopping", "Stopped"} => state'[c] = state[c]
    BY <2>3 DEF StopRequested, TypeOK
  <2>4. ASSUME NEW d \in Contexts, Acquisition(d)
        PROVE  \/ UNCHANGED state
               \/ state' = [state EXCEPT ![d] = StopRequested(@)]
               \/ state[d] \in {"Acquired", "Acquiring"} /\ state' = [state EXCEPT ![d] = "Acquired"]
    BY <2>4 DEF Acquisition, LoadShardMetadata, LoadShardMetadataFails, AcquireFailed,
       AcquireRetry, AcquireExpires, AcquireLock, CreateEngine, FinishAcquire, CanBecomeAcquired
  <2>5. ASSUME NEW d \in Contexts, NEW range, NEW err, HandleWriteErrorLocked(d, range, err)
        PROVE  \/ UNCHANGED state
               \/ state' = [state EXCEPT ![d] = StopRequested(@)]
               \/ state[d] \in {"Acquired", "Acquiring"} /\ state' = [state EXCEPT ![d] = "Acquiring"]
    BY <2>5 DEF HandleWriteErrorLocked
  <2>6. ASSUME NEW d \in Contexts, Renewal(d) \/ Write(d)
        PROVE  \/ UNCHANGED state
               \/ state' = [state EXCEPT ![d] = StopRequested(@)]
               \/ state[d] \in {"Acquired", "Acquiring"} /\ state' = [state EXCEPT ![d] = "Acquiring"]
    <3>1. ASSUME NEW r \in Requests, RenewFailed(d, r)
          PROVE  \/ UNCHANGED state
                 \/ state' = [state EXCEPT ![d] = StopRequested(@)]
                 \/ state[d] \in {"Acquired", "Acquiring"} /\ state' = [state EXCEPT ![d] = "Acquiring"]
      BY <2>5, <3>1 DEF RenewFailed, AcquireFailed
    <3> QED BY <2>5, <2>6, <3>1 DEF Renewal, SendRenew, RenewSucceeded, Write, BeginWrite,
        SetTaskKey, TrackAndSend, HandleWriteError, RenewForKeys, GenerateTaskID
  <2>7. ASSUME NEW d \in Contexts, Queue(d) \/ Tick(d) PROVE UNCHANGED state
    BY <2>7 DEF Queue, ReadNewRange, SetQueueState, SendUpdate, AbandonUpdate, Tick
  <2>8. CASE Store \/ UNCHANGED vars
    BY <2>1, <2>8 DEF Store, ApplyWrite, DropWrite, Answer, vars
  <2> QED BY <2>1, <2>2, <2>3, <2>4, <2>6, <2>7, <2>8 DEF Next
<1>2. TypeOK /\ AcquireInv /\ [Next]_vars =>
         [\A c \in Contexts :
            /\ state[c] = "Stopping" => state'[c] \in {"Stopping", "Stopped"}
            /\ state[c] = "Stopped" => \/ state'[c] = "Stopped"
                                       \/ state'[c] = "Initialized" /\ rangeID'[c] = NotLoaded]_vars
  BY <1>1
<1>3. ReadInv => TypeOK /\ AcquireInv
  BY DEF ReadInv, FencingInv, CountInv
<1> QED BY <1>2, <1>3, ReadInvariant, PTL DEF Spec, StopIsFinal

=============================================================================
