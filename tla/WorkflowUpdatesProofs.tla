------------------------ MODULE WorkflowUpdatesProofs ------------------------
(***************************************************************************)
(* Type correctness of WorkflowUpdates, for any number of updates, callers *)
(* and outcomes.                                                           *)
(*                                                                         *)
(* Where an object is made, one has to be free: an update has more places  *)
(* for objects than there are callers to hold on to one.                   *)
(***************************************************************************)
EXTENDS WorkflowUpdates, FiniteSetTheorems, SequenceTheorems, TLAPS

USE DEF handler, registry, history

Reasons == {"WorkflowTaskFailed", "RegistryCleared", "WorkflowCompleted", "WorkflowContinuing"}
Objects == [ID -> [Object -> UpdateObject]]
SetQueues == [ID -> [Object -> Seq(SetRecord)]]

-----------------------------------------------------------------------------
(* Update objects                                                          *)

\* A free place exists for a new object of an update that is not registered.
LEMMA FreshIsFree ==
  ASSUME TypeOK, NEW id \in ID, reg[id] = 0
  PROVE  Fresh(id) \in Object /\ ~Waiting(id, Fresh(id))
<1> DEFINE W == {c \in Client : call[c].pc # "idle" /\ call[c].id = id}
           f == [c \in W |-> call[c].n]
<1>1. Object \subseteq Nat \ {0} /\ IsFiniteSet(Object) /\ Cardinality(Object) = Copies
  <2>1. Copies \in Nat /\ Copies > Cardinality(Client) /\ Cardinality(Client) \in Nat
    BY UpdateConstants, FS_CardinalityType
  <2> QED BY <2>1, FS_Interval DEF Object
<1>2. IsFiniteSet(W) /\ Cardinality(W) <= Cardinality(Client)
  BY UpdateConstants, FS_Subset
<1>3. SUFFICES Free(id) # {}
  BY <1>1 DEF Fresh, Free
<1>4. SUFFICES ASSUME Free(id) = {} PROVE FALSE
  OBVIOUS
<1>5. \A n \in Object : Waiting(id, n)
  BY <1>1, <1>4 DEF Free
<1>6. \A n \in Object : \E c \in W : f[c] = n
  BY <1>5 DEF Waiting
<1>7. \A c \in W : call[c].n \in Object
  BY DEF TypeOK, CallRecord, NoCall
<1>8. f \in Surjection(W, Object)
  BY <1>6, <1>7 DEF Surjection
<1>9. Cardinality(Object) <= Cardinality(W)
  BY <1>2, <1>8, FS_Surjection DEF ExistsSurjection
<1> QED
  BY <1>1, <1>2, <1>9, UpdateConstants, FS_CardinalityType

LEMMA NewObjects ==
  /\ Unused \in UpdateObject /\ NewAdmitted \in UpdateObject
  /\ \A running \in BOOLEAN : NewAccepted(running) \in UpdateObject
  BY DEF Unused, NewAdmitted, NewAccepted, UpdateObject, States, Value

LEMMA FailureErrorType ==
  ASSUME NEW reason \in Reasons, NEW state \in States
  PROVE  FailureError(reason, state) \in Errors \cup {"none", "failed"}
  BY DEF FailureError, Reasons, States, Errors

LEMMA AbortType ==
  ASSUME NEW u \in UpdateObject, NEW reason \in Reasons
  PROVE  Aborted(u, reason) \in UpdateObject /\ AbortSets(u, reason) \in Seq(SetRecord)
<1> DEFINE f == FailureError(reason, u.state)
           o == [future |-> "outcome", value |-> f]
           a == [future |-> "accepted", value |-> f]
<1>1. u.state \in States
  BY DEF UpdateObject
<1>2. f \in Errors \cup {"none", "failed"}
  BY <1>1, FailureErrorType
<1>3. Aborted(u, reason) \in UpdateObject
  BY DEF Aborted, UpdateObject, States
<1>4. ASSUME f # "none" PROVE o \in SetRecord /\ a \in SetRecord
  BY <1>2, <1>4 DEF SetRecord, Value
<1>5. \A x, y \in SetRecord : <<x>> \in Seq(SetRecord) /\ <<x, y>> \in Seq(SetRecord)
  OBVIOUS
<1>6. <<>> \in Seq(SetRecord)
  OBVIOUS
<1> HIDE DEF o, a
<1>7. CASE f = "none"
  <2>1. AbortSets(u, reason) = <<>>
    BY <1>7 DEF AbortSets
  <2> QED BY <1>3, <1>6, <2>1
<1>8. CASE f # "none"
  <2>1. <<o>> \in Seq(SetRecord) /\ <<o, a>> \in Seq(SetRecord)
    BY <1>4, <1>5, <1>8
  <2>2. CASE u.state \in PreAccepted
    <3>1. AbortSets(u, reason) = <<o, a>>
      BY <1>8, <2>2, Zenon DEF AbortSets, o, a
    <3> QED BY <1>3, <2>1, <3>1
  <2>3. CASE u.state \notin PreAccepted
    <3>1. AbortSets(u, reason) = <<o>>
      BY <1>8, <2>3, Zenon DEF AbortSets, o, a
    <3> QED BY <1>3, <2>1, <3>1
  <2> QED BY <2>2, <2>3
<1> QED BY <1>7, <1>8

\* What registry.Abort and Clear make of all objects, and what they set.
LEMMA AbortAllType ==
  ASSUME NEW u \in Objects, NEW reason \in Reasons
  PROVE  AbortAll(u, reason) \in Objects /\ AllAbortSets(u, reason) \in SetQueues
<1>1. ASSUME NEW id \in ID, NEW n \in Object
      PROVE  /\ Aborted(u[id][n], reason) \in UpdateObject
             /\ AbortSets(u[id][n], reason) \in Seq(SetRecord)
             /\ u[id][n] \in UpdateObject
  BY AbortType DEF Objects
<1> QED
  BY <1>1 DEF AbortAll, AllAbortSets, Objects, SetQueues

LEMMA RemainingType ==
  ASSUME NEW u \in Objects, NEW s \in SetQueues
  PROVE  Remaining(u) \in Objects /\ RemainingSets(s) \in SetQueues
<1>1. \A id \in ID : \A n \in Object : u[id][n] \in UpdateObject /\ s[id][n] \in Seq(SetRecord)
  BY DEF Objects, SetQueues
<1>2. <<>> \in Seq(SetRecord)
  OBVIOUS
<1> QED
  BY <1>1, <1>2, NewObjects DEF Remaining, RemainingSets, Objects, SetQueues

LEMMA SentType ==
  ASSUME NEW u \in Objects
  PROVE  Sent(u) \in Objects
<1>1. \A id \in ID : \A n \in Object : u[id][n] \in UpdateObject
  BY DEF Objects
<1>2. \A v \in UpdateObject : [v EXCEPT !.state = "Sent"] \in UpdateObject
  BY DEF UpdateObject, States
<1> QED BY <1>1, <1>2 DEF Sent, Objects

LEMMA ClearType ==
  ASSUME TypeOK, NEW store \in Run, ClearTo(store)
  PROVE  /\ db' \in Run /\ ms' \in Run /\ loaded' \in BOOLEAN
         /\ reg' \in [ID -> Object \cup {0}] /\ completedCount' \in Nat
         /\ upd' \in Objects /\ sets' \in SetQueues
<1>1. "RegistryCleared" \in Reasons /\ upd \in Objects
  BY DEF Reasons, TypeOK, Objects
<1> QED
  BY <1>1, AbortAllType, RemainingType DEF ClearTo

LEMMA OpenedType ==
  ASSUME TypeOK, NEW store
  PROVE  Opened(store) \subseteq ID
BY DEF TypeOK, Opened

LEMMA WriteFailedType ==
  ASSUME TypeOK, NEW m \in Run, WriteFailed(m)
  PROVE  /\ db' \in Run /\ ms' \in Run /\ loaded' \in BOOLEAN /\ open' \subseteq ID
         /\ reg' \in [ID -> Object \cup {0}] /\ completedCount' \in Nat
         /\ upd' \in Objects /\ sets' \in SetQueues
<1>1. PICK store \in {db, m} : ClearTo(store) /\ open' = Opened(store)
  BY DEF WriteFailed
<1>2. store \in Run
  BY DEF TypeOK
<1> QED BY <1>1, <1>2, ClearType, OpenedType

-----------------------------------------------------------------------------
(* The steps                                                               *)

\* Every count of updates is a number.
LEMMA CountType ==
  ASSUME NEW S, S \subseteq ID
  PROVE  IsFiniteSet(S) /\ Cardinality(S) \in Nat
  BY UpdateConstants, FS_Subset, FS_CardinalityType

LEMMA TypeInit == Init => TypeOK
<1> SUFFICES ASSUME Init PROVE TypeOK
  OBVIOUS
<1>1. <<>> \in Seq(SetRecord) /\ effects \in Seq(EffectRecord)
  BY DEF Init
<1>2. db \in Run
  BY DEF Init, Run, Info
<1>3. upd \in Objects /\ sets \in SetQueues
  BY <1>1, NewObjects DEF Init, Objects, SetQueues
<1>4. task \in TaskRecord
  BY DEF Init, NoTask, TaskRecord
<1>5. reg \in [ID -> Object \cup {0}] /\ call \in [Client -> CallRecord \cup {NoCall}]
  BY DEF Init
<1>6. told \in [ID -> SUBSET (Value \ {"pending"})] /\ open \subseteq ID /\ seen \subseteq ID
  BY DEF Init
<1> QED
  BY <1>1, <1>2, <1>3, <1>4, <1>5, <1>6 DEF Init, TypeOK, Objects, SetQueues

\* A context that is not loaded has no registry, and no handler works on it but one that returns.
Unloaded == loaded \/ (reg = [id \in ID |-> 0] /\ pc \in {"idle", "cancel"})
TypeInv == TypeOK /\ Unloaded

LEMMA UnloadedInit == Init => Unloaded
  BY DEF Init, Unloaded

LEMMA UnloadedNext == Unloaded /\ [Next]_vars => Unloaded'
<1> SUFFICES ASSUME Unloaded, [Next]_vars PROVE Unloaded'
  OBVIOUS
<1> USE DEF Unloaded
<1> DEFINE Same == UNCHANGED <<loaded, reg, pc>>
<1>1. CASE UNCHANGED vars
  BY <1>1 DEF vars
<1>2. CASE ClientStep
  <2>1. ASSUME NEW c \in Client,
               WaitLifecycleStage(c) \/ OutcomeReady(c) \/ AcceptedReady(c) \/ WaitTimedOut(c)
        PROVE  Same
    BY <2>1 DEF WaitLifecycleStage, OutcomeReady, AcceptedReady, WaitTimedOut, Goto, Return
  <2>2. ASSUME NEW c \in Client, NEW id \in ID, NEW stage \in Stages,
               UpdateWorkflowExecution(c, id, stage)
        PROVE  Unloaded'
    BY <2>2 DEF UpdateWorkflowExecution, AnswerFromStore, ClearTo, Idle
  <2>3. ASSUME NEW c \in Client, NEW id \in ID, NEW stage \in Stages,
               PollWorkflowExecutionUpdate(c, id, stage)
        PROVE  Unloaded'
    BY <2>3 DEF PollWorkflowExecutionUpdate, AnswerFromStore
  <2> QED BY <1>2, <2>1, <2>2, <2>3 DEF ClientStep
<1>3. CASE WorkerStep
  <2>1. ASSUME NEW id \in ID, NEW kind, NEW value, HandleMessage(id, kind, value)
        PROVE  Unloaded'
    BY <2>1 DEF HandleMessage
  <2>2. CASE \E discard \in BOOLEAN : RespondWorkflowTaskCompleted(discard)
    BY <2>2 DEF RespondWorkflowTaskCompleted
  <2>3. CASE \E newRun \in BOOLEAN : HandleCloseCommand(newRun)
    BY <2>3 DEF HandleCloseCommand
  <2>4. CASE HandleBadCommand
    BY <2>4 DEF HandleBadCommand
  <2>5. CASE \E heartbeat, buffered, bypass \in BOOLEAN : FinishMessages(heartbeat, buffered, bypass)
    BY <2>5 DEF FinishMessages
  <2> QED BY <1>3, <2>1, <2>2, <2>3, <2>4, <2>5 DEF WorkerStep
<1>4. CASE HandlerStep
  <2>1. CASE Persist
    BY <2>1 DEF Persist, WriteFailed, ClearTo
  <2>2. CASE ApplyEffect
    BY <2>2 DEF ApplyEffect
  <2>3. CASE FinishTask
    <3>1. pc' = "idle" /\ loaded /\ (UNCHANGED registry \/ ClearTo(db))
      BY <2>3 DEF FinishTask
    <3> QED BY <3>1 DEF ClearTo
  <2>4. CASE CancelEffect
    BY <2>4 DEF CancelEffect
  <2>5. CASE ReturnError
    BY <2>5 DEF ReturnError, ClearTo
  <2>6. CASE FailWorkflowTask
    BY <2>6 DEF FailWorkflowTask
  <2>7. CASE \E id \in ID, n \in Object : SetFuture(id, n)
    BY <2>7 DEF SetFuture
  <2> QED BY <1>4, <2>1, <2>2, <2>3, <2>4, <2>5, <2>6, <2>7 DEF HandlerStep
<1>5. CASE ServerStep
  <2>1. CASE LoadContext
    BY <2>1 DEF LoadContext
  <2>2. CASE ClearContext
    BY <2>2 DEF ClearContext, ClearTo, Idle
  <2>3. CASE Crash
    BY <2>3 DEF Crash
  <2>4. CASE RecordWorkflowTaskStarted
    BY <2>4 DEF RecordWorkflowTaskStarted, ClearTo, WriteOK, WriteFailed, Idle
  <2>5. CASE WorkflowTaskTimedOut
    BY <2>5 DEF WorkflowTaskTimedOut, ClearTo, WriteOK, WriteFailed, Idle
  <2>6. CASE \E reason \in {"WorkflowCompleted", "WorkflowContinuing"} : CloseWorkflow(reason)
    BY <2>6 DEF CloseWorkflow, ClearTo, WriteOK, WriteFailed, Idle
  <2> QED BY <1>5, <2>1, <2>2, <2>3, <2>4, <2>5, <2>6 DEF ServerStep
<1> QED BY <1>1, <1>2, <1>3, <1>4, <1>5 DEF Next

LEMMA TypeLoad == TypeInv /\ LoadContext => TypeOK'
<1> SUFFICES ASSUME TypeOK, Unloaded, LoadContext PROVE TypeOK'
  BY DEF TypeInv
<1>1. \A id \in ID : Fresh(id) \in Object
  <2>1. \A id \in ID : reg[id] = 0
    BY DEF LoadContext, Unloaded
  <2> QED BY <2>1, FreshIsFree
<1>2. reg' \in [ID -> Object \cup {0}]
  BY <1>1 DEF LoadContext
<1>3. upd' \in Objects
  <2>1. NewAccepted(db.running) \in UpdateObject /\ NewAdmitted \in UpdateObject
    BY NewObjects DEF TypeOK, Run
  <2>2. \A id \in ID : \A n \in Object : upd[id][n] \in UpdateObject
    BY DEF TypeOK
  <2> QED BY <2>1, <2>2 DEF LoadContext, Objects
<1>4. completedCount' \in Nat
  BY CountType DEF LoadContext
<1> QED
  BY <1>2, <1>3, <1>4 DEF TypeOK, LoadContext, Objects
LEMMA TypeContext ==
  ASSUME TypeOK, ClearContext \/ Crash
  PROVE  TypeOK'
<1>1. CASE ClearContext
  <2>1. ClearTo(db) /\ UNCHANGED <<handler, call, seen, history>>
    BY <1>1 DEF ClearContext
  <2>2. db \in Run
    BY DEF TypeOK
  <2> QED BY <2>1, <2>2, ClearType DEF TypeOK, Objects, SetQueues
<1>2. CASE Crash
  <2>1. upd' \in Objects /\ sets' \in SetQueues
    <3>1. <<>> \in Seq(SetRecord)
      OBVIOUS
    <3> QED BY <1>2, <3>1, NewObjects DEF Crash, Objects, SetQueues
  <2>2. task' \in TaskRecord /\ effects' \in Seq(EffectRecord) /\ call' \in [Client -> CallRecord \cup {NoCall}]
    BY <1>2 DEF Crash, NoTask, TaskRecord
  <2>3. reg' \in [ID -> Object \cup {0}] /\ completedCount' \in Nat
    BY <1>2 DEF Crash
  <2> QED BY <1>2, <2>1, <2>2, <2>3 DEF Crash, TypeOK, Objects, SetQueues
<1> QED BY <1>1, <1>2

LEMMA EnterType ==
  ASSUME TypeOK, NEW c \in Client, NEW id \in ID, NEW n \in Object, NEW stage \in Stages,
         Enter(c, id, n, stage)
  PROVE  call' \in [Client -> CallRecord \cup {NoCall}]
<1>1. [pc |-> "enter", id |-> id, n |-> n, stage |-> stage] \in CallRecord
  BY DEF CallRecord
<1> QED BY <1>1 DEF Enter, TypeOK

LEMMA AnswerType ==
  ASSUME TypeOK, NEW id \in ID, ms.info[id] \in Outcome, AnswerFromStore(id)
  PROVE  TypeOK'
<1>1. ms.info[id] \in Value \ {"pending"}
  BY UpdateConstants DEF Value
<1>2. told' \in [ID -> SUBSET (Value \ {"pending"})]
  BY <1>1 DEF AnswerFromStore, TypeOK
<1> QED BY <1>2 DEF AnswerFromStore, TypeOK

LEMMA TypeRequests ==
  ASSUME TypeOK, NEW c \in Client, NEW id \in ID, NEW stage \in Stages,
         UpdateWorkflowExecution(c, id, stage) \/ PollWorkflowExecutionUpdate(c, id, stage)
  PROVE  TypeOK'
<1>1. CASE /\ reg[id] # 0 /\ Enter(c, id, reg[id], stage)
           /\ UNCHANGED <<db, ms, registry, upd, handler, sets, seen, history>>
  <2>1. reg[id] \in Object
    BY <1>1 DEF TypeOK
  <2> QED BY <1>1, <2>1, EnterType DEF TypeOK
<1>2. CASE ms.info[id] \in Outcome /\ AnswerFromStore(id)
  BY <1>2, AnswerType
<1>3. CASE ClearTo(db) /\ UNCHANGED <<handler, call, seen, history>>
  <2>1. db \in Run
    BY DEF TypeOK
  <2> QED BY <1>3, <2>1, ClearType DEF TypeOK, Objects, SetQueues
<1>4. CASE /\ reg[id] = 0 /\ reg' = [reg EXCEPT ![id] = Fresh(id)]
           /\ upd' = [upd EXCEPT ![id][Fresh(id)] = NewAdmitted]
           /\ ms' = IF ms.wft = "none" THEN [ms EXCEPT !.wft = "scheduled", !.speculative = TRUE] ELSE ms
           /\ Enter(c, id, Fresh(id), stage)
           /\ UNCHANGED <<db, loaded, completedCount, handler, sets, seen, history>>
  <2>1. Fresh(id) \in Object
    BY <1>4, FreshIsFree
  <2>2. call' \in [Client -> CallRecord \cup {NoCall}]
    BY <1>4, <2>1, EnterType
  <2>3. reg' \in [ID -> Object \cup {0}]
    BY <1>4, <2>1 DEF TypeOK
  <2>4. upd' \in Objects
    BY <1>4, <2>1, NewObjects DEF TypeOK, Objects
  <2>5. ms' \in Run
    BY <1>4 DEF TypeOK, Run
  <2> QED BY <1>4, <2>2, <2>3, <2>4, <2>5 DEF TypeOK, Objects
<1> QED
  BY <1>1, <1>2, <1>3, <1>4 DEF UpdateWorkflowExecution, PollWorkflowExecutionUpdate

\* The object a call waits on.
LEMMA AwaitedType ==
  ASSUME TypeOK, NEW c \in Client, call[c].pc # "idle"
  PROVE  /\ call[c] \in CallRecord /\ call[c].id \in ID /\ call[c].n \in Object
         /\ Awaited(c) \in UpdateObject
<1>1. call[c] \in CallRecord
  BY DEF TypeOK, NoCall
<1>2. call[c].id \in ID /\ call[c].n \in Object
  BY <1>1 DEF CallRecord
<1> QED BY <1>1, <1>2 DEF Awaited, TypeOK

LEMMA ReturnType ==
  ASSUME TypeOK, NEW c \in Client, call[c].pc # "idle", NEW answer,
         answer \in (Value \ {"pending"}) \cup {"admitted"}, Return(c, answer)
  PROVE  TypeOK'
<1> DEFINE id == call[c].id
           n == call[c].n
<1>1. id \in ID /\ n \in Object
  BY AwaitedType
<1>2. upd' \in Objects /\ sets' \in SetQueues
  <2>1. <<>> \in Seq(SetRecord)
    OBVIOUS
  <2>2. upd' \in {upd, [upd EXCEPT ![id][n] = Unused]} /\ sets' \in {sets, [sets EXCEPT ![id][n] = <<>>]}
    BY DEF Return
  <2>3. upd \in Objects /\ [upd EXCEPT ![id][n] = Unused] \in Objects
    BY <1>1, NewObjects DEF TypeOK, Objects
  <2>4. sets \in SetQueues /\ [sets EXCEPT ![id][n] = <<>>] \in SetQueues
    BY <1>1, <2>1 DEF TypeOK, SetQueues
  <2> QED BY <2>2, <2>3, <2>4
<1>3. told' \in [ID -> SUBSET (Value \ {"pending"})]
  BY <1>1 DEF Return, TypeOK
<1>4. call' \in [Client -> CallRecord \cup {NoCall}]
  BY DEF Return, TypeOK
<1> QED BY <1>2, <1>3, <1>4 DEF Return, TypeOK, Objects, SetQueues

LEMMA GotoType ==
  ASSUME TypeOK, NEW c \in Client, call[c].pc # "idle", NEW where \in {"outcome", "accepted"}, Goto(c, where)
  PROVE  TypeOK'
<1>1. [call[c] EXCEPT !.pc = where] \in CallRecord
  BY AwaitedType DEF CallRecord
<1>2. call' \in [Client -> CallRecord \cup {NoCall}]
  BY <1>1 DEF Goto, TypeOK
<1> QED BY <1>2 DEF Goto, TypeOK

\* What a step of WaitLifecycleStage does: it goes on to another future, or returns with
\* something that a future holds.
LEMMA WaitSteps ==
  ASSUME TypeOK, NEW c \in Client,
         WaitLifecycleStage(c) \/ OutcomeReady(c) \/ AcceptedReady(c) \/ WaitTimedOut(c)
  PROVE  /\ call[c].pc # "idle"
         /\ \/ \E where \in {"outcome", "accepted"} : Goto(c, where)
            \/ \E answer \in ({Awaited(c).outcome, Awaited(c).accepted} \ {"pending"}) \cup {"admitted"} :
                  Return(c, answer)
<1>1. CASE WaitLifecycleStage(c)
  BY <1>1 DEF WaitLifecycleStage
<1>2. CASE OutcomeReady(c)
  BY <1>2 DEF OutcomeReady
<1>3. CASE AcceptedReady(c)
  BY <1>3 DEF AcceptedReady
<1>4. CASE WaitTimedOut(c)
  BY <1>4 DEF WaitTimedOut
<1> QED BY <1>1, <1>2, <1>3, <1>4

LEMMA TypeWait ==
  ASSUME TypeOK, NEW c \in Client,
         WaitLifecycleStage(c) \/ OutcomeReady(c) \/ AcceptedReady(c) \/ WaitTimedOut(c)
  PROVE  TypeOK'
<1>1. {Awaited(c).outcome, Awaited(c).accepted} \subseteq Value
  BY WaitSteps, AwaitedType DEF UpdateObject
<1> QED BY <1>1, WaitSteps, GotoType, ReturnType

LEMMA TypeSetFuture ==
  ASSUME TypeOK, NEW id \in ID, NEW n \in Object, SetFuture(id, n)
  PROVE  TypeOK'
<1>1. sets[id][n] \in Seq(SetRecord) /\ sets[id][n] # <<>> /\ upd[id][n] \in UpdateObject
  BY DEF TypeOK, SetFuture
<1>2. Head(sets[id][n]) \in SetRecord /\ Tail(sets[id][n]) \in Seq(SetRecord)
  BY <1>1, HeadTailProperties
<1>3. Head(sets[id][n]).value \in Value
  BY <1>2 DEF SetRecord
<1>4. \A v \in Value : /\ [upd[id][n] EXCEPT !.outcome = v] \in UpdateObject
                       /\ [upd[id][n] EXCEPT !.accepted = v] \in UpdateObject
  BY <1>1 DEF UpdateObject
<1>5. upd' \in Objects
  BY <1>3, <1>4 DEF SetFuture, TypeOK, Objects
<1>6. sets' \in SetQueues
  BY <1>2 DEF SetFuture, TypeOK, SetQueues
<1> QED BY <1>5, <1>6 DEF SetFuture, TypeOK, Objects, SetQueues

LEMMA TypeWorkflowTask ==
  ASSUME TypeOK,
         \/ RecordWorkflowTaskStarted \/ WorkflowTaskTimedOut
         \/ \E reason \in {"WorkflowCompleted", "WorkflowContinuing"} : CloseWorkflow(reason)
  PROVE  TypeOK'
<1>1. db \in Run /\ ms \in Run
  BY DEF TypeOK
<1>2. ASSUME NEW m \in Run, WriteOK(m)
      PROVE  db' \in Run /\ ms' \in Run /\ open' \subseteq ID
  BY <1>2, OpenedType DEF WriteOK
<1>3. ASSUME NEW m \in Run, WriteFailed(m), UNCHANGED <<handler, call, seen, told>>
      PROVE  TypeOK'
  BY <1>3, WriteFailedType DEF TypeOK, Objects, SetQueues
<1>4. upd \in Objects /\ sets \in SetQueues
  BY DEF TypeOK, Objects, SetQueues
<1>5. Sent(upd) \in Objects /\ Outgoing \subseteq ID
  BY <1>4, SentType DEF Outgoing
<1>6. CASE RecordWorkflowTaskStarted
  <2> DEFINE m == [ms EXCEPT !.wft = "started"]
  <2>1. m \in Run
    BY <1>1 DEF Run
  <2>2. CASE /\ ms' = m /\ upd' = Sent(upd) /\ seen' = seen \cup Outgoing
             /\ UNCHANGED <<db, registry, handler, sets, call, history>>
    BY <1>5, <2>1, <2>2 DEF TypeOK, Objects
  <2>3. CASE ClearTo(db) /\ UNCHANGED <<handler, call, seen, history>>
    BY <1>1, <2>3, ClearType DEF TypeOK, Objects, SetQueues
  <2>4. CASE /\ WriteOK(m) /\ upd' = Sent(upd) /\ seen' = seen \cup Outgoing
             /\ UNCHANGED <<registry, handler, sets, call, told>>
    BY <1>2, <1>5, <2>1, <2>4 DEF TypeOK, Objects
  <2>5. CASE WriteFailed(m) /\ UNCHANGED <<handler, call, seen, told>>
    BY <1>3, <2>1, <2>5
  <2> QED BY <1>6, <2>2, <2>3, <2>4, <2>5 DEF RecordWorkflowTaskStarted
<1>7. CASE WorkflowTaskTimedOut
  <2> DEFINE m == [ms EXCEPT !.wft = "scheduled", !.speculative = FALSE]
  <2>1. m \in Run
    BY <1>1 DEF Run
  <2>2. CASE WriteOK(m) /\ UNCHANGED <<registry, upd, handler, sets, call, seen, told>>
    BY <1>2, <2>1, <2>2 DEF TypeOK
  <2>3. CASE WriteFailed(m) /\ UNCHANGED <<handler, call, seen, told>>
    BY <1>3, <2>1, <2>3
  <2> QED BY <1>7, <2>2, <2>3 DEF WorkflowTaskTimedOut
<1>8. ASSUME NEW reason \in {"WorkflowCompleted", "WorkflowContinuing"}, CloseWorkflow(reason)
      PROVE  TypeOK'
  <2> DEFINE m == [ms EXCEPT !.running = FALSE, !.wft = "none", !.speculative = FALSE]
  <2>1. m \in Run
    BY <1>1 DEF Run
  <2>2. CASE /\ WriteOK(m) /\ upd' = AbortAll(upd, reason) /\ sets' = AllAbortSets(upd, reason)
             /\ UNCHANGED <<registry, handler, call, seen, told>>
    <3>1. upd' \in Objects /\ sets' \in SetQueues
      BY <1>4, <2>2, AbortAllType DEF Reasons
    <3> QED BY <1>2, <2>1, <2>2, <3>1 DEF TypeOK, Objects, SetQueues
  <2>3. CASE WriteFailed(m) /\ UNCHANGED <<handler, call, seen, told>>
    BY <1>3, <2>1, <2>3
  <2> QED BY <1>8, <2>2, <2>3 DEF CloseWorkflow
<1> QED BY <1>6, <1>7, <1>8

LEMMA EffectType ==
  ASSUME NEW kind \in {"accept", "reject", "respond", "abort"}, NEW id \in ID, NEW n \in Object,
         NEW prev \in States, NEW value \in Value
  PROVE  Effect(kind, id, n, prev, value) \in EffectRecord
  BY DEF Effect, EffectRecord

LEMMA ProvisionallyType ==
  ASSUME TypeOK, NEW u \in Objects, NEW id \in ID, NEW n \in Object, NEW state \in States,
         NEW kind \in {"accept", "reject", "respond", "abort"}, NEW value \in Value,
         Provisionally(u, id, n, state, kind, value)
  PROVE  upd' \in Objects /\ effects' \in Seq(EffectRecord) /\ pc' = pc
<1>1. u[id][n] \in UpdateObject
  BY DEF Objects
<1>2. u[id][n].state \in States /\ u[id][n].event \in BOOLEAN
  BY <1>1 DEF UpdateObject
<1>3. [u[id][n] EXCEPT !.state = state, !.event = @ \/ kind = "accept"] \in UpdateObject
  BY <1>1, <1>2 DEF UpdateObject
<1>4. upd' \in Objects
  BY <1>3 DEF Provisionally, Objects
<1>5. effects' \in Seq(EffectRecord)
  BY <1>2, EffectType, AppendProperties DEF Provisionally, TypeOK
<1> QED BY <1>4, <1>5 DEF Provisionally

LEMMA MessageType ==
  ASSUME TypeOK, NEW u \in Objects, NEW id \in ID, NEW n \in Object,
         NEW kind \in {"accept", "reject", "respond"}, NEW value \in Outcome \cup {"none"},
         kind = "respond" => value \in Outcome, OnProtocolMessage(u, id, n, kind, value)
  PROVE  upd' \in Objects /\ effects' \in Seq(EffectRecord) /\ pc' \in {pc, "fail"} /\ ms' \in Run
<1> DEFINE failure == FailureError("WorkflowCompleted", u[id][n].state)
<1>1. failure \in Errors \cup {"none", "failed"}
  BY FailureErrorType DEF Reasons, Objects, UpdateObject
<1>2. ms \in Run /\ effects \in Seq(EffectRecord)
  BY DEF TypeOK
<1>3. \A i \in Info : [ms EXCEPT !.info[id] = i] \in Run
  BY <1>2 DEF Run
<1>4. CASE upd' = u /\ UNCHANGED <<ms, effects>> /\ pc' \in {pc, "fail"}
  BY <1>2, <1>4
<1>5. CASE failure # "none" /\ UNCHANGED ms /\ Provisionally(u, id, n, "ProvisionallyAborted", "abort", failure)
  BY <1>1, <1>2, <1>5, ProvisionallyType DEF States, Value
<1>6. CASE /\ kind = "accept" /\ ms' = [ms EXCEPT !.info[id] = "accepted"]
           /\ Provisionally(u, id, n, "ProvisionallyAccepted", "accept", "accepted")
  BY <1>3, <1>6, ProvisionallyType DEF States, Value, Info
<1>7. CASE UNCHANGED ms /\ Provisionally(u, id, n, "ProvisionallyCompleted", "reject", "rejected")
  BY <1>2, <1>7, ProvisionallyType DEF States, Value
<1>8. CASE /\ kind = "respond" /\ ms' = [ms EXCEPT !.info[id] = value]
           /\ Provisionally(u, id, n, "ProvisionallyCompleted", "respond", value)
  BY <1>3, <1>8, ProvisionallyType DEF States, Value, Info
<1> QED BY <1>4, <1>5, <1>6, <1>7, <1>8 DEF OnProtocolMessage

LEMMA TypeHandleMessage ==
  ASSUME TypeInv, NEW id \in ID, NEW kind \in {"accept", "reject", "respond"},
         NEW value \in Outcome \cup {"none"}, kind = "respond" => value \in Outcome,
         HandleMessage(id, kind, value)
  PROVE  TypeOK'
<1>1. TypeOK /\ upd \in Objects /\ pc = "messages"
  BY DEF TypeInv, TypeOK, Objects, HandleMessage
<1>2. UNCHANGED <<db, loaded, completedCount, task, sets, call, seen, history>>
  BY DEF HandleMessage
<1>3. ASSUME NEW u \in Objects, NEW n \in Object, OnProtocolMessage(u, id, n, kind, value),
             reg' \in [ID -> Object \cup {0}]
      PROVE  TypeOK'
  <2>1. upd' \in Objects /\ effects' \in Seq(EffectRecord) /\ pc' \in {pc, "fail"} /\ ms' \in Run
    BY <1>1, <1>3, MessageType
  <2> QED BY <1>1, <1>2, <1>3, <2>1 DEF TypeOK, Objects
<1>4. CASE reg[id] # 0 /\ OnProtocolMessage(upd, id, reg[id], kind, value) /\ UNCHANGED reg
  <2>1. reg[id] \in Object /\ reg' \in [ID -> Object \cup {0}]
    BY <1>1, <1>4 DEF TypeOK
  <2> QED BY <1>1, <1>3, <1>4, <2>1
<1>5. CASE /\ reg[id] = 0 /\ reg' = [reg EXCEPT ![id] = Fresh(id)]
           /\ OnProtocolMessage([upd EXCEPT ![id][Fresh(id)] = NewAdmitted], id, Fresh(id), kind, value)
  <2>1. Fresh(id) \in Object
    BY <1>1, <1>5, FreshIsFree
  <2>2. reg' \in [ID -> Object \cup {0}] /\ [upd EXCEPT ![id][Fresh(id)] = NewAdmitted] \in Objects
    BY <1>1, <1>5, <2>1, NewObjects DEF TypeOK, Objects
  <2> QED BY <1>3, <1>5, <2>1, <2>2
<1>6. CASE UNCHANGED <<ms, reg, upd, effects>> /\ pc' \in {"cancel", "fail"}
  BY <1>1, <1>2, <1>6 DEF TypeOK
<1> QED BY <1>4, <1>5, <1>6 DEF HandleMessage

\* A sequence is a function on an interval.
LEMMA FunctionIsSeq ==
  ASSUME NEW S, NEW n \in Nat, NEW f \in [1..n -> S]
  PROVE  f \in Seq(S) /\ Len(f) = n
  OBVIOUS

\* The effects that AllProvisionally adds: one for every update of the set.
OneEffectEach(S, kind, value) ==
    /\ Len(effects) \in Nat /\ Len(effects') \in Nat /\ Len(effects) <= Len(effects')
    /\ \A i \in 1..Len(effects) : effects'[i] = effects[i]
    /\ \A i \in 1..Len(effects') : i > Len(effects) =>
          \E id \in S : effects'[i] = Effect(kind, id, reg[id], Update(id).state, value)
    /\ \A id \in S : \E i \in 1..Len(effects') :
          effects'[i] = Effect(kind, id, reg[id], Update(id).state, value)
LEMMA AllProvisionallyEffects ==
  ASSUME TypeOK, NEW S, S \subseteq {id \in ID : reg[id] # 0}, NEW state \in States,
         NEW kind \in {"accept", "reject", "respond", "abort"}, NEW value \in Value,
         AllProvisionally(S, state, kind, value)
  PROVE  upd' \in Objects /\ effects' \in Seq(EffectRecord) /\ OneEffectEach(S, kind, value)
<1>1. upd' \in Objects
  <2>1. \A id \in ID : \A n \in Object : upd[id][n] \in UpdateObject
    BY DEF TypeOK
  <2>2. \A u \in UpdateObject : [u EXCEPT !.state = state] \in UpdateObject
    BY DEF UpdateObject
  <2> QED BY <2>1, <2>2 DEF AllProvisionally, Objects
<1>2. PICK s \in Orders(S) :
         effects' = effects \o [i \in DOMAIN s |-> Effect(kind, s[i], reg[s[i]], Update(s[i]).state, value)]
  BY DEF AllProvisionally
<1> DEFINE n == Cardinality(S)
           t == [i \in DOMAIN s |-> Effect(kind, s[i], reg[s[i]], Update(s[i]).state, value)]
<1>3. n \in Nat /\ s \in [1..n -> S] /\ (\A id \in S : \E i \in 1..n : s[i] = id)
  BY CountType DEF Orders, Bijection, Injection, Surjection
<1>4. \A id \in S : Effect(kind, id, reg[id], Update(id).state, value) \in EffectRecord
  <2>1. \A id \in S : id \in ID /\ reg[id] \in Object /\ Update(id).state \in States
    BY DEF TypeOK, Update, UpdateObject
  <2> QED BY <2>1, EffectType
<1>5. /\ t \in [1..n -> EffectRecord]
      /\ \A i \in 1..n : t[i] = Effect(kind, s[i], reg[s[i]], Update(s[i]).state, value)
  BY <1>3, <1>4
<1> HIDE DEF t
<1>6. t \in Seq(EffectRecord) /\ Len(t) = n
  BY <1>3, <1>5, FunctionIsSeq
<1>7. effects \in Seq(EffectRecord)
  BY DEF TypeOK
<1>8. /\ effects' \in Seq(EffectRecord)
      /\ Len(effects') = Len(effects) + n
      /\ \A i \in 1..Len(effects) + n : effects'[i] = IF i <= Len(effects) THEN effects[i] ELSE t[i - Len(effects)]
  <2>1. effects' = effects \o t
    BY <1>2 DEF t
  <2>2. /\ effects \o t \in Seq(EffectRecord)
        /\ Len(effects \o t) = Len(effects) + Len(t)
        /\ \A i \in 1..Len(effects) + Len(t) :
              (effects \o t)[i] = IF i <= Len(effects) THEN effects[i] ELSE t[i - Len(effects)]
    BY <1>6, <1>7, ConcatProperties
  <2> QED BY <1>6, <2>1, <2>2
<1>9. Len(effects) \in Nat
  BY <1>7, LenProperties
<1>10. ASSUME NEW i \in 1..n
       PROVE  effects'[i + Len(effects)] = t[i] /\ i + Len(effects) \in 1..Len(effects')
  BY <1>3, <1>8, <1>9
<1>11. ASSUME NEW i \in 1..Len(effects'), i > Len(effects)
       PROVE  \E id \in S : effects'[i] = Effect(kind, id, reg[id], Update(id).state, value)
  <2>1. i - Len(effects) \in 1..n /\ effects'[i] = t[i - Len(effects)]
    BY <1>3, <1>8, <1>9, <1>11
  <2>2. s[i - Len(effects)] \in S
    BY <1>3, <2>1
  <2> QED BY <1>5, <2>1, <2>2
<1>12. ASSUME NEW id \in S
       PROVE  \E i \in 1..Len(effects') : effects'[i] = Effect(kind, id, reg[id], Update(id).state, value)
  <2>1. PICK i \in 1..n : s[i] = id
    BY <1>3
  <2>2. effects'[i + Len(effects)] = Effect(kind, id, reg[id], Update(id).state, value)
    BY <1>5, <1>10, <2>1
  <2> QED BY <1>10, <2>2
<1>13. OneEffectEach(S, kind, value)
  BY <1>3, <1>8, <1>9, <1>11, <1>12 DEF OneEffectEach
<1> QED BY <1>1, <1>8, <1>13

LEMMA TypeWorker ==
  ASSUME TypeInv, WorkerStep
  PROVE  TypeOK'
<1>1. TypeOK
  BY DEF TypeInv
<1>2. ASSUME NEW discard \in BOOLEAN, RespondWorkflowTaskCompleted(discard)
      PROVE  TypeOK'
  BY <1>1, <1>2 DEF RespondWorkflowTaskCompleted, TypeOK, Run, TaskRecord
<1>3. ASSUME NEW newRun \in BOOLEAN, HandleCloseCommand(newRun)
      PROVE  TypeOK'
  BY <1>1, <1>3 DEF HandleCloseCommand, TypeOK, Run, TaskRecord
<1>4. CASE HandleBadCommand
  BY <1>1, <1>4 DEF HandleBadCommand, TypeOK
<1>5. ASSUME NEW heartbeat \in BOOLEAN, NEW buffered \in BOOLEAN, NEW bypass \in BOOLEAN,
             FinishMessages(heartbeat, buffered, bypass)
      PROVE  TypeOK'
  <2>1. ms' \in Run
    BY <1>1, <1>5 DEF FinishMessages, TypeOK, Run
  <2>2. task' \in TaskRecord
    BY <1>1, <1>5 DEF FinishMessages, TypeOK, TaskRecord
  <2>3. PICK S \in {{}, Unprocessed, InAcceptance}, state \in {"ProvisionallyCompleted", "ProvisionallyAborted"},
             kind \in {"reject", "abort"}, value \in {"rejected", "failed"} :
                AllProvisionally(S, state, kind, value)
    BY <1>5 DEF FinishMessages
  <2>4. S \subseteq {id \in ID : reg[id] # 0}
    BY <2>3 DEF Unprocessed, InAcceptance
  <2>5. state \in States /\ value \in Value
    BY <2>3 DEF States, Value
  <2>6. upd' \in Objects /\ effects' \in Seq(EffectRecord)
    BY <1>1, <2>3, <2>4, <2>5, AllProvisionallyEffects
  <2>7. pc' \in {"apply", "persist"} /\ UNCHANGED <<db, registry, sets, call, seen, history>>
    BY <1>5 DEF FinishMessages
  <2> QED BY <1>1, <2>1, <2>2, <2>6, <2>7 DEF TypeOK, Objects
<1> QED BY <1>2, <1>3, <1>4, <1>5, TypeHandleMessage DEF WorkerStep

LEMMA TypePersist == TypeOK /\ Persist => TypeOK'
<1> SUFFICES ASSUME TypeOK, Persist PROVE TypeOK'
  OBVIOUS
<1>1. ms \in Run
  BY DEF TypeOK
<1>2. CASE WriteOK(ms) /\ pc' = "apply" /\ UNCHANGED <<registry, upd, sets>>
  BY <1>1, <1>2, OpenedType DEF Persist, WriteOK, TypeOK
<1>3. CASE WriteFailed(ms) /\ pc' = "cancel"
  BY <1>1, <1>3, WriteFailedType DEF Persist, TypeOK, Objects, SetQueues
<1> QED BY <1>2, <1>3 DEF Persist

\* The effect that is applied first, and what is left.
LEMMA HeadEffect ==
  ASSUME TypeOK, effects # <<>>
  PROVE  /\ Head(effects) \in EffectRecord /\ Head(effects) = effects[1]
         /\ Tail(effects) \in Seq(EffectRecord)
         /\ Len(effects) \in Nat \ {0} /\ Len(Tail(effects)) = Len(effects) - 1
         /\ \A i \in 1..Len(effects) - 1 : Tail(effects)[i] = effects[i + 1]
         /\ Head(effects).id \in ID /\ Head(effects).n \in Object /\ Head(effects).value \in Value
         /\ upd[Head(effects).id][Head(effects).n] \in UpdateObject
<1>1. effects \in Seq(EffectRecord)
  BY DEF TypeOK
<1>2. /\ Head(effects) \in EffectRecord /\ Tail(effects) \in Seq(EffectRecord)
      /\ Len(Tail(effects)) = Len(effects) - 1
      /\ \A i \in 1..Len(Tail(effects)) : Tail(effects)[i] = effects[i + 1]
  BY <1>1, HeadTailProperties
<1>3. Len(effects) \in Nat \ {0}
  BY <1>1, EmptySeq
<1>4. Head(effects) = effects[1]
  BY <1>1, <1>3
<1>5. Head(effects).id \in ID /\ Head(effects).n \in Object /\ Head(effects).value \in Value
  BY <1>2 DEF EffectRecord
<1> QED BY <1>2, <1>3, <1>4, <1>5 DEF TypeOK

LEMMA CommitType ==
  ASSUME NEW e \in EffectRecord, NEW state \in States
  PROVE  Committed(e, state) \in States /\ CommitSets(e, state) \in Seq(SetRecord)
<1>1. e.value \in Value /\ e.kind \in {"accept", "reject", "respond", "abort"}
  BY DEF EffectRecord
<1>2. Committed(e, state) \in States
  BY <1>1 DEF Committed, States
<1> DEFINE o == [future |-> "outcome", value |-> e.value]
           a(v) == [future |-> "accepted", value |-> v]
<1>3. o \in SetRecord /\ (\A v \in Value : a(v) \in SetRecord)
  BY <1>1 DEF SetRecord
<1>4. "accepted" \in Value /\ "rejected" \in Value
  BY DEF Value
<1>5. \A x, y \in SetRecord : <<x>> \in Seq(SetRecord) /\ <<x, y>> \in Seq(SetRecord)
  OBVIOUS
<1>6. <<>> \in Seq(SetRecord)
  OBVIOUS
<1>7. CommitSets(e, state) \in {<<>>, <<o>>, <<a("accepted")>>, <<a("rejected"), o>>, <<o, a("accepted")>>, <<o, a(e.value)>>}
  BY <1>1, ZenonT(60) DEF CommitSets
<1> HIDE DEF o, a
<1> QED BY <1>1, <1>2, <1>3, <1>4, <1>5, <1>6, <1>7

LEMMA TypeApply == TypeOK /\ ApplyEffect => TypeOK'
<1> SUFFICES ASSUME TypeOK, ApplyEffect PROVE TypeOK'
  OBVIOUS
<1> DEFINE e == Head(effects)
           u == upd[e.id][e.n]
<1>1. /\ e \in EffectRecord /\ e.id \in ID /\ e.n \in Object /\ Tail(effects) \in Seq(EffectRecord)
      /\ u \in UpdateObject
  BY HeadEffect DEF ApplyEffect
<1>2. u.state \in States
  BY <1>1 DEF UpdateObject
<1>3. Committed(e, u.state) \in States /\ CommitSets(e, u.state) \in Seq(SetRecord)
  BY <1>1, <1>2, CommitType
<1>4. upd' \in Objects
  <2>1. [u EXCEPT !.state = Committed(e, u.state)] \in UpdateObject
    BY <1>1, <1>3 DEF UpdateObject
  <2>2. upd' \in {upd, [upd EXCEPT ![e.id][e.n].state = Committed(e, u.state)]}
    BY DEF ApplyEffect
  <2>3. upd \in Objects
    BY DEF TypeOK, Objects
  <2>4. [upd EXCEPT ![e.id][e.n].state = Committed(e, u.state)] \in Objects
    BY <1>1, <2>1, <2>3 DEF Objects
  <2> QED BY <2>2, <2>3, <2>4
<1>5. sets' \in SetQueues
  <2>1. sets' \in {sets, [sets EXCEPT ![e.id][e.n] = CommitSets(e, u.state)]}
    BY DEF ApplyEffect
  <2>2. sets \in SetQueues
    BY DEF TypeOK, SetQueues
  <2>3. [sets EXCEPT ![e.id][e.n] = CommitSets(e, u.state)] \in SetQueues
    BY <1>1, <1>3, <2>2 DEF SetQueues
  <2> QED BY <2>1, <2>2, <2>3
<1>6. reg' \in [ID -> Object \cup {0}] /\ completedCount' \in Nat
  <2>1. reg' \in {reg, [reg EXCEPT ![e.id] = 0]} /\ completedCount' \in {completedCount, completedCount + 1}
    BY DEF ApplyEffect
  <2>2. reg \in [ID -> Object \cup {0}] /\ completedCount \in Nat
    BY DEF TypeOK
  <2>3. e.id \in ID
    BY <1>1
  <2> HIDE DEF e
  <2>4. [reg EXCEPT ![e.id] = 0] \in [ID -> Object \cup {0}]
    BY <2>2, <2>3
  <2>5. completedCount + 1 \in Nat
    BY <2>2
  <2> QED BY <2>1, <2>2, <2>4, <2>5
<1> HIDE DEF e, u
<1>7. effects' \in Seq(EffectRecord) /\ UNCHANGED <<db, ms, loaded, pc, task, call, seen, history>>
  BY <1>1 DEF ApplyEffect
<1> QED BY <1>4, <1>5, <1>6, <1>7 DEF TypeOK, Objects, SetQueues

LEMMA TypeFinish == TypeOK /\ FinishTask => TypeOK'
<1> SUFFICES ASSUME TypeOK, FinishTask PROVE TypeOK'
  OBVIOUS
<1>1. db \in Run /\ ms \in Run /\ upd \in Objects /\ sets \in SetQueues
  BY DEF TypeOK, Objects, SetQueues
<1>2. pc' = "idle" /\ task' \in TaskRecord /\ UNCHANGED <<effects, call, history>>
  BY DEF FinishTask, NoTask, TaskRecord
<1>3. CASE \E reason \in {"WorkflowCompleted", "WorkflowContinuing"} :
            /\ upd' = AbortAll(upd, reason) /\ sets' = AllAbortSets(upd, reason)
            /\ UNCHANGED <<db, ms, registry, seen>>
  <2>1. upd' \in Objects /\ sets' \in SetQueues
    BY <1>1, <1>3, AbortAllType DEF Reasons
  <2> QED BY <1>2, <1>3, <2>1 DEF TypeOK, Objects, SetQueues
<1>4. CASE UNCHANGED <<db, ms, registry, upd, sets, seen>>
  BY <1>2, <1>4 DEF TypeOK
<1>5. CASE /\ ms' = IF task.next = "started" THEN ms ELSE [ms EXCEPT !.wft = "started", !.speculative = TRUE]
           /\ upd' = Sent(upd) /\ seen' = seen \cup Outgoing
           /\ UNCHANGED <<db, registry, sets>>
  <2>1. ms' \in Run
    BY <1>1, <1>5 DEF Run
  <2>2. upd' \in Objects /\ seen' \subseteq ID
    BY <1>1, <1>5, SentType DEF Outgoing, TypeOK
  <2> QED BY <1>2, <1>5, <2>1, <2>2 DEF TypeOK, Objects
<1>6. CASE ClearTo(db) /\ UNCHANGED seen
  BY <1>1, <1>2, <1>6, ClearType DEF TypeOK, Objects, SetQueues
<1> QED
  <2>1. (IF task.newRun THEN "WorkflowContinuing" ELSE "WorkflowCompleted") \in {"WorkflowCompleted", "WorkflowContinuing"}
    OBVIOUS
  <2> QED BY <2>1, <1>3, <1>4, <1>5, <1>6 DEF FinishTask

LEMMA TypeCancel == TypeOK /\ CancelEffect => TypeOK'
<1> SUFFICES ASSUME TypeOK, CancelEffect PROVE TypeOK'
  OBVIOUS
<1> DEFINE e == effects[Len(effects)]
           u == upd[e.id][e.n]
<1>1. effects \in Seq(EffectRecord) /\ Len(effects) \in Nat \ {0}
  BY EmptySeq DEF CancelEffect, TypeOK
<1>2. e \in EffectRecord
  BY <1>1
<1>3. e.id \in ID /\ e.n \in Object /\ e.prev \in States
  BY <1>2 DEF EffectRecord
<1>4. u \in UpdateObject
  BY <1>3 DEF TypeOK
<1>5. [u EXCEPT !.state = e.prev, !.event = @ /\ e.kind # "accept"] \in UpdateObject
  BY <1>3, <1>4 DEF UpdateObject
<1>6. effects' \in Seq(EffectRecord)
  <2>1. \A i \in 1..Len(effects) - 1 : effects[i] \in EffectRecord
    BY <1>1
  <2>2. SubSeq(effects, 1, Len(effects) - 1) \in Seq(EffectRecord)
    BY <1>1, <2>1, SubSeqProperties
  <2> QED BY <2>2 DEF CancelEffect
<1>7. \/ upd' = upd
      \/ upd' = [upd EXCEPT ![e.id][e.n].state = e.prev, ![e.id][e.n].event = @ /\ e.kind # "accept"]
  BY Zenon DEF CancelEffect
<1>8. upd \in Objects
  BY DEF TypeOK, Objects
<1>9. [upd EXCEPT ![e.id][e.n].state = e.prev, ![e.id][e.n].event = @ /\ e.kind # "accept"] \in Objects
  <2> DEFINE w == [u EXCEPT !.state = e.prev, !.event = @ /\ e.kind # "accept"]
  <2>1. [upd EXCEPT ![e.id][e.n].state = e.prev, ![e.id][e.n].event = @ /\ e.kind # "accept"]
        = [upd EXCEPT ![e.id][e.n] = w]
    BY <1>3, <1>8 DEF Objects
  <2> HIDE DEF w
  <2>2. [upd EXCEPT ![e.id][e.n] = w] \in Objects
    BY <1>3, <1>5, <1>8 DEF Objects, w
  <2> QED BY <2>1, <2>2
<1>10. upd' \in Objects
  BY <1>7, <1>8, <1>9
<1>11. UNCHANGED <<db, ms, registry, pc, task, sets, call, seen, history>>
  BY DEF CancelEffect
<1> QED BY <1>6, <1>10, <1>11 DEF TypeOK, Objects

LEMMA TypeErrors ==
  ASSUME TypeOK, ReturnError \/ FailWorkflowTask
  PROVE  TypeOK'
<1>1. NoTask \in TaskRecord /\ db \in Run /\ upd \in Objects
  BY DEF NoTask, TaskRecord, TypeOK, Objects
<1>2. CASE ReturnError
  <2>1. pc' = "idle" /\ task' = NoTask /\ UNCHANGED <<effects, call, seen, history>>
    BY <1>2 DEF ReturnError
  <2>2. CASE ClearTo(db)
    BY <1>1, <2>1, <2>2, ClearType DEF TypeOK, Objects, SetQueues
  <2>3. CASE UNCHANGED <<db, ms, registry, upd, sets>>
    BY <1>1, <2>1, <2>3 DEF TypeOK
  <2> QED BY <1>2, <2>2, <2>3 DEF ReturnError
<1>3. CASE FailWorkflowTask
  <2> DEFINE aborted == AbortAll(upd, "WorkflowTaskFailed")
             first == AllAbortSets(upd, "WorkflowTaskFailed")
             second == AllAbortSets(aborted, "RegistryCleared")
             both == [id \in ID |-> [n \in Object |-> first[id][n] \o second[id][n]]]
  <2>1. "WorkflowTaskFailed" \in Reasons /\ "RegistryCleared" \in Reasons
    BY DEF Reasons
  <2>2. aborted \in Objects /\ first \in SetQueues
    BY <1>1, <2>1, AbortAllType
  <2> HIDE DEF aborted, first
  <2>3. AbortAll(aborted, "RegistryCleared") \in Objects /\ second \in SetQueues
    BY <2>1, <2>2, AbortAllType
  <2> HIDE DEF second
  <2>4. both \in SetQueues
    <3>1. ASSUME NEW id \in ID, NEW n \in Object
          PROVE  first[id][n] \o second[id][n] \in Seq(SetRecord)
      <4>1. first[id][n] \in Seq(SetRecord) /\ second[id][n] \in Seq(SetRecord)
        BY <2>2, <2>3 DEF SetQueues
      <4> QED BY <4>1, ConcatProperties
    <3> QED BY <3>1 DEF SetQueues
  <2> HIDE DEF both
  <2>5. upd' = Remaining(AbortAll(aborted, "RegistryCleared")) /\ sets' = RemainingSets(both)
    BY <1>3 DEF FailWorkflowTask, aborted, first, second, both
  <2>6. upd' \in Objects /\ sets' \in SetQueues
    BY <2>3, <2>4, <2>5, RemainingType
  <2>7. db' \in Run /\ ms' \in Run /\ open' \subseteq ID
    <3>1. PICK store \in {db, [db EXCEPT !.wft = "scheduled"], [db EXCEPT !.running = FALSE, !.wft = "none"]} :
             db' = store /\ ms' = store /\ open' = Opened(store)
      BY <1>3 DEF FailWorkflowTask
    <3>2. store \in Run
      BY <1>1, <3>1 DEF Run
    <3> QED BY <3>1, <3>2, OpenedType
  <2>8. /\ pc' = "idle" /\ task' = NoTask /\ UNCHANGED <<effects, call, seen, told>>
        /\ loaded' = FALSE /\ reg' = [id \in ID |-> 0] /\ completedCount' = 0
    BY <1>3 DEF FailWorkflowTask
  <2> QED BY <1>1, <2>6, <2>7, <2>8 DEF TypeOK, Objects, SetQueues
<1> QED BY <1>2, <1>3

-----------------------------------------------------------------------------
(* Type correctness                                                        *)

LEMMA TypeNext == TypeInv /\ [Next]_vars => TypeInv'
<1> SUFFICES ASSUME TypeInv, [Next]_vars PROVE TypeInv'
  OBVIOUS
<1>1. TypeOK /\ Unloaded
  BY DEF TypeInv
<1>2. Unloaded'
  BY <1>1, UnloadedNext
<1>3. CASE UNCHANGED vars
  BY <1>1, <1>2, <1>3 DEF vars, TypeOK, TypeInv
<1>4. CASE ClientStep
  BY <1>1, <1>2, <1>4, TypeWait, TypeRequests DEF ClientStep, TypeInv
<1>5. CASE WorkerStep
  BY <1>2, <1>5, TypeWorker DEF TypeInv
<1>6. CASE HandlerStep
  <2>1. CASE \E id \in ID, n \in Object : SetFuture(id, n)
    BY <1>1, <1>2, <2>1, TypeSetFuture DEF TypeInv
  <2>2. CASE Persist \/ ApplyEffect \/ FinishTask
    BY <1>1, <1>2, <2>2, TypePersist, TypeApply, TypeFinish DEF TypeInv
  <2>3. CASE CancelEffect \/ ReturnError \/ FailWorkflowTask
    BY <1>1, <1>2, <2>3, TypeCancel, TypeErrors DEF TypeInv
  <2> QED BY <1>6, <2>1, <2>2, <2>3 DEF HandlerStep
<1>7. CASE ServerStep
  BY <1>1, <1>2, <1>7, TypeLoad, TypeContext, TypeWorkflowTask DEF ServerStep, TypeInv
<1> QED BY <1>3, <1>4, <1>5, <1>6, <1>7 DEF Next

\* Every variable of the model keeps its type, whatever calls, workers, writes and failures do: in
\* particular the places for objects of an update never run out, and an effect or a value for a
\* future is only ever of one that exists.
THEOREM TypeCorrect == Spec => []TypeOK
<1>1. Init => TypeInv
  BY TypeInit, UnloadedInit DEF TypeInv
<1>2. TypeInv => TypeOK
  BY DEF TypeInv
<1> QED BY <1>1, <1>2, TypeNext, PTL DEF Spec

=============================================================================
