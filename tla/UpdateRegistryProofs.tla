------------------------ MODULE UpdateRegistryProofs ------------------------
(***************************************************************************)
(* What the handlers of WorkflowUpdates leave behind: a workflow task for  *)
(* what is to be sent, futures that are set once, a registry that agrees   *)
(* with the store, and no caller on an object that nothing will complete.  *)
(***************************************************************************)
EXTENDS UpdateLifecycleProofs

USE DEF handler, registry, history

-----------------------------------------------------------------------------
(* Delivery                                                                *)

\* An update that is to be sent has a workflow task from the end of a handler on.  While the
\* handler of the last task writes and applies its effects, it has chosen the next one.
ToSend(id) == reg[id] # 0 /\ Update(id).state \in {"Admitted", "Sent"}
DeliveryInv ==
    /\ ~loaded => ms = db
    /\ loaded /\ ms.running /\ pc = "idle" =>
          \A id \in ID : ToSend(id) /\ ms.info[id] = "none" => ms.wft # "none"
    /\ loaded /\ ms.running /\ pc \in {"persist", "apply"} =>
          \A id \in ID : ToSend(id) => ms.wft # "none" \/ task.next = "speculative"

\* A step that leaves no update to be sent that was not.
LEMMA DeliverySame ==
  ASSUME DeliveryInv, UNCHANGED <<db, ms, loaded, pc, task>>,
         \A id \in ID : ToSend(id)' => ToSend(id)
  PROVE  DeliveryInv'
  BY DEF DeliveryInv

LEMMA DeliveryClear ==
  ASSUME NEW store, ClearTo(store)
  PROVE  DeliveryInv'
  BY DEF DeliveryInv, ClearTo

LEMMA DeliveryScheduled ==
  ASSUME loaded', pc' = "idle", ms'.wft # "none"
  PROVE  DeliveryInv'
  BY DEF DeliveryInv

LEMMA DeliveryClient ==
  ASSUME TypeOK, DeliveryInv, ClientStep
  PROVE  DeliveryInv'
<1>1. ASSUME NEW c \in Client,
             WaitLifecycleStage(c) \/ OutcomeReady(c) \/ AcceptedReady(c) \/ WaitTimedOut(c)
      PROVE  DeliveryInv'
  <2>1. CASE \E where \in {"outcome", "accepted"} : Goto(c, where)
    BY <2>1, DeliverySame DEF Goto, ToSend, Update
  <2>2. ASSUME NEW answer, Return(c, answer), call[c].pc # "idle"
        PROVE  DeliveryInv'
    <3>1. UNCHANGED <<db, ms, loaded, reg, pc, task>>
      BY <2>2 DEF Return
    <3>2. ASSUME NEW id \in ID, reg[id] # 0 PROVE Update(id)' = Update(id)
      <4>1. call[c].id \in ID /\ call[c].n \in Object /\ reg[id] \in Object /\ upd \in Objects
        BY <2>2, <3>2, AwaitedType DEF TypeOK, Objects
      <4>2. upd' = upd \/ (reg[call[c].id] # call[c].n /\ upd' = [upd EXCEPT ![call[c].id][call[c].n] = Unused])
        BY <2>2 DEF Return
      <4>3. upd'[id][reg[id]] = upd[id][reg[id]]
        BY <4>1, <4>2 DEF Objects
      <4> QED BY <3>1, <4>3 DEF Update
    <3> QED BY <3>1, <3>2, DeliverySame DEF ToSend
  <2> QED BY <1>1, <2>1, <2>2, WaitSteps
<1>2. ASSUME NEW c \in Client, NEW id \in ID, NEW stage \in Stages,
             UpdateWorkflowExecution(c, id, stage) \/ PollWorkflowExecutionUpdate(c, id, stage)
      PROVE  DeliveryInv'
  <2>1. CASE UNCHANGED <<db, ms, registry, upd, handler>>
    BY <2>1, DeliverySame DEF ToSend, Update
  <2>2. CASE ClearTo(db)
    BY <2>2, DeliveryClear
  <2>3. CASE /\ Idle /\ loaded /\ UNCHANGED <<loaded, handler>>
             /\ ms' = IF ms.wft = "none" THEN [ms EXCEPT !.wft = "scheduled", !.speculative = TRUE] ELSE ms
    <3>1. ms'.wft # "none"
      BY <2>3 DEF TypeOK, Run
    <3> QED BY <2>3, <3>1, DeliveryScheduled DEF Idle
  <2> QED BY <1>2, <2>1, <2>2, <2>3 DEF UpdateWorkflowExecution, PollWorkflowExecutionUpdate, AnswerFromStore
<1> QED BY <1>1, <1>2 DEF ClientStep

\* When the messages are done, either another workflow task is chosen or nothing is to be sent.
LEMMA DeliveryFinishMessages ==
  ASSUME TypeInv, DeliveryInv, NEW heartbeat \in BOOLEAN, NEW buffered \in BOOLEAN, NEW bypass \in BOOLEAN,
         FinishMessages(heartbeat, buffered, bypass)
  PROVE  DeliveryInv'
<1> DEFINE normal == ms.running /\ (heartbeat \/ buffered)
           rejected == IF ms.running /\ ~heartbeat THEN Unprocessed ELSE {}
           speculative == ms.running /\ ~normal /\ Outgoing \ rejected # {}
           next == IF normal \/ (speculative /\ ~bypass) THEN "normal"
                   ELSE IF speculative THEN "speculative" ELSE "none"
<1>1. /\ pc = "messages" /\ loaded /\ loaded' /\ pc' # "idle" /\ UNCHANGED reg
      /\ upd \in Objects /\ reg \in [ID -> Object \cup {0}] /\ ms \in Run /\ task \in TaskRecord
  BY DEF FinishMessages, TypeInv, TypeOK, Unloaded, Objects
<1>2. /\ task' = [task EXCEPT !.next = IF next = "normal" /\ bypass THEN "started" ELSE next]
      /\ ms' = IF next = "normal" THEN [ms EXCEPT !.wft = IF bypass THEN "started" ELSE "scheduled"] ELSE ms
  BY DEF FinishMessages
<1>3. ms.running => AllProvisionally(rejected, "ProvisionallyCompleted", "reject", "rejected")
  BY DEF FinishMessages
<1>4. ms'.running = ms.running /\ (next = "normal" => ms'.wft # "none")
  BY <1>1, <1>2 DEF Run
<1>5. task'.next = IF next = "normal" /\ bypass THEN "started" ELSE next
  BY <1>1, <1>2 DEF TaskRecord
<1>6. ASSUME ms.running, NEW id \in ID, ToSend(id)', next = "none" PROVE FALSE
  <2>1. Outgoing \subseteq rejected /\ ~normal
    BY <1>6
  <2>2. reg[id] # 0 /\ reg[id] \in Object /\ upd[id][reg[id]] \in UpdateObject
    BY <1>1, <1>6 DEF ToSend, Objects
  <2> HIDE DEF next, normal, speculative, rejected
  <2>3. upd'[id][reg[id]] = IF id \in rejected THEN [upd[id][reg[id]] EXCEPT !.state = "ProvisionallyCompleted"]
                            ELSE upd[id][reg[id]]
    <3>1. upd' = [i \in ID |-> [n \in Object |->
                    IF i \in rejected /\ reg[i] = n THEN [upd[i][n] EXCEPT !.state = "ProvisionallyCompleted"]
                    ELSE upd[i][n]]]
      BY <1>3, <1>6, Zenon DEF AllProvisionally
    <3> QED BY <2>2, <3>1
  <2>4. upd'[id][reg[id]].state \in {"Admitted", "Sent"}
    BY <1>1, <1>6 DEF ToSend, Update
  <2>5. id \notin rejected
    BY <2>2, <2>3, <2>4 DEF UpdateObject
  <2>6. id \in Outgoing
    <3>1. upd[id][reg[id]].state \in {"Admitted", "Sent"}
      BY <2>3, <2>4, <2>5
    <3> QED BY <2>2, <3>1 DEF Outgoing, Update
  <2> QED BY <2>1, <2>5, <2>6
<1>7. next \in {"normal", "speculative", "none"}
  OBVIOUS
<1> HIDE DEF next, normal, speculative, rejected
<1> QED BY <1>1, <1>4, <1>5, <1>6, <1>7 DEF DeliveryInv

LEMMA DeliveryWorker ==
  ASSUME TypeInv, DeliveryInv, WorkerStep
  PROVE  DeliveryInv'
<1>1. ASSUME loaded', pc' \notin {"idle", "persist", "apply"} PROVE DeliveryInv'
  BY <1>1 DEF DeliveryInv
<1>2. ASSUME NEW id \in ID, NEW kind, NEW value, HandleMessage(id, kind, value) PROVE DeliveryInv'
  <2>1. pc' \in {"messages", "cancel", "fail"}
    BY <1>2, Zenon DEF HandleMessage, OnProtocolMessage, Provisionally
  <2>2. loaded'
    BY <1>2 DEF HandleMessage, TypeInv, Unloaded
  <2> QED BY <1>1, <2>1, <2>2
<1>3. ASSUME NEW discard \in BOOLEAN, RespondWorkflowTaskCompleted(discard) PROVE DeliveryInv'
  BY <1>1, <1>3 DEF RespondWorkflowTaskCompleted
<1>4. ASSUME NEW newRun \in BOOLEAN, HandleCloseCommand(newRun) \/ HandleBadCommand PROVE DeliveryInv'
  BY <1>1, <1>4 DEF HandleCloseCommand, HandleBadCommand, TypeInv, Unloaded
<1> QED BY <1>2, <1>3, <1>4, DeliveryFinishMessages DEF WorkerStep

\* An effect ends a provisional state, and never brings back one that is to be sent.
LEMMA DeliveryApply ==
  ASSUME TypeInv, DeliveryInv, ApplyEffect
  PROVE  DeliveryInv'
<1> DEFINE e == Head(effects)
           state == upd[e.id][e.n].state
<1>1. TypeOK /\ effects # <<>> /\ UNCHANGED <<db, ms, loaded, pc, task>>
  BY DEF ApplyEffect, TypeInv
<1>2. e.id \in ID /\ e.n \in Object /\ e \in EffectRecord
  BY <1>1, HeadEffect
<1>3. Committed(e, state) \notin {"Admitted", "Sent"}
  BY <1>2 DEF Committed, EffectRecord
<1>4. ASSUME NEW id \in ID, ToSend(id)' PROVE ToSend(id)
  <2>1. reg' = reg \/ reg' = [reg EXCEPT ![e.id] = 0]
    BY DEF ApplyEffect
  <2>2. reg'[id] = reg[id] /\ reg[id] # 0 /\ reg[id] \in Object
    BY <1>1, <1>2, <1>4, <2>1 DEF TypeOK, ToSend
  <2>3. \/ upd' = upd
        \/ upd' = [upd EXCEPT ![e.id][e.n].state = Committed(e, state)]
    BY DEF ApplyEffect
  <2>4. upd'[id][reg[id]].state \in {"Admitted", "Sent"}
    BY <1>4, <2>2 DEF ToSend, Update
  <2> HIDE DEF e, state
  <2>5. upd \in Objects
    BY <1>1 DEF TypeOK, Objects
  <2>6. \/ upd'[id][reg[id]] = upd[id][reg[id]]
        \/ upd'[id][reg[id]].state = Committed(e, state)
    BY <1>2, <2>2, <2>3, <2>5 DEF Objects, UpdateObject
  <2> QED BY <1>3, <2>2, <2>4, <2>6 DEF ToSend, Update
<1> QED BY <1>1, <1>4, DeliverySame

LEMMA DeliveryFinishTask ==
  ASSUME TypeInv, DeliveryInv, FinishTask
  PROVE  DeliveryInv'
<1>1. pc = "apply" /\ loaded /\ pc' = "idle"
  BY DEF FinishTask, TypeInv, Unloaded
<1>2. CASE ClearTo(db)
  BY <1>2, DeliveryClear
<1>3. CASE ~ms.running /\ UNCHANGED <<ms, loaded>>
  BY <1>1, <1>3 DEF DeliveryInv
<1>4. CASE ms.running /\ task.next \in {"none", "normal"} /\ UNCHANGED <<ms, registry, upd>>
  BY <1>1, <1>4 DEF DeliveryInv, ToSend, Update
<1>5. CASE /\ ms.running /\ loaded'
           /\ ms' = IF task.next = "started" THEN ms ELSE [ms EXCEPT !.wft = "started", !.speculative = TRUE]
           /\ reg' = reg /\ upd' = Sent(upd)
           /\ task.next = "started" \/ task.next = "speculative"
  <2>1. CASE task.next = "started"
    <3>1. ASSUME NEW id \in ID, ToSend(id)' PROVE ToSend(id)
      <4>1. reg[id] # 0 /\ reg[id] \in Object /\ upd[id][reg[id]] \in UpdateObject
        BY <1>5, <3>1 DEF ToSend, TypeInv, TypeOK
      <4>2. \/ upd'[id][reg[id]] = upd[id][reg[id]]
            \/ upd[id][reg[id]].state = "Admitted"
        BY <1>5, <4>1 DEF Sent
      <4> QED BY <1>5, <3>1, <4>1, <4>2 DEF ToSend, Update
    <3> QED BY <1>1, <1>5, <2>1, <3>1 DEF DeliveryInv
  <2>2. CASE task.next # "started"
    <3>1. ms'.wft # "none"
      BY <1>5, <2>2 DEF TypeInv, TypeOK, Run
    <3> QED BY <1>1, <1>5, <3>1, DeliveryScheduled
  <2> QED BY <2>1, <2>2
<1> QED BY <1>1, <1>2, <1>3, <1>4, <1>5 DEF FinishTask

LEMMA DeliveryHandler ==
  ASSUME TypeInv, DeliveryInv, HandlerStep
  PROVE  DeliveryInv'
<1>1. CASE Persist
  <2>1. CASE WriteOK(ms) /\ pc' = "apply" /\ UNCHANGED <<registry, upd, sets>>
    BY <1>1, <2>1 DEF Persist, WriteOK, DeliveryInv, ToSend, Update
  <2>2. CASE WriteFailed(ms)
    BY <2>2, DeliveryClear DEF WriteFailed
  <2> QED BY <1>1, <2>1, <2>2 DEF Persist
<1>2. CASE CancelEffect
  BY <1>2 DEF CancelEffect, DeliveryInv
<1>3. CASE ReturnError
  <2>1. CASE ClearTo(db)
    BY <2>1, DeliveryClear
  <2>2. CASE ~loaded /\ UNCHANGED <<db, ms, registry, upd, sets>>
    BY <2>2 DEF DeliveryInv
  <2> QED BY <1>3, <2>1, <2>2 DEF ReturnError
<1>4. CASE FailWorkflowTask
  BY <1>4 DEF FailWorkflowTask, DeliveryInv
<1>5. ASSUME NEW id \in ID, NEW n \in Object, SetFuture(id, n) PROVE DeliveryInv'
  <2>1. ASSUME NEW i \in ID, reg[i] # 0 PROVE Update(i)'.state = Update(i).state
    <3>1. reg[i] \in Object /\ upd \in Objects
      BY <2>1 DEF TypeInv, TypeOK, Objects
    <3>2. PICK v : \/ upd' = [upd EXCEPT ![id][n] = [@ EXCEPT !.outcome = v]]
                   \/ upd' = [upd EXCEPT ![id][n] = [@ EXCEPT !.accepted = v]]
      BY <1>5 DEF SetFuture
    <3>3. upd'[i][reg[i]].state = upd[i][reg[i]].state /\ reg' = reg
      BY <1>5, <3>1, <3>2 DEF Objects, UpdateObject, SetFuture
    <3> QED BY <3>3 DEF Update
  <2> QED BY <1>5, <2>1, DeliverySame DEF SetFuture, ToSend
<1> QED BY <1>1, <1>2, <1>3, <1>4, <1>5, DeliveryApply, DeliveryFinishTask DEF HandlerStep

LEMMA DeliveryServer ==
  ASSUME TypeInv, DeliveryInv, ServerStep
  PROVE  DeliveryInv'
<1>1. CASE LoadContext
  <2>1. ms = db /\ ms' = ms /\ loaded' /\ pc = "idle" /\ pc' = pc
    BY <1>1 DEF LoadContext, DeliveryInv, Idle
  <2>2. ASSUME NEW id \in ID, reg'[id] # 0 PROVE ms.info[id] # "none"
    BY <1>1, <2>1, <2>2 DEF LoadContext
  <2> QED BY <2>1, <2>2 DEF DeliveryInv, ToSend
<1>2. CASE ClearContext
  BY <1>2, DeliveryClear DEF ClearContext
<1>3. CASE Crash
  BY <1>3 DEF Crash, DeliveryInv
<1>4. ASSUME NEW m, WriteFailed(m) PROVE DeliveryInv'
  BY <1>4, DeliveryClear DEF WriteFailed
<1>5. CASE RecordWorkflowTaskStarted
  <2> DEFINE m == [ms EXCEPT !.wft = "started"]
  <2>1. m.wft = "started"
    BY DEF TypeInv, TypeOK, Run
  <2>2. CASE ms' = m /\ UNCHANGED <<pc, loaded>>
    BY <1>5, <2>1, <2>2, DeliveryScheduled DEF RecordWorkflowTaskStarted, Idle
  <2>3. CASE ClearTo(db) \/ WriteFailed(m)
    BY <1>4, <2>3, DeliveryClear
  <2> QED BY <1>5, <2>2, <2>3 DEF RecordWorkflowTaskStarted, WriteOK
<1>6. CASE WorkflowTaskTimedOut
  <2> DEFINE m == [ms EXCEPT !.wft = "scheduled", !.speculative = FALSE]
  <2>1. m.wft = "scheduled"
    BY DEF TypeInv, TypeOK, Run
  <2>2. CASE ms' = m /\ UNCHANGED <<pc, loaded>>
    BY <1>6, <2>1, <2>2, DeliveryScheduled DEF WorkflowTaskTimedOut, Idle
  <2>3. CASE WriteFailed(m)
    BY <1>4, <2>3
  <2> QED BY <1>6, <2>2, <2>3 DEF WorkflowTaskTimedOut, WriteOK
<1>7. ASSUME NEW reason, CloseWorkflow(reason) PROVE DeliveryInv'
  <2> DEFINE m == [ms EXCEPT !.running = FALSE, !.wft = "none", !.speculative = FALSE]
  <2>1. ~m.running
    BY DEF TypeInv, TypeOK, Run
  <2>2. CASE ms' = m /\ UNCHANGED <<pc, loaded>>
    BY <1>7, <2>1, <2>2 DEF CloseWorkflow, DeliveryInv
  <2>3. CASE WriteFailed(m)
    BY <1>4, <2>3
  <2> QED BY <1>7, <2>2, <2>3 DEF CloseWorkflow, WriteOK
<1> QED BY <1>1, <1>2, <1>3, <1>5, <1>6, <1>7 DEF ServerStep

\* An update that waits to be sent in a running run always has a workflow task that will take it
\* along, whenever no handler is at work.
THEOREM Delivered == Spec => []DeliveryPending
<1>1. Init => DeliveryInv
  BY DEF Init, DeliveryInv
<1>2. TypeInv /\ DeliveryInv /\ [Next]_vars => DeliveryInv'
  <2> SUFFICES ASSUME TypeInv, DeliveryInv, [Next]_vars PROVE DeliveryInv'
    OBVIOUS
  <2>1. TypeOK
    BY DEF TypeInv
  <2>2. CASE UNCHANGED vars
    BY <2>2, DeliverySame DEF vars, ToSend, Update
  <2> QED BY <2>1, <2>2, DeliveryClient, DeliveryWorker, DeliveryHandler, DeliveryServer DEF Next
<1>3. Init => TypeInv
  BY TypeInit, UnloadedInit DEF TypeInv
<1>4. DeliveryInv => DeliveryPending
  BY DEF DeliveryInv, DeliveryPending, ToSend, Idle
<1> QED BY <1>1, <1>2, <1>3, <1>4, TypeNext, PTL DEF Spec

-----------------------------------------------------------------------------
(* Futures                                                                 *)

\* States that an effect of the handler has yet to end, and states in which nobody has been told
\* that the update is accepted.
Provisional == {"ProvisionallyAccepted", "ProvisionallyCompleted", "ProvisionallyCompletedAfterAccepted",
                "ProvisionallyAborted"}
Unaccepted == {"Unused", "Admitted", "Sent", "ProvisionallyAccepted", "ProvisionallyCompletedAfterAccepted"}

\* A future that is not set, and will not be by the values s on their way.
Unset(u, s, f) == u[f] = "pending" /\ \A i \in 1..Len(s) : s[i].future # f
ObjectOnce(u, s) ==
    /\ \A i \in 1..Len(s) : u[s[i].future] = "pending"
    /\ \A i, j \in 1..Len(s) : s[i].future = s[j].future => i = j
    /\ u.state \in Live \cup {"Unused"} => Unset(u, s, "outcome")
    /\ u.state \in Unaccepted => Unset(u, s, "accepted")

\* An effect sets accepted if the update was not accepted when the effect was buffered.  Until
\* then nothing else does, unless the update leaves its provisional state.
EffectOnce(e) ==
    /\ e.prev \in Live
    /\ e.kind \in {"accept", "reject"} => e.prev \in {"Admitted", "Sent"}
    /\ e.prev \in Unaccepted /\ (pc = "messages" \/ upd[e.id][e.n].state \in Provisional) =>
          Unset(upd[e.id][e.n], sets[e.id][e.n], "accepted")
ObjectsOnce == \A id \in ID : \A n \in Object : ObjectOnce(upd[id][n], sets[id][n])
EffectsOnce == \A i \in 1..Len(effects) : EffectOnce(effects[i])
OnceInv ==
    /\ ObjectsOnce /\ EffectsOnce
    /\ pc = "idle" => effects = <<>>
    /\ pc \in {"messages", "persist"} => Settled

\* Values on their way, by the futures they are for.
LEMMA OnceNothing ==
  ASSUME NEW u \in UpdateObject, u.state \in Live \cup {"Unused"} => u.outcome = "pending",
         u.state \in Unaccepted => u.accepted = "pending"
  PROVE  ObjectOnce(u, <<>>)
  BY DEF ObjectOnce, Unset

LEMMA OnceOutcome ==
  ASSUME NEW u \in UpdateObject, u.outcome = "pending", u.state \notin Live \cup {"Unused"}, NEW v \in Value
  PROVE  ObjectOnce(u, <<OutcomeSet(v)>>)
<1>1. OutcomeSet(v) \in SetRecord /\ OutcomeSet(v).future = "outcome"
  BY DEF OutcomeSet, SetRecord
<1>2. u.state \notin Unaccepted
  BY DEF Unaccepted, Live
<1> QED BY <1>1, <1>2, Queues DEF ObjectOnce

LEMMA OnceAccepted ==
  ASSUME NEW u \in UpdateObject, u.accepted = "pending", u.state = "Accepted", u.outcome = "pending", NEW v \in Value
  PROVE  ObjectOnce(u, <<AcceptedSet(v)>>)
<1>1. AcceptedSet(v) \in SetRecord /\ AcceptedSet(v).future = "accepted"
  BY DEF AcceptedSet, SetRecord
<1>2. u.state \notin Unaccepted
  BY DEF Unaccepted
<1> QED BY <1>1, <1>2, Queues DEF ObjectOnce, Unset

LEMMA OnceBoth ==
  ASSUME NEW u \in UpdateObject, u.outcome = "pending", u.accepted = "pending",
         u.state \notin Live \cup {"Unused"}, NEW v \in Value, NEW w \in Value
  PROVE  ObjectOnce(u, <<OutcomeSet(v), AcceptedSet(w)>>) /\ ObjectOnce(u, <<AcceptedSet(w), OutcomeSet(v)>>)
<1> DEFINE o == OutcomeSet(v)
           a == AcceptedSet(w)
<1>1. o \in SetRecord /\ a \in SetRecord /\ o.future = "outcome" /\ a.future = "accepted"
  BY DEF OutcomeSet, AcceptedSet, SetRecord
<1>2. u.state \notin Unaccepted
  BY DEF Unaccepted, Live
<1> HIDE DEF o, a
<1>3. ObjectOnce(u, <<o, a>>)
  BY <1>1, <1>2, Queues DEF ObjectOnce
<1>4. ObjectOnce(u, <<a, o>>)
  BY <1>1, <1>2, Queues DEF ObjectOnce
<1> QED BY <1>3, <1>4 DEF o, a

\* An object moves to another state and keeps its futures.
LEMMA OnceState ==
  ASSUME NEW u \in UpdateObject, NEW s \in Seq(SetRecord), ObjectOnce(u, s), NEW v \in UpdateObject,
         v.accepted = u.accepted, v.outcome = u.outcome,
         v.state \in Live \cup {"Unused"} => u.state \in Live \cup {"Unused"},
         v.state \in Unaccepted => u.state \in Unaccepted \/ Unset(u, s, "accepted")
  PROVE  ObjectOnce(v, s) /\ (Unset(u, s, "accepted") => Unset(v, s, "accepted"))
<1>1. \A i \in 1..Len(s) : s[i].future \in {"accepted", "outcome"}
  <2>1. \A i \in 1..Len(s) : s[i] \in SetRecord
    OBVIOUS
  <2> QED BY <2>1 DEF SetRecord
<1>2. \A i \in 1..Len(s) : v[s[i].future] = u[s[i].future]
  BY <1>1
<1>3. \A f \in {"accepted", "outcome"} : Unset(u, s, f) => Unset(v, s, f)
  BY DEF Unset
<1> QED BY <1>2, <1>3 DEF ObjectOnce

\* An abort sets what is not set; an object in a provisional state afterwards is one it left alone.
LEMMA OnceAbort ==
  ASSUME NEW u \in UpdateObject, ObjectOnce(u, <<>>), NEW reason \in Reasons
  PROVE  /\ ObjectOnce(Aborted(u, reason), AbortSets(u, reason))
         /\ \/ Aborted(u, reason) = u /\ AbortSets(u, reason) = <<>>
            \/ Aborted(u, reason).state = "Aborted"
<1> DEFINE f == FailureError(reason, u.state)
           v == [u EXCEPT !.state = "Aborted"]
<1>1. CASE f = "none"
  BY <1>1 DEF Aborted, AbortSets
<1>2. CASE f # "none"
  <2>1. u.state \in States /\ f \in Value /\ Aborted(u, reason) = v
    BY <1>2, FailureErrorType DEF Value, Aborted, UpdateObject
  <2>2. v \in UpdateObject /\ v.state = "Aborted" /\ v.outcome = u.outcome /\ v.accepted = u.accepted
    BY DEF UpdateObject, States
  <2>3. u.state \in Live
    BY <1>2, <2>1 DEF FailureError, States, Live
  <2>4. u.outcome = "pending" /\ (u.state \in PreAccepted => u.accepted = "pending")
    BY <2>3 DEF ObjectOnce, Unset, PreAccepted, Unaccepted
  <2>5. v.state \notin Live \cup {"Unused"}
    BY <2>2 DEF Live
  <2>6. AbortSets(u, reason) = IF u.state \in PreAccepted THEN <<OutcomeSet(f), AcceptedSet(f)>> ELSE <<OutcomeSet(f)>>
    BY <1>2, Zenon DEF AbortSets, OutcomeSet, AcceptedSet
  <2> HIDE DEF f, v
  <2>7. ObjectOnce(v, AbortSets(u, reason))
    BY <2>1, <2>2, <2>4, <2>5, <2>6, OnceBoth, OnceOutcome
  <2> QED BY <2>1, <2>2, <2>7
<1> QED BY <1>1, <1>2

\* The registry is aborted, when nothing is on its way.
LEMMA OnceAbortAll ==
  ASSUME NEW u \in Objects, \A id \in ID : \A n \in Object : ObjectOnce(u[id][n], <<>>),
         NEW reason \in Reasons, NEW id \in ID, NEW n \in Object
  PROVE  LET v == AbortAll(u, reason)[id][n]
             s == AllAbortSets(u, reason)[id][n]
         IN  ObjectOnce(v, s) /\ ((v = u[id][n] /\ s = <<>>) \/ v.state = "Aborted")
<1>1. u[id][n] \in UpdateObject /\ ObjectOnce(u[id][n], <<>>)
  BY DEF Objects
<1>2. CASE reg[id] = n
  <2>1. /\ AbortAll(u, reason)[id][n] = Aborted(u[id][n], reason)
        /\ AllAbortSets(u, reason)[id][n] = AbortSets(u[id][n], reason)
    BY <1>2 DEF AbortAll, AllAbortSets
  <2> QED BY <1>1, <2>1, OnceAbort
<1>3. CASE reg[id] # n
  BY <1>1, <1>3 DEF AbortAll, AllAbortSets
<1> QED BY <1>2, <1>3

LEMMA OnceUnused == ObjectOnce(Unused, <<>>) /\ Unset(Unused, <<>>, "accepted")
<1>1. Unused \in UpdateObject /\ Unused.outcome = "pending" /\ Unused.accepted = "pending"
  BY NewObjects DEF Unused
<1> QED BY <1>1, OnceNothing DEF Unset

\* The first value is set on its future.
LEMMA OnceSet ==
  ASSUME NEW u \in UpdateObject, NEW s \in Seq(SetRecord), s # <<>>, ObjectOnce(u, s),
         NEW v, v = IF Head(s).future = "outcome" THEN [u EXCEPT !.outcome = Head(s).value]
                    ELSE [u EXCEPT !.accepted = Head(s).value]
  PROVE  ObjectOnce(v, Tail(s)) /\ (Unset(u, s, "accepted") => Unset(v, Tail(s), "accepted"))
<1> DEFINE h == Head(s)
           t == Tail(s)
<1>1. /\ Len(s) \in Nat /\ 1 \in 1..Len(s) /\ h = s[1] /\ h \in SetRecord
      /\ Len(t) \in Nat /\ Len(t) = Len(s) - 1 /\ \A i \in 1..Len(t) : t[i] = s[i + 1] /\ i + 1 \in 1..Len(s)
  BY HeadTailProperties, EmptySeq
<1>2. v.state = u.state /\ h.future \in {"accepted", "outcome"}
  BY <1>1 DEF UpdateObject, SetRecord
<1>3. \A f \in {"accepted", "outcome"} : f # h.future => v[f] = u[f]
  <2>1. CASE h.future = "outcome"
    <3>1. v.accepted = u.accepted
      BY <2>1 DEF UpdateObject
    <3> QED BY <2>1, <3>1
  <2>2. CASE h.future = "accepted"
    <3>1. v.outcome = u.outcome
      BY <2>2 DEF UpdateObject
    <3> QED BY <2>2, <3>1
  <2> QED BY <1>2, <2>1, <2>2
<1>4. \A i \in 1..Len(s) : s[i].future \in {"accepted", "outcome"} /\ u[s[i].future] = "pending"
  <2>1. \A i \in 1..Len(s) : s[i] \in SetRecord
    OBVIOUS
  <2>2. \A i \in 1..Len(s) : u[s[i].future] = "pending"
    BY DEF ObjectOnce
  <2> QED BY <2>1, <2>2 DEF SetRecord
<1>5. \A i, j \in 1..Len(s) : s[i].future = s[j].future => i = j
  BY DEF ObjectOnce
<1> HIDE DEF h, t
<1>6. ASSUME NEW i \in 1..Len(t) PROVE v[t[i].future] = "pending"
  <2>1. t[i] = s[i + 1] /\ i + 1 \in 1..Len(s) /\ i + 1 # 1
    BY <1>1
  <2>2. t[i].future # h.future
    BY <1>1, <1>5, <2>1
  <2> QED BY <1>3, <1>4, <2>1, <2>2
<1>7. ASSUME NEW i \in 1..Len(t), NEW j \in 1..Len(t), t[i].future = t[j].future PROVE i = j
  <2>1. i + 1 = j + 1
    BY <1>1, <1>5, <1>7
  <2> QED BY <2>1
<1>8. ASSUME NEW f \in {"accepted", "outcome"}, Unset(u, s, f) PROVE Unset(v, t, f)
  <2>1. h.future # f
    BY <1>1, <1>8 DEF Unset
  <2>2. \A i \in 1..Len(t) : t[i].future # f
    BY <1>1, <1>8 DEF Unset
  <2> QED BY <1>3, <1>8, <2>1, <2>2 DEF Unset
<1>9. ObjectOnce(v, t)
  BY <1>2, <1>6, <1>7, <1>8 DEF ObjectOnce
<1> QED BY <1>8, <1>9 DEF t

-----------------------------------------------------------------------------
(* Futures: the steps                                                      *)

LEMMA OnceQuiet ==
  ASSUME ObjectsOnce', effects' = <<>>, pc' \in {"messages", "persist"} => Settled'
  PROVE  OnceInv'
<1>1. Len(effects') = 0
  OBVIOUS
<1> QED BY <1>1 DEF OnceInv, EffectsOnce

\* Where a provisional state is left or kept, its futures are as they were.
KeepsUnset ==
    \A id \in ID : \A n \in Object :
        pc' = "messages" \/ upd'[id][n].state \in Provisional =>
            /\ pc = "messages" \/ upd[id][n].state \in Provisional
            /\ Unset(upd[id][n], sets[id][n], "accepted") => Unset(upd'[id][n], sets'[id][n], "accepted")

LEMMA OnceEffect ==
  ASSUME TypeOK, KeepsUnset, NEW e \in EffectRecord, EffectOnce(e)
  PROVE  EffectOnce(e)'
<1>1. e.id \in ID /\ e.n \in Object
  BY DEF EffectRecord
<1> QED BY <1>1 DEF EffectOnce, KeepsUnset

LEMMA OnceKept ==
  ASSUME TypeOK, OnceInv, KeepsUnset, ObjectsOnce', effects' = effects, pc' = "idle" => pc = "idle",
         pc' \in {"messages", "persist"} => Settled'
  PROVE  OnceInv'
<1>1. ASSUME NEW i \in 1..Len(effects) PROVE EffectOnce(effects[i])'
  <2>1. effects[i] \in EffectRecord /\ EffectOnce(effects[i])
    BY EffectsType DEF OnceInv, EffectsOnce
  <2>2. ASSUME NEW e, e = effects[i] PROVE EffectOnce(e)'
    BY <2>1, <2>2, OnceEffect
  <2> QED BY <2>2 DEF EffectOnce
<1> QED BY <1>1 DEF OnceInv, EffectsOnce

LEMMA OnceSame ==
  ASSUME TypeOK, OnceInv, UNCHANGED <<upd, sets, effects>>, pc' # pc => pc' \in {"apply", "cancel", "fail"}
  PROVE  OnceInv'
<1>1. ObjectsOnce' /\ Settled' = Settled
  BY DEF OnceInv, ObjectsOnce, Settled
<1>2. pc' = "messages" => pc = "messages"
  OBVIOUS
<1>3. KeepsUnset
  BY <1>2 DEF KeepsUnset
<1> QED BY <1>1, <1>3, OnceKept DEF OnceInv

\* The context is cleared, when nothing is on its way.
LEMMA OnceRemaining ==
  ASSUME TypeOK, NEW u \in Objects, NEW s \in SetQueues,
         \A id \in ID : \A n \in Object :
            ObjectOnce(u[id][n], s[id][n]) /\ ((u[id][n] = upd[id][n] /\ s[id][n] = <<>>) \/ u[id][n].state = "Aborted"),
         upd' = Remaining(u), sets' = RemainingSets(s)
  PROVE  /\ ObjectsOnce'
         /\ \A id \in ID : \A n \in Object :
               upd'[id][n].state \in Provisional => upd'[id][n] = upd[id][n] /\ sets'[id][n] = <<>>
<1>1. ASSUME NEW id \in ID, NEW n \in Object
      PROVE  /\ ObjectOnce(upd'[id][n], sets'[id][n])
             /\ upd'[id][n].state \in Provisional => upd'[id][n] = upd[id][n] /\ sets'[id][n] = <<>>
  <2>1. CASE Waiting(id, n)
    <3>1. upd'[id][n] = u[id][n] /\ sets'[id][n] = s[id][n]
      BY <2>1 DEF Remaining, RemainingSets
    <3> QED BY <3>1 DEF Provisional
  <2>2. CASE ~Waiting(id, n)
    <3>1. upd'[id][n] = Unused /\ sets'[id][n] = <<>>
      BY <2>2 DEF Remaining, RemainingSets
    <3>2. Unused.state = "Unused"
      BY DEF Unused
    <3> QED BY <3>1, <3>2, OnceUnused DEF Provisional
  <2> QED BY <2>1, <2>2
<1> QED BY <1>1 DEF ObjectsOnce

LEMMA OnceClear ==
  ASSUME TypeOK, ObjectsOnce, Settled, NEW store, ClearTo(store)
  PROVE  /\ ObjectsOnce'
         /\ \A id \in ID : \A n \in Object :
               upd'[id][n].state \in Provisional => upd'[id][n] = upd[id][n] /\ sets'[id][n] = <<>>
<1>1. upd \in Objects /\ "RegistryCleared" \in Reasons
  BY DEF TypeOK, Objects, Reasons
<1>2. \A id \in ID : \A n \in Object : ObjectOnce(upd[id][n], <<>>)
  BY DEF ObjectsOnce, Settled
<1> DEFINE u == AbortAll(upd, "RegistryCleared")
           s == AllAbortSets(upd, "RegistryCleared")
<1>3. u \in Objects /\ s \in SetQueues
  BY <1>1, AbortAllType
<1>4. \A id \in ID : \A n \in Object :
         ObjectOnce(u[id][n], s[id][n]) /\ ((u[id][n] = upd[id][n] /\ s[id][n] = <<>>) \/ u[id][n].state = "Aborted")
  BY <1>1, <1>2, OnceAbortAll
<1>5. upd' = Remaining(u) /\ sets' = RemainingSets(s)
  BY DEF ClearTo
<1> HIDE DEF u, s
<1> QED BY <1>3, <1>4, <1>5, OnceRemaining

LEMMA OnceCleared ==
  ASSUME TypeOK, OnceInv, Settled, NEW store, ClearTo(store), effects' = <<>>, pc' = "idle"
  PROVE  OnceInv'
  BY OnceClear, OnceQuiet DEF OnceInv

LEMMA OnceAborted ==
  ASSUME TypeOK, OnceInv, Settled, NEW reason \in Reasons, upd' = AbortAll(upd, reason),
         sets' = AllAbortSets(upd, reason), effects' = <<>>, pc' = "idle"
  PROVE  OnceInv'
<1>1. upd \in Objects
  BY DEF TypeOK, Objects
<1>2. \A id \in ID : \A n \in Object : ObjectOnce(upd[id][n], <<>>)
  BY DEF OnceInv, ObjectsOnce, Settled
<1>3. ObjectsOnce'
  BY <1>1, <1>2, OnceAbortAll DEF ObjectsOnce
<1> QED BY <1>3, OnceQuiet

\* Updates are sent.
LEMMA OnceSent ==
  ASSUME TypeOK, OnceInv, upd' = Sent(upd), sets' = sets, effects' = <<>>, pc' = "idle"
  PROVE  OnceInv'
<1>1. ASSUME NEW id \in ID, NEW n \in Object PROVE ObjectOnce(upd'[id][n], sets'[id][n])
  <2>1. upd[id][n] \in UpdateObject /\ ObjectOnce(upd[id][n], sets[id][n])
    BY DEF TypeOK, OnceInv, ObjectsOnce
  <2>2. \/ upd'[id][n] = upd[id][n]
        \/ upd[id][n].state = "Admitted" /\ upd'[id][n] = [upd[id][n] EXCEPT !.state = "Sent"]
    BY DEF Sent
  <2>3. CASE upd'[id][n] = [upd[id][n] EXCEPT !.state = "Sent"] /\ upd[id][n].state = "Admitted"
    <3> DEFINE v == [upd[id][n] EXCEPT !.state = "Sent"]
    <3>1. v \in UpdateObject /\ v.state = "Sent" /\ v.accepted = upd[id][n].accepted /\ v.outcome = upd[id][n].outcome
      BY <2>1 DEF UpdateObject, States
    <3>2. sets[id][n] \in Seq(SetRecord) /\ "Admitted" \in Live /\ "Admitted" \in Unaccepted
      BY DEF TypeOK, Live, Unaccepted
    <3> HIDE DEF v
    <3>3. ObjectOnce(v, sets[id][n])
      BY <2>1, <2>3, <3>1, <3>2, OnceState
    <3> QED BY <2>3, <3>3 DEF v
  <2> QED BY <2>1, <2>2, <2>3
<1> QED BY <1>1, OnceQuiet DEF ObjectsOnce

\* One object is put in a place: the rest is as it was.
LEMMA OncePut ==
  ASSUME TypeOK, ObjectsOnce, Settled, NEW id \in ID, NEW n \in Object, NEW u, ObjectOnce(u, <<>>),
         upd' = [upd EXCEPT ![id][n] = u], sets' = sets
  PROVE  ObjectsOnce'
<1>1. upd \in Objects /\ \A i \in ID : \A m \in Object : ObjectOnce(upd[i][m], sets[i][m]) /\ sets[i][m] = <<>>
  BY DEF ObjectsOnce, Settled, TypeOK, Objects
<1>2. ASSUME NEW i \in ID, NEW m \in Object PROVE upd'[i][m] = IF i = id /\ m = n THEN u ELSE upd[i][m]
  BY <1>1 DEF Objects
<1> QED BY <1>1, <1>2 DEF ObjectsOnce

LEMMA OnceClient ==
  ASSUME TypeInv, OnceInv, ClientStep
  PROVE  OnceInv'
<1>0. TypeOK
  BY DEF TypeInv
<1>1. ASSUME NEW c \in Client,
             WaitLifecycleStage(c) \/ OutcomeReady(c) \/ AcceptedReady(c) \/ WaitTimedOut(c)
      PROVE  OnceInv'
  <2>1. CASE \E where \in {"outcome", "accepted"} : Goto(c, where)
    BY <1>0, <2>1, OnceSame DEF Goto
  <2>2. ASSUME NEW answer, Return(c, answer), call[c].pc # "idle"
        PROVE  OnceInv'
    <3>1. call[c].id \in ID /\ call[c].n \in Object /\ upd \in Objects /\ sets \in SetQueues
      BY <1>0, <2>2, AwaitedType DEF TypeOK, Objects, SetQueues
    <3>2. \/ upd' = upd /\ sets' = sets
          \/ /\ upd' = [upd EXCEPT ![call[c].id][call[c].n] = Unused]
             /\ sets' = [sets EXCEPT ![call[c].id][call[c].n] = <<>>]
      BY <2>2 DEF Return
    <3>3. ASSUME NEW id \in ID, NEW n \in Object
          PROVE  \/ upd'[id][n] = upd[id][n] /\ sets'[id][n] = sets[id][n]
                 \/ upd'[id][n] = Unused /\ sets'[id][n] = <<>>
      <4>1. CASE id = call[c].id /\ n = call[c].n
        BY <3>1, <3>2, <4>1 DEF Objects, SetQueues
      <4>2. CASE ~(id = call[c].id /\ n = call[c].n)
        <5>1. upd'[id][n] = upd[id][n]
          BY <3>1, <3>2, <4>2 DEF Objects
        <5>2. sets'[id][n] = sets[id][n]
          BY <3>1, <3>2, <4>2 DEF SetQueues
        <5> QED BY <5>1, <5>2
      <4> QED BY <4>1, <4>2
    <3>4. UNCHANGED <<effects, pc>>
      BY <2>2 DEF Return
    <3>5. ObjectsOnce' /\ (Settled => Settled')
      BY <3>3, OnceUnused DEF OnceInv, ObjectsOnce, Settled
    <3>6. Unused.state \notin Provisional
      BY DEF Unused, Provisional
    <3>7. KeepsUnset
      BY <3>3, <3>4, <3>6, OnceUnused DEF KeepsUnset
    <3> QED BY <1>0, <3>4, <3>5, <3>7, OnceKept DEF OnceInv
  <2> QED BY <1>0, <1>1, <2>1, <2>2, WaitSteps
<1>2. ASSUME NEW c \in Client, NEW id \in ID, NEW stage \in Stages,
             UpdateWorkflowExecution(c, id, stage) \/ PollWorkflowExecutionUpdate(c, id, stage)
      PROVE  OnceInv'
  <2>1. CASE UNCHANGED <<upd, sets, handler>>
    BY <1>0, <2>1, OnceSame
  <2>2. CASE Idle /\ ClearTo(db) /\ UNCHANGED handler
    BY <1>0, <2>2, OnceCleared DEF Idle, OnceInv
  <2>3. CASE /\ Idle /\ reg[id] = 0 /\ upd' = [upd EXCEPT ![id][Fresh(id)] = NewAdmitted]
             /\ UNCHANGED <<handler, sets>>
    <3>1. NewAdmitted \in UpdateObject /\ NewAdmitted.outcome = "pending" /\ NewAdmitted.accepted = "pending"
      BY NewObjects DEF NewAdmitted, Unused
    <3>2. ObjectOnce(NewAdmitted, <<>>) /\ Fresh(id) \in Object
      BY <1>0, <2>3, <3>1, OnceNothing, FreshIsFree
    <3>3. ObjectsOnce'
      BY <1>0, <2>3, <3>2, OncePut DEF OnceInv, Idle
    <3> QED BY <2>3, <3>3, OnceQuiet DEF Idle, OnceInv
  <2> QED BY <1>2, <2>1, <2>2, <2>3 DEF UpdateWorkflowExecution, PollWorkflowExecutionUpdate, AnswerFromStore
<1> QED BY <1>1, <1>2 DEF ClientStep

LEMMA OnceServer ==
  ASSUME TypeInv, OnceInv, ServerStep
  PROVE  OnceInv'
<1>0. TypeOK /\ upd \in Objects
  BY DEF TypeInv, TypeOK, Objects
<1>1. CASE LoadContext
  <2>1. Idle /\ effects' = <<>> /\ pc' = "idle" /\ sets' = sets
    BY <1>1 DEF LoadContext, Idle, OnceInv
  <2>2. \A running \in BOOLEAN : ObjectOnce(NewAccepted(running), <<>>)
    <3>1. ASSUME NEW running \in BOOLEAN PROVE ObjectOnce(NewAccepted(running), <<>>)
      <4>1. /\ NewAccepted(running) \in UpdateObject
            /\ NewAccepted(running).state = IF running THEN "Accepted" ELSE "Aborted"
            /\ NewAccepted(running).outcome = IF running THEN "pending" ELSE "failed"
        BY NewObjects DEF NewAccepted
      <4> QED BY <4>1, OnceNothing DEF Live, Unaccepted
    <3> QED BY <3>1
  <2>3. ObjectOnce(NewAdmitted, <<>>)
    <3>1. NewAdmitted \in UpdateObject /\ NewAdmitted.outcome = "pending" /\ NewAdmitted.accepted = "pending"
      BY NewObjects DEF NewAdmitted, Unused
    <3> QED BY <3>1, OnceNothing
  <2>4. ASSUME NEW id \in ID, NEW n \in Object PROVE ObjectOnce(upd'[id][n], sets'[id][n])
    <3>1. upd'[id][n] \in {upd[id][n], NewAdmitted, NewAccepted(db.running)}
      BY <1>1 DEF LoadContext
    <3>2. sets'[id][n] = <<>> /\ ObjectOnce(upd[id][n], <<>>) /\ db.running \in BOOLEAN
      BY <1>0, <2>1 DEF Idle, Settled, OnceInv, ObjectsOnce, TypeOK, Run
    <3> QED BY <2>2, <2>3, <3>1, <3>2
  <2> QED BY <2>1, <2>4, OnceQuiet DEF ObjectsOnce
<1>2. ASSUME NEW store, Idle, ClearTo(store), UNCHANGED handler PROVE OnceInv'
  BY <1>0, <1>2, OnceCleared DEF Idle, OnceInv
<1>3. CASE Crash
  <2>1. ObjectsOnce' /\ effects' = <<>> /\ pc' = "idle"
    BY <1>3, OnceUnused DEF Crash, ObjectsOnce
  <2> QED BY <2>1, OnceQuiet
<1>4. ASSUME NEW m, Idle, WriteFailed(m), UNCHANGED handler PROVE OnceInv'
  BY <1>2, <1>4 DEF WriteFailed
<1>5. ASSUME Idle, upd' = Sent(upd), UNCHANGED <<handler, sets>> PROVE OnceInv'
  BY <1>0, <1>5, OnceSent DEF Idle, OnceInv
<1>6. CASE RecordWorkflowTaskStarted
  BY <1>2, <1>4, <1>5, <1>6 DEF RecordWorkflowTaskStarted
<1>7. CASE WorkflowTaskTimedOut
  BY <1>0, <1>4, <1>7, OnceSame DEF WorkflowTaskTimedOut
<1>8. ASSUME NEW reason \in {"WorkflowCompleted", "WorkflowContinuing"}, CloseWorkflow(reason) PROVE OnceInv'
  <2>1. reason \in Reasons
    BY DEF Reasons
  <2>2. CASE upd' = AbortAll(upd, reason) /\ sets' = AllAbortSets(upd, reason) /\ UNCHANGED handler
    BY <1>0, <1>8, <2>1, <2>2, OnceAborted DEF CloseWorkflow, Idle, OnceInv
  <2> QED BY <1>4, <1>8, <2>2 DEF CloseWorkflow
<1>9. CASE ClearContext
  BY <1>2, <1>9 DEF ClearContext
<1> QED BY <1>1, <1>3, <1>6, <1>7, <1>8, <1>9 DEF ServerStep

\* A future is set.
LEMMA OnceSetFuture ==
  ASSUME TypeOK, OnceInv, NEW id \in ID, NEW n \in Object, SetFuture(id, n)
  PROVE  OnceInv'
<1> DEFINE u == upd[id][n]
           s == sets[id][n]
           v == IF Head(s).future = "outcome" THEN [u EXCEPT !.outcome = Head(s).value]
                ELSE [u EXCEPT !.accepted = Head(s).value]
<1>1. upd \in Objects /\ sets \in SetQueues /\ u \in UpdateObject /\ s \in Seq(SetRecord)
  BY DEF TypeOK, Objects, SetQueues
<1>2. s # <<>> /\ sets' = [sets EXCEPT ![id][n] = Tail(s)] /\ UNCHANGED <<effects, pc>>
  BY DEF SetFuture
<1>3. upd' = [upd EXCEPT ![id][n] = v]
  BY <1>1 DEF SetFuture, Objects
<1>4. ObjectOnce(u, s)
  BY DEF OnceInv, ObjectsOnce
<1>5. v.state = u.state
  BY <1>1 DEF UpdateObject
<1> HIDE DEF u, s, v
<1>6. ObjectOnce(v, Tail(s)) /\ (Unset(u, s, "accepted") => Unset(v, Tail(s), "accepted"))
  BY <1>1, <1>2, <1>4, OnceSet DEF v
<1>7. ASSUME NEW i \in ID, NEW m \in Object
      PROVE  \/ upd'[i][m] = upd[i][m] /\ sets'[i][m] = sets[i][m]
             \/ /\ i = id /\ m = n /\ upd'[i][m] = v /\ sets'[i][m] = Tail(s)
                /\ upd[i][m] = u /\ sets[i][m] = s
  BY <1>1, <1>2, <1>3 DEF Objects, SetQueues, u, s
<1>8. ObjectsOnce'
  BY <1>6, <1>7 DEF OnceInv, ObjectsOnce
<1>9. KeepsUnset
  BY <1>2, <1>5, <1>6, <1>7 DEF KeepsUnset
<1>10. ~Settled
  BY <1>2 DEF Settled, s
<1> QED BY <1>2, <1>8, <1>9, <1>10, OnceKept DEF OnceInv

\* An update leaves an effect, with its futures unset if it was not accepted before.
LEMMA OnceProvisionally ==
  ASSUME TypeOK, pc = "messages", Settled, EffectsOnce,
         NEW u \in Objects, \A i \in ID : \A m \in Object :
             ObjectOnce(u[i][m], <<>>) /\ (Unset(upd[i][m], <<>>, "accepted") => Unset(u[i][m], <<>>, "accepted")),
         NEW id \in ID, NEW n \in Object, NEW state \in {"ProvisionallyAccepted", "ProvisionallyCompleted", "ProvisionallyAborted"},
         NEW kind \in {"accept", "reject", "respond", "abort"}, NEW value \in Value,
         u[id][n].state \in Live, kind \in {"accept", "reject"} => u[id][n].state \in {"Admitted", "Sent"},
         state = "ProvisionallyAccepted" => u[id][n].state \in {"Admitted", "Sent"},
         Provisionally(u, id, n, state, kind, value), UNCHANGED sets
  PROVE  OnceInv'
<1> DEFINE w == u[id][n]
           v == [w EXCEPT !.state = state, !.event = @ \/ kind = "accept"]
           e == Effect(kind, id, n, w.state, value)
<1>1. w \in UpdateObject /\ ObjectOnce(w, <<>>) /\ w.state \in States
  BY DEF Objects, UpdateObject
<1>2. v \in UpdateObject /\ v.state = state /\ v.accepted = w.accepted /\ v.outcome = w.outcome
  BY <1>1 DEF UpdateObject, States
<1>3. upd' = [u EXCEPT ![id][n] = v]
  BY DEF Provisionally, Objects
<1>4. effects' = Append(effects, e) /\ pc' = "messages" /\ Settled'
  BY DEF Provisionally, Settled
<1>5. e \in EffectRecord /\ e.id = id /\ e.n = n /\ e.prev = w.state /\ e.kind = kind
  <2>1. e \in EffectRecord
    BY <1>1, EffectType
  <2> QED BY <2>1 DEF Effect
<1> HIDE DEF v, w, e
<1>6. ObjectOnce(v, <<>>) /\ (Unset(w, <<>>, "accepted") => Unset(v, <<>>, "accepted"))
  <2>1. <<>> \in Seq(SetRecord)
    OBVIOUS
  <2>2. v.state \in Unaccepted => w.state \in Unaccepted
    BY <1>2 DEF Unaccepted, w
  <2>3. w.state \in Live
    BY DEF w
  <2> QED BY <1>1, <1>2, <2>1, <2>2, <2>3, OnceState
<1>7. ASSUME NEW i \in ID, NEW m \in Object
      PROVE  /\ ObjectOnce(upd'[i][m], <<>>) /\ sets[i][m] = <<>> /\ sets'[i][m] = <<>>
             /\ Unset(upd[i][m], <<>>, "accepted") => Unset(upd'[i][m], <<>>, "accepted")
  <2>1. CASE i = id /\ m = n
    <3>1. upd'[i][m] = v /\ u[i][m] = w
      BY <1>3, <2>1 DEF Objects, w
    <3> QED BY <1>6, <3>1 DEF Settled
  <2>2. CASE ~(i = id /\ m = n)
    <3>1. upd'[i][m] = u[i][m]
      BY <1>3, <2>2 DEF Objects
    <3> QED BY <3>1 DEF Settled
  <2> QED BY <2>1, <2>2
<1>8. ObjectsOnce' /\ KeepsUnset
  BY <1>7 DEF ObjectsOnce, KeepsUnset
<1>9. effects \in Seq(EffectRecord) /\ Len(effects) \in Nat
  BY DEF TypeOK
<1>10. /\ Len(effects') = Len(effects) + 1 /\ effects'[Len(effects) + 1] = e
       /\ \A i \in 1..Len(effects) : effects'[i] = effects[i]
  BY <1>4, <1>5, <1>9, AppendProperties
<1>11. ASSUME NEW x, x = e PROVE EffectOnce(x)'
  <2>1. w.state \in Live /\ (kind \in {"accept", "reject"} => w.state \in {"Admitted", "Sent"})
    BY DEF w
  <2>2. w.state \in Unaccepted => Unset(v, <<>>, "accepted")
    BY <1>1, <1>6 DEF ObjectOnce
  <2>3. upd'[id][n] = v /\ sets'[id][n] = <<>>
    BY <1>3, <1>7 DEF Objects
  <2> QED BY <1>5, <1>11, <2>1, <2>2, <2>3 DEF EffectOnce
<1>12. ASSUME NEW i \in 1..Len(effects), NEW x, x = effects[i] PROVE EffectOnce(x)'
  <2>1. effects[i] \in EffectRecord /\ EffectOnce(effects[i])
    BY EffectsType DEF EffectsOnce
  <2> QED BY <1>8, <1>12, <2>1, OnceEffect
<1>13. ASSUME NEW i \in 1..Len(effects') PROVE EffectOnce(effects[i])'
  <2>1. i \in 1..Len(effects) \/ i = Len(effects) + 1
    BY <1>9, <1>10
  <2>2. ASSUME NEW x, x = effects'[i] PROVE EffectOnce(x)'
    BY <1>10, <1>11, <1>12, <2>1, <2>2
  <2> QED BY <2>2 DEF EffectOnce
<1> QED BY <1>4, <1>8, <1>13 DEF OnceInv, EffectsOnce

LEMMA OnceMessage ==
  ASSUME TypeOK, OnceInv, pc = "messages", UNCHANGED sets,
         NEW u \in Objects, \A i \in ID : \A m \in Object :
             ObjectOnce(u[i][m], <<>>) /\ (Unset(upd[i][m], <<>>, "accepted") => Unset(u[i][m], <<>>, "accepted")),
         NEW id \in ID, NEW n \in Object,
         NEW kind \in {"accept", "reject", "respond"}, NEW value, kind = "respond" => value \in Outcome,
         OnProtocolMessage(u, id, n, kind, value)
  PROVE  OnceInv'
<1> DEFINE state == u[id][n].state
           failure == FailureError("WorkflowCompleted", state)
<1>1. Settled /\ EffectsOnce /\ state \in States
  BY DEF OnceInv, Objects, UpdateObject
<1>2. CASE upd' = u /\ UNCHANGED effects /\ pc' \in {pc, "fail"}
  <2>1. ASSUME NEW i \in ID, NEW m \in Object PROVE sets[i][m] = <<>> /\ sets'[i][m] = <<>>
    BY <1>1 DEF Settled
  <2>2. ObjectsOnce' /\ KeepsUnset /\ Settled'
    BY <1>2, <2>1 DEF ObjectsOnce, KeepsUnset, Settled
  <2> QED BY <1>2, <2>2, OnceKept
<1>3. CASE failure # "none" /\ Provisionally(u, id, n, "ProvisionallyAborted", "abort", failure)
  <2>1. state \in Live
    BY <1>1, <1>3 DEF FailureError, States, Live
  <2>2. failure \in Value
    BY <1>1, <1>3, FailureErrorType DEF Reasons, Value
  <2> QED BY <1>1, <1>3, <2>1, <2>2, OnceProvisionally
<1>4. CASE /\ state \in {"Sent", "Admitted"} /\ kind = "accept"
           /\ Provisionally(u, id, n, "ProvisionallyAccepted", "accept", "accepted")
  <2>1. state \in Live /\ "accepted" \in Value
    BY <1>4 DEF Live, Value
  <2> QED BY <1>1, <1>4, <2>1, OnceProvisionally
<1>5. CASE /\ state \in {"Sent", "Admitted"} /\ kind = "reject"
           /\ Provisionally(u, id, n, "ProvisionallyCompleted", "reject", "rejected")
  <2>1. state \in Live /\ "rejected" \in Value
    BY <1>5 DEF Live, Value
  <2> QED BY <1>1, <1>5, <2>1, OnceProvisionally
<1>6. CASE /\ state \in {"ProvisionallyAccepted", "Accepted"} /\ kind = "respond"
           /\ Provisionally(u, id, n, "ProvisionallyCompleted", "respond", value)
  <2>1. state \in Live /\ value \in Value
    BY <1>6 DEF Live, Value
  <2> QED BY <1>1, <1>6, <2>1, OnceProvisionally
<1> QED BY <1>2, <1>3, <1>4, <1>5, <1>6 DEF OnProtocolMessage

LEMMA OnceHandleMessage ==
  ASSUME TypeOK, OnceInv, NEW id \in ID, NEW kind \in {"accept", "reject", "respond"},
         NEW value, kind = "respond" => value \in Outcome, HandleMessage(id, kind, value)
  PROVE  OnceInv'
<1>1. pc = "messages" /\ UNCHANGED sets /\ upd \in Objects /\ Settled
  BY DEF HandleMessage, TypeOK, Objects, OnceInv
<1>2. \A i \in ID : \A m \in Object : ObjectOnce(upd[i][m], <<>>)
  BY <1>1 DEF OnceInv, ObjectsOnce, Settled
<1>3. CASE reg[id] # 0 /\ OnProtocolMessage(upd, id, reg[id], kind, value)
  <2>1. reg[id] \in Object
    BY <1>3 DEF TypeOK
  <2> QED BY <1>1, <1>2, <1>3, <2>1, OnceMessage
<1>4. CASE reg[id] = 0 /\ OnProtocolMessage([upd EXCEPT ![id][Fresh(id)] = NewAdmitted], id, Fresh(id), kind, value)
  <2> DEFINE u == [upd EXCEPT ![id][Fresh(id)] = NewAdmitted]
  <2>1. Fresh(id) \in Object /\ NewAdmitted \in UpdateObject
    BY <1>4, FreshIsFree, NewObjects
  <2>2. u \in Objects
    BY <1>1, <2>1 DEF Objects
  <2>3. ObjectOnce(NewAdmitted, <<>>) /\ Unset(NewAdmitted, <<>>, "accepted")
    <3>1. NewAdmitted.outcome = "pending" /\ NewAdmitted.accepted = "pending"
      BY DEF NewAdmitted, Unused
    <3> QED BY <2>1, <3>1, OnceNothing DEF Unset
  <2>4. ASSUME NEW i \in ID, NEW m \in Object PROVE u[i][m] \in {upd[i][m], NewAdmitted}
    BY <1>1 DEF Objects
  <2>5. OnProtocolMessage(u, id, Fresh(id), kind, value)
    BY <1>4
  <2> HIDE DEF u
  <2>6. \A i \in ID : \A m \in Object :
           ObjectOnce(u[i][m], <<>>) /\ (Unset(upd[i][m], <<>>, "accepted") => Unset(u[i][m], <<>>, "accepted"))
    BY <1>2, <2>3, <2>4
  <2> QED BY <1>1, <2>1, <2>2, <2>5, <2>6, OnceMessage
<1>5. CASE UNCHANGED <<upd, effects>> /\ pc' \in {"cancel", "fail"}
  BY <1>1, <1>5, OnceSame
<1> QED BY <1>3, <1>4, <1>5 DEF HandleMessage

\* When the messages are done.
LEMMA OnceFinishMessages ==
  ASSUME TypeOK, OnceInv, NEW heartbeat, NEW buffered, NEW bypass, FinishMessages(heartbeat, buffered, bypass)
  PROVE  OnceInv'
<1>1. pc = "messages" /\ pc' \in {"apply", "persist"} /\ UNCHANGED <<reg, sets>> /\ Settled /\ Settled'
  BY DEF FinishMessages, OnceInv, Settled
<1>2. PICK S, state, kind, value :
         /\ AllProvisionally(S, state, kind, value)
         /\ \/ S \subseteq Unprocessed /\ state = "ProvisionallyCompleted" /\ kind = "reject" /\ value = "rejected"
            \/ S = InAcceptance /\ state = "ProvisionallyAborted" /\ kind = "abort" /\ value = "failed"
  <2>1. CASE ms.running
    BY <2>1 DEF FinishMessages
  <2>2. CASE ~ms.running
    BY <2>2 DEF FinishMessages
  <2> QED BY <2>1, <2>2
<1>3. ASSUME NEW id \in S
      PROVE  /\ id \in ID /\ reg[id] # 0 /\ Update(id).state \in Live
             /\ kind \in {"accept", "reject"} => Update(id).state \in {"Admitted", "Sent"}
  BY <1>2 DEF Unprocessed, InAcceptance, Live
<1>4. OneEffectEach(S, kind, value) /\ state \in States /\ state \in Live /\ state \notin Unaccepted
  <2>1. S \subseteq {id \in ID : reg[id] # 0}
    BY <1>3
  <2>2. /\ state \in States /\ kind \in {"accept", "reject", "respond", "abort"} /\ value \in Value
        /\ state \in Live /\ state \notin Unaccepted
    BY <1>2 DEF States, Value, Live, Unaccepted
  <2> QED BY <1>2, <2>1, <2>2, AllProvisionallyEffects
<1>5. ASSUME NEW id \in ID, NEW n \in Object
      PROVE  /\ ObjectOnce(upd'[id][n], <<>>) /\ sets[id][n] = <<>> /\ sets'[id][n] = <<>>
             /\ Unset(upd[id][n], <<>>, "accepted") => Unset(upd'[id][n], <<>>, "accepted")
  <2>1. sets[id][n] = <<>> /\ sets'[id][n] = <<>> /\ ObjectOnce(upd[id][n], <<>>) /\ upd[id][n] \in UpdateObject
    BY <1>1 DEF Settled, OnceInv, ObjectsOnce, TypeOK
  <2>2. CASE id \in S /\ reg[id] = n
    <3> DEFINE v == [upd[id][n] EXCEPT !.state = state]
    <3>1. upd'[id][n] = v
      BY <1>2, <2>2, Zenon DEF AllProvisionally
    <3>2. v \in UpdateObject /\ v.state = state /\ v.accepted = upd[id][n].accepted /\ v.outcome = upd[id][n].outcome
      BY <1>4, <2>1 DEF UpdateObject
    <3>3. upd[id][n].state \in Live /\ <<>> \in Seq(SetRecord)
      BY <1>3, <2>2 DEF Update
    <3> HIDE DEF v
    <3>4. ObjectOnce(v, <<>>) /\ (Unset(upd[id][n], <<>>, "accepted") => Unset(v, <<>>, "accepted"))
      BY <1>4, <2>1, <3>2, <3>3, OnceState
    <3> QED BY <2>1, <3>1, <3>4
  <2>3. CASE ~(id \in S /\ reg[id] = n)
    <3>1. upd'[id][n] = upd[id][n]
      BY <1>2, <2>3, Zenon DEF AllProvisionally
    <3> QED BY <2>1, <3>1
  <2> QED BY <2>2, <2>3
<1>6. ObjectsOnce' /\ KeepsUnset
  BY <1>1, <1>5 DEF ObjectsOnce, KeepsUnset
<1>7. ASSUME NEW i \in 1..Len(effects'), NEW x, x = effects'[i] PROVE EffectOnce(x)'
  <2>1. CASE i \in 1..Len(effects) /\ effects'[i] = effects[i]
    <3>1. effects[i] \in EffectRecord /\ EffectOnce(effects[i])
      BY <2>1, EffectsType DEF OnceInv, EffectsOnce
    <3> QED BY <1>6, <1>7, <2>1, <3>1, OnceEffect
  <2>2. CASE \E id \in S : effects'[i] = Effect(kind, id, reg[id], Update(id).state, value)
    <3>1. PICK id \in S : effects'[i] = Effect(kind, id, reg[id], Update(id).state, value)
      BY <2>2
    <3>2. x.kind = kind /\ x.id = id /\ x.n = reg[id] /\ x.prev = Update(id).state
      BY <1>7, <3>1 DEF Effect
    <3>3. id \in ID /\ reg[id] \in Object
      BY <1>3 DEF TypeOK
    <3>4. Update(id).state \in Unaccepted => Unset(upd'[id][reg[id]], <<>>, "accepted")
      BY <1>1, <1>5, <3>3 DEF OnceInv, ObjectsOnce, ObjectOnce, Update
    <3>5. sets'[id][reg[id]] = <<>>
      BY <1>5, <3>3
    <3> QED BY <1>3, <3>2, <3>4, <3>5 DEF EffectOnce
  <2>3. \/ i \in 1..Len(effects) /\ effects'[i] = effects[i]
        \/ \E id \in S : effects'[i] = Effect(kind, id, reg[id], Update(id).state, value)
    BY <1>4 DEF OneEffectEach
  <2> QED BY <2>1, <2>2, <2>3
<1>8. ASSUME NEW i \in 1..Len(effects') PROVE EffectOnce(effects[i])'
  <2>1. ASSUME NEW x, x = effects'[i] PROVE EffectOnce(x)'
    BY <1>7, <2>1
  <2> QED BY <2>1 DEF EffectOnce
<1> QED BY <1>1, <1>6, <1>8 DEF OnceInv, EffectsOnce

\* Some of the effects are left.
LEMMA OncePart ==
  ASSUME TypeOK, OnceInv, KeepsUnset, ObjectsOnce',
         \A i \in 1..Len(effects') : \E j \in 1..Len(effects) : effects'[i] = effects[j],
         pc' \notin {"idle", "messages", "persist"}
  PROVE  OnceInv'
<1>1. ASSUME NEW i \in 1..Len(effects') PROVE EffectOnce(effects[i])'
  <2>1. ASSUME NEW x, x = effects'[i] PROVE EffectOnce(x)'
    <3>1. x \in EffectRecord /\ EffectOnce(x)
      BY <2>1, EffectsType DEF OnceInv, EffectsOnce
    <3> QED BY <3>1, OnceEffect
  <2> QED BY <2>1 DEF EffectOnce
<1> QED BY <1>1 DEF OnceInv, EffectsOnce

LEMMA OncePersist ==
  ASSUME TypeOK, OnceInv, Persist
  PROVE  OnceInv'
<1>1. CASE pc' = "apply" /\ UNCHANGED <<upd, sets, effects>>
  BY <1>1, OnceSame
<1>2. ASSUME NEW store, ClearTo(store), pc' = "cancel", UNCHANGED effects PROVE OnceInv'
  <2>1. Settled /\ ObjectsOnce
    BY DEF OnceInv, Persist
  <2>2. /\ ObjectsOnce'
        /\ \A id \in ID : \A n \in Object :
              upd'[id][n].state \in Provisional => upd'[id][n] = upd[id][n] /\ sets'[id][n] = <<>>
    BY <1>2, <2>1, OnceClear
  <2>3. KeepsUnset
    BY <1>2, <2>1, <2>2 DEF KeepsUnset, Settled
  <2> QED BY <1>2, <2>2, <2>3, OnceKept
<1> QED BY <1>1, <1>2 DEF Persist, WriteFailed

LEMMA OnceFirst ==
  ASSUME TypeOK, OnceInv, effects # <<>>
  PROVE  EffectOnce(Head(effects))
<1>1. Len(effects) \in Nat \ {0} /\ Head(effects) = effects[1]
  BY HeadEffect
<1>2. 1 \in 1..Len(effects)
  BY <1>1
<1>3. EffectOnce(effects[1])
  BY <1>2 DEF OnceInv, EffectsOnce
<1> QED BY <1>1, <1>3

\* What an effect makes of an object that nothing is on its way to.
CommittedOnce(e, u, v) ==
    /\ ObjectOnce(v, CommitSets(e, u.state))
    /\ v.state \in Provisional =>
          u.state \in Provisional /\ CommitSets(e, u.state) = <<>> /\ v.accepted = u.accepted
LEMMA OnceCommitted ==
  ASSUME TypeOK, OnceInv, pc = "apply", effects # <<>>, Settled, NEW e, e = Head(effects),
         NEW u, u = upd[e.id][e.n], Effective(e, u.state),
         NEW v, v = [u EXCEPT !.state = Committed(e, u.state)]
  PROVE  CommittedOnce(e, u, v)
<1> USE DEF CommittedOnce
<1>1. /\ e \in EffectRecord /\ e.id \in ID /\ e.n \in Object /\ u \in UpdateObject /\ e = effects[1]
      /\ Len(effects) \in Nat \ {0} /\ e.value \in Value
  BY HeadEffect
<1>2. EffectOnce(e) /\ ObjectOnce(u, <<>>)
  <2>1. EffectOnce(e)
    BY OnceFirst
  <2>2. ObjectOnce(upd[e.id][e.n], sets[e.id][e.n]) /\ sets[e.id][e.n] = <<>>
    BY <1>1 DEF OnceInv, ObjectsOnce, Settled
  <2> QED BY <2>1, <2>2
<1>3. u.state \in Provisional /\ u.state \in Live
  <2>1. e.kind \in {"accept", "reject", "respond", "abort"}
    BY <1>1 DEF EffectRecord
  <2> QED BY <2>1 DEF Effective, Provisional, Live
<1>4. u.outcome = "pending" /\ (u.state \in Unaccepted \/ e.prev \in Unaccepted => u.accepted = "pending")
  BY <1>1, <1>2, <1>3 DEF ObjectOnce, EffectOnce, Unset
<1>5. e.kind \in {"accept", "reject"} => e.prev \in Unaccepted
  BY <1>2 DEF EffectOnce, Unaccepted
<1>6. /\ v.state = Committed(e, u.state) /\ v.accepted = u.accepted /\ v.outcome = u.outcome
      /\ Committed(e, u.state) \in States => v \in UpdateObject
  BY <1>1 DEF UpdateObject
<1>7. CASE e.kind = "accept"
  <2>1. CASE u.state = "ProvisionallyAccepted"
    <3>1. /\ Committed(e, u.state) = "Accepted" /\ Committed(e, u.state) \in States
          /\ CommitSets(e, u.state) = <<AcceptedSet("accepted")>>
      BY <1>7, <2>1 DEF Committed, CommitSets, AcceptedSet, States
    <3>2. ObjectOnce(v, <<AcceptedSet("accepted")>>)
      BY <1>4, <1>5, <1>6, <1>7, <3>1, OnceAccepted DEF Value
    <3> QED BY <1>6, <3>1, <3>2 DEF Provisional
  <2>2. CASE u.state # "ProvisionallyAccepted"
    <3>1. /\ Committed(e, u.state) = "ProvisionallyCompletedAfterAccepted" /\ Committed(e, u.state) \in States
          /\ CommitSets(e, u.state) = <<>>
      BY <1>7, <2>2 DEF Committed, CommitSets, States
    <3>2. ObjectOnce(v, <<>>)
      BY <1>4, <1>5, <1>6, <1>7, <3>1, OnceNothing
    <3> QED BY <1>3, <1>6, <3>1, <3>2
  <2> QED BY <2>1, <2>2
<1>8. CASE e.kind = "reject"
  <2>1. /\ Committed(e, u.state) = "Completed" /\ Committed(e, u.state) \in States
        /\ CommitSets(e, u.state) = <<AcceptedSet("rejected"), OutcomeSet(e.value)>>
    BY <1>8, Zenon DEF Committed, CommitSets, AcceptedSet, OutcomeSet, States
  <2>2. Committed(e, u.state) \notin Live \cup {"Unused"} /\ Committed(e, u.state) \notin Provisional
    BY <2>1 DEF Live, Provisional
  <2>3. ObjectOnce(v, <<AcceptedSet("rejected"), OutcomeSet(e.value)>>)
    BY <1>1, <1>4, <1>5, <1>6, <1>8, <2>1, <2>2, OnceBoth DEF Value
  <2> QED BY <1>6, <2>1, <2>2, <2>3
<1>9. CASE e.kind \in {"respond", "abort"}
  <2>1. /\ Committed(e, u.state) \in {"Completed", "Aborted"}
    BY <1>9 DEF Committed
  <2>2. Committed(e, u.state) \notin Live \cup {"Unused"} /\ Committed(e, u.state) \notin Provisional
    BY <2>1 DEF Live, Provisional
  <2>3. /\ CommitSets(e, u.state) \in {<<OutcomeSet(e.value)>>, <<OutcomeSet(e.value), AcceptedSet("accepted")>>,
                                       <<OutcomeSet(e.value), AcceptedSet(e.value)>>}
        /\ u.state \notin Unaccepted /\ e.prev \notin Unaccepted => CommitSets(e, u.state) = <<OutcomeSet(e.value)>>
    <3>1. CASE e.kind = "respond"
      <4>1. CommitSets(e, u.state) = IF u.state = "ProvisionallyCompletedAfterAccepted"
                                     THEN <<OutcomeSet(e.value), AcceptedSet("accepted")>> ELSE <<OutcomeSet(e.value)>>
        BY <3>1, Zenon DEF CommitSets, AcceptedSet, OutcomeSet
      <4> QED BY <4>1 DEF Unaccepted
    <3>2. CASE e.kind = "abort"
      <4>1. CommitSets(e, u.state) = IF u.state = "ProvisionallyCompletedAfterAccepted"
                                     THEN <<OutcomeSet(e.value), AcceptedSet("accepted")>>
                                     ELSE IF e.prev \in PreAccepted
                                     THEN <<OutcomeSet(e.value), AcceptedSet(e.value)>> ELSE <<OutcomeSet(e.value)>>
        BY <3>2, Zenon DEF CommitSets, AcceptedSet, OutcomeSet
      <4>2. e.prev \in PreAccepted => e.prev \in Unaccepted
        BY DEF PreAccepted, Unaccepted
      <4> QED BY <4>1, <4>2 DEF Unaccepted
    <3> QED BY <1>9, <3>1, <3>2
  <2>4. v \in UpdateObject /\ v.outcome = "pending" /\ v.state \notin Live \cup {"Unused"}
    BY <1>4, <1>6, <2>1, <2>2 DEF States
  <2>5. ObjectOnce(v, <<OutcomeSet(e.value)>>)
    BY <1>1, <2>4, OnceOutcome
  <2>6. ASSUME v.accepted = "pending", NEW w \in Value
        PROVE  ObjectOnce(v, <<OutcomeSet(e.value), AcceptedSet(w)>>)
    BY <1>1, <2>4, <2>6, OnceBoth
  <2>7. "accepted" \in Value
    BY DEF Value
  <2> QED BY <1>1, <1>4, <1>6, <2>2, <2>3, <2>5, <2>6, <2>7
<1> QED BY <1>1, <1>7, <1>8, <1>9 DEF EffectRecord

\* One object changes, when nothing is on its way, and the values s are to be set on it.
LEMMA OnceChanged ==
  ASSUME TypeOK, ObjectsOnce, Settled, pc = "apply", pc' = pc, NEW id \in ID, NEW n \in Object, NEW u, NEW v, NEW s,
         u = upd[id][n], ObjectOnce(v, s),
         v.state \in Provisional => u.state \in Provisional /\ s = <<>> /\ v.accepted = u.accepted,
         upd' = [upd EXCEPT ![id][n] = v], sets' = [sets EXCEPT ![id][n] = s]
  PROVE  ObjectsOnce' /\ KeepsUnset
<1>1. ASSUME NEW i \in ID, NEW m \in Object PROVE upd'[i][m] = IF i = id /\ m = n THEN v ELSE upd[i][m]
  <2>1. upd \in Objects
    BY DEF TypeOK, Objects
  <2> QED BY <2>1 DEF Objects
<1>2. ASSUME NEW i \in ID, NEW m \in Object PROVE sets'[i][m] = IF i = id /\ m = n THEN s ELSE sets[i][m]
  <2>1. sets \in SetQueues
    BY DEF TypeOK, SetQueues
  <2> QED BY <2>1 DEF SetQueues
<1>3. ObjectsOnce'
  BY <1>1, <1>2 DEF ObjectsOnce
<1>4. ASSUME NEW i \in ID, NEW m \in Object, upd'[i][m].state \in Provisional
      PROVE  /\ upd[i][m].state \in Provisional
             /\ Unset(upd[i][m], sets[i][m], "accepted") => Unset(upd'[i][m], sets'[i][m], "accepted")
  <2>1. CASE i = id /\ m = n
    <3>1. upd'[i][m] = v /\ sets'[i][m] = s /\ upd[i][m] = u /\ sets[i][m] = <<>>
      BY <1>1, <1>2, <2>1 DEF Settled
    <3> QED BY <1>4, <3>1 DEF Unset
  <2>2. CASE ~(i = id /\ m = n)
    BY <1>1, <1>2, <1>4, <2>2
  <2> QED BY <2>1, <2>2
<1> QED BY <1>3, <1>4 DEF KeepsUnset

LEMMA OnceApply ==
  ASSUME TypeOK, OnceInv, ApplyEffect
  PROVE  OnceInv'
<1> DEFINE h == Head(effects)
<1>1. /\ pc = "apply" /\ pc' = pc /\ effects # <<>> /\ Settled /\ effects' = Tail(effects)
      /\ ObjectsOnce /\ upd \in Objects
  BY DEF ApplyEffect, OnceInv, TypeOK, Objects
<1>2. /\ h.id \in ID /\ h.n \in Object
      /\ Len(effects) \in Nat \ {0} /\ Len(effects') = Len(effects) - 1
      /\ \A i \in 1..Len(effects) - 1 : effects'[i] = effects[i + 1]
  BY <1>1, HeadEffect
<1>3. \/ upd' = upd /\ sets' = sets
      \/ /\ Effective(h, upd[h.id][h.n].state)
         /\ upd' = [upd EXCEPT ![h.id][h.n].state = Committed(h, upd[h.id][h.n].state)]
         /\ sets' = [sets EXCEPT ![h.id][h.n] = CommitSets(h, upd[h.id][h.n].state)]
  BY DEF ApplyEffect
<1> HIDE DEF h
<1>4. ObjectsOnce' /\ KeepsUnset
  <2>1. CASE upd' = upd /\ sets' = sets
    BY <1>1, <2>1 DEF ObjectsOnce, KeepsUnset
  <2>2. ASSUME NEW e, e = Head(effects), NEW u, u = upd[e.id][e.n], Effective(e, u.state),
               NEW v, v = [u EXCEPT !.state = Committed(e, u.state)],
               upd' = [upd EXCEPT ![e.id][e.n] = v], sets' = [sets EXCEPT ![e.id][e.n] = CommitSets(e, u.state)]
        PROVE  ObjectsOnce' /\ KeepsUnset
    <3>1. CommittedOnce(e, u, v)
      BY <1>1, <2>2, OnceCommitted
    <3>2. /\ ObjectOnce(v, CommitSets(e, u.state))
          /\ v.state \in Provisional =>
                u.state \in Provisional /\ CommitSets(e, u.state) = <<>> /\ v.accepted = u.accepted
      BY <3>1 DEF CommittedOnce
    <3>3. e.id \in ID /\ e.n \in Object
      BY <1>2, <2>2 DEF h
    <3> QED BY <1>1, <2>2, <3>2, <3>3, OnceChanged
  <2>3. CASE /\ Effective(h, upd[h.id][h.n].state)
             /\ upd' = [upd EXCEPT ![h.id][h.n].state = Committed(h, upd[h.id][h.n].state)]
             /\ sets' = [sets EXCEPT ![h.id][h.n] = CommitSets(h, upd[h.id][h.n].state)]
    <3> DEFINE u == upd[h.id][h.n]
               v == [u EXCEPT !.state = Committed(h, u.state)]
    <3>1. [upd EXCEPT ![h.id][h.n].state = Committed(h, u.state)] = [upd EXCEPT ![h.id][h.n] = v]
      BY <1>1, <1>2 DEF Objects
    <3>2. h = Head(effects)
      BY DEF h
    <3>3. /\ u = upd[h.id][h.n] /\ v = [u EXCEPT !.state = Committed(h, u.state)] /\ Effective(h, u.state)
          /\ upd' = [upd EXCEPT ![h.id][h.n] = v] /\ sets' = [sets EXCEPT ![h.id][h.n] = CommitSets(h, u.state)]
      BY <2>3, <3>1
    <3> HIDE DEF u, v
    <3> QED BY <2>2, <3>2, <3>3
  <2> QED BY <1>3, <2>1, <2>3
<1>5. \A i \in 1..Len(effects') : \E j \in 1..Len(effects) : effects'[i] = effects[j]
  <2>1. ASSUME NEW i \in 1..Len(effects') PROVE i + 1 \in 1..Len(effects) /\ effects'[i] = effects[i + 1]
    BY <1>2
  <2> QED BY <2>1
<1> QED BY <1>1, <1>4, <1>5, OncePart

LEMMA OnceFinishTask ==
  ASSUME TypeInv, OnceInv, FinishTask
  PROVE  OnceInv'
<1>1. TypeOK /\ Settled /\ effects' = <<>> /\ pc' = "idle"
  BY DEF TypeInv, FinishTask
<1>2. CASE \E reason \in Reasons : upd' = AbortAll(upd, reason) /\ sets' = AllAbortSets(upd, reason)
  BY <1>1, <1>2, OnceAborted
<1>3. CASE UNCHANGED <<upd, sets>>
  BY <1>1, <1>3, OnceQuiet DEF OnceInv, ObjectsOnce
<1>4. CASE upd' = Sent(upd) /\ sets' = sets
  BY <1>1, <1>4, OnceSent
<1>5. CASE ClearTo(db)
  BY <1>1, <1>5, OnceCleared
<1>6. (IF task.newRun THEN "WorkflowContinuing" ELSE "WorkflowCompleted") \in Reasons
  BY DEF Reasons
<1> QED BY <1>2, <1>3, <1>4, <1>5, <1>6 DEF FinishTask

\* The effect that is cancelled first, and those that are left.
LEMMA LastEffect ==
  ASSUME TypeOK, effects # <<>>, effects' = SubSeq(effects, 1, Len(effects) - 1)
  PROVE  /\ Len(effects) \in Nat \ {0} /\ effects[Len(effects)] \in EffectRecord
         /\ Len(effects') = Len(effects) - 1
         /\ \A i \in 1..(Len(effects) - 1) : effects'[i] = effects[i]
<1>1. effects \in Seq(EffectRecord) /\ Len(effects) \in Nat \ {0}
  BY EmptySeq DEF TypeOK
<1>2. \A i \in 1..(Len(effects) - 1) : effects[i] \in EffectRecord
  BY <1>1
<1>3. ASSUME NEW k \in Nat, \A i \in 1..k : effects[i] \in EffectRecord
      PROVE  /\ Len(SubSeq(effects, 1, k)) = k
             /\ \A i \in 1..k : SubSeq(effects, 1, k)[i] = effects[i]
  <2>1. /\ Len(SubSeq(effects, 1, k)) = IF 1 <= k THEN k - 1 + 1 ELSE 0
        /\ \A i \in 1..(k - 1 + 1) : SubSeq(effects, 1, k)[i] = effects[1 + i - 1]
    <3>1. 1 \in Int /\ k \in Int
      OBVIOUS
    <3> QED BY <1>3, <3>1, SubSeqProperties
  <2> QED BY <2>1
<1>4. Len(effects) - 1 \in Nat /\ effects[Len(effects)] \in EffectRecord
  BY <1>1
<1> QED BY <1>1, <1>2, <1>3, <1>4

\* An effect is rolled back: the update goes to where it was, with its futures.
LEMMA OnceCancel ==
  ASSUME TypeOK, OnceInv, CancelEffect
  PROVE  OnceInv'
<1> DEFINE e == effects[Len(effects)]
           u == upd[e.id][e.n]
           from == CASE e.kind = "accept" -> "ProvisionallyAccepted"
                     [] e.kind = "abort"  -> "ProvisionallyAborted"
                     [] OTHER             -> "ProvisionallyCompleted"
           v == [u EXCEPT !.state = e.prev, !.event = @ /\ e.kind # "accept"]
<1>1. /\ pc \in {"cancel", "fail"} /\ UNCHANGED <<pc, sets>> /\ Settled /\ effects # <<>>
      /\ effects' = SubSeq(effects, 1, Len(effects) - 1) /\ upd \in Objects
  BY DEF CancelEffect, TypeOK, Objects
<1>2. /\ Len(effects) \in Nat \ {0} /\ e \in EffectRecord /\ Len(effects') = Len(effects) - 1
      /\ \A i \in 1..(Len(effects) - 1) : effects'[i] = effects[i]
  BY <1>1, LastEffect
<1>3. e.id \in ID /\ e.n \in Object /\ u \in UpdateObject /\ e.prev \in States
  BY <1>1, <1>2 DEF EffectRecord, Objects
<1>4. upd' = IF u.state = from
             THEN [upd EXCEPT ![e.id][e.n].state = e.prev, ![e.id][e.n].event = @ /\ e.kind # "accept"]
             ELSE upd
  BY DEF CancelEffect
<1>5. EffectOnce(e) /\ ObjectOnce(u, <<>>)
  BY <1>1, <1>2, <1>3 DEF OnceInv, EffectsOnce, ObjectsOnce, Settled
<1>6. from \in Provisional /\ from \in Live
  BY DEF Provisional, Live
<1>7. v \in UpdateObject /\ v.state = e.prev /\ v.accepted = u.accepted /\ v.outcome = u.outcome
  BY <1>3 DEF UpdateObject
<1> HIDE DEF from
<1>8. ASSUME u.state = from
      PROVE  ObjectOnce(v, <<>>) /\ (Unset(u, <<>>, "accepted") => Unset(v, <<>>, "accepted"))
  <2>1. e.prev \in Unaccepted => Unset(u, <<>>, "accepted")
    <3>1. sets[e.id][e.n] = <<>>
      BY <1>1, <1>3 DEF Settled
    <3> QED BY <1>5, <1>6, <1>8, <3>1 DEF EffectOnce
  <2>2. <<>> \in Seq(SetRecord)
    OBVIOUS
  <2> HIDE DEF v, u, e
  <2> QED BY <1>3, <1>5, <1>6, <1>7, <1>8, <2>1, <2>2, OnceState
<1>9. ASSUME NEW id \in ID, NEW n \in Object
      PROVE  \/ upd'[id][n] = upd[id][n]
             \/ u.state = from /\ upd[id][n] = u /\ upd'[id][n] = v
  <2>1. CASE id = e.id /\ n = e.n /\ u.state = from
    <3>1. upd' = [upd EXCEPT ![e.id][e.n].state = e.prev, ![e.id][e.n].event = @ /\ e.kind # "accept"]
      BY <1>4, <2>1
    <3> HIDE DEF e
    <3>2. upd'[id][n] = v
      BY <1>1, <1>3, <2>1, <3>1 DEF Objects
    <3> QED BY <2>1, <3>2
  <2>2. CASE ~(id = e.id /\ n = e.n /\ u.state = from)
    <3> HIDE DEF e
    <3> QED BY <1>1, <1>3, <1>4, <2>2 DEF Objects
  <2> QED BY <2>1, <2>2
<1> HIDE DEF e, u, v
<1>10. ASSUME NEW id \in ID, NEW n \in Object
       PROVE  /\ sets[id][n] = <<>> /\ sets'[id][n] = <<>> /\ ObjectOnce(upd[id][n], <<>>)
              /\ ObjectOnce(upd'[id][n], <<>>)
  <2>1. sets[id][n] = <<>> /\ sets'[id][n] = <<>> /\ ObjectOnce(upd[id][n], <<>>)
    BY <1>1 DEF Settled, OnceInv, ObjectsOnce
  <2> QED BY <1>8, <1>9, <2>1
<1>11. ObjectsOnce'
  BY <1>10 DEF ObjectsOnce
<1>12. KeepsUnset
  <2>1. ASSUME NEW id \in ID, NEW n \in Object, upd'[id][n].state \in Provisional
        PROVE  /\ upd[id][n].state \in Provisional
               /\ Unset(upd[id][n], <<>>, "accepted") => Unset(upd'[id][n], <<>>, "accepted")
    BY <1>6, <1>8, <1>9, <2>1
  <2> QED BY <1>1, <1>10, <2>1 DEF KeepsUnset
<1>13. \A i \in 1..Len(effects') : \E j \in 1..Len(effects) : effects'[i] = effects[j]
  <2>1. ASSUME NEW i \in 1..Len(effects') PROVE i \in 1..Len(effects) /\ effects'[i] = effects[i]
    BY <1>2
  <2> QED BY <2>1
<1> QED BY <1>1, <1>11, <1>12, <1>13, OncePart

\* The task is failed: what a failure has set on an object, the clearing does not set again.
LEMMA OnceFail ==
  ASSUME TypeOK, OnceInv, FailWorkflowTask
  PROVE  OnceInv'
<1> DEFINE u == AbortAll(upd, "WorkflowTaskFailed")
           first == AllAbortSets(upd, "WorkflowTaskFailed")
           w == AbortAll(u, "RegistryCleared")
           second == AllAbortSets(u, "RegistryCleared")
           both == [id \in ID |-> [n \in Object |-> first[id][n] \o second[id][n]]]
<1>1. Settled /\ effects' = <<>> /\ pc' = "idle" /\ upd \in Objects
  BY DEF FailWorkflowTask, TypeOK, Objects
<1>2. "WorkflowTaskFailed" \in Reasons /\ "RegistryCleared" \in Reasons
  BY DEF Reasons
<1>3. u \in Objects /\ first \in SetQueues
  BY <1>1, <1>2, AbortAllType
<1>4. \A id \in ID : \A n \in Object : ObjectOnce(upd[id][n], <<>>)
  BY <1>1 DEF OnceInv, ObjectsOnce, Settled
<1>5. upd' = Remaining(w) /\ sets' = RemainingSets(both)
  BY DEF FailWorkflowTask
<1>6. ASSUME NEW id \in ID, NEW n \in Object
      PROVE  /\ ObjectOnce(u[id][n], first[id][n])
             /\ (u[id][n] = upd[id][n] /\ first[id][n] = <<>>) \/ u[id][n].state = "Aborted"
  BY <1>1, <1>2, <1>4, OnceAbortAll
<1> HIDE DEF u, first
<1>7. w \in Objects /\ second \in SetQueues
  BY <1>2, <1>3, AbortAllType
<1>8. ASSUME NEW id \in ID, NEW n \in Object, u[id][n].state = "Aborted"
      PROVE  w[id][n] = u[id][n] /\ second[id][n] = <<>>
  BY <1>8 DEF AbortAll, AllAbortSets, Aborted, AbortSets, FailureError
<1>9. ASSUME NEW id \in ID, NEW n \in Object, u[id][n] = upd[id][n]
      PROVE  /\ ObjectOnce(w[id][n], second[id][n])
             /\ (w[id][n] = upd[id][n] /\ second[id][n] = <<>>) \/ w[id][n].state = "Aborted"
  <2>1. upd[id][n] \in UpdateObject /\ ObjectOnce(upd[id][n], <<>>)
    BY <1>1, <1>4 DEF Objects
  <2>2. CASE reg[id] = n
    <3>1. /\ w[id][n] = Aborted(upd[id][n], "RegistryCleared")
          /\ second[id][n] = AbortSets(upd[id][n], "RegistryCleared")
      BY <1>9, <2>2 DEF AbortAll, AllAbortSets
    <3> QED BY <1>2, <2>1, <3>1, OnceAbort
  <2>3. CASE reg[id] # n
    <3>1. w[id][n] = upd[id][n] /\ second[id][n] = <<>>
      BY <1>9, <2>3 DEF AbortAll, AllAbortSets
    <3> QED BY <2>1, <3>1
  <2> QED BY <2>2, <2>3
<1> HIDE DEF w, second
<1>10. ASSUME NEW id \in ID, NEW n \in Object
       PROVE  /\ ObjectOnce(w[id][n], first[id][n] \o second[id][n])
              /\ first[id][n] \o second[id][n] \in Seq(SetRecord)
              /\ \/ w[id][n] = upd[id][n] /\ first[id][n] \o second[id][n] = <<>>
                 \/ w[id][n].state = "Aborted"
  <2>1. first[id][n] \in Seq(SetRecord) /\ second[id][n] \in Seq(SetRecord)
    BY <1>3, <1>7 DEF SetQueues
  <2>2. CASE u[id][n].state = "Aborted"
    <3>1. w[id][n] = u[id][n] /\ second[id][n] = <<>> /\ first[id][n] \o <<>> = first[id][n]
      BY <1>8, <2>1, <2>2
    <3> QED BY <1>6, <2>1, <2>2, <3>1
  <2>3. CASE u[id][n].state # "Aborted"
    <3>1. u[id][n] = upd[id][n] /\ first[id][n] = <<>> /\ <<>> \o second[id][n] = second[id][n]
      BY <1>6, <2>1, <2>3
    <3> QED BY <1>9, <2>1, <3>1
  <2> QED BY <2>2, <2>3
<1>11. both \in SetQueues
  BY <1>10 DEF SetQueues
<1>12. \A id \in ID : \A n \in Object :
          /\ ObjectOnce(w[id][n], both[id][n])
          /\ (w[id][n] = upd[id][n] /\ both[id][n] = <<>>) \/ w[id][n].state = "Aborted"
  BY <1>10
<1> HIDE DEF both
<1>13. ObjectsOnce'
  BY <1>5, <1>7, <1>11, <1>12, OnceRemaining
<1> QED BY <1>1, <1>13, OnceQuiet

LEMMA OnceWorker ==
  ASSUME TypeInv, OnceInv, WorkerStep
  PROVE  OnceInv'
<1>1. TypeOK
  BY DEF TypeInv
<1>2. ASSUME NEW discard, RespondWorkflowTaskCompleted(discard) PROVE OnceInv'
  BY <1>2, OnceQuiet DEF RespondWorkflowTaskCompleted, Idle, OnceInv, ObjectsOnce, Settled
<1>3. ASSUME NEW newRun, HandleCloseCommand(newRun) PROVE OnceInv'
  BY <1>1, <1>3, OnceSame DEF HandleCloseCommand
<1>4. CASE HandleBadCommand
  BY <1>1, <1>4, OnceSame DEF HandleBadCommand
<1>5. ASSUME NEW id \in ID,
             \/ HandleMessage(id, "accept", "none") \/ HandleMessage(id, "reject", "none")
             \/ \E o \in Outcome : HandleMessage(id, "respond", o)
      PROVE  OnceInv'
  BY <1>1, <1>5, OnceHandleMessage
<1> QED BY <1>1, <1>2, <1>3, <1>4, <1>5, OnceFinishMessages DEF WorkerStep

LEMMA OnceHandler ==
  ASSUME TypeInv, OnceInv, HandlerStep
  PROVE  OnceInv'
<1>1. TypeOK
  BY DEF TypeInv
<1>2. CASE ReturnError
  <2>1. CASE ClearTo(db)
    BY <1>1, <1>2, <2>1, OnceCleared DEF ReturnError
  <2>2. CASE UNCHANGED <<upd, sets>>
    BY <1>2, <2>2, OnceQuiet DEF ReturnError, OnceInv, ObjectsOnce
  <2> QED BY <1>2, <2>1, <2>2 DEF ReturnError
<1> QED
  BY <1>1, <1>2, OncePersist, OnceApply, OnceFinishTask, OnceCancel, OnceFail, OnceSetFuture DEF HandlerStep

\* No step sets a future that is set: a second value for a future of an update would make the
\* process panic.
THEOREM SetOnce == Spec => []FuturesSetOnce
<1>1. Init => OnceInv
  <2> SUFFICES ASSUME Init PROVE OnceInv
    OBVIOUS
  <2>1. ObjectsOnce /\ effects = <<>> /\ pc = "idle"
    BY OnceUnused DEF Init, ObjectsOnce
  <2> QED BY <2>1 DEF OnceInv, EffectsOnce
<1>2. TypeInv /\ OnceInv /\ [Next]_vars => OnceInv'
  <2> SUFFICES ASSUME TypeInv, OnceInv, [Next]_vars PROVE OnceInv'
    OBVIOUS
  <2>1. CASE UNCHANGED vars
    BY <2>1, OnceSame DEF vars, TypeInv
  <2> QED BY <2>1, OnceClient, OnceWorker, OnceHandler, OnceServer DEF Next
<1>3. Init => TypeInv
  BY TypeInit, UnloadedInit DEF TypeInv
<1>4. TypeOK /\ OnceInv => FuturesSetOnce
  <2> SUFFICES ASSUME TypeOK, OnceInv, NEW id \in ID, NEW n \in Object, NEW i \in DOMAIN sets[id][n]
               PROVE  /\ upd[id][n][sets[id][n][i].future] = "pending"
                      /\ \A j \in DOMAIN sets[id][n] : sets[id][n][i].future = sets[id][n][j].future => i = j
    BY DEF FuturesSetOnce
  <2>1. DOMAIN sets[id][n] = 1..Len(sets[id][n])
    BY DEF TypeOK
  <2> QED BY <2>1 DEF OnceInv, ObjectsOnce, ObjectOnce
<1> QED BY <1>1, <1>2, <1>3, <1>4, TypeNext, PTL DEF Spec, TypeInv

-----------------------------------------------------------------------------
(* The registry and the store                                              *)

\* An object u that is registered, when the mutable state says info of its update and running of
\* the run; respond: an effect that completes it is buffered, idle: no handler is at work.
Entry(u, info, running, respond, idle) ==
    /\ u.state \notin {"Unused", "Completed"}
    /\ u.state \in {"Admitted", "Sent"} => ~u.event
    /\ u.state \in {"ProvisionallyAccepted", "Accepted"} => u.event
    /\ u.state = "ProvisionallyCompleted" => (u.event <=> info \in Outcome)
    /\ info \in Outcome =>
          u.event /\ respond /\ u.state \in {"ProvisionallyCompleted", "ProvisionallyCompletedAfterAccepted"}
    /\ running => u.state \notin {"Aborted", "ProvisionallyAborted"}
    /\ idle /\ ~running => u.state = "Aborted" \/ (u.state = "Admitted" /\ info = "admitted")
EntryInv(id) ==
    IF reg[id] = 0 THEN ms.info[id] # "accepted"
    ELSE Entry(Update(id), ms.info[id], ms.running, Remains(id, {"respond"}), pc = "idle")
Counted == {id \in ID : ms.info[id] \in Outcome /\ reg[id] = 0}
Registering == loaded /\ pc \in {"idle", "messages", "persist", "apply"}
RegInv == Registering => (\A id \in ID : EntryInv(id)) /\ completedCount = Cardinality(Counted)

LEMMA RegGone ==
  ASSUME ~Registering'
  PROVE  RegInv'
  BY DEF RegInv

\* A step that completes no update, and takes none out of the registry.
LEMMA RegStep ==
  ASSUME RegInv, Registering, UNCHANGED completedCount,
         \A id \in ID : EntryInv(id)' /\ (ms'.info[id] \in Outcome /\ reg'[id] = 0 <=> ms.info[id] \in Outcome /\ reg[id] = 0)
  PROVE  RegInv'
<1>1. Counted' = Counted
  BY DEF Counted
<1> QED BY <1>1 DEF RegInv

\* An update that a step leaves alone.
LEMMA EntryKept ==
  ASSUME NEW id \in ID, EntryInv(id), reg'[id] = reg[id], ms'.info[id] = ms.info[id],
         ms'.running => ms.running, pc' = "idle" /\ ~ms'.running => pc = "idle" /\ ~ms.running,
         reg[id] # 0 => Update(id)'.state = Update(id).state /\ Update(id)'.event = Update(id).event,
         Remains(id, {"respond"}) => Remains(id, {"respond"})'
  PROVE  EntryInv(id)'
<1>1. CASE reg[id] = 0
  BY <1>1 DEF EntryInv
<1>2. CASE reg[id] # 0
  BY <1>2 DEF EntryInv, Entry
<1> QED BY <1>1, <1>2

LEMMA RegSame ==
  ASSUME RegInv, UNCHANGED <<loaded, completedCount, reg, effects>>, SameUpdates(ms, ms'), Registering' => Registering,
         pc' = "idle" /\ ~ms.running => pc = "idle",
         \A id \in ID : reg[id] # 0 => Update(id)'.state = Update(id).state /\ Update(id)'.event = Update(id).event
  PROVE  RegInv'
<1>1. CASE Registering /\ Registering'
  <2>1. ASSUME NEW id \in ID PROVE EntryInv(id)'
    <3>1. EntryInv(id) /\ ms'.info[id] = ms.info[id] /\ ms'.running = ms.running
      BY <1>1 DEF RegInv, SameUpdates
    <3>2. Remains(id, {"respond"})' <=> Remains(id, {"respond"})
      BY DEF Remains
    <3> QED BY <3>1, <3>2, EntryKept
  <2> QED BY <1>1, <2>1, RegStep DEF SameUpdates
<1> QED BY <1>1, RegGone

\* The objects that a client or the code that sets futures works on.
LEMMA RegQuiet ==
  ASSUME TypeOK, RegInv, UNCHANGED <<loaded, completedCount, reg, effects, ms, pc>>,
         \A id \in ID : \A n \in Object :
            reg[id] = n => upd'[id][n].state = upd[id][n].state /\ upd'[id][n].event = upd[id][n].event
  PROVE  RegInv'
<1>1. \A id \in ID : reg[id] # 0 => Update(id)'.state = Update(id).state /\ Update(id)'.event = Update(id).event
  BY RegisteredState DEF Update
<1> QED BY <1>1, RegSame DEF SameUpdates, Registering

\* A new object, of an update that the store says nothing of.
LEMMA NewEntry ==
  ASSUME NEW info, info \notin Outcome, NEW running, NEW respond, NEW idle, idle => running
  PROVE  Entry(NewAdmitted, info, running, respond, idle)
  BY NewObjects DEF Entry, NewAdmitted, Unused

LEMMA RegRequest ==
  ASSUME TypeOK, RegInv, NEW c \in Client, NEW id \in ID, NEW stage, UpdateWorkflowExecution(c, id, stage)
  PROVE  RegInv'
<1>1. Registering /\ pc = "idle"
  BY DEF UpdateWorkflowExecution, Registering, Idle
<1>2. CASE UNCHANGED <<ms, registry, upd, handler>>
  BY <1>2, RegQuiet
<1>3. CASE ClearTo(db)
  BY <1>3, RegGone DEF ClearTo, Registering
<1>4. CASE /\ reg[id] = 0 /\ ms.info[id] = "none" /\ ms.running
           /\ reg' = [reg EXCEPT ![id] = Fresh(id)]
           /\ upd' = [upd EXCEPT ![id][Fresh(id)] = NewAdmitted]
           /\ ms' = IF ms.wft = "none" THEN [ms EXCEPT !.wft = "scheduled", !.speculative = TRUE] ELSE ms
           /\ UNCHANGED <<loaded, completedCount, handler>>
  <2>1. Fresh(id) \in Object /\ Fresh(id) # 0 /\ upd \in Objects /\ reg \in [ID -> Object \cup {0}]
    BY <1>4, FreshIsFree DEF TypeOK, Objects, Object
  <2>2. ms'.running = ms.running /\ ms'.info = ms.info
    BY <1>4 DEF TypeOK, Run
  <2>3. ASSUME NEW i \in ID PROVE EntryInv(i)'
    <3>1. CASE i = id
      <4>1. Update(i)' = NewAdmitted /\ reg'[i] # 0
        BY <1>4, <2>1, <3>1 DEF Update, Objects
      <4>2. ms'.info[i] \notin Outcome /\ ms'.running
        BY <1>4, <2>2, <3>1, Kinds
      <4>3. Entry(NewAdmitted, ms'.info[i], ms'.running, Remains(i, {"respond"})', pc' = "idle")
        BY <4>2, NewEntry
      <4>4. Entry(Update(i)', ms'.info[i], ms'.running, Remains(i, {"respond"})', pc' = "idle")
        BY <4>1, <4>3
      <4> QED BY <4>1, <4>4 DEF EntryInv, Entry
    <3>2. CASE i # id
      <4>1. reg'[i] = reg[i] /\ (reg[i] # 0 => Update(i)' = Update(i))
        BY <1>4, <2>1, <3>2 DEF Update, Objects
      <4>2. Remains(i, {"respond"})' <=> Remains(i, {"respond"})
        BY <1>4 DEF Remains
      <4>3. EntryInv(i)
        BY <1>1 DEF RegInv
      <4> QED BY <1>1, <1>4, <2>2, <4>1, <4>2, <4>3, EntryKept
    <3> QED BY <3>1, <3>2
  <2>4. \A i \in ID : ms'.info[i] \in Outcome /\ reg'[i] = 0 <=> ms.info[i] \in Outcome /\ reg[i] = 0
    BY <1>4, <2>1, <2>2, Kinds
  <2> QED BY <1>1, <1>4, <2>3, <2>4, RegStep
<1> QED BY <1>2, <1>3, <1>4 DEF UpdateWorkflowExecution, AnswerFromStore

LEMMA RegClient ==
  ASSUME TypeOK, RegInv, ClientStep
  PROVE  RegInv'
<1>1. ASSUME NEW c \in Client,
             WaitLifecycleStage(c) \/ OutcomeReady(c) \/ AcceptedReady(c) \/ WaitTimedOut(c)
      PROVE  RegInv'
  <2>1. CASE \E where \in {"outcome", "accepted"} : Goto(c, where)
    BY <2>1, RegQuiet DEF Goto
  <2>2. ASSUME NEW answer, Return(c, answer), call[c].pc # "idle"
        PROVE  RegInv'
    <3>1. UNCHANGED <<ms, registry, handler>>
      BY <2>2 DEF Return
    <3>2. call[c].id \in ID /\ call[c].n \in Object /\ upd \in Objects
      BY <2>2, AwaitedType DEF TypeOK, Objects
    <3>3. upd' = upd \/ (reg[call[c].id] # call[c].n /\ upd' = [upd EXCEPT ![call[c].id][call[c].n] = Unused])
      BY <2>2 DEF Return
    <3>4. \A id \in ID : \A n \in Object : reg[id] = n => upd'[id][n] = upd[id][n]
      BY <3>2, <3>3 DEF Objects
    <3> QED BY <3>1, <3>4, RegQuiet
  <2> QED BY <1>1, <2>1, <2>2, WaitSteps
<1>2. ASSUME NEW c \in Client, NEW id \in ID, NEW stage \in Stages, PollWorkflowExecutionUpdate(c, id, stage)
      PROVE  RegInv'
  BY <1>2, RegQuiet DEF PollWorkflowExecutionUpdate, AnswerFromStore
<1> QED BY <1>1, <1>2, RegRequest DEF ClientStep

LEMMA RegSetFuture ==
  ASSUME TypeOK, RegInv, NEW id \in ID, NEW n \in Object, SetFuture(id, n)
  PROVE  RegInv'
<1>1. upd \in Objects /\ UNCHANGED <<ms, registry, handler>>
  BY DEF TypeOK, Objects, SetFuture
<1>2. PICK v : \/ upd' = [upd EXCEPT ![id][n] = [@ EXCEPT !.outcome = v]]
               \/ upd' = [upd EXCEPT ![id][n] = [@ EXCEPT !.accepted = v]]
  BY DEF SetFuture
<1>3. \A i \in ID : \A m \in Object :
         upd'[i][m].state = upd[i][m].state /\ upd'[i][m].event = upd[i][m].event
  <2> SUFFICES ASSUME NEW i \in ID, NEW m \in Object
               PROVE  upd'[i][m].state = upd[i][m].state /\ upd'[i][m].event = upd[i][m].event
    OBVIOUS
  <2>1. upd[i][m] \in UpdateObject
    BY <1>1 DEF Objects
  <2>2. \/ upd'[i][m] = upd[i][m]
        \/ upd'[i][m] = [upd[i][m] EXCEPT !.outcome = v]
        \/ upd'[i][m] = [upd[i][m] EXCEPT !.accepted = v]
    BY <1>1, <1>2 DEF Objects
  <2> QED BY <2>1, <2>2 DEF UpdateObject
<1> QED BY <1>1, <1>3, RegQuiet

\* The updates that are sent to the worker, while the run goes on.
LEMMA RegSent ==
  ASSUME TypeOK, RegInv, Registering, ms.running, upd' = Sent(upd), UNCHANGED <<registry, effects>>,
         SameUpdates(ms, ms')
  PROVE  RegInv'
<1>1. ASSUME NEW id \in ID PROVE EntryInv(id)'
  <2>1. EntryInv(id) /\ ms'.info[id] = ms.info[id] /\ ms'.running
    BY DEF RegInv, SameUpdates
  <2>2. CASE reg[id] = 0
    BY <2>1, <2>2 DEF EntryInv
  <2>3. CASE reg[id] # 0
    <3>1. Update(id) \in UpdateObject /\ reg[id] \in Object
      BY <2>3, RegisteredState
    <3>2. Update(id)' = IF Update(id).state = "Admitted" THEN [Update(id) EXCEPT !.state = "Sent"] ELSE Update(id)
      BY <3>1 DEF Sent, Update
    <3>3. CASE Update(id)' = Update(id)
      BY <2>1, <3>3, EntryKept DEF Remains
    <3>4. CASE Update(id).state = "Admitted" /\ Update(id)' = [Update(id) EXCEPT !.state = "Sent"]
      <4>1. Update(id)'.state = "Sent" /\ Update(id)'.event = Update(id).event
        BY <3>1, <3>4 DEF UpdateObject
      <4>2. ~Update(id).event /\ ms.info[id] \notin Outcome
        BY <2>1, <2>3, <3>4 DEF EntryInv, Entry
      <4> QED BY <2>1, <2>3, <4>1, <4>2 DEF EntryInv, Entry
    <3> QED BY <3>2, <3>3, <3>4
  <2> QED BY <2>2, <2>3
<1> QED BY <1>1, RegStep DEF SameUpdates

\* The run is closed: the updates that are left are aborted.
LEMMA RegAborted ==
  ASSUME TypeOK, RegInv, RegisteredInv, Registering, pc \in {"idle", "apply"}, effects = <<>>,
         NEW reason \in {"WorkflowCompleted", "WorkflowContinuing"}, upd' = AbortAll(upd, reason),
         UNCHANGED <<registry, effects>>, ms'.info = ms.info, ~ms'.running
  PROVE  RegInv'
<1>1. ASSUME NEW id \in ID PROVE EntryInv(id)'
  <2>1. EntryInv(id)
    BY DEF RegInv
  <2>2. CASE reg[id] = 0
    BY <2>1, <2>2 DEF EntryInv
  <2>3. CASE reg[id] # 0
    <3>1. Update(id) \in UpdateObject /\ reg[id] \in Object
      BY <2>3, RegisteredState
    <3>2. Update(id).state \in {"Admitted", "Sent", "Accepted", "Aborted"}
      BY <2>1, <2>3, SettledStates DEF EntryInv, Entry
    <3>3. Update(id)' = Aborted(Update(id), reason)
      BY <3>1 DEF AbortAll, Update
    <3>4. Update(id)'.state = "Aborted"
      BY <3>1, <3>2, <3>3 DEF Aborted, FailureError, UpdateObject
    <3>5. ms.info[id] \notin Outcome
      BY <2>1, <2>3, <3>2 DEF EntryInv, Entry
    <3> QED BY <2>3, <3>4, <3>5 DEF EntryInv, Entry
  <2> QED BY <2>2, <2>3
<1> QED BY <1>1, RegStep

LEMMA RegFinishTask ==
  ASSUME TypeInv, RegInv, RegisteredInv, FinishTask
  PROVE  RegInv'
<1>1. TypeOK /\ Registering /\ pc = "apply" /\ effects = <<>> /\ UNCHANGED effects
  BY DEF TypeInv, Unloaded, Registering, FinishTask
<1>2. CASE /\ ~ms.running /\ UNCHANGED <<ms, registry>>
           /\ \E reason \in {"WorkflowCompleted", "WorkflowContinuing"} : upd' = AbortAll(upd, reason)
  BY <1>1, <1>2, RegAborted
<1>3. CASE ms.running /\ UNCHANGED <<ms, registry, upd>>
  BY <1>1, <1>3, RegSame DEF SameUpdates, Update, Registering
<1>4. CASE /\ ms.running /\ upd' = Sent(upd) /\ UNCHANGED registry
           /\ ms' = IF task.next = "started" THEN ms ELSE [ms EXCEPT !.wft = "started", !.speculative = TRUE]
  <2>1. SameUpdates(ms, ms')
    BY <1>1, <1>4 DEF TypeOK, Run, SameUpdates
  <2> QED BY <1>1, <1>4, <2>1, RegSent
<1>5. CASE ClearTo(db)
  BY <1>5, RegGone DEF ClearTo, Registering
<1> QED BY <1>2, <1>3, <1>4, <1>5 DEF FinishTask

LEMMA RegServer ==
  ASSUME TypeInv, StoreInv, RegInv, RegisteredInv, ServerStep
  PROVE  RegInv'
<1>0. TypeOK
  BY DEF TypeInv
<1>1. CASE LoadContext
  <2>1. ms = db /\ ms' = db /\ pc' = "idle" /\ reg' \in [ID -> Object \cup {0}] /\ upd \in Objects
    BY <1>0, <1>1, TypeLoad DEF LoadContext, StoreInv, Idle, TypeInv, TypeOK, Objects
  <2>2. \A id \in ID : reg'[id] # 0 <=> db.info[id] \in {"admitted", "accepted"}
    <3>1. \A id \in ID : Fresh(id) # 0
      BY <1>0, <1>1, FreshIsFree DEF Object, LoadContext, TypeInv, Unloaded
    <3> QED BY <1>1, <3>1 DEF LoadContext
  <2>3. Counted' = {id \in ID : db.info[id] \in Outcome}
    BY <2>1, <2>2, Kinds DEF Counted
  <2>4. ASSUME NEW id \in ID PROVE EntryInv(id)'
    <3>1. CASE reg'[id] = 0
      BY <2>1, <2>2, <3>1 DEF EntryInv
    <3>2. CASE reg'[id] # 0
      <4>1. Update(id)' = IF db.info[id] = "admitted" THEN NewAdmitted ELSE NewAccepted(db.running)
        BY <1>1, <2>1, <3>2 DEF LoadContext, Update
      <4>2. db.info[id] \in {"admitted", "accepted"} /\ db.info[id] \notin Outcome
        BY <2>2, <3>2, Kinds
      <4>3. CASE db.info[id] = "admitted"
        BY <2>1, <3>2, <4>1, <4>2, <4>3 DEF EntryInv, Entry, NewAdmitted, Unused
      <4>4. CASE db.info[id] = "accepted"
        BY <2>1, <3>2, <4>1, <4>2, <4>4 DEF EntryInv, Entry, NewAccepted
      <4> QED BY <4>2, <4>3, <4>4
    <3> QED BY <3>1, <3>2
  <2> QED BY <1>1, <2>3, <2>4 DEF RegInv, LoadContext
<1>2. CASE ClearContext \/ Crash
  BY <1>2, RegGone DEF ClearContext, ClearTo, Crash, Registering
<1>3. ASSUME NEW m, WriteFailed(m) PROVE RegInv'
  BY <1>3, RegGone DEF WriteFailed, ClearTo, Registering
<1>4. CASE RecordWorkflowTaskStarted
  <2> DEFINE m == [ms EXCEPT !.wft = "started"]
  <2>1. SameUpdates(ms, m)
    BY <1>0 DEF TypeOK, Run, SameUpdates
  <2>2. CASE ms' = m /\ upd' = Sent(upd) /\ UNCHANGED <<registry, handler>>
    BY <1>0, <1>4, <2>1, <2>2, RegSent DEF RecordWorkflowTaskStarted, Registering, Idle
  <2>3. CASE ClearTo(db)
    BY <2>3, RegGone DEF ClearTo, Registering
  <2>4. CASE WriteFailed(m)
    BY <1>3, <2>4
  <2> QED BY <1>4, <2>2, <2>3, <2>4 DEF RecordWorkflowTaskStarted, WriteOK
<1>5. CASE WorkflowTaskTimedOut
  <2> DEFINE m == [ms EXCEPT !.wft = "scheduled", !.speculative = FALSE]
  <2>1. SameUpdates(ms, m)
    BY <1>0 DEF TypeOK, Run, SameUpdates
  <2>2. CASE ms' = m /\ UNCHANGED <<registry, upd, handler>>
    BY <2>1, <2>2, RegSame DEF Registering, Update
  <2>3. CASE WriteFailed(m)
    BY <1>3, <2>3
  <2> QED BY <1>5, <2>2, <2>3 DEF WorkflowTaskTimedOut, WriteOK
<1>6. ASSUME NEW reason \in {"WorkflowCompleted", "WorkflowContinuing"}, CloseWorkflow(reason) PROVE RegInv'
  <2> DEFINE m == [ms EXCEPT !.running = FALSE, !.wft = "none", !.speculative = FALSE]
  <2>1. ~m.running /\ m.info = ms.info
    BY <1>0 DEF TypeOK, Run
  <2>2. CASE ms' = m /\ upd' = AbortAll(upd, reason) /\ UNCHANGED <<registry, handler>>
    <3>1. Registering /\ pc = "idle" /\ effects = <<>>
      BY <1>6 DEF CloseWorkflow, Registering, Idle, StoreInv
    <3> QED BY <1>0, <2>1, <2>2, <3>1, RegAborted
  <2>3. CASE WriteFailed(m)
    BY <1>3, <2>3
  <2> QED BY <1>6, <2>2, <2>3 DEF CloseWorkflow, WriteOK
<1> QED BY <1>1, <1>2, <1>4, <1>5, <1>6 DEF ServerStep

\* A message works on the object n of one update.
LEMMA RegOne ==
  ASSUME TypeOK, RegInv, Registering, pc = "messages", UNCHANGED <<pc, loaded, completedCount>>,
         NEW id \in ID, NEW n \in Object, reg' = [reg EXCEPT ![id] = n],
         reg[id] = n \/ ms.info[id] \notin Outcome,
         ms'.running = ms.running, \A i \in ID : i # id => ms'.info[i] = ms.info[i],
         \A i \in ID : i # id => \A m \in Object : upd'[i][m] = upd[i][m],
         \A i \in ID : Remains(i, {"respond"}) => Remains(i, {"respond"})',
         EntryInv(id)'
  PROVE  RegInv'
<1>1. reg \in [ID -> Object \cup {0}] /\ 0 \notin Object
  BY DEF TypeOK, Object
<1>2. ASSUME NEW i \in ID, i # id PROVE EntryInv(i)'
  <2>1. reg'[i] = reg[i] /\ (reg[i] # 0 => Update(i)' = Update(i))
    BY <1>1, <1>2 DEF Update
  <2>2. EntryInv(i)
    BY DEF RegInv
  <2> QED BY <1>2, <2>1, <2>2, EntryKept
<1>3. \A i \in ID : ms'.info[i] \in Outcome /\ reg'[i] = 0 <=> ms.info[i] \in Outcome /\ reg[i] = 0
  BY <1>1
<1> QED BY <1>2, <1>3, RegStep

\* What a message finds in the object w of an update.
MessageEntry(w, id) ==
    /\ w.state \notin {"Unused", "Completed", "ProvisionallyCompletedAfterAccepted"}
    /\ w.state \in {"Admitted", "Sent"} => ~w.event
    /\ w.state \in {"ProvisionallyAccepted", "Accepted"} => w.event
    /\ w.state = "ProvisionallyCompleted" => ms.running /\ (w.event <=> ms.info[id] \in Outcome)
    /\ ms.info[id] \in Outcome => w.event /\ Remains(id, {"respond"}) /\ w.state = "ProvisionallyCompleted"
    /\ ms.running => w.state \notin {"Aborted", "ProvisionallyAborted"}

LEMMA RegMessage ==
  ASSUME TypeOK, RegInv, Registering, pc = "messages", UNCHANGED <<loaded, completedCount>>,
         NEW id \in ID, NEW n \in Object, reg' = [reg EXCEPT ![id] = n], NEW u \in Objects,
         reg[id] = n \/ ms.info[id] \notin Outcome,
         \A i \in ID : i # id => \A m \in Object : u[i][m] = upd[i][m],
         NEW w, w = u[id][n], MessageEntry(w, id),
         NEW kind \in {"accept", "reject", "respond"}, NEW value, kind = "respond" => value \in Outcome,
         OnProtocolMessage(u, id, n, kind, value)
  PROVE  RegInv'
<1>0. /\ w.state \notin {"Unused", "Completed", "ProvisionallyCompletedAfterAccepted"}
      /\ w.state \in {"Admitted", "Sent"} => ~w.event
      /\ w.state \in {"ProvisionallyAccepted", "Accepted"} => w.event
      /\ w.state = "ProvisionallyCompleted" => ms.running /\ (w.event <=> ms.info[id] \in Outcome)
      /\ ms.info[id] \in Outcome => w.event /\ Remains(id, {"respond"}) /\ w.state = "ProvisionallyCompleted"
      /\ ms.running => w.state \notin {"Aborted", "ProvisionallyAborted"}
  BY DEF MessageEntry
<1>1. /\ w \in UpdateObject /\ reg'[id] = n /\ n # 0 /\ ms \in Run /\ effects \in Seq(EffectRecord)
      /\ w.event \in BOOLEAN
  <2>1. w \in UpdateObject
    BY DEF Objects
  <2>2. reg \in [ID -> Object \cup {0}] /\ ms \in Run /\ effects \in Seq(EffectRecord)
    BY DEF TypeOK
  <2>3. reg'[id] = n /\ n # 0
    BY <2>2 DEF Object
  <2> QED BY <2>1, <2>2, <2>3 DEF UpdateObject
\* A message that moves the update to a state, and leaves an effect.
<1>2. ASSUME NEW state \in States, NEW k, NEW v, Provisionally(u, id, n, state, k, v)
      PROVE  /\ UNCHANGED pc
             /\ Update(id)'.state = state /\ Update(id)'.event = (w.event \/ k = "accept")
             /\ \A i \in ID : i # id => \A m \in Object : upd'[i][m] = upd[i][m]
             /\ \A i \in ID : Remains(i, {"respond"}) => Remains(i, {"respond"})'
             /\ k = "respond" => Remains(id, {"respond"})'
  <2>1. upd'[id][n] = [w EXCEPT !.state = state, !.event = w.event \/ k = "accept"]
    BY <1>2 DEF Provisionally, Objects
  <2>2. Update(id)'.state = state /\ Update(id)'.event = (w.event \/ k = "accept")
    BY <1>1, <2>1 DEF Update, UpdateObject
  <2>3. \A i \in ID : i # id => \A m \in Object : upd'[i][m] = upd[i][m]
    BY <1>2 DEF Provisionally, Objects
  <2> DEFINE e == Effect(k, id, n, w.state, v)
  <2>4. effects' = Append(effects, e) /\ e.id = id /\ e.kind = k
    BY <1>2 DEF Provisionally, Effect
  <2> HIDE DEF e
  <2>5. /\ Len(effects) \in Nat /\ Len(effects') = Len(effects) + 1 /\ effects'[Len(effects) + 1] = e
        /\ \A i \in 1..Len(effects) : effects'[i] = effects[i]
    BY <1>1, <2>4
  <2>6. \A i \in ID : Remains(i, {"respond"}) => Remains(i, {"respond"})'
    BY <2>5 DEF Remains
  <2>7. k = "respond" => Remains(id, {"respond"})'
    <3>1. Len(effects) + 1 \in 1..Len(effects')
      BY <2>5
    <3> QED BY <2>4, <2>5, <3>1 DEF Remains
  <2> QED BY <1>2, <2>2, <2>3, <2>6, <2>7 DEF Provisionally
<1> DEFINE failure == FailureError("WorkflowCompleted", w.state)
<1>3. CASE pc' = "fail"
  BY <1>3, RegGone DEF Registering
<1>4. CASE upd' = u /\ UNCHANGED <<ms, effects, pc>>
  <2>1. Update(id)' = w /\ ~(pc' = "idle")
    BY <1>1, <1>4 DEF Update
  <2>2. Remains(id, {"respond"}) => Remains(id, {"respond"})'
    BY <1>4 DEF Remains
  <2>3. EntryInv(id)'
    BY <1>0, <1>1, <1>4, <2>1, <2>2 DEF EntryInv, Entry
  <2> QED BY <1>4, <2>3, RegOne DEF Remains
<1>5. CASE /\ ~ms.running /\ failure # "none" /\ UNCHANGED ms
           /\ Provisionally(u, id, n, "ProvisionallyAborted", "abort", failure)
  <2>1. "ProvisionallyAborted" \in States
    BY DEF States
  <2>2. ms.info[id] \notin Outcome
    BY <1>0, <1>5
  <2>3. /\ UNCHANGED pc /\ Update(id)'.state = "ProvisionallyAborted"
        /\ \A i \in ID : i # id => \A m \in Object : upd'[i][m] = upd[i][m]
        /\ \A i \in ID : Remains(i, {"respond"}) => Remains(i, {"respond"})'
    BY <1>2, <1>5, <2>1
  <2>4. EntryInv(id)'
    BY <1>1, <1>5, <2>2, <2>3 DEF EntryInv, Entry
  <2> QED BY <1>5, <2>3, <2>4, RegOne
<1>6. CASE /\ w.state \in {"Sent", "Admitted"} /\ kind = "accept" /\ ms.running
           /\ ms' = [ms EXCEPT !.info[id] = "accepted"]
           /\ Provisionally(u, id, n, "ProvisionallyAccepted", "accept", "accepted")
  <2>1. /\ "ProvisionallyAccepted" \in States /\ ms'.running = ms.running /\ ms'.info[id] = "accepted"
        /\ \A i \in ID : i # id => ms'.info[i] = ms.info[i]
    BY <1>1, <1>6 DEF States, Run
  <2>2. "accepted" \notin Outcome
    BY Kinds
  <2>3. /\ UNCHANGED pc /\ Update(id)'.state = "ProvisionallyAccepted" /\ Update(id)'.event
        /\ \A i \in ID : i # id => \A m \in Object : upd'[i][m] = upd[i][m]
        /\ \A i \in ID : Remains(i, {"respond"}) => Remains(i, {"respond"})'
    BY <1>2, <1>6, <2>1
  <2>4. EntryInv(id)'
    BY <1>1, <2>1, <2>2, <2>3 DEF EntryInv, Entry
  <2> QED BY <2>1, <2>3, <2>4, RegOne
<1>7. CASE /\ w.state \in {"Sent", "Admitted"} /\ kind = "reject" /\ UNCHANGED ms
           /\ Provisionally(u, id, n, "ProvisionallyCompleted", "reject", "rejected")
  <2>1. "ProvisionallyCompleted" \in States
    BY DEF States
  <2>2. ms.info[id] \notin Outcome /\ ~w.event
    BY <1>0, <1>7
  <2>3. /\ UNCHANGED pc /\ Update(id)'.state = "ProvisionallyCompleted" /\ ~Update(id)'.event
        /\ \A i \in ID : i # id => \A m \in Object : upd'[i][m] = upd[i][m]
        /\ \A i \in ID : Remains(i, {"respond"}) => Remains(i, {"respond"})'
    BY <1>2, <1>7, <2>1, <2>2
  <2>4. EntryInv(id)'
    BY <1>1, <1>7, <2>2, <2>3 DEF EntryInv, Entry
  <2> QED BY <1>7, <2>3, <2>4, RegOne
<1>8. CASE /\ w.state \in {"ProvisionallyAccepted", "Accepted"} /\ kind = "respond"
           /\ ms' = [ms EXCEPT !.info[id] = value]
           /\ Provisionally(u, id, n, "ProvisionallyCompleted", "respond", value)
  <2>1. /\ "ProvisionallyCompleted" \in States /\ ms'.running = ms.running /\ ms'.info[id] \in Outcome
        /\ \A i \in ID : i # id => ms'.info[i] = ms.info[i]
    BY <1>1, <1>8 DEF States, Run
  <2>2. /\ UNCHANGED pc /\ Update(id)'.state = "ProvisionallyCompleted" /\ Update(id)'.event
        /\ Remains(id, {"respond"})'
        /\ \A i \in ID : i # id => \A m \in Object : upd'[i][m] = upd[i][m]
        /\ \A i \in ID : Remains(i, {"respond"}) => Remains(i, {"respond"})'
    BY <1>0, <1>2, <1>8, <2>1
  <2>3. EntryInv(id)'
    BY <1>1, <2>1, <2>2 DEF EntryInv, Entry
  <2> QED BY <2>1, <2>2, <2>3, RegOne
<1> QED BY <1>3, <1>4, <1>5, <1>6, <1>7, <1>8 DEF OnProtocolMessage

LEMMA RegHandleMessage ==
  ASSUME TypeInv, StoreInv, CommitInv, RegisteredInv, RegInv, "worker" \notin Faults,
         NEW id \in ID, NEW kind \in {"accept", "reject", "respond"},
         NEW value, kind = "respond" => value \in Outcome, HandleMessage(id, kind, value)
  PROVE  RegInv'
<1>1. /\ TypeOK /\ Registering /\ pc = "messages" /\ Legal(id) /\ UNCHANGED <<loaded, completedCount>>
      /\ upd \in Objects /\ reg \in [ID -> Object \cup {0}]
  BY DEF TypeInv, TypeOK, Unloaded, Objects, HandleMessage, Registering
<1>2. CASE reg[id] # 0 /\ OnProtocolMessage(upd, id, reg[id], kind, value) /\ UNCHANGED reg
  <2> SUFFICES ASSUME NEW n, n = reg[id], NEW w, w = upd[id][n] PROVE RegInv'
    OBVIOUS
  <2>1. n \in Object /\ reg' = [reg EXCEPT ![id] = n] /\ reg[id] = n
    BY <1>1, <1>2
  <2>2. StateInv(id, w.state) /\ w = Update(id)
    BY <1>1, <1>2 DEF RegisteredInv, Update
  <2>3. Entry(w, ms.info[id], ms.running, Remains(id, {"respond"}), pc = "idle")
    BY <1>1, <1>2, <2>2 DEF RegInv, EntryInv
  <2>4. w.state # "ProvisionallyCompletedAfterAccepted"
    BY <1>1, <2>2 DEF StateInv
  <2>5. ms.running \/ w.state # "ProvisionallyCompleted"
    BY <1>1, <1>2, <2>2 DEF Legal
  <2>6. MessageEntry(w, id)
    BY <2>3, <2>4, <2>5 DEF Entry, MessageEntry
  <2>7. OnProtocolMessage(upd, id, n, kind, value)
    BY <1>2
  <2> QED BY <1>1, <2>1, <2>6, <2>7, RegMessage
<1>3. CASE /\ reg[id] = 0 /\ ms.info[id] = "none" /\ reg' = [reg EXCEPT ![id] = Fresh(id)]
           /\ OnProtocolMessage([upd EXCEPT ![id][Fresh(id)] = NewAdmitted], id, Fresh(id), kind, value)
  <2> DEFINE n == Fresh(id)
             u == [upd EXCEPT ![id][n] = NewAdmitted]
  <2>1. n \in Object
    BY <1>1, <1>3, FreshIsFree
  <2>2. u \in Objects /\ u[id][n] = NewAdmitted /\ \A i \in ID : i # id => \A m \in Object : u[i][m] = upd[i][m]
    BY <1>1, <2>1, NewObjects DEF Objects
  <2>3. ms.info[id] \notin Outcome
    BY <1>3, Kinds
  <2>4. MessageEntry(NewAdmitted, id)
    BY <2>3 DEF MessageEntry, NewAdmitted, Unused
  <2>5. reg' = [reg EXCEPT ![id] = n] /\ OnProtocolMessage(u, id, n, kind, value)
    BY <1>3
  <2> HIDE DEF n, u
  <2> QED BY <1>1, <2>1, <2>2, <2>3, <2>4, <2>5, RegMessage
<1>4. CASE pc' \in {"cancel", "fail"}
  BY <1>4, RegGone DEF Registering
<1> QED BY <1>2, <1>3, <1>4 DEF HandleMessage

\* After the messages, the handler moves some registered updates itself.
LEMMA RegAllProvisionally ==
  ASSUME TypeOK, RegInv, Registering, pc = "messages", NEW S, S \subseteq {id \in ID : reg[id] # 0},
         NEW state \in {"ProvisionallyCompleted", "ProvisionallyAborted"}, NEW kind \in {"reject", "abort"},
         NEW value \in Value, AllProvisionally(S, state, kind, value),
         \A id \in S : Update(id).state \in {"Sent", "ProvisionallyAccepted", "Accepted"},
         state = "ProvisionallyCompleted" => ms.running /\ \A id \in S : Update(id).state = "Sent",
         state = "ProvisionallyAborted" => ~ms.running,
         SameUpdates(ms, ms'), pc' \in {"persist", "apply"}, UNCHANGED registry
  PROVE  RegInv'
<1>1. OneEffectEach(S, kind, value)
  BY AllProvisionallyEffects DEF States
<1>2. \A id \in ID : Remains(id, {"respond"}) => Remains(id, {"respond"})'
  BY <1>1 DEF OneEffectEach, Remains
<1>3. \A id \in ID : reg[id] # 0 =>
         Update(id)' = IF id \in S THEN [Update(id) EXCEPT !.state = state] ELSE Update(id)
  BY RegisteredState DEF AllProvisionally, Update
<1>4. ASSUME NEW id \in ID PROVE EntryInv(id)'
  <2>1. EntryInv(id) /\ ms'.info[id] = ms.info[id] /\ ms'.running = ms.running
    BY DEF RegInv, SameUpdates
  <2>2. CASE id \notin S
    BY <1>2, <1>3, <2>1, <2>2, EntryKept
  <2>3. CASE id \in S
    <3>1. reg[id] # 0 /\ Update(id) \in UpdateObject
      BY <2>3, RegisteredState
    <3>2. Update(id)'.state = state /\ Update(id)'.event = Update(id).event
      BY <1>3, <2>3, <3>1 DEF UpdateObject
    <3>3. /\ Update(id).state = "Sent" => ~Update(id).event
          /\ ms.info[id] \notin Outcome
      BY <2>1, <2>3, <3>1 DEF EntryInv, Entry
    <3>4. reg'[id] # 0 /\ pc' # "idle"
      BY <3>1
    <3>5. CASE state = "ProvisionallyCompleted"
      <4>1. ~Update(id)'.event /\ ms'.info[id] \notin Outcome
        BY <2>1, <2>3, <3>2, <3>3, <3>5
      <4> QED BY <3>2, <3>4, <3>5, <4>1 DEF EntryInv, Entry
    <3>6. CASE state = "ProvisionallyAborted"
      BY <2>1, <3>2, <3>3, <3>4, <3>6 DEF EntryInv, Entry
    <3> QED BY <3>5, <3>6
  <2> QED BY <2>2, <2>3
<1> QED BY <1>4, RegStep DEF SameUpdates

LEMMA RegFinishMessages ==
  ASSUME TypeInv, RegInv, NEW heartbeat \in BOOLEAN, NEW buffered \in BOOLEAN, NEW bypass \in BOOLEAN,
         FinishMessages(heartbeat, buffered, bypass)
  PROVE  RegInv'
<1>1. /\ TypeOK /\ Registering /\ pc = "messages" /\ pc' \in {"persist", "apply"} /\ UNCHANGED registry
      /\ SameUpdates(ms, ms') /\ "rejected" \in Value /\ "failed" \in Value
  BY DEF TypeInv, TypeOK, Run, Unloaded, FinishMessages, Registering, SameUpdates, Value
<1>2. CASE ms.running
  <2>1. PICK S \in {{}, Unprocessed} : AllProvisionally(S, "ProvisionallyCompleted", "reject", "rejected")
    BY <1>2 DEF FinishMessages
  <2>2. S \subseteq {id \in ID : reg[id] # 0} /\ \A id \in S : Update(id).state = "Sent"
    BY <2>1 DEF Unprocessed
  <2> QED BY <1>1, <1>2, <2>1, <2>2, RegAllProvisionally
<1>3. CASE ~ms.running
  <2>1. AllProvisionally(InAcceptance, "ProvisionallyAborted", "abort", "failed")
    BY <1>3 DEF FinishMessages
  <2>2. /\ InAcceptance \subseteq {id \in ID : reg[id] # 0}
        /\ \A id \in InAcceptance : Update(id).state \in {"ProvisionallyAccepted", "Accepted"}
    BY DEF InAcceptance
  <2> QED BY <1>1, <1>3, <2>1, <2>2, RegAllProvisionally
<1> QED BY <1>2, <1>3

\* What an effect makes of the object that it was left for.
LEMMA RegEffect ==
  ASSUME TypeOK, RegInv, Registering, pc = "apply", effects # <<>>, UNCHANGED <<ms, pc, loaded, completedCount>>,
         effects' = Tail(effects), NEW e, e = Head(effects), e.id \in ID,
         reg' = reg, reg[e.id] = e.n, e.n \in Object,
         \A i \in ID : i # e.id => \A m \in Object : upd'[i][m] = upd[i][m],
         EntryInv(e.id)'
  PROVE  RegInv'
<1>1. ASSUME NEW i \in ID, i # e.id PROVE EntryInv(i)'
  <2>1. EntryInv(i) /\ (reg[i] # 0 => Update(i)' = Update(i))
    BY <1>1, RegisteredState DEF RegInv, Update
  <2>2. Remains(i, {"respond"}) => Remains(i, {"respond"})'
    BY <1>1, RemainsInTail
  <2> QED BY <2>1, <2>2, EntryKept
<1> QED BY <1>1, RegStep

LEMMA RegApply ==
  ASSUME Inv, RegInv, ApplyEffect
  PROVE  RegInv'
<1> SUFFICES ASSUME NEW e, e = Head(effects), NEW u, u = upd[e.id][e.n] PROVE RegInv'
  OBVIOUS
<1> DEFINE done == Effective(e, u.state) /\ e.kind \in {"reject", "respond"} /\ reg[e.id] = e.n
<1>1. /\ TypeOK /\ Registering /\ pc = "apply" /\ effects # <<>> /\ effects' = Tail(effects)
      /\ UNCHANGED <<ms, pc, loaded>> /\ reg \in [ID -> Object \cup {0}] /\ upd \in Objects /\ 0 \notin Object
  <2>1. pc = "apply" /\ effects # <<>> /\ effects' = Tail(effects) /\ UNCHANGED <<ms, pc, loaded>>
    BY DEF ApplyEffect
  <2>2. TypeOK /\ reg \in [ID -> Object \cup {0}] /\ upd \in Objects /\ 0 \notin Object
    BY DEF Inv, TypeInv, TypeOK, Objects, Object
  <2>3. Registering
    BY <2>1 DEF Inv, TypeInv, Unloaded, Registering
  <2> QED BY <2>1, <2>2, <2>3
<1>2. /\ upd' = IF Effective(e, u.state) THEN [upd EXCEPT ![e.id][e.n].state = Committed(e, u.state)] ELSE upd
      /\ reg' = IF done THEN [reg EXCEPT ![e.id] = 0] ELSE reg
      /\ completedCount' = IF done /\ u.event THEN completedCount + 1 ELSE completedCount
  BY DEF ApplyEffect
<1>3. /\ e \in EffectRecord /\ e.id \in ID /\ e.n \in Object /\ InfoAgrees(e, ms)
      /\ e.kind \in {"accept", "reject", "respond", "abort"} /\ u \in UpdateObject
      /\ \/ reg[e.id] = e.n /\ StateInv(e.id, u.state)
         \/ reg[e.id] = 0 /\ u.state \in {"Completed", "Unused"}
  BY <1>1, FirstEffect
<1> HIDE DEF done
<1>4. ASSUME NEW i \in ID PROVE EntryInv(i)
  BY <1>1 DEF RegInv
\* The effect finds the update completed, or in a state that it does not go on from.
<1>5. CASE ~Effective(e, u.state)
  <2>1. upd' = upd /\ reg' = reg /\ completedCount' = completedCount
    BY <1>2, <1>5 DEF done
  <2>2. ASSUME NEW i \in ID PROVE EntryInv(i)'
    <3>1. CASE Remains(i, {"respond"}) => Remains(i, {"respond"})'
      BY <1>1, <1>4, <2>1, <3>1, EntryKept DEF Update
    <3>2. CASE e.id = i /\ e.kind = "respond" /\ reg[i] # 0
      <4>1. u.state \notin {"ProvisionallyCompleted", "ProvisionallyCompletedAfterAccepted"}
        BY <1>5, <3>2 DEF Effective
      <4>2. Update(i) = u
        BY <1>3, <3>2 DEF Update
      <4>3. ms.info[i] \notin Outcome
        BY <1>4, <3>2, <4>1, <4>2 DEF EntryInv, Entry
      <4>4. Update(i)' = Update(i) /\ reg'[i] = reg[i] /\ pc' # "idle"
        BY <1>1, <2>1 DEF Update
      <4> QED BY <1>1, <1>4, <3>2, <4>3, <4>4 DEF EntryInv, Entry
    <3>3. CASE reg[i] = 0
      BY <1>1, <1>4, <2>1, <3>3 DEF EntryInv
    <3>4. CASE ~(e.id = i /\ e.kind = "respond")
      <4>1. Remains(i, {"respond"}) => Remains(i, {"respond"})'
        BY <1>1, <3>4, RemainsInTail
      <4> QED BY <3>1, <4>1
    <3> QED BY <3>2, <3>3, <3>4
  <2> QED BY <1>1, <2>1, <2>2, RegStep
<1>6. CASE Effective(e, u.state)
  <2> DEFINE id == e.id
  <2>1. /\ u.state \in {"ProvisionallyAccepted", "ProvisionallyCompleted", "ProvisionallyAborted",
                        "ProvisionallyCompletedAfterAccepted"}
        /\ e.kind \in {"accept", "reject", "respond", "abort"}
    BY <1>3, <1>6 DEF Effective
  <2>2. reg[id] = e.n /\ StateInv(id, u.state) /\ Update(id) = u /\ reg[id] # 0
    BY <1>1, <1>3, <2>1 DEF Update
  <2>3. Entry(u, ms.info[id], ms.running, Remains(id, {"respond"}), pc = "idle")
    BY <1>3, <1>4, <2>2 DEF EntryInv
  <2>4. /\ upd'[id][e.n] = [u EXCEPT !.state = Committed(e, u.state)]
        /\ \A i \in ID : i # id => \A m \in Object : upd'[i][m] = upd[i][m]
    BY <1>1, <1>2, <1>3, <1>6 DEF Objects
  <2>5. CASE e.kind \in {"reject", "respond"}
    <3>1. done
      BY <1>6, <2>2, <2>5 DEF done
    <3>2. reg' = [reg EXCEPT ![id] = 0] /\ reg'[id] = 0 /\ \A i \in ID : i # id => reg'[i] = reg[i]
      BY <1>1, <1>2, <1>3, <3>1
    <3>3. u.event <=> ms.info[id] \in Outcome
      <4>1. CASE e.kind = "respond"
        BY <1>3, <2>3, <4>1 DEF InfoAgrees, Entry
      <4>2. CASE e.kind = "reject"
        <5>1. ms.info[id] \notin Outcome
          BY <1>3, <4>2, Kinds DEF InfoAgrees
        <5>2. u.state = "ProvisionallyCompleted"
          BY <1>6, <4>2 DEF Effective
        <5> QED BY <2>3, <5>1, <5>2 DEF Entry
      <4> QED BY <2>5, <4>1, <4>2
    <3>4. ms.info[id] # "accepted"
      BY <1>3, <2>5, Kinds DEF InfoAgrees
    <3>5. ASSUME NEW i \in ID PROVE EntryInv(i)'
      <4>1. CASE i = id
        BY <1>1, <3>2, <3>4, <4>1 DEF EntryInv
      <4>2. CASE i # id
        <5>1. Remains(i, {"respond"}) => Remains(i, {"respond"})'
          BY <1>1, <4>2, RemainsInTail
        <5>2. reg[i] # 0 => Update(i)' = Update(i)
          BY <1>1, <2>4, <3>2, <4>2, RegisteredState DEF Update
        <5> QED BY <1>1, <1>4, <3>2, <4>2, <5>1, <5>2, EntryKept
      <4> QED BY <4>1, <4>2
    <3>6. CASE u.event
      <4>1. Counted' = Counted \cup {id} /\ id \notin Counted
        BY <1>1, <1>3, <2>2, <3>2, <3>3, <3>6 DEF Counted
      <4>2. IsFiniteSet(Counted)
        BY UpdateConstants, FS_Subset DEF Counted
      <4>3. Cardinality(Counted') = completedCount + 1
        BY <1>1, <4>1, <4>2, FS_AddElement DEF RegInv
      <4>4. completedCount' = completedCount + 1
        BY <1>2, <3>1, <3>6
      <4> QED BY <3>5, <4>3, <4>4 DEF RegInv
    <3>7. CASE ~u.event
      <4>1. completedCount' = completedCount
        BY <1>2, <3>7
      <4>2. \A i \in ID : ms'.info[i] \in Outcome /\ reg'[i] = 0 <=> ms.info[i] \in Outcome /\ reg[i] = 0
        BY <1>1, <2>2, <3>2, <3>3, <3>7
      <4> QED BY <1>1, <3>5, <4>1, <4>2, RegStep
    <3> QED BY <3>6, <3>7
  <2>6. CASE e.kind \in {"accept", "abort"}
    <3>1. reg' = reg /\ completedCount' = completedCount
      BY <1>2, <2>6 DEF done
    <3>2. Update(id)'.state = Committed(e, u.state) /\ Update(id)'.event = u.event /\ pc' # "idle"
      BY <1>1, <1>3, <2>2, <2>4, <3>1 DEF Update, UpdateObject
    <3>3. Remains(id, {"respond"}) => Remains(id, {"respond"})'
      BY <1>1, <1>3, <2>6, RemainsInTail
    <3>4. EntryInv(id)'
      <4>1. CASE e.kind = "accept" /\ u.state = "ProvisionallyAccepted"
        <5>1. Update(id)'.state = "Accepted"
          BY <3>2, <4>1 DEF Committed
        <5> QED BY <1>1, <2>2, <2>3, <3>1, <3>2, <3>3, <4>1, <5>1 DEF EntryInv, Entry
      <4>2. CASE e.kind = "accept" /\ u.state # "ProvisionallyAccepted"
        <5>1. Update(id)'.state = "ProvisionallyCompletedAfterAccepted"
          BY <3>2, <4>2 DEF Committed
        <5> QED BY <1>1, <2>2, <2>3, <3>1, <3>2, <3>3, <4>2, <5>1 DEF EntryInv, Entry
      <4>3. CASE e.kind = "abort"
        <5>1. Update(id)'.state = "Aborted"
          BY <3>2, <4>3 DEF Committed
        <5>2. ~ms.running /\ ms.info[id] \notin Outcome
          BY <1>3, <4>3, Kinds DEF InfoAgrees
        <5> QED BY <1>1, <2>2, <3>1, <3>2, <5>1, <5>2 DEF EntryInv, Entry
      <4> QED BY <2>6, <4>1, <4>2, <4>3
    <3>5. /\ UNCHANGED <<ms, pc, loaded, completedCount>> /\ reg' = reg /\ reg[e.id] = e.n
          /\ e.id \in ID /\ e.n \in Object
      BY <1>1, <1>3, <2>2, <3>1
    <3> QED BY <1>1, <2>4, <3>4, <3>5, RegEffect
  <2> QED BY <2>1, <2>5, <2>6
<1> QED BY <1>5, <1>6

LEMMA RegHandler ==
  ASSUME Inv, RegInv, HandlerStep
  PROVE  RegInv'
<1>0. TypeInv /\ TypeOK /\ RegisteredInv
  BY DEF Inv, TypeInv
<1>1. CASE Persist
  <2>1. CASE WriteOK(ms) /\ pc' = "apply" /\ UNCHANGED <<registry, upd, sets>>
    <3>1. pc = "persist" /\ UNCHANGED <<ms, effects, loaded, reg, completedCount, upd>>
      BY <1>1, <2>1 DEF Persist, WriteOK
    <3> QED BY <2>1, <3>1, RegSame DEF SameUpdates, Registering, Update
  <2>2. CASE WriteFailed(ms)
    BY <2>2, RegGone DEF WriteFailed, ClearTo, Registering
  <2> QED BY <1>1, <2>1, <2>2 DEF Persist
<1>2. CASE CancelEffect
  BY <1>2, RegGone DEF CancelEffect, Registering
<1>3. CASE ReturnError \/ FailWorkflowTask
  BY <1>3, RegGone DEF ReturnError, FailWorkflowTask, ClearTo, Registering
<1> QED BY <1>0, <1>1, <1>2, <1>3, RegApply, RegFinishTask, RegSetFuture DEF HandlerStep

LEMMA RegWorker ==
  ASSUME Inv, "worker" \notin Faults, RegInv, WorkerStep
  PROVE  RegInv'
<1>0. TypeInv /\ TypeOK /\ StoreInv /\ CommitInv /\ RegisteredInv
  BY DEF Inv, TypeInv
<1>1. ASSUME NEW discard \in BOOLEAN, RespondWorkflowTaskCompleted(discard) PROVE RegInv'
  <2>1. SameUpdates(ms, ms')
    BY <1>0, <1>1 DEF RespondWorkflowTaskCompleted, TypeOK, Run, SameUpdates
  <2> QED BY <1>1, <2>1, RegSame DEF RespondWorkflowTaskCompleted, Registering, Idle, Update
<1>2. ASSUME NEW newRun \in BOOLEAN, HandleCloseCommand(newRun) PROVE RegInv'
  <2>1. ~ms'.running /\ ms'.info = ms.info /\ UNCHANGED <<loaded, reg, completedCount, upd, effects, pc>> /\ pc = "messages"
    BY <1>0, <1>2 DEF HandleCloseCommand, TypeOK, Run
  <2>2. CASE Registering
    <3>1. ASSUME NEW id \in ID PROVE EntryInv(id)'
      BY <2>1, <2>2, EntryKept DEF RegInv, Update, Remains
    <3> QED BY <2>1, <2>2, <3>1, RegStep
  <2> QED BY <2>1, <2>2, RegGone DEF Registering
<1>3. CASE HandleBadCommand
  BY <1>3, RegGone DEF HandleBadCommand, Registering
<1>4. ASSUME NEW id \in ID, HandleMessage(id, "accept", "none") \/ HandleMessage(id, "reject", "none") PROVE RegInv'
  BY <1>0, <1>4, RegHandleMessage
<1>5. ASSUME NEW id \in ID, NEW o \in Outcome, HandleMessage(id, "respond", o) PROVE RegInv'
  BY <1>0, <1>5, RegHandleMessage
<1> QED BY <1>0, <1>1, <1>2, <1>3, <1>4, <1>5, RegFinishMessages DEF WorkerStep

LEMMA RegCorrect ==
  ASSUME "worker" \notin Faults
  PROVE  Spec => [](Inv /\ RegInv)
<1>1. Init => Inv /\ RegInv
  <2>1. Init => RegInv
    BY DEF Init, RegInv, Registering
  <2> QED BY <2>1, LifeInit
<1>2. Inv /\ RegInv /\ [Next]_vars => Inv' /\ RegInv'
  <2> SUFFICES ASSUME Inv, RegInv, [Next]_vars PROVE Inv' /\ RegInv'
    OBVIOUS
  <2>1. Inv'
    BY LifeNext
  <2>2. TypeInv /\ TypeOK /\ StoreInv /\ RegisteredInv
    BY DEF Inv, TypeInv
  <2>3. CASE UNCHANGED vars
    <3>1. UNCHANGED <<ms, loaded, reg, completedCount, upd, pc, effects>>
      BY <2>3 DEF vars
    <3>2. RegInv'
      BY <2>2, <3>1, RegQuiet
    <3> QED BY <2>1, <3>2
  <2>4. CASE Next
    <3>1. RegInv'
      <4>1. CASE ClientStep
        BY <2>2, <4>1, RegClient
      <4>2. CASE WorkerStep
        BY <4>2, RegWorker
      <4>3. CASE HandlerStep
        BY <4>3, RegHandler
      <4>4. CASE ServerStep
        BY <2>2, <4>4, RegServer
      <4> QED BY <2>4, <4>1, <4>2, <4>3, <4>4 DEF Next
    <3> QED BY <2>1, <3>1
  <2> QED BY <2>1, <2>3, <2>4
<1> QED BY <1>1, <1>2, PTL DEF Spec

\* What the store says of an update, of which the registry has the object u.
LEMMA EntrySettled ==
  ASSUME Inv, RegInv, Idle, loaded, NEW id \in ID, reg[id] # 0
  PROVE  /\ db.info[id] \notin Outcome
         /\ db.info[id] = "accepted" => Update(id).state = IF db.running THEN "Accepted" ELSE "Aborted"
         /\ db.info[id] # "accepted" => Update(id).state \in {"Admitted", "Sent", "Aborted"}
         /\ ~db.running => Update(id).state = "Aborted" \/ db.info[id] = "admitted"
<1>1. /\ TypeOK /\ RegisteredInv /\ pc = "idle" /\ effects = <<>>
      /\ ms.running = db.running /\ ms.info = db.info
  BY DEF Inv, TypeInv, StoreInv, SameUpdates, Idle
<1>2. /\ Update(id).state \in {"Admitted", "Sent", "Accepted", "Aborted", "Completed", "Unused"}
      /\ Update(id).state \in {"Admitted", "Sent"} => db.info[id] \in Pending
      /\ Update(id).state = "Accepted" => db.info[id] = "accepted"
  BY <1>1, SettledStates
<1>3. Entry(Update(id), ms.info[id], ms.running, Remains(id, {"respond"}), pc = "idle")
  BY <1>1 DEF RegInv, EntryInv, Registering
<1> QED BY <1>1, <1>2, <1>3, Kinds DEF Entry

\* A context that is loaded, whenever no handler is at work, has the updates of the store: the
\* accepted ones are in the registry, in the state that the run gives them, the completed ones are
\* counted, and nothing is left half done.
THEOREM Agrees ==
  ASSUME "worker" \notin Faults
  PROVE  Spec => []RegistryAgrees
<1>1. Inv /\ RegInv => RegistryAgrees
  <2> SUFFICES ASSUME Inv, RegInv, Idle, loaded
               PROVE  /\ ms.running = db.running /\ ms.info = db.info
                      /\ \A id \in ID :
                            CASE db.info[id] \in Outcome -> reg[id] = 0
                              [] db.info[id] = "accepted" ->
                                    reg[id] # 0 /\ Update(id).state = IF db.running THEN "Accepted" ELSE "Aborted"
                              [] OTHER -> reg[id] = 0 \/ Update(id).state \in {"Admitted", "Sent", "Aborted"}
                      /\ completedCount = Cardinality({id \in ID : db.info[id] \in Outcome})
    BY DEF RegistryAgrees
  <2>1. ms.running = db.running /\ ms.info = db.info /\ Registering
    BY DEF Inv, StoreInv, SameUpdates, Idle, Registering
  <2>2. ASSUME NEW id \in ID, reg[id] = 0 PROVE db.info[id] # "accepted"
    BY <2>1, <2>2 DEF RegInv, EntryInv
  <2>3. \A id \in ID :
           CASE db.info[id] \in Outcome -> reg[id] = 0
             [] db.info[id] = "accepted" ->
                   reg[id] # 0 /\ Update(id).state = IF db.running THEN "Accepted" ELSE "Aborted"
             [] OTHER -> reg[id] = 0 \/ Update(id).state \in {"Admitted", "Sent", "Aborted"}
    <3> SUFFICES ASSUME NEW id \in ID
                 PROVE  /\ db.info[id] \in Outcome => reg[id] = 0 /\ db.info[id] # "accepted"
                        /\ db.info[id] = "accepted" =>
                              reg[id] # 0 /\ Update(id).state = IF db.running THEN "Accepted" ELSE "Aborted"
                        /\ db.info[id] \notin {"accepted"} \cup Outcome =>
                              reg[id] = 0 \/ Update(id).state \in {"Admitted", "Sent", "Aborted"}
      OBVIOUS
    <3> QED BY <2>2, EntrySettled, Kinds
  <2>4. Counted = {id \in ID : db.info[id] \in Outcome}
    BY <2>1, EntrySettled DEF Counted
  <2> QED BY <2>1, <2>3, <2>4 DEF RegInv
<1> QED BY <1>1, RegCorrect, PTL

\* In a run that was not reset, no update is only admitted in the store.
NoneAdmitted == \A id \in ID : db.info[id] # "admitted" /\ ms.info[id] # "admitted"

LEMMA NoneAdmittedSame ==
  ASSUME NoneAdmitted, db'.info \in {db.info, ms.info}, ms'.info \in {db.info, ms.info}
  PROVE  NoneAdmitted'
  BY DEF NoneAdmitted

LEMMA NoneAdmittedFailed ==
  ASSUME NoneAdmitted, NEW m, m.info = ms.info, ClearTo(db) \/ WriteFailed(m)
  PROVE  NoneAdmitted'
  BY NoneAdmittedSame DEF WriteFailed, ClearTo

LEMMA NoneAdmittedMessage ==
  ASSUME TypeOK, NoneAdmitted, NEW id \in ID, NEW kind, NEW value, value # "admitted", HandleMessage(id, kind, value)
  PROVE  NoneAdmitted'
<1>1. db' = db /\ ms \in Run
  BY DEF HandleMessage, TypeOK
<1>2. CASE UNCHANGED ms
  BY <1>1, <1>2 DEF NoneAdmitted
<1>3. ASSUME NEW v, v # "admitted", ms' = [ms EXCEPT !.info[id] = v] PROVE NoneAdmitted'
  <2>1. \A i \in ID : ms'.info[i] = IF i = id THEN v ELSE ms.info[i]
    BY <1>1, <1>3 DEF Run
  <2> QED BY <1>1, <1>3, <2>1 DEF NoneAdmitted
<1>4. ASSUME NEW u, NEW n, OnProtocolMessage(u, id, n, kind, value) PROVE NoneAdmitted'
  BY <1>2, <1>3, <1>4 DEF OnProtocolMessage
<1> QED BY <1>2, <1>4 DEF HandleMessage

LEMMA NoneAdmittedNext ==
  ASSUME TypeOK, NoneAdmitted, [Next]_vars
  PROVE  NoneAdmitted'
<1>1. db \in Run /\ ms \in Run
  BY DEF TypeOK
<1>2. CASE ClientStep
  <2>1. ASSUME NEW c \in Client,
               WaitLifecycleStage(c) \/ OutcomeReady(c) \/ AcceptedReady(c) \/ WaitTimedOut(c)
        PROVE  UNCHANGED <<db, ms>>
    BY <2>1, WaitSteps DEF Goto, Return
  <2>2. ASSUME NEW c \in Client, NEW id \in ID, NEW stage \in Stages,
               UpdateWorkflowExecution(c, id, stage) \/ PollWorkflowExecutionUpdate(c, id, stage)
        PROVE  NoneAdmitted'
    <3>1. CASE UNCHANGED <<db, ms>>
      BY <3>1, NoneAdmittedSame
    <3>2. CASE ClearTo(db)
      BY <3>2, NoneAdmittedFailed
    <3>3. CASE db' = db /\ ms' = IF ms.wft = "none" THEN [ms EXCEPT !.wft = "scheduled", !.speculative = TRUE] ELSE ms
      <4>1. ms'.info = ms.info
        BY <1>1, <3>3 DEF Run
      <4> QED BY <3>3, <4>1, NoneAdmittedSame
    <3> QED BY <2>2, <3>1, <3>2, <3>3 DEF UpdateWorkflowExecution, PollWorkflowExecutionUpdate, AnswerFromStore
  <2> QED BY <1>2, <2>1, <2>2, NoneAdmittedSame DEF ClientStep
<1>3. CASE WorkerStep
  <2>1. ASSUME NEW discard \in BOOLEAN, RespondWorkflowTaskCompleted(discard) PROVE NoneAdmitted'
    BY <1>1, <2>1, NoneAdmittedSame DEF RespondWorkflowTaskCompleted, Run
  <2>2. ASSUME NEW newRun \in BOOLEAN, HandleCloseCommand(newRun) PROVE NoneAdmitted'
    BY <1>1, <2>2, NoneAdmittedSame DEF HandleCloseCommand, Run
  <2>3. CASE HandleBadCommand
    BY <2>3, NoneAdmittedSame DEF HandleBadCommand
  <2>4. ASSUME NEW heartbeat \in BOOLEAN, NEW buffered \in BOOLEAN, NEW bypass \in BOOLEAN,
               FinishMessages(heartbeat, buffered, bypass)
        PROVE  NoneAdmitted'
    <3>1. db' = db /\ ms'.info = ms.info
      BY <1>1, <2>4 DEF FinishMessages, Run
    <3> QED BY <3>1, NoneAdmittedSame
  <2>5. ASSUME NEW id \in ID, HandleMessage(id, "accept", "none") \/ HandleMessage(id, "reject", "none")
        PROVE  NoneAdmitted'
    BY <2>5, NoneAdmittedMessage
  <2>6. ASSUME NEW id \in ID, NEW o \in Outcome, HandleMessage(id, "respond", o) PROVE NoneAdmitted'
    BY <2>6, NoneAdmittedMessage, Kinds
  <2> QED BY <1>3, <2>1, <2>2, <2>3, <2>4, <2>5, <2>6 DEF WorkerStep
<1>4. CASE HandlerStep
  <2>1. CASE Persist
    BY <2>1, NoneAdmittedFailed, NoneAdmittedSame DEF Persist, WriteOK
  <2>2. CASE FinishTask
    <3>1. CASE ClearTo(db)
      BY <3>1, NoneAdmittedFailed
    <3>2. CASE db' = db /\ ms' \in {ms, [ms EXCEPT !.wft = "started", !.speculative = TRUE]}
      <4>1. ms'.info = ms.info
        BY <1>1, <3>2 DEF Run
      <4> QED BY <3>2, <4>1, NoneAdmittedSame
    <3> QED BY <2>2, <3>1, <3>2 DEF FinishTask
  <2>3. CASE FailWorkflowTask
    <3>1. PICK store \in {db, [db EXCEPT !.wft = "scheduled"], [db EXCEPT !.running = FALSE, !.wft = "none"]} :
             db' = store /\ ms' = store
      BY <2>3 DEF FailWorkflowTask
    <3>2. store.info = db.info
      BY <1>1, <3>1 DEF Run
    <3> QED BY <3>1, <3>2, NoneAdmittedSame
  <2>4. CASE ReturnError
    BY <2>4, NoneAdmittedFailed, NoneAdmittedSame DEF ReturnError
  <2>5. CASE ApplyEffect \/ CancelEffect \/ \E id \in ID, n \in Object : SetFuture(id, n)
    BY <2>5, NoneAdmittedSame DEF ApplyEffect, CancelEffect, SetFuture
  <2> QED BY <1>4, <2>1, <2>2, <2>3, <2>4, <2>5 DEF HandlerStep
<1>5. CASE ServerStep
  <2>1. CASE LoadContext \/ Crash
    BY <2>1, NoneAdmittedSame DEF LoadContext, Crash
  <2>2. CASE ClearContext
    BY <2>2, NoneAdmittedFailed DEF ClearContext
  <2>3. ASSUME NEW m, m.info = ms.info, ClearTo(db) \/ WriteFailed(m) \/ WriteOK(m) \/ (ms' = m /\ db' = db)
        PROVE  NoneAdmitted'
    BY <2>3, NoneAdmittedFailed, NoneAdmittedSame DEF WriteOK
  <2>4. CASE RecordWorkflowTaskStarted
    <3>1. [ms EXCEPT !.wft = "started"].info = ms.info
      BY <1>1 DEF Run
    <3> QED BY <2>3, <2>4, <3>1 DEF RecordWorkflowTaskStarted
  <2>5. CASE WorkflowTaskTimedOut
    <3>1. [ms EXCEPT !.wft = "scheduled", !.speculative = FALSE].info = ms.info
      BY <1>1 DEF Run
    <3> QED BY <2>3, <2>5, <3>1 DEF WorkflowTaskTimedOut
  <2>6. ASSUME NEW reason, CloseWorkflow(reason) PROVE NoneAdmitted'
    <3>1. [ms EXCEPT !.running = FALSE, !.wft = "none", !.speculative = FALSE].info = ms.info
      BY <1>1 DEF Run
    <3> QED BY <2>3, <2>6, <3>1 DEF CloseWorkflow
  <2> QED BY <1>5, <2>1, <2>2, <2>4, <2>5, <2>6 DEF ServerStep
<1>6. CASE UNCHANGED vars
  BY <1>6, NoneAdmittedSame DEF vars
<1> QED BY <1>2, <1>3, <1>4, <1>5, <1>6 DEF Next

\* A context that is loaded has no update that can go on when its run is closed, unless the run
\* was reset: every registered update is aborted, whatever closed the run.
THEOREM AbortedClosed ==
  ASSUME "worker" \notin Faults, Reset = {}
  PROVE  Spec => []AbortedWhenClosed
<1>1. Inv /\ RegInv /\ NoneAdmitted => AbortedWhenClosed
  <2> SUFFICES ASSUME Inv, RegInv, NoneAdmitted, Idle, loaded, ~ms.running, NEW id \in ID, reg[id] # 0
               PROVE  Update(id).state = "Aborted"
    BY DEF AbortedWhenClosed
  <2>1. ~db.running
    BY DEF Inv, StoreInv, SameUpdates, Idle
  <2> QED BY <2>1, EntrySettled DEF NoneAdmitted
<1>2. Init => NoneAdmitted
  BY DEF Init, NoneAdmitted
<1>3. TypeOK /\ NoneAdmitted /\ [Next]_vars => NoneAdmitted'
  BY NoneAdmittedNext
<1>4. Inv => TypeOK
  BY DEF Inv, TypeInv
<1> QED BY <1>1, <1>2, <1>3, <1>4, RegCorrect, PTL DEF Spec

-----------------------------------------------------------------------------
(* Waiters                                                                 *)

\* What a registered object has given to those who wait on it, by its state.
ObjectGiven(u, s) ==
    /\ \A i \in 1..Len(s) : s[i].value # "pending"
    /\ u.state \in {"Accepted", "Completed", "Aborted"} => Given(u, s, "accepted")
    /\ u.state \in {"Completed", "Aborted"} => Given(u, s, "outcome")
AcceptedGiven(id) == Given(Update(id), sets[id][reg[id]], "accepted")

\* The effect e of the place i: what it goes back to, or completes without a value for accepted,
\* has been accepted before, if not by an effect of the same task.
EffectGiven(e, i) ==
    /\ e.prev = "Accepted" /\ reg[e.id] = e.n => AcceptedGiven(e.id)
    /\ e.kind = "abort" => e.prev \in PreAccepted \cup {"Accepted"}
    /\ /\ pc \in {"messages", "persist", "apply"} /\ e.kind = "respond"
       /\ reg[e.id] = e.n /\ Update(e.id).state = "ProvisionallyCompleted"
       => \/ AcceptedGiven(e.id)
          \/ \E j \in 1..(i - 1) : effects[j].id = e.id /\ effects[j].kind = "accept"

\* Rolled back one after the other, the effects leave no update in a provisional state: each goes
\* back to where the one before it has led, and the last one of an update is the state it is in.
Result(e) ==
    CASE e.kind = "accept" -> "ProvisionallyAccepted"
      [] e.kind = "abort"  -> "ProvisionallyAborted"
      [] OTHER             -> "ProvisionallyCompleted"
Last(id, k) == k \in 1..Len(effects) /\ effects[k].id = id /\ \A j \in 1..Len(effects) : j > k => effects[j].id # id
Undoable(e, i) ==
    /\ reg[e.id] = e.n
    /\ e.prev \in Provisional =>
          /\ e.prev = "ProvisionallyAccepted"
          /\ \E j \in 1..(i - 1) : /\ effects[j].id = e.id /\ effects[j].kind = "accept"
                                   /\ \A k \in 1..(i - 1) : k > j => effects[k].id # e.id
LastInv(id) ==
    reg[id] # 0 /\ Update(id).state \in Provisional => \E k : Last(id, k) /\ Update(id).state = Result(effects[k])

PlacesGiven == \A id \in ID : \A n \in Object : reg[id] = n => ObjectGiven(upd[id][n], sets[id][n])
RegisteredUsed == \A id \in ID : reg[id] # 0 => Update(id).state # "Unused"
EffectsGiven == \A i \in 1..Len(effects) : EffectGiven(effects[i], i)
Undoing == pc \in {"messages", "cancel", "fail"} /\ loaded
EffectsUndoable ==
    Undoing =>
        /\ \A i \in 1..Len(effects) : Undoable(effects[i], i)
        /\ \A id \in ID : LastInv(id)
WaitingInv == PlacesGiven /\ RegisteredUsed /\ EffectsGiven /\ EffectsUndoable

\* What a step owes to those who wait: the invariant, and an answer to those whose object it forgets.
LeftAnswered == \A id \in ID : \A n \in Object : Forgotten(id, n) => Answered(id, n)
Attended == WaitingInv' /\ LeftAnswered

LEMMA NoObject == \A n \in Object : n # 0
  BY DEF Object

\* No object leaves the registry.
LEMMA NoneForgotten ==
  ASSUME \A id \in ID : reg[id] # 0 => reg'[id] = reg[id]
  PROVE  LeftAnswered
  BY NoObject DEF LeftAnswered, Forgotten

\* An object that is completed or aborted is given its futures.
LEMMA GivenAnswered ==
  ASSUME NEW id \in ID, NEW n \in Object, upd'[id][n].state \in {"Completed", "Aborted"},
         ObjectGiven(upd'[id][n], sets'[id][n])
  PROVE  Answered(id, n)
  BY DEF ObjectGiven, Answered

\* No effects, or no code that could roll them back.
LEMMA WaitNoEffects ==
  ASSUME effects' = <<>>, pc' \in {"idle", "apply"}
  PROVE  EffectsGiven' /\ EffectsUndoable'
<1>1. Len(effects') = 0
  BY EmptySeq
<1> QED BY <1>1 DEF EffectsGiven, EffectsUndoable, Undoing

\* A registered update is in one of these states when no effect is left.
LEMMA RestingState ==
  ASSUME TypeOK, RegisteredInv, WaitingInv, effects = <<>>, pc \in {"idle", "apply"} \/ Undoing,
         NEW id \in ID, reg[id] # 0
  PROVE  Update(id).state \in {"Admitted", "Sent", "Accepted", "Aborted", "Completed"}
<1>1. Update(id).state # "Unused" /\ Update(id).state \in States
  BY RegisteredState DEF WaitingInv, RegisteredUsed
<1>2. CASE pc \in {"idle", "apply"}
  BY <1>1, <1>2, SettledStates
<1>3. CASE Undoing
  <2>1. Len(effects) = 0
    BY EmptySeq
  <2>2. \A k : ~Last(id, k)
    BY <2>1 DEF Last
  <2>3. Update(id).state \notin Provisional
    BY <1>3, <2>2 DEF WaitingInv, EffectsUndoable, LastInv
  <2> QED BY <1>1, <2>3 DEF States, Provisional
<1> QED BY <1>2, <1>3

\* Values on their way.
LEMMA GivenOutcome ==
  ASSUME NEW u \in UpdateObject, NEW v \in Value, v # "pending", u.accepted # "pending"
  PROVE  ObjectGiven(u, <<OutcomeSet(v)>>)
<1>1. OutcomeSet(v) \in SetRecord /\ OutcomeSet(v).future = "outcome" /\ OutcomeSet(v).value = v
  BY DEF OutcomeSet, SetRecord
<1>2. 1 \in 1..1
  OBVIOUS
<1> QED BY <1>1, <1>2, Queues DEF ObjectGiven, Given

LEMMA GivenAccepted ==
  ASSUME NEW u \in UpdateObject, u.state \notin {"Completed", "Aborted"}
  PROVE  /\ ObjectGiven(u, <<AcceptedSet("accepted")>>)
         /\ Given(u, <<AcceptedSet("accepted")>>, "accepted")
<1>1. /\ AcceptedSet("accepted") \in SetRecord /\ AcceptedSet("accepted").future = "accepted"
      /\ AcceptedSet("accepted").value = "accepted"
  BY DEF AcceptedSet, SetRecord, Value
<1>2. 1 \in 1..1
  OBVIOUS
<1> QED BY <1>1, <1>2, Queues DEF ObjectGiven, Given

LEMMA GivenBoth ==
  ASSUME NEW u \in UpdateObject, NEW v \in Value, NEW w \in Value, v # "pending", w # "pending",
         NEW s, s = <<OutcomeSet(v), AcceptedSet(w)>> \/ s = <<AcceptedSet(w), OutcomeSet(v)>>
  PROVE  ObjectGiven(u, s) /\ Given(u, s, "accepted")
<1>1. /\ OutcomeSet(v) \in SetRecord /\ OutcomeSet(v).future = "outcome" /\ OutcomeSet(v).value = v
      /\ AcceptedSet(w) \in SetRecord /\ AcceptedSet(w).future = "accepted" /\ AcceptedSet(w).value = w
  BY DEF OutcomeSet, AcceptedSet, SetRecord
<1>2. /\ Len(s) = 2 /\ {s[1], s[2]} = {OutcomeSet(v), AcceptedSet(w)} /\ 1 \in 1..2 /\ 2 \in 1..2
      /\ \A i \in 1..2 : i = 1 \/ i = 2
  BY <1>1, Queues
<1>3. \A i \in 1..Len(s) : s[i] \in {OutcomeSet(v), AcceptedSet(w)}
  BY <1>2
<1>4. \E i, j \in 1..Len(s) : s[i] = OutcomeSet(v) /\ s[j] = AcceptedSet(w)
  BY <1>2
<1> QED BY <1>1, <1>3, <1>4 DEF ObjectGiven, Given

LEMMA GivenNothing ==
  ASSUME NEW u, u.state \in {"Accepted", "Completed", "Aborted"} => u.accepted # "pending",
         u.state \in {"Completed", "Aborted"} => u.outcome # "pending"
  PROVE  ObjectGiven(u, <<>>)
<1>1. Len(<<>>) = 0
  BY EmptySeq
<1> QED BY <1>1 DEF ObjectGiven, Given

\* An object without values on their way.
LEMMA GivenSettled ==
  ASSUME NEW u, ObjectGiven(u, <<>>)
  PROVE  /\ u.state \in {"Accepted", "Completed", "Aborted"} => u.accepted # "pending"
         /\ u.state \in {"Completed", "Aborted"} => u.outcome # "pending"
         /\ Given(u, <<>>, "accepted") <=> u.accepted # "pending"
<1>1. Len(<<>>) = 0
  BY EmptySeq
<1> QED BY <1>1 DEF ObjectGiven, Given

\* An abort says something to every waiter, unless it leaves the update alone.
LEMMA GivenAbort ==
  ASSUME NEW u \in UpdateObject, ObjectGiven(u, <<>>), NEW reason \in Reasons,
         u.state \in {"Admitted", "Sent", "Accepted", "Aborted", "Completed", "Unused"}
  PROVE  /\ ObjectGiven(Aborted(u, reason), AbortSets(u, reason))
         /\ \/ Aborted(u, reason).state \in {"Aborted", "Completed"}
            \/ Aborted(u, reason) = u /\ AbortSets(u, reason) = <<>>
               /\ (u.state = "Unused" \/ (u.state = "Accepted" /\ reason = "WorkflowTaskFailed"))
<1> DEFINE f == FailureError(reason, u.state)
           v == [u EXCEPT !.state = "Aborted"]
<1>1. CASE f = "none"
  <2>1. Aborted(u, reason) = u /\ AbortSets(u, reason) = <<>>
    BY <1>1 DEF Aborted, AbortSets
  <2>2. u.state \in {"Aborted", "Completed", "Unused"} \/ (u.state = "Accepted" /\ reason = "WorkflowTaskFailed")
    BY <1>1 DEF FailureError, Reasons
  <2> QED BY <2>1, <2>2
<1>2. CASE f # "none"
  <2>1. u.state \in {"Admitted", "Sent", "Accepted"}
    BY <1>2 DEF FailureError
  <2>2. f \in Value /\ f # "pending"
    BY <1>2, <2>1 DEF FailureError, Reasons, Value, Errors
  <2>3. Aborted(u, reason) = v /\ v \in UpdateObject /\ v.state = "Aborted" /\ v.accepted = u.accepted
    BY <1>2 DEF Aborted, UpdateObject, States
  <2>4. AbortSets(u, reason) =
           IF u.state \in PreAccepted THEN <<OutcomeSet(f), AcceptedSet(f)>> ELSE <<OutcomeSet(f)>>
    BY <1>2, Zenon DEF AbortSets, OutcomeSet, AcceptedSet
  <2>5. u.state \notin PreAccepted => u.accepted # "pending"
    BY <2>1, GivenSettled DEF PreAccepted
  <2> HIDE DEF f, v
  <2>6. ObjectGiven(v, AbortSets(u, reason))
    BY <2>2, <2>3, <2>4, <2>5, GivenBoth, GivenOutcome
  <2> QED BY <2>3, <2>6
<1> QED BY <1>1, <1>2

\* No effect is left: what counts are the objects.
LEMMA WaitQuiet ==
  ASSUME PlacesGiven', RegisteredUsed', LeftAnswered, effects' = <<>>, pc' \in {"idle", "apply"}
  PROVE  Attended
  BY WaitNoEffects DEF WaitingInv, Attended

\* The effects stay, and no registered update moves or loses its acceptance.
LEMMA WaitKept ==
  ASSUME TypeOK, WaitingInv, PlacesGiven', UNCHANGED <<effects, reg>>,
         pc' \in {"messages", "persist", "apply"} => pc \in {"messages", "persist", "apply"},
         Undoing' => Undoing,
         \A id \in ID : reg[id] # 0 =>
            Update(id)'.state = Update(id).state /\ (AcceptedGiven(id) => AcceptedGiven(id)')
  PROVE  Attended
<1>1. ASSUME NEW e \in EffectRecord, NEW i, EffectGiven(e, i) PROVE EffectGiven(e, i)'
  <2>1. e.id \in ID /\ e.n \in Object /\ e.n # 0
    BY DEF EffectRecord, Object
  <2> QED BY <1>1, <2>1 DEF EffectGiven
<1>2. EffectsGiven'
  <2>1. ASSUME NEW i \in 1..Len(effects), NEW e, e = effects[i] PROVE EffectGiven(e, i)'
    <3>1. e \in EffectRecord /\ EffectGiven(e, i)
      BY <2>1, EffectsType DEF WaitingInv, EffectsGiven
    <3> QED BY <1>1, <3>1
  <2> QED BY <2>1 DEF EffectsGiven, EffectGiven
<1>3. RegisteredUsed'
  BY DEF WaitingInv, RegisteredUsed
<1>4. ASSUME Undoing, NEW id \in ID PROVE LastInv(id)'
  <2>1. LastInv(id)
    BY <1>4 DEF WaitingInv, EffectsUndoable
  <2>2. \A k : Last(id, k)' <=> Last(id, k)
    BY DEF Last
  <2> QED BY <2>1, <2>2 DEF LastInv
<1>5. EffectsUndoable'
  BY <1>4 DEF WaitingInv, EffectsUndoable, Undoable
<1>6. LeftAnswered
  BY NoneForgotten
<1> QED BY <1>2, <1>3, <1>5, <1>6 DEF WaitingInv, Attended

\* Every object is aborted that is in the registry when no effect is left.
LEMMA WaitAbortAll ==
  ASSUME TypeOK, RegisteredInv, WaitingInv, Settled, effects = <<>>, pc \in {"idle", "apply"} \/ Undoing,
         NEW reason \in Reasons, NEW id \in ID, NEW n \in Object, reg[id] = n
  PROVE  /\ ObjectGiven(AbortAll(upd, reason)[id][n], AllAbortSets(upd, reason)[id][n])
         /\ ObjectGiven(upd[id][n], <<>>)
         /\ \/ AbortAll(upd, reason)[id][n].state \in {"Aborted", "Completed"}
            \/ /\ AbortAll(upd, reason)[id][n] = upd[id][n] /\ AllAbortSets(upd, reason)[id][n] = <<>>
               /\ reason = "WorkflowTaskFailed" /\ upd[id][n].state = "Accepted"
<1>1. upd[id][n] \in UpdateObject /\ ObjectGiven(upd[id][n], <<>>)
  BY DEF TypeOK, Settled, WaitingInv, PlacesGiven
<1>2. upd[id][n].state \in {"Admitted", "Sent", "Accepted", "Aborted", "Completed"}
  BY NoObject, RestingState DEF Update
<1>3. /\ AbortAll(upd, reason)[id][n] = Aborted(upd[id][n], reason)
      /\ AllAbortSets(upd, reason)[id][n] = AbortSets(upd[id][n], reason)
  BY DEF AbortAll, AllAbortSets
<1> QED BY <1>1, <1>2, <1>3, GivenAbort

LEMMA UnusedGiven == ObjectGiven(Unused, <<>>) /\ Unused.state = "Unused"
<1>1. Unused.state = "Unused"
  BY DEF Unused
<1> QED BY <1>1, GivenNothing

\* The registry is forgotten: what counts is what it leaves for those who wait.
LEMMA WaitRemaining ==
  ASSUME NEW u, NEW s, upd' = Remaining(u), sets' = RemainingSets(s), reg' = [id \in ID |-> 0],
         NEW id \in ID, NEW n \in Object, Forgotten(id, n)
  PROVE  upd'[id][n] = u[id][n] /\ sets'[id][n] = s[id][n]
<1>1. Waiting(id, n)
  BY DEF Forgotten
<1> QED BY <1>1 DEF Remaining, RemainingSets

LEMMA NothingRegistered ==
  ASSUME reg' = [id \in ID |-> 0]
  PROVE  PlacesGiven' /\ RegisteredUsed'
  BY NoObject DEF PlacesGiven, RegisteredUsed

LEMMA WaitClear ==
  ASSUME TypeOK, RegisteredInv, WaitingInv, Settled, effects = <<>>, pc \in {"idle", "apply"} \/ Undoing,
         NEW store, ClearTo(store), UNCHANGED effects, pc' = "idle"
  PROVE  Attended
<1> DEFINE u == AbortAll(upd, "RegistryCleared")
           s == AllAbortSets(upd, "RegistryCleared")
<1>1. "RegistryCleared" \in Reasons
  BY DEF Reasons
<1>2. upd' = Remaining(u) /\ sets' = RemainingSets(s) /\ reg' = [id \in ID |-> 0]
  BY DEF ClearTo
<1>3. ASSUME NEW id \in ID, NEW n \in Object, Forgotten(id, n)
      PROVE  Answered(id, n)
  <2>1. ObjectGiven(u[id][n], s[id][n]) /\ u[id][n].state \in {"Completed", "Aborted"}
    BY <1>1, <1>3, WaitAbortAll DEF Forgotten
  <2> HIDE DEF u, s
  <2>2. upd'[id][n] = u[id][n] /\ sets'[id][n] = s[id][n]
    BY <1>2, <1>3, WaitRemaining
  <2> QED BY <2>1, <2>2, GivenAnswered
<1>4. LeftAnswered
  BY <1>3 DEF LeftAnswered
<1> QED BY <1>2, <1>4, NothingRegistered, WaitQuiet

\* The updates of a closed run are aborted.
LEMMA WaitAborted ==
  ASSUME TypeOK, RegisteredInv, WaitingInv, Settled, effects = <<>>, pc \in {"idle", "apply"},
         NEW reason \in {"WorkflowCompleted", "WorkflowContinuing"},
         upd' = AbortAll(upd, reason), sets' = AllAbortSets(upd, reason),
         UNCHANGED <<reg, effects>>, pc' = "idle"
  PROVE  Attended
<1>1. reason \in Reasons
  BY DEF Reasons
<1>2. ASSUME NEW id \in ID, NEW n \in Object, reg'[id] = n
      PROVE  ObjectGiven(upd'[id][n], sets'[id][n]) /\ upd'[id][n].state # "Unused"
  BY <1>1, <1>2, WaitAbortAll
<1>3. \A id \in ID : reg'[id] # 0 => reg'[id] \in Object
  BY DEF TypeOK
<1>4. PlacesGiven' /\ RegisteredUsed'
  BY <1>2, <1>3 DEF PlacesGiven, RegisteredUsed, Update
<1> QED BY <1>4, NoneForgotten, WaitQuiet

LEMMA WaitSent ==
  ASSUME TypeOK, WaitingInv, upd' = Sent(upd), UNCHANGED <<reg, sets>>, effects' = <<>>, pc' = "idle"
  PROVE  Attended
<1>1. ASSUME NEW id \in ID, NEW n \in Object, reg[id] = n
      PROVE  /\ ObjectGiven(upd'[id][n], sets'[id][n])
             /\ upd'[id][n].state = "Unused" => upd[id][n].state = "Unused"
  <2>1. upd[id][n] \in UpdateObject /\ ObjectGiven(upd[id][n], sets[id][n])
    BY <1>1 DEF TypeOK, WaitingInv, PlacesGiven
  <2>2. \/ upd'[id][n] = upd[id][n]
        \/ reg[id] = n /\ upd'[id][n] = [upd[id][n] EXCEPT !.state = "Sent"]
    BY DEF Sent
  <2>3. CASE reg[id] = n /\ upd'[id][n] = [upd[id][n] EXCEPT !.state = "Sent"]
    <3>1. upd'[id][n].state = "Sent"
      BY <2>1, <2>3 DEF UpdateObject
    <3> QED BY <2>1, <2>3, <3>1 DEF ObjectGiven
  <2> QED BY <2>1, <2>2, <2>3
<1>2. \A id \in ID : reg'[id] # 0 => reg'[id] \in Object /\ upd[id][reg[id]].state # "Unused"
  BY DEF TypeOK, WaitingInv, RegisteredUsed, Update
<1>3. PlacesGiven' /\ RegisteredUsed'
  BY <1>1, <1>2 DEF PlacesGiven, RegisteredUsed, Update
<1> QED BY <1>3, NoneForgotten, WaitQuiet

\* A new object is put in a place.
LEMMA AdmittedGiven == ObjectGiven(NewAdmitted, <<>>) /\ NewAdmitted.state = "Admitted"
<1>1. NewAdmitted.state = "Admitted"
  BY NewObjects DEF NewAdmitted, Unused
<1> QED BY <1>1, GivenNothing

LEMMA WaitPut ==
  ASSUME TypeOK, WaitingInv, Settled, NEW id \in ID, reg[id] = 0, NEW n \in Object,
         upd' = [upd EXCEPT ![id][n] = NewAdmitted], reg' = [reg EXCEPT ![id] = n], UNCHANGED sets
  PROVE  PlacesGiven' /\ RegisteredUsed' /\ LeftAnswered
<1>1. upd \in Objects /\ reg \in [ID -> Object \cup {0}]
  BY DEF TypeOK, Objects
<1>2. ASSUME NEW i \in ID, NEW m \in Object, reg'[i] = m
      PROVE  ObjectGiven(upd'[i][m], sets'[i][m]) /\ upd'[i][m].state # "Unused"
  <2>1. sets'[i][m] = <<>>
    BY DEF Settled
  <2>2. CASE i = id
    <3>1. m = n /\ upd'[i][m] = NewAdmitted
      BY <1>1, <1>2, <2>2 DEF Objects
    <3> QED BY <2>1, <3>1, AdmittedGiven
  <2>3. CASE i # id
    <3>1. upd'[i][m] = upd[i][m] /\ reg[i] = m /\ m # 0
      BY <1>1, <1>2, <2>3, NoObject DEF Objects
    <3>2. ObjectGiven(upd[i][m], sets[i][m]) /\ upd[i][m].state # "Unused"
      BY <3>1 DEF WaitingInv, PlacesGiven, RegisteredUsed, Update
    <3> QED BY <3>1, <3>2
  <2> QED BY <2>2, <2>3
<1>3. \A i \in ID : (reg'[i] # 0 => reg'[i] \in Object) /\ (reg[i] # 0 => reg'[i] = reg[i])
  BY <1>1
<1>4. LeftAnswered
  BY <1>3, NoneForgotten
<1> QED BY <1>2, <1>3, <1>4 DEF PlacesGiven, RegisteredUsed, Update

\* A caller comes back: an object that is not registered goes with the last one who waits on it.
LEMMA WaitReturn ==
  ASSUME TypeOK, WaitingInv, NEW c \in Client, call[c].pc # "idle", NEW answer, Return(c, answer)
  PROVE  Attended
<1>1. call[c].id \in ID /\ call[c].n \in Object /\ upd \in Objects /\ sets \in SetQueues
  BY AwaitedType DEF TypeOK, Objects, SetQueues
<1>2. UNCHANGED <<effects, reg, pc, loaded>>
  BY DEF Return
<1>3. \/ upd' = upd /\ sets' = sets
      \/ /\ reg[call[c].id] # call[c].n
         /\ upd' = [upd EXCEPT ![call[c].id][call[c].n] = Unused]
         /\ sets' = [sets EXCEPT ![call[c].id][call[c].n] = <<>>]
  BY DEF Return
<1>4. ASSUME NEW i \in ID, NEW m \in Object, reg[i] = m
      PROVE  upd'[i][m] = upd[i][m] /\ sets'[i][m] = sets[i][m]
  <2>1. CASE upd' = upd /\ sets' = sets
    BY <2>1
  <2>2. CASE ~(upd' = upd /\ sets' = sets)
    <3>1. ~(i = call[c].id /\ m = call[c].n)
      BY <1>3, <1>4, <2>2
    <3>2. upd'[i][m] = upd[i][m]
      BY <1>1, <1>3, <2>2, <3>1 DEF Objects
    <3>3. sets'[i][m] = sets[i][m]
      BY <1>1, <1>3, <2>2, <3>1 DEF SetQueues
    <3> QED BY <3>2, <3>3
  <2> QED BY <2>1, <2>2
<1>5. PlacesGiven'
  BY <1>2, <1>4 DEF WaitingInv, PlacesGiven
<1>6. ASSUME NEW id \in ID, reg[id] # 0
      PROVE  Update(id)'.state = Update(id).state /\ (AcceptedGiven(id) => AcceptedGiven(id)')
  <2>1. reg[id] \in Object
    BY <1>6 DEF TypeOK
  <2>2. upd'[id][reg[id]] = upd[id][reg[id]] /\ sets'[id][reg[id]] = sets[id][reg[id]]
    BY <1>4, <2>1
  <2> QED BY <1>2, <2>2 DEF Update, AcceptedGiven
<1> QED BY <1>2, <1>5, <1>6, WaitKept DEF Undoing

\* A caller takes another step, or one more caller waits; no object changes.
LEMMA WaitSame ==
  ASSUME TypeOK, WaitingInv, UNCHANGED <<effects, reg, upd, sets>>,
         pc' \in {"messages", "persist", "apply"} => pc \in {"messages", "persist", "apply"},
         Undoing' => Undoing
  PROVE  Attended
<1>1. PlacesGiven'
  BY DEF WaitingInv, PlacesGiven
<1>2. \A id \in ID : Update(id)' = Update(id) /\ (AcceptedGiven(id) => AcceptedGiven(id)')
  BY DEF Update, AcceptedGiven
<1> QED BY <1>1, <1>2, WaitKept

LEMMA WaitClient ==
  ASSUME TypeOK, RegisteredInv, WaitingInv, StoreInv, ClientStep
  PROVE  Attended
<1>1. ASSUME NEW c \in Client,
             WaitLifecycleStage(c) \/ OutcomeReady(c) \/ AcceptedReady(c) \/ WaitTimedOut(c)
      PROVE  Attended
  <2>1. ASSUME NEW where, Goto(c, where) PROVE Attended
    BY <2>1, WaitSame DEF Goto, Undoing
  <2> QED BY <1>1, <2>1, WaitReturn, WaitSteps
<1>2. ASSUME NEW c \in Client, NEW id \in ID, NEW stage \in Stages,
             UpdateWorkflowExecution(c, id, stage) \/ PollWorkflowExecutionUpdate(c, id, stage)
      PROVE  Attended
  <2>1. CASE UNCHANGED <<registry, upd, handler, sets>>
    BY <2>1, WaitSame DEF Undoing
  <2>2. CASE AnswerFromStore(id)
    BY <2>2, WaitSame DEF AnswerFromStore, Undoing
  <2>3. CASE Idle /\ ClearTo(db) /\ UNCHANGED handler
    BY <2>3, WaitClear DEF Idle, StoreInv
  <2>4. CASE /\ Idle /\ reg[id] = 0 /\ upd' = [upd EXCEPT ![id][Fresh(id)] = NewAdmitted]
             /\ reg' = [reg EXCEPT ![id] = Fresh(id)] /\ UNCHANGED <<handler, sets>>
    <3>1. Fresh(id) \in Object
      BY <2>4, FreshIsFree
    <3>2. PlacesGiven' /\ RegisteredUsed' /\ LeftAnswered
      BY <2>4, <3>1, WaitPut DEF Idle
    <3> QED BY <2>4, <3>2, WaitQuiet DEF Idle, StoreInv
  <2> QED BY <1>2, <2>1, <2>2, <2>3, <2>4 DEF UpdateWorkflowExecution, PollWorkflowExecutionUpdate
<1> QED BY <1>1, <1>2 DEF ClientStep

\* A value reaches its future.
LEMMA GivenSet ==
  ASSUME NEW u \in UpdateObject, NEW s \in Seq(SetRecord), s # <<>>, ObjectGiven(u, s),
         NEW v, v = IF Head(s).future = "outcome" THEN [u EXCEPT !.outcome = Head(s).value]
                                                  ELSE [u EXCEPT !.accepted = Head(s).value]
  PROVE  /\ v.state = u.state /\ ObjectGiven(v, Tail(s))
         /\ Given(u, s, "accepted") => Given(v, Tail(s), "accepted")
<1> DEFINE t == Tail(s)
<1>1. /\ Head(s) = s[1] /\ t \in Seq(SetRecord) /\ Len(s) \in Nat \ {0} /\ Len(t) = Len(s) - 1
      /\ \A i \in 1..Len(t) : t[i] = s[i + 1]
  <2>1. t \in Seq(SetRecord) /\ Len(t) = Len(s) - 1 /\ \A i \in 1..Len(t) : t[i] = s[i + 1]
    BY HeadTailProperties
  <2>2. Len(s) \in Nat \ {0}
    BY EmptySeq
  <2> QED BY <2>1, <2>2
<1> HIDE DEF t
<1>2. 1 \in 1..Len(s) /\ s[1] \in SetRecord
  BY <1>1
<1>3. /\ v.state = u.state
      /\ s[1].future = "outcome" => v.outcome = s[1].value /\ v.accepted = u.accepted
      /\ s[1].future # "outcome" => v.accepted = s[1].value /\ v.outcome = u.outcome
  BY <1>1 DEF UpdateObject
<1>4. s[1].value # "pending" /\ s[1].future \in {"accepted", "outcome"}
  BY <1>2 DEF ObjectGiven, SetRecord
<1>5. ASSUME NEW i \in 1..Len(t) PROVE t[i].value # "pending"
  <2>1. i + 1 \in 1..Len(s) /\ t[i] = s[i + 1]
    BY <1>1
  <2> QED BY <2>1 DEF ObjectGiven
<1>6. ASSUME NEW f \in {"accepted", "outcome"}, Given(u, s, f) PROVE Given(v, t, f)
  <2>1. CASE u[f] # "pending" \/ s[1].future = f
    <3>1. v[f] # "pending"
      <4>1. CASE f = "accepted"
        BY <1>3, <1>4, <2>1, <4>1
      <4>2. CASE f = "outcome"
        BY <1>3, <1>4, <2>1, <4>2
      <4> QED BY <4>1, <4>2
    <3> QED BY <3>1 DEF Given
  <2>2. CASE ~(u[f] # "pending" \/ s[1].future = f)
    <3>1. PICK i \in 1..Len(s) : s[i].future = f
      BY <1>6, <2>2 DEF Given
    <3>2. i # 1
      BY <2>2, <3>1
    <3>3. i - 1 \in 1..Len(t) /\ t[i - 1] = s[i]
      BY <1>1, <3>1, <3>2
    <3> QED BY <3>1, <3>3 DEF Given
  <2> QED BY <2>1, <2>2
<1>7. ObjectGiven(v, t)
  BY <1>3, <1>5, <1>6 DEF ObjectGiven
<1> QED BY <1>3, <1>6, <1>7 DEF t

LEMMA WaitSetFuture ==
  ASSUME TypeOK, WaitingInv, NEW id \in ID, NEW n \in Object, SetFuture(id, n)
  PROVE  Attended
<1> DEFINE u == upd[id][n]
           s == sets[id][n]
           v == IF Head(s).future = "outcome" THEN [u EXCEPT !.outcome = Head(s).value]
                ELSE [u EXCEPT !.accepted = Head(s).value]
<1>1. upd \in Objects /\ sets \in SetQueues /\ u \in UpdateObject /\ s \in Seq(SetRecord)
  BY DEF TypeOK, Objects, SetQueues
<1>2. s # <<>> /\ sets' = [sets EXCEPT ![id][n] = Tail(s)] /\ UNCHANGED <<reg, effects, pc, loaded>>
  BY DEF SetFuture
<1>3. upd' = [upd EXCEPT ![id][n] = v]
  BY <1>1 DEF SetFuture, Objects
<1>4. ObjectGiven(u, s) =>
         /\ v.state = u.state /\ ObjectGiven(v, Tail(s))
         /\ Given(u, s, "accepted") => Given(v, Tail(s), "accepted")
  BY <1>1, <1>2, GivenSet
<1> HIDE DEF u, s, v
<1>5. ASSUME NEW i \in ID, NEW m \in Object
      PROVE  \/ upd'[i][m] = upd[i][m] /\ sets'[i][m] = sets[i][m]
             \/ upd'[i][m] = v /\ sets'[i][m] = Tail(s) /\ upd[i][m] = u /\ sets[i][m] = s
  BY <1>1, <1>2, <1>3 DEF Objects, SetQueues, u, s
<1>6. ASSUME NEW i \in ID, NEW m \in Object, reg[i] = m
      PROVE  /\ ObjectGiven(upd'[i][m], sets'[i][m]) /\ upd'[i][m].state = upd[i][m].state
             /\ Given(upd[i][m], sets[i][m], "accepted") => Given(upd'[i][m], sets'[i][m], "accepted")
  <2>1. ObjectGiven(upd[i][m], sets[i][m])
    BY <1>6 DEF WaitingInv, PlacesGiven
  <2> QED BY <1>4, <1>5, <2>1
<1>7. PlacesGiven'
  BY <1>2, <1>6 DEF PlacesGiven
<1>8. ASSUME NEW i \in ID, reg[i] # 0
      PROVE  Update(i)'.state = Update(i).state /\ (AcceptedGiven(i) => AcceptedGiven(i)')
  <2>1. reg[i] \in Object
    BY <1>8 DEF TypeOK
  <2> QED BY <1>2, <1>6, <2>1 DEF Update, AcceptedGiven
<1> QED BY <1>2, <1>7, <1>8, WaitKept DEF Undoing

LEMMA WaitLoad ==
  ASSUME TypeInv, StoreInv, WaitingInv, LoadContext
  PROVE  Attended
<1>0. TypeOK /\ db.running \in BOOLEAN
  BY DEF TypeInv, TypeOK, Run
<1>1. Idle /\ effects' = <<>> /\ pc' = "idle" /\ UNCHANGED sets
  BY DEF LoadContext, Idle, StoreInv
<1>2. \A id \in ID : reg[id] = 0 /\ Fresh(id) \in Object
  <2>1. \A id \in ID : reg[id] = 0
    BY DEF TypeInv, Unloaded, LoadContext
  <2> QED BY <1>0, <2>1, FreshIsFree
<1>3. \A id \in ID : reg'[id] \in {0, Fresh(id)}
  BY DEF LoadContext
<1>4. ASSUME NEW running \in BOOLEAN
      PROVE  ObjectGiven(NewAccepted(running), <<>>) /\ NewAccepted(running).state \in {"Accepted", "Aborted"}
  <2>1. /\ NewAccepted(running).state \in {"Accepted", "Aborted"}
        /\ NewAccepted(running).state = "Aborted" => NewAccepted(running).outcome = "failed"
        /\ NewAccepted(running).accepted = "accepted"
    BY <1>4 DEF NewAccepted
  <2> QED BY <2>1, GivenNothing
<1>5. ASSUME NEW id \in ID, NEW n \in Object, reg'[id] = n
      PROVE  ObjectGiven(upd'[id][n], sets'[id][n]) /\ upd'[id][n].state # "Unused"
  <2>1. sets'[id][n] = <<>>
    BY <1>1 DEF Idle, Settled
  <2>2. upd'[id][n] \in {NewAdmitted, NewAccepted(db.running)}
    BY <1>5 DEF LoadContext
  <2> QED BY <1>0, <1>4, <2>1, <2>2, AdmittedGiven
<1>6. \A id \in ID : reg'[id] # 0 => reg'[id] \in Object
  BY <1>2, <1>3
<1>7. PlacesGiven' /\ RegisteredUsed'
  BY <1>5, <1>6 DEF PlacesGiven, RegisteredUsed, Update
<1>8. LeftAnswered
  BY <1>2, NoneForgotten
<1> QED BY <1>1, <1>7, <1>8, WaitQuiet

LEMMA WaitCrash ==
  ASSUME Crash
  PROVE  Attended
<1>1. effects' = <<>> /\ pc' = "idle" /\ reg' = [id \in ID |-> 0] /\ call' = [c \in Client |-> NoCall]
  BY DEF Crash
<1>2. \A id, n : ~Waiting(id, n)'
  BY <1>1 DEF Waiting, NoCall
<1>3. LeftAnswered
  BY <1>2 DEF LeftAnswered, Forgotten
<1> QED BY <1>1, <1>3, NothingRegistered, WaitQuiet

LEMMA WaitServer ==
  ASSUME TypeInv, StoreInv, RegisteredInv, WaitingInv, ServerStep
  PROVE  Attended
<1>0. TypeOK
  BY DEF TypeInv
<1>1. ASSUME NEW store, Idle, ClearTo(store), UNCHANGED handler PROVE Attended
  BY <1>0, <1>1, WaitClear DEF Idle, StoreInv
<1>2. ASSUME NEW m, Idle, WriteFailed(m), UNCHANGED handler PROVE Attended
  BY <1>1, <1>2 DEF WriteFailed
<1>3. ASSUME Idle, upd' = Sent(upd), UNCHANGED <<registry, handler, sets>> PROVE Attended
  BY <1>0, <1>3, WaitSent DEF Idle, StoreInv
<1>4. CASE RecordWorkflowTaskStarted
  BY <1>1, <1>2, <1>3, <1>4 DEF RecordWorkflowTaskStarted
<1>5. CASE WorkflowTaskTimedOut
  <2>1. ASSUME UNCHANGED <<registry, upd, handler, sets>> PROVE Attended
    BY <1>0, <2>1, WaitSame DEF Undoing
  <2> QED BY <1>2, <1>5, <2>1 DEF WorkflowTaskTimedOut
<1>6. ASSUME NEW reason \in {"WorkflowCompleted", "WorkflowContinuing"}, CloseWorkflow(reason) PROVE Attended
  <2>1. ASSUME Idle, upd' = AbortAll(upd, reason), sets' = AllAbortSets(upd, reason),
               UNCHANGED <<registry, handler>>
        PROVE  Attended
    BY <1>0, <2>1, WaitAborted DEF Idle, StoreInv
  <2> QED BY <1>2, <1>6, <2>1 DEF CloseWorkflow
<1>7. CASE ClearContext
  BY <1>1, <1>7 DEF ClearContext
<1> QED BY <1>4, <1>5, <1>6, <1>7, WaitLoad, WaitCrash DEF ServerStep

\* The end of a workflow task.
LEMMA WaitFinishTask ==
  ASSUME TypeOK, RegisteredInv, WaitingInv, FinishTask
  PROVE  Attended
<1>1. pc = "apply" /\ Settled /\ effects = <<>> /\ UNCHANGED effects /\ pc' = "idle"
  BY DEF FinishTask
<1>2. ASSUME UNCHANGED <<registry, upd, sets>> PROVE Attended
  BY <1>1, <1>2, WaitSame DEF Undoing
<1>3. ASSUME NEW reason \in {"WorkflowCompleted", "WorkflowContinuing"}, UNCHANGED registry,
             upd' = AbortAll(upd, reason), sets' = AllAbortSets(upd, reason)
      PROVE  Attended
  BY <1>1, <1>3, WaitAborted
<1>4. ASSUME upd' = Sent(upd), UNCHANGED <<registry, sets>> PROVE Attended
  BY <1>1, <1>4, WaitSent
<1>5. ASSUME ClearTo(db) PROVE Attended
  BY <1>1, <1>5, WaitClear
<1> QED BY <1>2, <1>3, <1>4, <1>5 DEF FinishTask

\* After a failed write the registry is forgotten already, and the objects stay as they are.
LEMMA WaitReturnError ==
  ASSUME TypeOK, RegisteredInv, WaitingInv, ReturnError
  PROVE  Attended
<1>1. pc = "cancel" /\ Settled /\ effects = <<>> /\ UNCHANGED effects /\ pc' = "idle"
  BY DEF ReturnError
<1>2. CASE loaded
  BY <1>1, <1>2, WaitClear DEF ReturnError, Undoing
<1>3. CASE ~loaded
  BY <1>1, <1>3, WaitSame DEF ReturnError, Undoing
<1> QED BY <1>2, <1>3

\* The task is failed, and the context is cleared.
LEMMA WaitFail ==
  ASSUME TypeInv, RegisteredInv, WaitingInv, FailWorkflowTask
  PROVE  Attended
<1> DEFINE u == AbortAll(upd, "WorkflowTaskFailed")
           first == AllAbortSets(upd, "WorkflowTaskFailed")
           w == AbortAll(u, "RegistryCleared")
           second == AllAbortSets(u, "RegistryCleared")
           both == [id \in ID |-> [n \in Object |-> first[id][n] \o second[id][n]]]
<1>1. /\ Settled /\ effects = <<>> /\ effects' = <<>> /\ pc = "fail" /\ pc' = "idle" /\ upd \in Objects
      /\ TypeOK /\ Undoing /\ reg' = [id \in ID |-> 0]
  BY DEF FailWorkflowTask, TypeInv, TypeOK, Objects, Unloaded, Undoing
<1>2. "WorkflowTaskFailed" \in Reasons /\ "RegistryCleared" \in Reasons
  BY DEF Reasons
<1>3. u \in Objects /\ first \in SetQueues
  BY <1>1, <1>2, AbortAllType
<1>4. upd' = Remaining(w) /\ sets' = RemainingSets(both)
  BY DEF FailWorkflowTask
<1>5. ASSUME NEW id \in ID, NEW n \in Object, reg[id] = n
      PROVE  /\ ObjectGiven(u[id][n], first[id][n]) /\ ObjectGiven(upd[id][n], <<>>)
             /\ \/ u[id][n].state \in {"Aborted", "Completed"}
                \/ u[id][n] = upd[id][n] /\ first[id][n] = <<>> /\ upd[id][n].state = "Accepted"
  BY <1>1, <1>2, <1>5, WaitAbortAll
<1>6. ASSUME NEW id \in ID, NEW n \in Object, reg[id] = n
      PROVE  /\ u[id][n].state \in {"Aborted", "Completed"} => w[id][n] = u[id][n] /\ second[id][n] = <<>>
             /\ w[id][n] = Aborted(u[id][n], "RegistryCleared")
             /\ second[id][n] = AbortSets(u[id][n], "RegistryCleared")
  BY <1>6 DEF AbortAll, AllAbortSets, Aborted, AbortSets, FailureError
<1> HIDE DEF u, first
<1>7. w \in Objects /\ second \in SetQueues
  BY <1>2, <1>3, AbortAllType
<1> HIDE DEF w, second
<1>8. ASSUME NEW id \in ID, NEW n \in Object, reg[id] = n
      PROVE  ObjectGiven(w[id][n], both[id][n]) /\ w[id][n].state \in {"Completed", "Aborted"}
  <2>1. /\ first[id][n] \in Seq(SetRecord) /\ second[id][n] \in Seq(SetRecord)
        /\ both[id][n] = first[id][n] \o second[id][n] /\ upd[id][n] \in UpdateObject
    BY <1>1, <1>3, <1>7 DEF SetQueues, Objects
  <2> HIDE DEF both
  <2>2. CASE u[id][n].state \in {"Aborted", "Completed"}
    <3>1. w[id][n] = u[id][n] /\ both[id][n] = first[id][n]
      <4>1. w[id][n] = u[id][n] /\ second[id][n] = <<>>
        BY <1>6, <1>8, <2>2
      <4>2. first[id][n] \o <<>> = first[id][n]
        BY <2>1
      <4> QED BY <2>1, <4>1, <4>2
    <3> QED BY <1>5, <1>8, <2>2, <3>1
  <2>3. CASE u[id][n].state \notin {"Aborted", "Completed"}
    <3>1. u[id][n] = upd[id][n] /\ first[id][n] = <<>> /\ upd[id][n].state = "Accepted"
      BY <1>5, <1>8, <2>3
    <3>2. /\ w[id][n] = Aborted(upd[id][n], "RegistryCleared")
          /\ both[id][n] = AbortSets(upd[id][n], "RegistryCleared")
      <4>1. /\ w[id][n] = Aborted(upd[id][n], "RegistryCleared")
            /\ second[id][n] = AbortSets(upd[id][n], "RegistryCleared")
        BY <1>6, <1>8, <3>1
      <4>2. <<>> \o second[id][n] = second[id][n]
        BY <2>1
      <4> QED BY <2>1, <3>1, <4>1, <4>2
    <3>3. /\ ObjectGiven(Aborted(upd[id][n], "RegistryCleared"), AbortSets(upd[id][n], "RegistryCleared"))
          /\ Aborted(upd[id][n], "RegistryCleared").state \in {"Aborted", "Completed"}
      BY <1>2, <1>5, <1>8, <2>1, <3>1, GivenAbort
    <3> QED BY <3>2, <3>3
  <2> QED BY <2>2, <2>3
<1> HIDE DEF both
<1>9. ASSUME NEW id \in ID, NEW n \in Object, Forgotten(id, n)
      PROVE  Answered(id, n)
  <2>1. upd'[id][n] = w[id][n] /\ sets'[id][n] = both[id][n]
    BY <1>1, <1>4, <1>9, WaitRemaining
  <2> QED BY <1>8, <1>9, <2>1, GivenAnswered DEF Forgotten
<1>10. LeftAnswered
  BY <1>9 DEF LeftAnswered
<1> QED BY <1>1, <1>10, NothingRegistered, WaitQuiet

-----------------------------------------------------------------------------
(* Waiters: the messages                                                   *)

\* The object n that a message finds in u: the registered one, or a new one.
Found(u, id, n) ==
    \/ reg[id] = n /\ u = upd
    \/ reg[id] = 0 /\ u = [upd EXCEPT ![id][n] = NewAdmitted]

LEMMA WaitFound ==
  ASSUME TypeOK, WaitingInv, Settled, NEW id \in ID, NEW n \in Object, NEW u, Found(u, id, n),
         NEW i \in ID, NEW m \in Object
  PROVE  /\ m = (IF i = id THEN n ELSE reg[i]) => ObjectGiven(u[i][m], <<>>) /\ u[i][m].state # "Unused"
         /\ i # id => u[i][m] = upd[i][m]
<1>1. upd \in Objects
  BY DEF TypeOK, Objects
<1>2. reg[i] = m => ObjectGiven(upd[i][m], <<>>) /\ upd[i][m].state # "Unused"
  BY NoObject DEF Settled, WaitingInv, PlacesGiven, RegisteredUsed, Update
<1>3. CASE reg[id] = n /\ u = upd
  BY <1>2, <1>3
<1>4. CASE reg[id] = 0 /\ u = [upd EXCEPT ![id][n] = NewAdmitted]
  <2>1. CASE i = id
    <3>1. u[id][n] = NewAdmitted
      BY <1>1, <1>4 DEF Objects
    <3> QED BY <2>1, <3>1, AdmittedGiven
  <2>2. CASE i # id
    <3>1. u[i][m] = upd[i][m]
      BY <1>1, <1>4, <2>2 DEF Objects
    <3> QED BY <1>2, <2>2, <3>1
  <2> QED BY <2>1, <2>2
<1> QED BY <1>3, <1>4 DEF Found

\* An effect has the object that is registered, as long as messages come in.
LEMMA WaitOwned ==
  ASSUME TypeOK, CommitInv, pc = "messages", NEW i \in 1..Len(effects), NEW e, e = effects[i]
  PROVE  /\ e \in EffectRecord /\ e.id \in ID /\ e.n \in Object /\ reg[e.id] = e.n /\ e.n # 0
         /\ e.kind = "respond" => Update(e.id).state = "ProvisionallyCompleted"
<1>1. e \in EffectRecord /\ Committable(e)
  BY EffectsType DEF CommitInv
<1>2. e.id \in ID /\ e.n \in Object /\ e.n # 0
  BY <1>1 DEF EffectRecord, Object
<1> QED BY <1>1, <1>2 DEF Committable, Update

\* The update that an effect leads to is in the state of the last effect.
LEMMA LastAccept ==
  ASSUME TypeOK, WaitingInv, pc = "messages", loaded,
         NEW id \in ID, reg[id] # 0, Update(id).state = "ProvisionallyAccepted"
  PROVE  \E k : Last(id, k) /\ effects[k].kind = "accept"
<1>1. PICK k : Last(id, k) /\ Update(id).state = Result(effects[k])
  BY DEF WaitingInv, EffectsUndoable, Undoing, LastInv, Provisional
<1> QED BY <1>1 DEF Result

\* A message moves an update, and leaves an effect.
LEMMA WaitProvisionally ==
  ASSUME TypeOK, WaitingInv, CommitInv, Settled, pc = "messages", loaded,
         NEW id \in ID, NEW n \in Object, NEW u \in Objects, Found(u, id, n), reg' = [reg EXCEPT ![id] = n],
         NEW w, w = u[id][n], w.state \in {"Admitted", "Sent", "ProvisionallyAccepted", "Accepted"},
         NEW state, NEW kind, NEW value,
         \/ kind = "accept" /\ state = "ProvisionallyAccepted"
         \/ kind = "abort" /\ state = "ProvisionallyAborted"
         \/ kind \in {"reject", "respond"} /\ state = "ProvisionallyCompleted",
         kind = "respond" => w.state \in {"ProvisionallyAccepted", "Accepted"},
         Provisionally(u, id, n, state, kind, value), UNCHANGED <<loaded, sets>>
  PROVE  Attended
<1> SUFFICES ASSUME NEW N, N = Len(effects), NEW e, e = Effect(kind, id, n, w.state, value)
             PROVE  Attended
  OBVIOUS
<1>1. /\ w \in UpdateObject /\ pc' = "messages" /\ loaded' /\ reg \in [ID -> Object \cup {0}] /\ n # 0
      /\ \A i \in ID : \A m \in Object : sets[i][m] = <<>> /\ sets'[i][m] = <<>>
  <2>1. w \in UpdateObject
    BY DEF Objects
  <2>2. reg \in [ID -> Object \cup {0}] /\ n # 0
    BY DEF TypeOK, Object
  <2>3. pc' = "messages" /\ loaded'
    BY DEF Provisionally
  <2>4. \A i \in ID : \A m \in Object : sets[i][m] = <<>> /\ sets'[i][m] = <<>>
    BY DEF Settled
  <2> QED BY <2>1, <2>2, <2>3, <2>4
<1>2. /\ upd'[id][n].state = state /\ upd'[id][n].accepted = w.accepted
      /\ \A i \in ID : \A m \in Object : ~(i = id /\ m = n) => upd'[i][m] = u[i][m]
  <2>1. upd'[id][n] = [w EXCEPT !.state = state, !.event = w.event \/ kind = "accept"]
    BY DEF Provisionally, Objects
  <2>2. \A i \in ID : \A m \in Object : ~(i = id /\ m = n) => upd'[i][m] = u[i][m]
    BY DEF Provisionally, Objects
  <2> QED BY <1>1, <2>1, <2>2 DEF UpdateObject
<1>3. e.id = id /\ e.n = n /\ e.kind = kind /\ e.prev = w.state /\ effects' = Append(effects, e)
  BY DEF Effect, Provisionally
<1>4. /\ N = Len(effects) /\ N \in Nat /\ Len(effects') = N + 1 /\ effects'[N + 1] = e
      /\ \A i \in 1..N : effects'[i] = effects[i] /\ i \in 1..Len(effects')
  <2>1. effects \in Seq(EffectRecord) /\ N \in Nat
    BY DEF TypeOK
  <2>2. Len(effects') = N + 1 /\ effects'[N + 1] = e /\ \A i \in 1..N : effects'[i] = effects[i]
    BY <1>3, <2>1
  <2> QED BY <2>1, <2>2
<1>5. \A i \in 1..Len(effects') : i \in 1..N \/ i = N + 1
  BY <1>4
<1>6. reg'[id] = n /\ Update(id)' = upd'[id][n] /\ \A i \in ID : i # id => reg'[i] = reg[i]
  BY <1>1 DEF Update
<1>7. ASSUME NEW i \in ID, i # id, reg[i] # 0
      PROVE  Update(i)' = Update(i) /\ (AcceptedGiven(i) => AcceptedGiven(i)')
  <2>1. reg[i] \in Object /\ reg'[i] = reg[i]
    BY <1>1, <1>6, <1>7
  <2>2. upd'[i][reg[i]] = upd[i][reg[i]]
    BY <1>2, <1>7, <2>1, WaitFound
  <2>3. sets'[i][reg[i]] = sets[i][reg[i]]
    BY <1>1, <2>1
  <2> QED BY <2>1, <2>2, <2>3 DEF Update, AcceptedGiven
\* The object has what it had.
<1>8. /\ reg[id] # 0 => reg[id] = n /\ w = Update(id) /\ (AcceptedGiven(id) => AcceptedGiven(id)')
      /\ w.state = "Accepted" => AcceptedGiven(id)'
  <2>1. AcceptedGiven(id)' <=> w.accepted # "pending"
    <3>1. AcceptedGiven(id)' <=> Given(upd'[id][n], sets'[id][n], "accepted")
      BY <1>6 DEF AcceptedGiven
    <3>2. sets'[id][n] = <<>> /\ Len(<<>>) = 0
      BY <1>1, EmptySeq
    <3> QED BY <1>2, <3>1, <3>2 DEF Given
  <2>2. ObjectGiven(w, <<>>)
    BY WaitFound
  <2>3. w.state = "Accepted" => w.accepted # "pending"
    BY <2>2, GivenSettled
  <2>4. ASSUME reg[id] # 0 PROVE reg[id] = n /\ w = Update(id) /\ (AcceptedGiven(id) => w.accepted # "pending")
    <3>1. reg[id] = n /\ w = Update(id)
      BY <2>4 DEF Found, Update
    <3>2. sets[id][n] = <<>>
      BY <1>1
    <3>3. Given(w, <<>>, "accepted") <=> w.accepted # "pending"
      BY <2>2, GivenSettled
    <3> QED BY <3>1, <3>2, <3>3 DEF AcceptedGiven
  <2> QED BY <2>1, <2>3, <2>4
<1>9. w.state = "ProvisionallyAccepted" => \E k : Last(id, k) /\ effects[k].kind = "accept"
  <2>1. w.state = "ProvisionallyAccepted" => reg[id] # 0
    BY <1>1, AdmittedGiven DEF Found, Objects, TypeOK
  <2> QED BY <1>8, <2>1, LastAccept
<1>10. ASSUME NEW i \in 1..N, NEW x, x = effects[i]
       PROVE  /\ EffectGiven(x, i)' /\ Undoable(x, i)'
              /\ reg[x.id] # 0
  <2>1. /\ x.id \in ID /\ reg[x.id] = x.n /\ x.n # 0
        /\ x.kind = "respond" => Update(x.id).state = "ProvisionallyCompleted"
    BY <1>4, <1>10, WaitOwned
  <2>2. EffectGiven(x, i) /\ Undoable(x, i)
    BY <1>4, <1>10 DEF WaitingInv, EffectsGiven, EffectsUndoable, Undoing
  <2>3. /\ AcceptedGiven(x.id) => AcceptedGiven(x.id)'
        /\ reg'[x.id] = x.n
        /\ x.id = id => x.kind # "respond"
    <3>1. CASE x.id = id
      <4>1. w = Update(id) /\ reg[id] = n /\ (AcceptedGiven(id) => AcceptedGiven(id)')
        BY <1>8, <2>1, <3>1
      <4> QED BY <1>6, <2>1, <3>1, <4>1
    <3>2. CASE x.id # id
      BY <1>6, <1>7, <2>1, <3>2
    <3> QED BY <3>1, <3>2
  <2>4. \A j \in 1..(i - 1) : j \in 1..N /\ effects'[j] = effects[j]
    BY <1>4
  <2>5. EffectGiven(x, i)'
    <3>1. x.kind = "respond" => Update(x.id)' = Update(x.id)
      BY <1>7, <2>1, <2>3
    <3> QED BY <1>1, <2>1, <2>2, <2>3, <2>4, <3>1 DEF EffectGiven
  <2>6. Undoable(x, i)'
    BY <2>2, <2>3, <2>4 DEF Undoable
  <2> QED BY <2>1, <2>5, <2>6
<1>11. ASSUME NEW x, x = e PROVE EffectGiven(x, N + 1)' /\ Undoable(x, N + 1)'
  <2>1. /\ w.state = "ProvisionallyAccepted" =>
              \E k \in 1..N : /\ effects[k].id = id /\ effects[k].kind = "accept"
                              /\ \A j \in 1..N : j > k => effects[j].id # id
    BY <1>4, <1>9 DEF Last
  <2>2. w.state = "ProvisionallyAccepted" =>
           \E k \in 1..N : /\ effects'[k].id = id /\ effects'[k].kind = "accept"
                           /\ \A j \in 1..N : j > k => effects'[j].id # id
    BY <1>4, <2>1
  <2>3. N + 1 - 1 = N
    BY <1>4
  <2>4. EffectGiven(x, N + 1)'
    <3>1. x.id = id /\ x.n = n /\ x.kind = kind /\ x.prev = w.state
      BY <1>3, <1>11
    <3>2. x.prev = "Accepted" => AcceptedGiven(x.id)'
      BY <1>8, <3>1
    <3>3. x.prev \in PreAccepted \cup {"Accepted"}
      BY <3>1 DEF PreAccepted
    <3>4. x.kind = "respond" =>
            AcceptedGiven(x.id)' \/ \E j \in 1..N : effects'[j].id = x.id /\ effects'[j].kind = "accept"
      BY <2>2, <3>1, <3>2
    <3> QED BY <2>3, <3>2, <3>3, <3>4 DEF EffectGiven
  <2>5. Undoable(x, N + 1)'
    BY <1>3, <1>6, <1>11, <2>2, <2>3 DEF Undoable, Provisional
  <2> QED BY <2>4, <2>5
<1>12. EffectsGiven' /\ \A i \in 1..Len(effects') : Undoable(effects[i], i)'
  <2>1. ASSUME NEW i \in 1..Len(effects'), NEW x, x = effects'[i] PROVE EffectGiven(x, i)' /\ Undoable(x, i)'
    <3>1. CASE i \in 1..N
      <4>1. x = effects[i] /\ i \in 1..N
        BY <1>4, <2>1, <3>1
      <4> QED BY <1>10, <4>1
    <3>2. CASE i = N + 1
      <4>1. x = e
        BY <1>4, <2>1, <3>2
      <4> QED BY <1>11, <3>2, <4>1
    <3> QED BY <1>5, <3>1, <3>2
  <2> QED BY <2>1 DEF EffectsGiven, EffectGiven, Undoable
<1>13. ASSUME NEW i \in ID PROVE LastInv(i)'
  <2>1. CASE i = id
    <3>1. N + 1 \in 1..Len(effects') /\ effects'[N + 1].id = id /\ \A j \in 1..Len(effects') : ~(j > N + 1)
      BY <1>3, <1>4
    <3>2. Last(id, N + 1)'
      BY <3>1 DEF Last
    <3>3. state = Result(e)
      BY <1>3 DEF Result
    <3> QED BY <1>2, <1>4, <1>6, <2>1, <3>2, <3>3 DEF LastInv
  <2>2. CASE i # id
    <3>1. SUFFICES ASSUME reg'[i] # 0, Update(i)'.state \in Provisional
                   PROVE  \E k : Last(i, k)' /\ Update(i)'.state = Result(effects'[k])
      BY DEF LastInv
    <3>2. PICK k : Last(i, k) /\ Update(i).state = Result(effects[k])
      BY <1>1, <1>6, <1>7, <2>2, <3>1 DEF WaitingInv, EffectsUndoable, Undoing, LastInv
    <3>3. effects'[k] = effects[k] /\ Last(i, k)'
      BY <1>3, <1>4, <1>5, <2>2, <3>2 DEF Last
    <3> QED BY <1>6, <1>7, <2>2, <3>1, <3>2, <3>3
  <2> QED BY <2>1, <2>2
<1>14. EffectsUndoable'
  BY <1>12, <1>13 DEF EffectsUndoable
<1>15. ASSUME NEW i \in ID, NEW m \in Object, reg'[i] = m
       PROVE  ObjectGiven(upd'[i][m], sets'[i][m]) /\ upd'[i][m].state # "Unused"
  <2>1. sets'[i][m] = <<>> /\ Len(<<>>) = 0
    BY <1>1, EmptySeq
  <2>2. CASE i = id
    <3>1. m = n /\ state \notin {"Accepted", "Completed", "Aborted", "Unused"}
      BY <1>6, <1>15, <2>2
    <3> QED BY <1>2, <2>1, <2>2, <3>1 DEF ObjectGiven
  <2>3. CASE i # id
    <3>1. upd'[i][m] = u[i][m] /\ reg[i] = m
      BY <1>2, <1>6, <1>15, <2>3
    <3> QED BY <2>1, <2>3, <3>1, WaitFound
  <2> QED BY <2>2, <2>3
<1>16. \A i \in ID : reg'[i] # 0 => reg'[i] \in Object
  BY <1>1
<1>17. PlacesGiven' /\ RegisteredUsed'
  BY <1>15, <1>16 DEF PlacesGiven, RegisteredUsed, Update
<1>18. LeftAnswered
  <2>1. reg[id] = n \/ reg[id] = 0
    BY DEF Found
  <2> QED BY <1>6, <2>1, NoneForgotten
<1> QED BY <1>12, <1>14, <1>17, <1>18 DEF WaitingInv, Attended

LEMMA WaitMessage ==
  ASSUME TypeOK, WaitingInv, CommitInv, Settled, pc = "messages", loaded,
         NEW id \in ID, NEW n \in Object, NEW u \in Objects, Found(u, id, n), reg' = [reg EXCEPT ![id] = n],
         NEW w, w = u[id][n], MessageEntry(w, id),
         NEW kind \in {"accept", "reject", "respond"}, NEW value, reg[id] = 0 => kind # "respond",
         OnProtocolMessage(u, id, n, kind, value), UNCHANGED <<loaded, sets>>
  PROVE  Attended
<1>1. w.state \in States /\ w.state \notin {"Unused", "Completed", "ProvisionallyCompletedAfterAccepted"}
  BY DEF MessageEntry, Objects, UpdateObject
<1>2. CASE upd' = u /\ UNCHANGED effects /\ pc' \in {"messages", "fail"} /\ reg[id] = n /\ u = upd
  <2>1. reg' = reg
    BY <1>2 DEF TypeOK
  <2> QED BY <1>2, <2>1, WaitSame DEF Undoing
<1>3. CASE \E failure : /\ ~ms.running /\ w.state \notin {"ProvisionallyAborted", "Aborted"}
                        /\ Provisionally(u, id, n, "ProvisionallyAborted", "abort", failure)
  <2>1. w.state \in {"Admitted", "Sent", "ProvisionallyAccepted", "Accepted"}
    BY <1>1, <1>3 DEF States, MessageEntry
  <2> QED BY <1>3, <2>1, WaitProvisionally
<1>4. CASE /\ w.state \in {"Sent", "Admitted"} /\ kind = "accept"
           /\ Provisionally(u, id, n, "ProvisionallyAccepted", "accept", "accepted")
  BY <1>4, WaitProvisionally
<1>5. CASE /\ w.state \in {"Sent", "Admitted"} /\ kind = "reject"
           /\ Provisionally(u, id, n, "ProvisionallyCompleted", "reject", "rejected")
  BY <1>5, WaitProvisionally
<1>6. CASE /\ w.state \in {"ProvisionallyAccepted", "Accepted"} /\ kind = "respond"
           /\ Provisionally(u, id, n, "ProvisionallyCompleted", "respond", value)
  BY <1>6, WaitProvisionally
<1> DEFINE failure == FailureError("WorkflowCompleted", w.state)
<1>7. /\ failure # "none" => w.state \notin {"ProvisionallyAborted", "Aborted"}
      /\ w.state \in {"Admitted", "Sent"} => failure # "none"
  BY DEF FailureError
\* A new object is always moved.
<1>8. reg[id] # n \/ u # upd => w.state = "Admitted" /\ kind \in {"accept", "reject"}
  <2>1. reg[id] = 0 /\ u = [upd EXCEPT ![id][n] = NewAdmitted] => w = NewAdmitted
    BY DEF TypeOK
  <2> QED BY <2>1, AdmittedGiven DEF Found
<1>9. \/ failure # "none" /\ ~ms.running /\ Provisionally(u, id, n, "ProvisionallyAborted", "abort", failure)
      \/ /\ upd' = u /\ UNCHANGED effects /\ pc' \in {"messages", "fail"}
         /\ \/ ~ms.running /\ failure = "none"
            \/ w.state \notin IF kind = "respond" THEN {"ProvisionallyAccepted", "Accepted"} ELSE {"Sent", "Admitted"}
      \/ /\ w.state \in {"Sent", "Admitted"} /\ kind = "accept"
         /\ Provisionally(u, id, n, "ProvisionallyAccepted", "accept", "accepted")
      \/ /\ w.state \in {"Sent", "Admitted"} /\ kind = "reject"
         /\ Provisionally(u, id, n, "ProvisionallyCompleted", "reject", "rejected")
      \/ /\ w.state \in {"ProvisionallyAccepted", "Accepted"} /\ kind = "respond"
         /\ Provisionally(u, id, n, "ProvisionallyCompleted", "respond", value)
  BY DEF OnProtocolMessage
<1> HIDE DEF failure
<1> QED BY <1>2, <1>3, <1>4, <1>5, <1>6, <1>7, <1>8, <1>9

LEMMA WaitHandleMessage ==
  ASSUME TypeInv, StoreInv, CommitInv, RegisteredInv, RegInv, WaitingInv, "worker" \notin Faults,
         NEW id \in ID, NEW kind \in {"accept", "reject", "respond"}, NEW value, HandleMessage(id, kind, value)
  PROVE  Attended
<1>1. /\ TypeOK /\ Registering /\ pc = "messages" /\ loaded /\ Legal(id) /\ UNCHANGED <<loaded, sets>>
      /\ upd \in Objects /\ reg \in [ID -> Object \cup {0}] /\ Settled
  BY DEF TypeInv, TypeOK, Unloaded, Objects, HandleMessage, Registering, StoreInv
<1>2. CASE reg[id] # 0 /\ OnProtocolMessage(upd, id, reg[id], kind, value) /\ UNCHANGED reg
  <2> SUFFICES ASSUME NEW n, n = reg[id], NEW w, w = upd[id][n] PROVE Attended
    OBVIOUS
  <2>1. n \in Object /\ reg' = [reg EXCEPT ![id] = n] /\ Found(upd, id, n)
    BY <1>1, <1>2 DEF Found
  <2>2. StateInv(id, w.state) /\ w = Update(id)
    BY <1>1, <1>2 DEF RegisteredInv, Update
  <2>3. Entry(w, ms.info[id], ms.running, Remains(id, {"respond"}), pc = "idle")
    BY <1>1, <1>2, <2>2 DEF RegInv, EntryInv
  <2>4. w.state # "ProvisionallyCompletedAfterAccepted"
    BY <1>1, <2>2 DEF StateInv
  <2>5. ms.running \/ w.state # "ProvisionallyCompleted"
    BY <1>1, <1>2, <2>2 DEF Legal
  <2>6. MessageEntry(w, id)
    BY <2>3, <2>4, <2>5 DEF Entry, MessageEntry
  <2>7. OnProtocolMessage(upd, id, n, kind, value) /\ reg[id] # 0
    BY <1>2
  <2>8. UNCHANGED <<loaded, sets>> /\ loaded /\ pc = "messages" /\ Settled /\ TypeOK /\ upd \in Objects
    BY <1>1
  <2> QED BY <2>1, <2>6, <2>7, <2>8, WaitMessage
<1>3. CASE /\ reg[id] = 0 /\ ms.info[id] = "none" /\ reg' = [reg EXCEPT ![id] = Fresh(id)] /\ kind # "respond"
           /\ OnProtocolMessage([upd EXCEPT ![id][Fresh(id)] = NewAdmitted], id, Fresh(id), kind, value)
  <2> SUFFICES ASSUME NEW n, n = Fresh(id), NEW u, u = [upd EXCEPT ![id][n] = NewAdmitted] PROVE Attended
    OBVIOUS
  <2>1. n \in Object
    BY <1>1, <1>3, FreshIsFree
  <2>2. u \in Objects /\ u[id][n] = NewAdmitted /\ Found(u, id, n)
    BY <1>1, <1>3, <2>1, NewObjects DEF Objects, Found
  <2>3. MessageEntry(NewAdmitted, id)
    <3>1. ms.info[id] \notin Outcome
      BY <1>3, Kinds
    <3> QED BY <3>1 DEF MessageEntry, NewAdmitted, Unused
  <2>4. reg' = [reg EXCEPT ![id] = n] /\ OnProtocolMessage(u, id, n, kind, value)
    BY <1>3
  <2>5. /\ UNCHANGED <<loaded, sets>> /\ loaded /\ pc = "messages" /\ Settled /\ TypeOK
        /\ reg[id] = 0 => kind # "respond"
    BY <1>1, <1>3
  <2> SUFFICES ASSUME NEW w, w = u[id][n] PROVE Attended
    OBVIOUS
  <2>6. MessageEntry(w, id)
    BY <2>2, <2>3
  <2> QED BY <2>1, <2>2, <2>4, <2>5, <2>6, WaitMessage
<1>4. CASE UNCHANGED <<reg, upd, effects>> /\ pc' \in {"cancel", "fail"}
  <2>1. UNCHANGED <<effects, reg, upd, sets>> /\ loaded' = loaded /\ pc = "messages" /\ pc' \in {"cancel", "fail"}
    BY <1>1, <1>4
  <2> QED BY <1>1, <2>1, WaitSame DEF Undoing
<1>5. \/ reg[id] # 0 /\ OnProtocolMessage(upd, id, reg[id], kind, value) /\ UNCHANGED reg
      \/ /\ reg[id] = 0 /\ ms.info[id] = "none" /\ reg' = [reg EXCEPT ![id] = Fresh(id)] /\ kind # "respond"
         /\ OnProtocolMessage([upd EXCEPT ![id][Fresh(id)] = NewAdmitted], id, Fresh(id), kind, value)
      \/ UNCHANGED <<reg, upd, effects>> /\ pc' \in {"cancel", "fail"}
  BY Zenon DEF HandleMessage
<1> QED BY <1>2, <1>3, <1>4, <1>5

\* A worker answers a task: no update is in a provisional state.
LEMMA WaitRespond ==
  ASSUME TypeInv, StoreInv, RegisteredInv, WaitingInv, NEW discard, RespondWorkflowTaskCompleted(discard)
  PROVE  Attended
<1>1. /\ TypeOK /\ pc = "idle" /\ effects = <<>> /\ effects' = <<>> /\ UNCHANGED <<reg, upd, sets>>
  BY DEF TypeInv, RespondWorkflowTaskCompleted, Idle, StoreInv
<1>2. PlacesGiven' /\ RegisteredUsed'
  BY <1>1 DEF WaitingInv, PlacesGiven, RegisteredUsed, Update
<1>3. Len(effects') = 0
  BY <1>1, EmptySeq
<1>4. ASSUME NEW id \in ID PROVE LastInv(id)'
  <2>1. reg[id] # 0 => Update(id).state \in {"Admitted", "Sent", "Accepted", "Aborted", "Completed"}
    BY <1>1, RestingState
  <2>2. Update(id)' = Update(id) /\ reg'[id] = reg[id]
    BY <1>1 DEF Update
  <2> QED BY <2>1, <2>2 DEF LastInv, Provisional
<1>5. EffectsGiven' /\ EffectsUndoable'
  BY <1>3, <1>4 DEF EffectsGiven, EffectsUndoable
<1>6. LeftAnswered
  BY <1>1, NoneForgotten
<1> QED BY <1>2, <1>5, <1>6 DEF WaitingInv, Attended

LEMMA WaitCommand ==
  ASSUME TypeOK, WaitingInv, HandleBadCommand \/ \E newRun : HandleCloseCommand(newRun)
  PROVE  Attended
<1>1. /\ UNCHANGED <<effects, reg, upd, sets>> /\ loaded' = loaded
      /\ pc = "messages" /\ pc' \in {"messages", "cancel", "fail"}
  BY DEF HandleBadCommand, HandleCloseCommand
<1> QED BY <1>1, WaitSame DEF Undoing

\* The write fails before the effects are cancelled: what the registry then says to its updates,
\* by the state in which the task has left them.
LEMMA WaitWriteFailed ==
  ASSUME TypeOK, StoreInv, RegisteredInv, WaitingInv, pc = "persist", pc' = "cancel",
         NEW store, ClearTo(store), NEW id \in ID, NEW n \in Object, Forgotten(id, n)
  PROVE  Answered(id, n)
<1> DEFINE u == upd[id][n]
           v == Aborted(u, "RegistryCleared")
           s == AbortSets(u, "RegistryCleared")
           e == "registryClearedErr"
<1>1. /\ reg[id] = n /\ n # 0 /\ Update(id) = u /\ u \in UpdateObject /\ ObjectGiven(u, <<>>)
      /\ u.state # "Unused"
  BY NoObject DEF Forgotten, Update, TypeOK, StoreInv, Settled, WaitingInv, PlacesGiven, RegisteredUsed
<1>2. upd'[id][n] = v /\ sets'[id][n] = s
  <2> DEFINE all == AbortAll(upd, "RegistryCleared")
             both == AllAbortSets(upd, "RegistryCleared")
  <2>1. upd' = Remaining(all) /\ sets' = RemainingSets(both) /\ reg' = [i \in ID |-> 0]
    BY DEF ClearTo
  <2>2. all[id][n] = v /\ both[id][n] = s
    BY <1>1 DEF AbortAll, AllAbortSets
  <2> HIDE DEF all, both, v, s
  <2>3. upd'[id][n] = all[id][n] /\ sets'[id][n] = both[id][n]
    BY <2>1, WaitRemaining
  <2> QED BY <2>2, <2>3
<1>3. /\ u.state \in {"Accepted", "Completed", "Aborted"} => u.accepted # "pending"
      /\ u.state \in {"Completed", "Aborted"} => u.outcome # "pending"
  BY <1>1, GivenSettled
<1>4. u.state \in States /\ u.state # "ProvisionallyCompletedAfterAccepted"
  BY <1>1 DEF UpdateObject, RegisteredInv, StateInv
<1>5. CASE u.state \in {"Completed", "ProvisionallyAborted", "Aborted"}
  <2>1. v = u /\ s = <<>>
    BY <1>5 DEF Aborted, AbortSets, FailureError
  <2> HIDE DEF v, s
  <2> QED BY <1>2, <1>3, <1>5, <2>1 DEF Answered, Given, WriteFails
<1>6. CASE u.state \notin {"Completed", "ProvisionallyAborted", "Aborted"}
  <2>1. /\ v.accepted = u.accepted
        /\ s = IF u.state \in PreAccepted THEN <<OutcomeSet(e), AcceptedSet(e)>> ELSE <<OutcomeSet(e)>>
    <3>1. FailureError("RegistryCleared", u.state) = e /\ e # "none"
      BY <1>1, <1>6 DEF FailureError
    <3> HIDE DEF e
    <3> QED BY <1>1, <3>1, Zenon DEF Aborted, AbortSets, UpdateObject, OutcomeSet, AcceptedSet
  <2> HIDE DEF v, s
  <2>2. /\ u.state \in PreAccepted => \E i \in 1..Len(s) : s[i].future = "accepted"
        /\ \E i \in 1..Len(s) : s[i].future = "outcome"
    BY <2>1, Queues DEF OutcomeSet, AcceptedSet
  <2>3. u.state \in PreAccepted \cup {"Accepted", "ProvisionallyCompleted"}
    BY <1>1, <1>4, <1>6 DEF States, PreAccepted
  <2> QED BY <1>2, <1>3, <2>1, <2>2, <2>3 DEF Answered, Given, WriteFails
<1> QED BY <1>5, <1>6

\* Nothing is owed to a registry that is forgotten, and the effects that are left are the same.
LEMMA ForgottenGiven ==
  ASSUME TypeOK, WaitingInv, reg' = [id \in ID |-> 0], pc' = "cancel",
         \A i \in 1..Len(effects') : i \in 1..Len(effects) /\ effects'[i] = effects[i]
  PROVE  EffectsGiven'
<1>1. ASSUME NEW i \in 1..Len(effects'), NEW x, x = effects'[i] PROVE EffectGiven(x, i)'
  <2>1. x \in EffectRecord /\ EffectGiven(x, i)
    BY <1>1, EffectsType DEF WaitingInv, EffectsGiven
  <2>2. reg'[x.id] # x.n
    BY <2>1, NoObject DEF EffectRecord
  <2> QED BY <2>1, <2>2 DEF EffectGiven
<1> QED BY <1>1 DEF EffectsGiven, EffectGiven

LEMMA WaitPersist ==
  ASSUME TypeOK, StoreInv, RegisteredInv, WaitingInv, Persist
  PROVE  Attended
<1>1. pc = "persist" /\ UNCHANGED effects
  BY DEF Persist
<1>2. CASE pc' = "apply" /\ UNCHANGED <<registry, upd, sets>>
  BY <1>1, <1>2, WaitSame DEF Undoing
<1>3. CASE pc' = "cancel" /\ \E store : ClearTo(store)
  <2>1. reg' = [id \in ID |-> 0] /\ ~loaded'
    BY <1>3 DEF ClearTo
  <2>2. PlacesGiven' /\ RegisteredUsed'
    BY <2>1, NothingRegistered
  <2>3. EffectsGiven'
    BY <1>1, <1>3, <2>1, ForgottenGiven
  <2>4. EffectsUndoable'
    BY <2>1 DEF EffectsUndoable, Undoing
  <2>5. LeftAnswered
    BY <1>1, <1>3, WaitWriteFailed DEF LeftAnswered
  <2> QED BY <2>2, <2>3, <2>4, <2>5 DEF WaitingInv, Attended
<1> QED BY <1>2, <1>3 DEF Persist, WriteFailed

\* The updates that the worker has ignored, or that a closing run had accepted.
LEMMA WaitFinishMessages ==
  ASSUME TypeOK, WaitingInv, CommitInv, StoreInv, NEW heartbeat, NEW buffered, NEW bypass,
         FinishMessages(heartbeat, buffered, bypass)
  PROVE  Attended
<1>1. /\ pc = "messages" /\ pc' \in {"apply", "persist"} /\ UNCHANGED <<reg, sets>>
      /\ reg \in [ID -> Object \cup {0}]
      /\ \A id \in ID : \A n \in Object : sets[id][n] = <<>>
  BY DEF FinishMessages, StoreInv, Settled, TypeOK
<1>2. PICK S, state, kind, value :
         /\ AllProvisionally(S, state, kind, value)
         /\ \/ S \subseteq Unprocessed /\ state = "ProvisionallyCompleted" /\ kind = "reject" /\ value = "rejected"
            \/ S = InAcceptance /\ state = "ProvisionallyAborted" /\ kind = "abort" /\ value = "failed"
  <2>1. CASE ms.running
    BY <2>1 DEF FinishMessages
  <2>2. CASE ~ms.running
    BY <2>2 DEF FinishMessages
  <2> QED BY <2>1, <2>2
<1>3. ASSUME NEW id \in S
      PROVE  /\ id \in ID /\ reg[id] # 0 /\ Update(id).state \in {"Sent", "ProvisionallyAccepted", "Accepted"}
             /\ kind = "reject" => Update(id).state = "Sent"
  BY <1>2 DEF Unprocessed, InAcceptance
<1>4. OneEffectEach(S, kind, value) /\ state \in {"ProvisionallyCompleted", "ProvisionallyAborted"}
  <2>1. S \subseteq {id \in ID : reg[id] # 0}
    BY <1>3
  <2>2. state \in States /\ kind \in {"accept", "reject", "respond", "abort"} /\ value \in Value
    BY <1>2 DEF States, Value
  <2> QED BY <1>2, <2>1, <2>2, AllProvisionallyEffects
\* The futures stay; a registered update moves, or stays.
<1>5. ASSUME NEW id \in ID, NEW n \in Object
      PROVE  /\ upd'[id][n] = upd[id][n]
                \/ /\ id \in S /\ reg[id] = n /\ upd'[id][n].state = state
                   /\ upd'[id][n].accepted = upd[id][n].accepted
             /\ upd[id][n] \in UpdateObject /\ (reg[id] = n => ObjectGiven(upd[id][n], <<>>))
             /\ sets[id][n] = <<>> /\ sets'[id][n] = <<>>
  <2>1. /\ upd[id][n] \in UpdateObject /\ (reg[id] = n => ObjectGiven(upd[id][n], <<>>))
        /\ sets[id][n] = <<>> /\ sets'[id][n] = <<>>
    BY <1>1 DEF TypeOK, WaitingInv, PlacesGiven
  <2>2. CASE id \in S /\ reg[id] = n
    <3> DEFINE v == [upd[id][n] EXCEPT !.state = state]
    <3>1. upd'[id][n] = v
      BY <1>2, <2>2, Zenon DEF AllProvisionally
    <3>2. v.state = state /\ v.accepted = upd[id][n].accepted
      BY <2>1 DEF UpdateObject
    <3> QED BY <2>1, <2>2, <3>1, <3>2
  <2>3. CASE ~(id \in S /\ reg[id] = n)
    <3>1. upd'[id][n] = upd[id][n]
      BY <1>2, <2>3, Zenon DEF AllProvisionally
    <3> QED BY <2>1, <3>1
  <2> QED BY <2>2, <2>3
<1>6. ASSUME NEW id \in ID, NEW n \in Object, reg'[id] = n
      PROVE  ObjectGiven(upd'[id][n], sets'[id][n]) /\ upd'[id][n].state # "Unused"
  <2>1. reg[id] = n /\ Len(<<>>) = 0
    BY <1>1, <1>6, EmptySeq
  <2>2. upd[id][n].state # "Unused"
    BY <2>1, NoObject DEF WaitingInv, RegisteredUsed, Update
  <2>3. upd'[id][n].state = state => ObjectGiven(upd'[id][n], <<>>)
    BY <1>4, <2>1 DEF ObjectGiven
  <2> QED BY <1>4, <1>5, <2>1, <2>2, <2>3
<1>7. PlacesGiven' /\ RegisteredUsed'
  <2>1. \A id \in ID : reg'[id] # 0 => reg'[id] \in Object
    BY <1>1
  <2> QED BY <1>6, <2>1 DEF PlacesGiven, RegisteredUsed, Update
<1>8. ASSUME NEW id \in ID, reg[id] # 0
      PROVE  /\ AcceptedGiven(id) => AcceptedGiven(id)'
             /\ Update(id)'.state = "ProvisionallyCompleted" /\ id \notin S =>
                   Update(id).state = "ProvisionallyCompleted"
  <2>1. reg[id] \in Object /\ reg'[id] = reg[id]
    BY <1>1, <1>8
  <2>2. upd'[id][reg[id]].accepted = upd[id][reg[id]].accepted /\ sets'[id][reg[id]] = sets[id][reg[id]]
    BY <1>5, <2>1
  <2>3. id \notin S => upd'[id][reg[id]] = upd[id][reg[id]]
    BY <1>5, <2>1
  <2> QED BY <2>1, <2>2, <2>3 DEF AcceptedGiven, Given, Update
<1>9. ASSUME NEW i \in 1..Len(effects'), NEW x, x = effects'[i] PROVE EffectGiven(x, i)'
  <2>1. CASE i \in 1..Len(effects) /\ effects'[i] = effects[i]
    <3>1. /\ x.id \in ID /\ reg[x.id] = x.n /\ x.n # 0
          /\ x.kind = "respond" => Update(x.id).state = "ProvisionallyCompleted"
      BY <1>1, <1>9, <2>1, WaitOwned
    <3>2. EffectGiven(x, i)
      BY <1>9, <2>1 DEF WaitingInv, EffectsGiven
    <3>3. AcceptedGiven(x.id) => AcceptedGiven(x.id)'
      BY <1>8, <3>1
    <3>4. x.prev = "Accepted" /\ reg'[x.id] = x.n => AcceptedGiven(x.id)'
      BY <1>1, <3>2, <3>3 DEF EffectGiven
    <3>5. ASSUME x.kind = "respond"
          PROVE  AcceptedGiven(x.id)' \/ \E j \in 1..(i - 1) : effects'[j].id = x.id /\ effects'[j].kind = "accept"
      <4>1. AcceptedGiven(x.id) \/ \E j \in 1..(i - 1) : effects[j].id = x.id /\ effects[j].kind = "accept"
        BY <1>1, <3>1, <3>2, <3>5 DEF EffectGiven
      <4>2. \A j \in 1..(i - 1) : effects'[j] = effects[j]
        BY <1>4, <2>1 DEF OneEffectEach
      <4> QED BY <3>3, <4>1, <4>2
    <3> QED BY <3>2, <3>4, <3>5 DEF EffectGiven
  <2>2. CASE \E id \in S : effects'[i] = Effect(kind, id, reg[id], Update(id).state, value)
    <3>1. PICK id \in S : effects'[i] = Effect(kind, id, reg[id], Update(id).state, value)
      BY <2>2
    <3>2. x.kind = kind /\ x.id = id /\ x.n = reg[id] /\ x.prev = Update(id).state
      BY <1>9, <3>1 DEF Effect
    <3>3. id \in ID /\ reg[id] # 0 /\ reg[id] \in Object
      BY <1>1, <1>3
    <3>4. Update(id).state = "Accepted" => AcceptedGiven(id)
      <4>1. ObjectGiven(upd[id][reg[id]], sets[id][reg[id]])
        BY <3>3 DEF WaitingInv, PlacesGiven
      <4> QED BY <4>1 DEF ObjectGiven, AcceptedGiven, Update
    <3>5. x.prev \in PreAccepted \cup {"Accepted"} /\ kind # "respond"
      BY <1>2, <1>3, <3>2 DEF PreAccepted
    <3>6. x.prev = "Accepted" => AcceptedGiven(x.id)'
      BY <1>8, <3>2, <3>3, <3>4
    <3> QED BY <3>2, <3>5, <3>6 DEF EffectGiven
  <2>3. \/ i \in 1..Len(effects) /\ effects'[i] = effects[i]
        \/ \E id \in S : effects'[i] = Effect(kind, id, reg[id], Update(id).state, value)
    <3>1. i \in 1..Len(effects) \/ i > Len(effects)
      BY <1>4 DEF OneEffectEach
    <3> QED BY <1>4, <3>1 DEF OneEffectEach
  <2> QED BY <2>1, <2>2, <2>3
<1>10. EffectsGiven'
  BY <1>9 DEF EffectsGiven, EffectGiven
<1>11. EffectsUndoable'
  BY <1>1 DEF EffectsUndoable, Undoing
<1>12. LeftAnswered
  BY <1>1, NoneForgotten
<1> QED BY <1>7, <1>10, <1>11, <1>12 DEF WaitingInv, Attended

\* What an effect makes of its object when it is rolled back.
Before(e, u) == [u EXCEPT !.state = e.prev, !.event = @ /\ e.kind # "accept"]
RolledBack(e) == upd' = [upd EXCEPT ![e.id][e.n].state = e.prev, ![e.id][e.n].event = @ /\ e.kind # "accept"]
LEMMA RollBack ==
  ASSUME upd \in Objects, NEW e, e.id \in ID, e.n \in Object, RolledBack(e), NEW i \in ID, NEW m \in Object
  PROVE  upd'[i][m] = IF i = e.id /\ m = e.n THEN Before(e, upd[i][m]) ELSE upd[i][m]
<1>1. CASE i = e.id /\ m = e.n
  BY <1>1 DEF RolledBack, Before, Objects
<1>2. CASE ~(i = e.id /\ m = e.n)
  BY <1>2 DEF RolledBack, Objects
<1> QED BY <1>1, <1>2

\* An effect is rolled back after a failed write: nothing is in the registry.
LEMMA WaitCancelUnloaded ==
  ASSUME TypeInv, WaitingInv, CancelEffect, ~loaded
  PROVE  Attended
<1>1. /\ TypeOK /\ effects # <<>> /\ effects' = SubSeq(effects, 1, Len(effects) - 1)
      /\ UNCHANGED <<reg, loaded>> /\ reg' = [id \in ID |-> 0] /\ pc' = "cancel"
  BY DEF CancelEffect, TypeInv, Unloaded
<1>2. /\ Len(effects) \in Nat \ {0} /\ Len(effects') = Len(effects) - 1
      /\ \A i \in 1..(Len(effects) - 1) : effects'[i] = effects[i]
  BY <1>1, LastEffect
<1>3. \A i \in 1..Len(effects') : i \in 1..Len(effects) /\ effects'[i] = effects[i]
  BY <1>2
<1>4. EffectsGiven' /\ PlacesGiven' /\ RegisteredUsed'
  BY <1>1, <1>3, ForgottenGiven, NothingRegistered
<1>5. EffectsUndoable'
  BY <1>1 DEF EffectsUndoable, Undoing
<1>6. LeftAnswered
  BY <1>1, NoneForgotten
<1> QED BY <1>4, <1>5, <1>6 DEF WaitingInv, Attended

\* An effect is rolled back: its update goes back to a state that says no more than before.
LEMMA WaitCancelLoaded ==
  ASSUME TypeOK, WaitingInv, RollbackInv, CancelEffect, loaded
  PROVE  Attended
<1> SUFFICES ASSUME NEW N, N = Len(effects), NEW e, e = effects[N], NEW u, u = upd[e.id][e.n] PROVE Attended
  OBVIOUS
<1>1. /\ pc \in {"cancel", "fail"} /\ UNCHANGED <<pc, sets, reg, loaded>> /\ Settled /\ effects # <<>>
      /\ effects' = SubSeq(effects, 1, N - 1) /\ upd \in Objects /\ Undoing
  BY DEF CancelEffect, TypeOK, Objects, Undoing
<1>2. /\ N \in Nat \ {0} /\ e \in EffectRecord /\ Len(effects') = N - 1
      /\ \A i \in 1..(N - 1) : effects'[i] = effects[i]
  BY <1>1, LastEffect
<1>3. e.id \in ID /\ e.n \in Object /\ u \in UpdateObject /\ e.prev \in States /\ e.prev \in Live
  <2>1. e.prev \in Live
    BY <1>2 DEF RollbackInv
  <2> QED BY <1>1, <1>2, <2>1 DEF EffectRecord, Objects
<1>4. /\ Undoable(e, N) /\ EffectGiven(e, N) /\ reg[e.id] = e.n /\ Update(e.id) = u
      /\ \A i \in 1..(N - 1) : Undoable(effects[i], i) /\ EffectGiven(effects[i], i)
      /\ \A id \in ID : LastInv(id)
  <2>1. \A i \in 1..N : Undoable(effects[i], i) /\ EffectGiven(effects[i], i)
    BY <1>1 DEF WaitingInv, EffectsUndoable, EffectsGiven
  <2>2. N \in 1..N /\ \A i \in 1..(N - 1) : i \in 1..N
    BY <1>2
  <2>3. Undoable(e, N) /\ EffectGiven(e, N)
    BY <2>1, <2>2
  <2>4. reg[e.id] = e.n
    BY <2>3 DEF Undoable
  <2>5. \A id \in ID : LastInv(id)
    BY <1>1 DEF WaitingInv, EffectsUndoable
  <2> QED BY <2>1, <2>2, <2>3, <2>4, <2>5 DEF Update
\* The update is where its last effect has led, or it is not in a provisional state.
<1>5. u.state \in Provisional => u.state = Result(e)
  <2>1. ASSUME u.state \in Provisional PROVE u.state = Result(e)
    <3>1. PICK k : Last(e.id, k) /\ u.state = Result(effects[k])
      BY <1>3, <1>4, <2>1 DEF LastInv, Object
    <3>2. k \in 1..N /\ N \in 1..N /\ ~(N > k)
      BY <1>2, <3>1 DEF Last
    <3>3. k = N
      BY <1>2, <3>2
    <3> QED BY <3>1, <3>3
  <2> QED BY <2>1
<1> DEFINE v == Before(e, u)
<1>6. (u.state = Result(e) => RolledBack(e)) /\ (u.state # Result(e) => upd' = upd)
  BY <1>1 DEF CancelEffect, Result, RolledBack
<1>7. v.state = e.prev /\ v.accepted = u.accepted
  BY <1>3 DEF UpdateObject, Before
<1>8. ASSUME NEW id \in ID, NEW n \in Object
      PROVE  /\ ~(id = e.id /\ n = e.n) => upd'[id][n] = upd[id][n]
             /\ upd'[e.id][e.n] = IF u.state = Result(e) THEN v ELSE u
  <2>1. CASE u.state = Result(e)
    BY <1>1, <1>3, <1>6, <2>1, RollBack
  <2>2. CASE u.state # Result(e)
    BY <1>6, <2>2
  <2> QED BY <2>1, <2>2
<1> HIDE DEF v
<1>9. \A id \in ID : \A n \in Object :
         sets[id][n] = <<>> /\ sets'[id][n] = <<>> /\ (reg[id] = n => ObjectGiven(upd[id][n], <<>>))
  BY <1>1 DEF Settled, WaitingInv, PlacesGiven
<1>10. e.prev = "Accepted" => u.accepted # "pending"
  <2>1. e.prev = "Accepted" => Given(u, <<>>, "accepted")
    BY <1>3, <1>4, <1>9 DEF EffectGiven, AcceptedGiven
  <2>2. Len(<<>>) = 0
    BY EmptySeq
  <2> QED BY <2>1, <2>2 DEF Given
<1>11. ASSUME NEW id \in ID, NEW n \in Object, reg[id] = n
       PROVE  /\ ObjectGiven(upd'[id][n], sets'[id][n])
              /\ upd'[id][n].state # "Unused" /\ upd'[id][n].accepted = upd[id][n].accepted
  <2>2. upd[id][n].state # "Unused"
    BY <1>11, NoObject DEF WaitingInv, RegisteredUsed, Update
  <2>3. ObjectGiven(upd[id][n], <<>>) /\ sets'[id][n] = <<>>
    BY <1>9, <1>11
  <2>4. CASE id = e.id /\ n = e.n /\ u.state = Result(e)
    <3>1. upd'[id][n] = v
      BY <1>8, <2>4
    <3>2. e.prev \notin {"Completed", "Aborted", "Unused"}
      BY <1>3 DEF Live
    <3>3. ObjectGiven(v, <<>>)
      BY <1>7, <1>10, <3>2, GivenNothing
    <3> QED BY <1>7, <2>3, <2>4, <3>1, <3>2, <3>3
  <2>5. CASE ~(id = e.id /\ n = e.n /\ u.state = Result(e))
    <3>1. upd'[id][n] = upd[id][n]
      BY <1>8, <2>5
    <3> QED BY <2>2, <2>3, <3>1
  <2> QED BY <2>4, <2>5
<1>12. reg' = reg /\ \A id \in ID : reg[id] # 0 => reg[id] \in Object
  BY <1>1 DEF TypeOK
<1>13. PlacesGiven' /\ RegisteredUsed'
  BY <1>11, <1>12 DEF PlacesGiven, RegisteredUsed, Update
<1>14. ASSUME NEW i \in 1..Len(effects'), NEW x, x = effects'[i] PROVE EffectGiven(x, i)' /\ Undoable(x, i)'
  <2>1. i \in 1..(N - 1) /\ x = effects[i] /\ Undoable(x, i) /\ EffectGiven(x, i)
    BY <1>2, <1>4, <1>14
  <2>2. x.id \in ID /\ x.n # 0 /\ x.n \in Object
    <3>1. i \in 1..Len(effects)
      BY <1>2, <2>1
    <3>2. x \in EffectRecord
      BY <2>1, <3>1, EffectsType
    <3> QED BY <3>2 DEF EffectRecord, Object
  <2>3. AcceptedGiven(x.id) => AcceptedGiven(x.id)'
    <3>1. reg[x.id] \in Object
      BY <2>1, <2>2 DEF Undoable
    <3>2. /\ upd'[x.id][reg[x.id]].accepted = upd[x.id][reg[x.id]].accepted
          /\ sets'[x.id][reg[x.id]] = sets[x.id][reg[x.id]]
      BY <1>9, <1>11, <2>2, <3>1
    <3> QED BY <1>12, <3>2 DEF AcceptedGiven, Given, Update
  <2>4. \A j \in 1..(i - 1) : effects'[j] = effects[j]
    BY <1>2, <2>1
  <2>5. EffectGiven(x, i)'
    BY <1>1, <2>1, <2>3 DEF EffectGiven
  <2>6. Undoable(x, i)'
    BY <1>12, <2>1, <2>4 DEF Undoable
  <2> QED BY <2>5, <2>6
<1>15. EffectsGiven' /\ \A i \in 1..Len(effects') : Undoable(effects[i], i)'
  BY <1>14 DEF EffectsGiven, EffectGiven, Undoable
<1>16. ASSUME NEW id \in ID, reg[id] # 0, Update(id)'.state \in Provisional
       PROVE  \E k : Last(id, k)' /\ Update(id)'.state = Result(effects'[k])
  <2>1. CASE id # e.id
    <3>1. Update(id)' = Update(id)
      BY <1>8, <1>12, <1>16, <2>1 DEF Update
    <3>2. PICK k : Last(id, k) /\ Update(id).state = Result(effects[k])
      BY <1>4, <1>16, <3>1 DEF LastInv
    <3>3. k \in 1..(N - 1) /\ effects'[k] = effects[k]
      BY <1>2, <2>1, <3>2 DEF Last
    <3>4. Last(id, k)'
      BY <1>2, <3>2, <3>3 DEF Last
    <3> QED BY <3>1, <3>2, <3>3, <3>4
  <2>2. CASE id = e.id
    <3>1. Update(id)' = IF u.state = Result(e) THEN v ELSE u
      BY <1>3, <1>4, <1>8, <1>12, <2>2 DEF Update
    <3>2. u.state = Result(e) /\ Update(id)'.state = e.prev
      BY <1>5, <1>7, <1>16, <3>1
    <3>3. e.prev = "ProvisionallyAccepted"
      BY <1>4, <1>16, <3>2 DEF Undoable
    <3>4. PICK j \in 1..(N - 1) : /\ effects[j].id = e.id /\ effects[j].kind = "accept"
                                  /\ \A k \in 1..(N - 1) : k > j => effects[k].id # e.id
      BY <1>4, <1>16, <3>2 DEF Undoable
    <3>5. Last(id, j)' /\ effects'[j] = effects[j]
      BY <1>2, <2>2, <3>4 DEF Last
    <3> QED BY <3>2, <3>3, <3>4, <3>5 DEF Result
  <2> QED BY <2>1, <2>2
<1>17. \A id \in ID : LastInv(id)'
  BY <1>12, <1>16 DEF LastInv
<1>18. EffectsUndoable'
  BY <1>15, <1>17 DEF EffectsUndoable
<1>19. LeftAnswered
  BY <1>12, NoneForgotten
<1> QED BY <1>13, <1>15, <1>18, <1>19 DEF WaitingInv, Attended

LEMMA WaitCancel ==
  ASSUME TypeInv, WaitingInv, RollbackInv, CancelEffect
  PROVE  Attended
  BY WaitCancelLoaded, WaitCancelUnloaded DEF TypeInv

\* No value is on its way: what is given is set.
LEMMA AcceptedSettled ==
  ASSUME Settled, NEW id \in ID, reg[id] \in Object
  PROVE  AcceptedGiven(id) <=> Update(id).accepted # "pending"
<1>1. sets[id][reg[id]] = <<>>
  BY DEF Settled
<1>2. Len(<<>>) = 0
  BY EmptySeq
<1> QED BY <1>1, <1>2 DEF AcceptedGiven, Given

\* No effect precedes the first one.
LEMMA FirstGiven ==
  ASSUME NEW e, EffectGiven(e, 1), pc = "apply", e.kind = "respond", reg[e.id] = e.n,
         Update(e.id).state = "ProvisionallyCompleted"
  PROVE  AcceptedGiven(e.id)
<1>1. 1..(1 - 1) = {}
  OBVIOUS
<1> QED BY <1>1 DEF EffectGiven

\* What the first effect makes of its object is given to every waiter.
CommittedGiven(e, u, v) ==
    /\ ObjectGiven(v, CommitSets(e, u.state)) /\ v.accepted = u.accepted
    /\ v.state \notin {"Unused", "ProvisionallyCompleted"}
    /\ e.kind \in {"reject", "respond"} => v.state = "Completed"
LEMMA WaitCommitted ==
  ASSUME Inv, WaitingInv, pc = "apply", effects # <<>>, Settled, NEW e, e = Head(effects),
         NEW u, u = upd[e.id][e.n], Effective(e, u.state), NEW v, v = [u EXCEPT !.state = Committed(e, u.state)]
  PROVE  CommittedGiven(e, u, v)
<1>1. /\ e \in EffectRecord /\ e.id \in ID /\ e.n \in Object /\ InfoAgrees(e, ms) /\ e.n # 0
      /\ e.kind \in {"accept", "reject", "respond", "abort"} /\ u \in UpdateObject /\ e.value \in Value
  <2>1. /\ e \in EffectRecord /\ e.id \in ID /\ e.n \in Object /\ InfoAgrees(e, ms)
        /\ e.kind \in {"accept", "reject", "respond", "abort"} /\ u \in UpdateObject
    BY FirstEffect
  <2>2. e.n # 0
    BY <2>1, NoObject
  <2>3. e.value \in Value
    BY <2>1 DEF EffectRecord
  <2> QED BY <2>1, <2>2, <2>3
<1>2. reg[e.id] = e.n /\ TypeOK /\ Update(e.id) = u
  <2>1. reg[e.id] = e.n
    BY CommittedObject
  <2> QED BY <2>1 DEF Inv, TypeInv, Update
<1>3. /\ u.state \in {"ProvisionallyAccepted", "ProvisionallyCompleted", "ProvisionallyAborted",
                      "ProvisionallyCompletedAfterAccepted"}
      /\ e.kind = "respond" => u.state \in {"ProvisionallyCompleted", "ProvisionallyCompletedAfterAccepted"}
      /\ e.kind = "abort" => u.state \in {"ProvisionallyAborted", "ProvisionallyCompletedAfterAccepted"}
  BY <1>1 DEF Effective
<1>4. Committed(e, u.state) \in {"Accepted", "ProvisionallyCompletedAfterAccepted", "Aborted", "Completed"}
  BY <1>1 DEF Committed
<1>5. v \in UpdateObject /\ v.state = Committed(e, u.state) /\ v.accepted = u.accepted
  BY <1>1, <1>4 DEF UpdateObject, States
<1> SUFFICES ObjectGiven(v, CommitSets(e, u.state))
  <2>1. e.kind \in {"reject", "respond"} => v.state = "Completed"
    BY <1>5 DEF Committed
  <2>2. v.state \notin {"Unused", "ProvisionallyCompleted"}
    BY <1>4, <1>5
  <2> QED BY <1>5, <2>1, <2>2 DEF CommittedGiven
<1>6. AcceptedGiven(e.id) => u.accepted # "pending"
  <2>1. reg[e.id] \in Object /\ e.id \in ID
    BY <1>1, <1>2
  <2>2. AcceptedGiven(e.id) <=> Update(e.id).accepted # "pending"
    BY <2>1, AcceptedSettled
  <2> QED BY <1>2, <2>2
<1>7. EffectGiven(e, 1)
  <2>1. e = effects[1]
    BY <1>2, HeadEffect
  <2>2. Len(effects) \in Nat \ {0}
    BY <1>2, HeadEffect
  <2>3. 1 \in 1..Len(effects)
    BY <2>2
  <2> QED BY <2>1, <2>3 DEF WaitingInv, EffectsGiven
<1>8. "accepted" \in Value /\ "rejected" \in Value /\ "accepted" # "pending" /\ "rejected" # "pending"
  BY DEF Value
<1>9. CASE e.kind = "accept" /\ u.state = "ProvisionallyAccepted"
  <2>1. v.state = "Accepted" /\ CommitSets(e, u.state) = <<AcceptedSet("accepted")>>
    BY <1>5, <1>9 DEF Committed, CommitSets, AcceptedSet
  <2> QED BY <1>5, <1>9, <2>1, GivenAccepted
<1>10. CASE e.kind = "accept" /\ u.state # "ProvisionallyAccepted"
  <2>1. v.state = "ProvisionallyCompletedAfterAccepted" /\ CommitSets(e, u.state) = <<>>
    BY <1>5, <1>10 DEF Committed, CommitSets, AcceptedSet
  <2> QED BY <1>5, <1>10, <2>1, GivenNothing
<1>11. CASE e.kind = "reject"
  <2>1. e.value = "rejected" /\ v.state = "Completed"
    BY <1>1, <1>5, <1>11 DEF InfoAgrees, Committed
  <2>2. CommitSets(e, u.state) = <<AcceptedSet("rejected"), OutcomeSet(e.value)>>
    BY <1>11 DEF CommitSets, AcceptedSet, OutcomeSet
  <2> QED BY <1>5, <1>8, <1>11, <2>1, <2>2, GivenBoth
<1>12. CASE e.kind = "respond"
  <2>1. e.value # "pending" /\ v.state = "Completed"
    BY <1>1, <1>5, <1>12, Kinds DEF InfoAgrees, Committed
  <2>2. CASE u.state = "ProvisionallyCompletedAfterAccepted"
    <3>1. CommitSets(e, u.state) = <<OutcomeSet(e.value), AcceptedSet("accepted")>>
      BY <1>12, <2>2 DEF CommitSets, AcceptedSet, OutcomeSet
    <3> QED BY <1>1, <1>5, <1>8, <1>12, <2>1, <3>1, GivenBoth
  <2>3. CASE u.state # "ProvisionallyCompletedAfterAccepted"
    <3>1. CommitSets(e, u.state) = <<OutcomeSet(e.value)>>
      BY <1>12, <2>3 DEF CommitSets, AcceptedSet, OutcomeSet
    <3>2. AcceptedGiven(e.id)
      <4>1. reg[e.id] = e.n /\ Update(e.id).state = "ProvisionallyCompleted"
        BY <1>2, <1>3, <1>12, <2>3
      <4> QED BY <1>7, <1>12, <4>1, FirstGiven
    <3> QED BY <1>1, <1>5, <1>6, <1>12, <2>1, <3>1, <3>2, GivenOutcome
  <2> QED BY <2>2, <2>3
<1>13. CASE e.kind = "abort"
  <2>1. e.value # "pending" /\ v.state = "Aborted"
    BY <1>1, <1>5, <1>13 DEF InfoAgrees, Committed, ClosingErrors
  <2>2. CASE u.state = "ProvisionallyCompletedAfterAccepted"
    <3>1. CommitSets(e, u.state) = <<OutcomeSet(e.value), AcceptedSet("accepted")>>
      BY <1>13, <2>2 DEF CommitSets, AcceptedSet, OutcomeSet
    <3> QED BY <1>1, <1>5, <1>8, <1>13, <2>1, <3>1, GivenBoth
  <2>3. CASE u.state # "ProvisionallyCompletedAfterAccepted" /\ e.prev \in PreAccepted
    <3>1. CommitSets(e, u.state) = <<OutcomeSet(e.value), AcceptedSet(e.value)>>
      BY <1>13, <2>3 DEF CommitSets, AcceptedSet, OutcomeSet
    <3> QED BY <1>1, <1>5, <1>13, <2>1, <3>1, GivenBoth
  <2>4. CASE u.state # "ProvisionallyCompletedAfterAccepted" /\ e.prev \notin PreAccepted
    <3>1. CommitSets(e, u.state) = <<OutcomeSet(e.value)>>
      BY <1>13, <2>4 DEF CommitSets, AcceptedSet, OutcomeSet
    <3>2. AcceptedGiven(e.id)
      BY <1>2, <1>7, <1>13, <2>4 DEF EffectGiven
    <3> QED BY <1>1, <1>5, <1>6, <1>13, <2>1, <3>1, <3>2, GivenOutcome
  <2> QED BY <2>2, <2>3, <2>4
<1> QED BY <1>1, <1>9, <1>10, <1>11, <1>12, <1>13

LEMMA WaitApply ==
  ASSUME Inv, WaitingInv, ApplyEffect
  PROVE  Attended
<1> SUFFICES ASSUME NEW N, N = Len(effects), NEW e, e = Head(effects) PROVE Attended
  OBVIOUS
<1> DEFINE u == upd[e.id][e.n]
           v == [u EXCEPT !.state = Committed(e, u.state)]
           s == CommitSets(e, u.state)
<1>1. /\ pc = "apply" /\ pc' = pc /\ effects # <<>> /\ Settled /\ effects' = Tail(effects)
      /\ TypeOK /\ upd \in Objects /\ sets \in SetQueues /\ reg \in [ID -> Object \cup {0}]
  <2>1. pc = "apply" /\ pc' = pc /\ effects # <<>> /\ Settled /\ effects' = Tail(effects)
    BY DEF ApplyEffect
  <2>2. TypeOK
    BY DEF Inv, TypeInv
  <2>3. upd \in Objects /\ sets \in SetQueues /\ reg \in [ID -> Object \cup {0}]
    BY <2>2 DEF TypeOK, Objects, SetQueues
  <2> QED BY <2>1, <2>2, <2>3
<1>0. \A n \in Object : n # 0
  BY NoObject
<1>2. /\ e.id \in ID /\ e.n \in Object /\ e.n # 0 /\ e = effects[1]
      /\ N \in Nat \ {0} /\ Len(effects') = N - 1 /\ \A i \in 1..(N - 1) : effects'[i] = effects[i + 1]
  <2>1. TypeOK /\ effects # <<>> /\ effects' = Tail(effects)
    BY <1>1
  <2>2. /\ e.id \in ID /\ e.n \in Object /\ e = effects[1]
        /\ N \in Nat \ {0} /\ Len(effects') = N - 1 /\ \A i \in 1..(N - 1) : effects'[i] = effects[i + 1]
    BY <2>1, HeadEffect
  <2> QED BY <1>0, <2>2
<1>3. Effective(e, u.state) => /\ reg[e.id] = e.n
                               /\ ObjectGiven(v, s) /\ v.accepted = u.accepted
                               /\ v.state \notin {"Unused", "ProvisionallyCompleted"}
                               /\ e.kind \in {"reject", "respond"} => v.state = "Completed"
  <2>1. ASSUME Effective(e, u.state) PROVE reg[e.id] = e.n
    BY <1>1, <2>1, CommittedObject
  <2>2. ASSUME Effective(e, u.state)
        PROVE  /\ ObjectGiven(v, s) /\ v.accepted = u.accepted
               /\ v.state \notin {"Unused", "ProvisionallyCompleted"}
               /\ e.kind \in {"reject", "respond"} => v.state = "Completed"
    <3>1. pc = "apply" /\ effects # <<>> /\ Settled
      BY <1>1
    <3>2. CommittedGiven(e, u, v)
      BY <2>2, <3>1, WaitCommitted
    <3> QED BY <3>2 DEF CommittedGiven
  <2> QED BY <2>1, <2>2
<1>4. /\ Effective(e, u.state) =>
            /\ upd' = [upd EXCEPT ![e.id][e.n].state = Committed(e, u.state)]
            /\ sets' = [sets EXCEPT ![e.id][e.n] = s]
      /\ ~Effective(e, u.state) => upd' = upd /\ sets' = sets
      /\ reg' = reg \/ /\ Effective(e, u.state) /\ e.kind \in {"reject", "respond"} /\ reg[e.id] = e.n
                       /\ reg' = [reg EXCEPT ![e.id] = 0]
  BY DEF ApplyEffect
<1>5. ASSUME NEW id \in ID, NEW n \in Object
      PROVE  /\ sets[id][n] = <<>> /\ (reg[id] = n => ObjectGiven(upd[id][n], <<>>))
             /\ ~(id = e.id /\ n = e.n /\ Effective(e, u.state)) => upd'[id][n] = upd[id][n] /\ sets'[id][n] = <<>>
             /\ id = e.id /\ n = e.n => upd[id][n] = u
             /\ id = e.id /\ n = e.n /\ Effective(e, u.state) => upd'[id][n] = v /\ sets'[id][n] = s
  <2>1. sets[id][n] = <<>> /\ (reg[id] = n => ObjectGiven(upd[id][n], <<>>))
    BY <1>1 DEF Settled, WaitingInv, PlacesGiven
  <2>2. CASE Effective(e, u.state)
    <3>1. upd' = [upd EXCEPT ![e.id][e.n].state = Committed(e, u.state)] /\ sets' = [sets EXCEPT ![e.id][e.n] = s]
      BY <1>4, <2>2
    <3>2. ~(id = e.id /\ n = e.n) => upd'[id][n] = upd[id][n]
      BY <1>1, <1>2, <3>1 DEF Objects
    <3>3. ~(id = e.id /\ n = e.n) => sets'[id][n] = sets[id][n]
      BY <1>1, <1>2, <3>1 DEF SetQueues
    <3>4. id = e.id /\ n = e.n => upd'[id][n] = v
      BY <1>1, <1>2, <3>1 DEF Objects
    <3>5. id = e.id /\ n = e.n => sets'[id][n] = s
      BY <1>1, <1>2, <3>1 DEF SetQueues
    <3> QED BY <2>1, <2>2, <3>2, <3>3, <3>4, <3>5
  <2>3. CASE ~Effective(e, u.state)
    BY <1>4, <2>1, <2>3
  <2> QED BY <2>2, <2>3
<1> HIDE DEF u, v, s
<1>6. ASSUME NEW id \in ID
      PROVE  \/ reg'[id] = reg[id]
             \/ /\ id = e.id /\ reg'[id] = 0 /\ reg[id] = e.n
                /\ Effective(e, u.state) /\ e.kind \in {"reject", "respond"}
  BY <1>1, <1>2, <1>4
<1>7. ASSUME NEW id \in ID, NEW n \in Object, reg'[id] = n
      PROVE  ObjectGiven(upd'[id][n], sets'[id][n]) /\ upd'[id][n].state # "Unused"
  <2>1. reg[id] = n /\ upd[id][n].state # "Unused"
    BY <1>0, <1>6, <1>7 DEF WaitingInv, RegisteredUsed, Update
  <2>2. CASE id = e.id /\ n = e.n /\ Effective(e, u.state)
    BY <1>3, <1>5, <2>2
  <2>3. CASE ~(id = e.id /\ n = e.n /\ Effective(e, u.state))
    BY <1>5, <2>1, <2>3
  <2> QED BY <2>2, <2>3
\* The object that its last effect takes off the registry is completed by it.
<1>8. ASSUME NEW id \in ID, NEW n \in Object, Forgotten(id, n) PROVE Answered(id, n)
  <2>1. id = e.id /\ n = e.n /\ Effective(e, u.state) /\ e.kind \in {"reject", "respond"}
    BY <1>6, <1>8 DEF Forgotten
  <2>2. upd'[id][n].state = "Completed" /\ ObjectGiven(upd'[id][n], sets'[id][n])
    BY <1>3, <1>5, <2>1
  <2> QED BY <2>2, GivenAnswered
<1>9. PlacesGiven' /\ RegisteredUsed' /\ LeftAnswered
  <2>1. \A id \in ID : reg'[id] # 0 => reg'[id] \in Object
    BY <1>1, <1>6
  <2> QED BY <1>7, <1>8, <2>1 DEF PlacesGiven, RegisteredUsed, Update, LeftAnswered
\* What has been accepted stays accepted.
<1>10. ASSUME NEW id \in ID, NEW n \in Object, reg'[id] = n
       PROVE  /\ reg[id] = n /\ (AcceptedGiven(id) => AcceptedGiven(id)')
              /\ id = e.id => n = e.n \/ ~Effective(e, u.state)
              /\ id = e.id /\ Update(id)'.state = "ProvisionallyCompleted" /\ n = e.n => e.kind # "accept"
              /\ Update(id)'.state = "ProvisionallyCompleted" => Update(id).state = "ProvisionallyCompleted"
  <2>1. reg[id] = n
    BY <1>0, <1>6, <1>10
  <2>2. upd'[id][n].accepted = upd[id][n].accepted /\ sets[id][n] = <<>>
    BY <1>3, <1>5
  <2>3. AcceptedGiven(id) => AcceptedGiven(id)'
    <3>1. AcceptedGiven(id) => upd[id][n].accepted # "pending"
      BY <1>1, <2>1, AcceptedSettled DEF Update
    <3>2. upd'[id][n].accepted # "pending" => AcceptedGiven(id)'
      BY <1>10 DEF AcceptedGiven, Given, Update
    <3> QED BY <2>2, <3>1, <3>2
  <2>4. id = e.id => n = e.n \/ ~Effective(e, u.state)
    BY <1>3, <2>1
  <2>5. Update(id)'.state = "ProvisionallyCompleted" =>
           Update(id).state = "ProvisionallyCompleted" /\ (id = e.id /\ n = e.n => ~Effective(e, u.state))
    <3>1. Update(id)' = upd'[id][n] /\ Update(id) = upd[id][n]
      BY <1>10, <2>1 DEF Update
    <3>2. CASE id = e.id /\ n = e.n /\ Effective(e, u.state)
      <4>1. upd'[id][n] = v /\ v.state # "ProvisionallyCompleted"
        BY <1>3, <1>5, <3>2
      <4> QED BY <3>1, <4>1
    <3>3. CASE ~(id = e.id /\ n = e.n /\ Effective(e, u.state))
      <4>1. upd'[id][n] = upd[id][n]
        BY <1>5, <3>3
      <4> QED BY <3>1, <3>3, <4>1
    <3> QED BY <3>2, <3>3
  <2>6. id = e.id /\ n = e.n => Update(id) = u
    BY <2>1 DEF Update, u
  <2>7. e.kind = "accept" /\ u.state = "ProvisionallyCompleted" => Effective(e, u.state)
    BY DEF Effective
  <2> QED BY <2>1, <2>3, <2>4, <2>5, <2>6, <2>7
<1>11. ASSUME NEW i \in 1..Len(effects'), NEW x, x = effects'[i] PROVE EffectGiven(x, i)'
  <2>1. i \in 1..(N - 1) /\ i + 1 \in 1..N /\ x = effects[i + 1] /\ i + 1 - 1 = i
    <3>1. i \in 1..(N - 1) /\ N \in Nat
      BY <1>2
    <3>2. i + 1 \in 1..N /\ i + 1 - 1 = i
      BY <3>1
    <3> QED BY <1>2, <1>11, <3>1, <3>2
  <2>2. x \in EffectRecord /\ x.id \in ID /\ x.n \in Object /\ EffectGiven(x, i + 1)
    <3>1. x \in EffectRecord /\ EffectGiven(x, i + 1)
      BY <1>1, <2>1, EffectsType DEF WaitingInv, EffectsGiven
    <3> QED BY <3>1 DEF EffectRecord
  <2>3. x.prev = "Accepted" /\ reg'[x.id] = x.n => AcceptedGiven(x.id)'
    BY <1>10, <2>2 DEF EffectGiven
  <2>4. ASSUME x.kind = "respond", reg'[x.id] = x.n, Update(x.id)'.state = "ProvisionallyCompleted"
        PROVE  AcceptedGiven(x.id)' \/ \E j \in 1..(i - 1) : effects'[j].id = x.id /\ effects'[j].kind = "accept"
    <3>1. /\ reg[x.id] = x.n /\ Update(x.id).state = "ProvisionallyCompleted"
          /\ AcceptedGiven(x.id) => AcceptedGiven(x.id)'
          /\ x.id = e.id /\ x.n = e.n => e.kind # "accept"
      BY <1>10, <2>2, <2>4
    <3>2. x.id = e.id => x.n = e.n
      <4>1. reg[e.id] = e.n \/ reg[e.id] = 0
        <5>1. pc = "apply" /\ effects # <<>>
          BY <1>1
        <5> QED BY <5>1, FirstEffect
      <4>2. x.n # 0
        BY <1>0, <2>2
      <4> QED BY <3>1, <4>1, <4>2
    <3>3. AcceptedGiven(x.id) \/ \E j \in 1..i : effects[j].id = x.id /\ effects[j].kind = "accept"
      <4>1. pc = "apply"
        BY <1>1
      <4>2. AcceptedGiven(x.id) \/ \E j \in 1..(i + 1 - 1) : effects[j].id = x.id /\ effects[j].kind = "accept"
        BY <2>2, <2>4, <3>1, <4>1 DEF EffectGiven
      <4> QED BY <2>1, <4>2
    <3>4. ASSUME NEW j \in 1..i, effects[j].id = x.id, effects[j].kind = "accept"
          PROVE  \E k \in 1..(i - 1) : effects'[k].id = x.id /\ effects'[k].kind = "accept"
      <4>1. j # 1
        BY <1>2, <3>1, <3>2, <3>4
      <4>2. j - 1 \in 1..(i - 1) /\ j - 1 \in 1..(N - 1) /\ j - 1 + 1 = j
        <5>1. i \in Int /\ N \in Int /\ i <= N - 1 /\ j \in Int /\ 1 <= j /\ j <= i
          BY <1>2, <2>1
        <5> QED BY <4>1, <5>1
      <4>3. effects'[j - 1] = effects[j]
        BY <1>2, <4>2
      <4> QED BY <3>4, <4>2, <4>3
    <3> QED BY <3>1, <3>3, <3>4
  <2> QED BY <2>2, <2>3, <2>4 DEF EffectGiven
<1>12. EffectsGiven'
  BY <1>11 DEF EffectsGiven, EffectGiven
<1>13. EffectsUndoable'
  BY <1>1 DEF EffectsUndoable, Undoing
<1> QED BY <1>9, <1>12, <1>13 DEF WaitingInv, Attended

LEMMA WaitWorker ==
  ASSUME Inv, RegInv, WaitingInv, "worker" \notin Faults, WorkerStep
  PROVE  Attended
<1>1. TypeInv /\ TypeOK /\ StoreInv /\ CommitInv /\ RegisteredInv
  BY DEF Inv, TypeInv
<1>2. ASSUME NEW discard, RespondWorkflowTaskCompleted(discard) PROVE Attended
  BY <1>1, <1>2, WaitRespond
<1>3. ASSUME NEW id \in ID,
             \/ HandleMessage(id, "accept", "none") \/ HandleMessage(id, "reject", "none")
             \/ \E o \in Outcome : HandleMessage(id, "respond", o)
      PROVE  Attended
  BY <1>1, <1>3, WaitHandleMessage
<1>4. CASE HandleBadCommand \/ \E newRun : HandleCloseCommand(newRun)
  BY <1>1, <1>4, WaitCommand
<1>5. ASSUME NEW heartbeat, NEW buffered, NEW bypass, FinishMessages(heartbeat, buffered, bypass) PROVE Attended
  BY <1>1, <1>5, WaitFinishMessages
<1> QED BY <1>2, <1>3, <1>4, <1>5 DEF WorkerStep

LEMMA WaitHandler ==
  ASSUME Inv, WaitingInv, HandlerStep
  PROVE  Attended
<1>1. TypeInv /\ TypeOK /\ StoreInv /\ RegisteredInv /\ RollbackInv
  BY DEF Inv, TypeInv
<1> QED BY <1>1, WaitPersist, WaitApply, WaitFinishTask, WaitCancel, WaitReturnError, WaitFail, WaitSetFuture
        DEF HandlerStep

LEMMA WaitNext ==
  ASSUME Inv, RegInv, WaitingInv, "worker" \notin Faults, [Next]_vars
  PROVE  Attended
<1>1. TypeInv /\ TypeOK /\ StoreInv /\ RegisteredInv
  BY DEF Inv, TypeInv
<1>2. CASE UNCHANGED vars
  <2>1. UNCHANGED <<effects, reg, upd, sets, pc, loaded>>
    BY <1>2 DEF vars
  <2> QED BY <1>1, <2>1, WaitSame DEF Undoing
<1>3. CASE Next
  BY <1>1, <1>3, WaitClient, WaitWorker, WaitHandler, WaitServer DEF Next
<1> QED BY <1>2, <1>3

LEMMA WaitInit == Init => WaitingInv
<1> SUFFICES ASSUME Init PROVE WaitingInv
  OBVIOUS
<1>1. effects = <<>> /\ pc = "idle" /\ reg = [id \in ID |-> 0]
  BY DEF Init
<1>2. PlacesGiven /\ RegisteredUsed
  BY <1>1, NoObject DEF PlacesGiven, RegisteredUsed
<1>3. Len(effects) = 0
  BY <1>1, EmptySeq
<1>4. EffectsGiven /\ EffectsUndoable
  BY <1>1, <1>3 DEF EffectsGiven, EffectsUndoable, Undoing
<1> QED BY <1>2, <1>4 DEF WaitingInv

\* Whoever waits on an object is answered by the step that takes it off the registry: a response,
\* a rejection, the end of the run, a lost context or an error says what becomes of the update.  A
\* failed write does so too but for the updates that its task had completed or aborted, whose
\* callers wait for an acceptance, or for anything, that nobody will tell them.
THEOREM Reached ==
  ASSUME "worker" \notin Faults
  PROVE  Spec => ForgottenAnswered
<1>1. Init => WaitingInv
  BY WaitInit
<1>2. Inv /\ RegInv /\ WaitingInv /\ [Next]_vars => WaitingInv' /\ LeftAnswered
  BY WaitNext DEF Attended
<1>3. LeftAnswered => \A id \in ID : \A n \in Object : Forgotten(id, n) => Answered(id, n)
  BY DEF LeftAnswered
<1>4. Spec => [](Inv /\ RegInv)
  BY RegCorrect
<1> QED BY <1>1, <1>2, <1>3, <1>4, PTL DEF Spec, ForgottenAnswered

=============================================================================
