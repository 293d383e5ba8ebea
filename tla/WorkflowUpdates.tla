--------------------------- MODULE WorkflowUpdates ---------------------------
(***************************************************************************)
(* The updates of one workflow run (service/history/workflow/update), and  *)
(* the API handlers that drive them.                                       *)
(*                                                                         *)
(* A run's workflow context caches its mutable state and a registry of the *)
(* updates in flight.  Handlers hold the lock of the context; the calls of *)
(* clients wait, without it, on the two futures of an Update object.  What *)
(* is written when a workflow task completes becomes durable at the end of *)
(* the handler, so its effects on updates are buffered and are applied or  *)
(* cancelled after the write.  The context is cleared by every error and   *)
(* evicted from the cache at any time, and its registry is built again     *)
(* from what is durable: objects of the same update follow each other, and *)
(* a client may still wait on an old one.                                  *)
(*                                                                         *)
(* A handler is atomic, except RespondWorkflowTaskCompleted, which is one  *)
(* action per message, write and effect, and except that futures are set   *)
(* one at a time: clients see every state in between.  Handlers that only  *)
(* fail and so clear the context are ClearContext.  A write may fail, with *)
(* or without having reached the store.                                    *)
(***************************************************************************)
EXTENDS Naturals, Sequences, FiniteSets, Functions

CONSTANTS
    ID,             \* update IDs
    Client,         \* callers of UpdateWorkflowExecution and Poll...
    Outcome,        \* outcomes that a worker may give an update
    Copies,         \* objects of one update that exist at the same time
    MaxInFlight,    \* maxInFlightUpdateCount; 0: no limit
    MaxTotal,       \* maxTotal; 0: no limit
    Stages,         \* stages that callers wait for
    Reset,          \* updates admitted in the history this run was reset from
    Faults          \* what may go wrong: "write", "crash", "timeout", "worker"

Errors == {"registryClearedErr", "AbortedByWorkflowClosingErr", "ErrWorkflowClosing", "workflowTaskFailErr"}

ASSUME UpdateConstants ==
    /\ IsFiniteSet(ID)
    /\ IsFiniteSet(Client)
    /\ Copies \in Nat /\ Copies > Cardinality(Client)
    /\ MaxInFlight \in Nat /\ MaxTotal \in Nat
    /\ Stages \subseteq {"ACCEPTED", "COMPLETED"}
    /\ Reset \subseteq ID
    /\ Faults \subseteq {"write", "crash", "timeout", "worker"}
    /\ Outcome \cap (Errors \cup {"none", "admitted", "accepted", "rejected", "failed", "pending"}) = {}

VARIABLES
    db,             \* the run in the store: is it running, its workflow task, its updates
    ms,             \* the mutable state of the context (db when none is loaded)
    loaded,         \* does the context hold a mutable state and a registry?
    reg,            \* registry.updates: the object of each update, or 0
    completedCount, \* registry.completedCount
    upd,            \* the Update objects
    pc,             \* where RespondWorkflowTaskCompleted is; the lock is free at "idle"
    task,           \* its local variables
    effects,        \* its effect.Buffer
    sets,           \* values that the code under the lock is setting on futures
    call,           \* the calls of clients
    seen,           \* updates that some worker has been sent
    \* history: answers given about an update, updates once durably accepted in a running run
    told, open

handler == <<pc, task, effects>>
registry == <<loaded, reg, completedCount>>
history == <<told, open>>
vars == <<db, ms, registry, upd, handler, sets, call, seen, history>>

-----------------------------------------------------------------------------
(* Update objects. *)

Object == 1..Copies
Info == {"none", "admitted", "accepted"} \cup Outcome
States == {"Unused", "Admitted", "Sent", "ProvisionallyAccepted", "Accepted", "ProvisionallyCompleted",
           "ProvisionallyCompletedAfterAccepted", "Completed", "ProvisionallyAborted", "Aborted"}
\* The mutant of PreAccepted forgets the updates that the task in progress has accepted.
BeforeTask == {"Admitted", "Sent"}
PreAccepted == {"Admitted", "Sent", "ProvisionallyAccepted"}

\* The object is only a place until it is made again.
Unused == [state |-> "Unused", event |-> FALSE, accepted |-> "pending", outcome |-> "pending"]
\* The mutant of NewAdmitted leaves the update in a state that nothing takes it out of; the one
\* of NewAccepted does not look whether the run is closed.
NewCreated == [Unused EXCEPT !.state = "Created"]
NewAdmitted == [Unused EXCEPT !.state = "Admitted"]
AcceptedAnyway(running) ==
    [state |-> "Accepted", event |-> TRUE, accepted |-> "accepted", outcome |-> "pending"]
NewAccepted(running) ==
    [state |-> IF running THEN "Accepted" ELSE "Aborted", event |-> TRUE,
     accepted |-> "accepted", outcome |-> IF running THEN "pending" ELSE "failed"]

NoCall == [pc |-> "idle"]
Waiting(id, n) == \E c \in Client : call[c].pc # "idle" /\ call[c].id = id /\ call[c].n = n
Free(id) == {n \in Object : reg[id] # n /\ ~Waiting(id, n)}
Fresh(id) == CHOOSE n \in Free(id) : TRUE

\* The mutant of FailureError tells the callers of accepted updates that the run is closed.
ClosingErrorForAll(reason, state) ==
    IF state \in {"Completed", "ProvisionallyAborted", "Aborted", "Unused"} \/ reason = "WorkflowTaskFailed"
    THEN "none"
    ELSE IF reason = "RegistryCleared" THEN "registryClearedErr" ELSE "AbortedByWorkflowClosingErr"

\* The failure or error that an update in a state is aborted with.
FailureError(reason, state) ==
    IF state \in {"Completed", "ProvisionallyAborted", "Aborted", "Unused"} THEN "none"
    ELSE CASE reason = "RegistryCleared" -> "registryClearedErr"
           [] reason = "WorkflowTaskFailed" ->
                 (CASE state = "Admitted" -> "registryClearedErr"
                    [] state = "Sent"     -> "workflowTaskFailErr"
                    [] OTHER              -> "none")
           [] reason = "WorkflowCompleted" ->
                 IF state \in {"Admitted", "Sent"} THEN "AbortedByWorkflowClosingErr" ELSE "failed"
           [] reason = "WorkflowContinuing" ->
                 IF state \in {"Admitted", "Sent"} THEN "ErrWorkflowClosing" ELSE "failed"

\* Update.abort with effect.Immediate: the new object, and what is set on its futures.  The
\* mutant of AbortSets does not look whether the update was accepted.
Aborted(u, reason) == IF FailureError(reason, u.state) = "none" THEN u ELSE [u EXCEPT !.state = "Aborted"]
AbortSetsBoth(u, reason) ==
    LET f == FailureError(reason, u.state)
    IN  IF f = "none" THEN <<>> ELSE <<[future |-> "outcome", value |-> f], [future |-> "accepted", value |-> f]>>
AbortSets(u, reason) ==
    LET f == FailureError(reason, u.state)
        outcome == [future |-> "outcome", value |-> f]
        accepted == [future |-> "accepted", value |-> f]
    IN  IF f = "none" THEN <<>>
        ELSE IF u.state \in PreAccepted THEN <<outcome, accepted>> ELSE <<outcome>>

\* registry.Abort on the objects as they are in u.
AbortAll(u, reason) == [id \in ID |-> [n \in Object |-> IF reg[id] = n THEN Aborted(u[id][n], reason) ELSE u[id][n]]]
AllAbortSets(u, reason) == [id \in ID |-> [n \in Object |-> IF reg[id] = n THEN AbortSets(u[id][n], reason) ELSE <<>>]]

\* Of objects that are in no registry, those that a client waits on.
Remaining(u) == [id \in ID |-> [n \in Object |-> IF Waiting(id, n) THEN u[id][n] ELSE Unused]]
RemainingSets(s) == [id \in ID |-> [n \in Object |-> IF Waiting(id, n) THEN s[id][n] ELSE <<>>]]

NoTask == [discard |-> FALSE, next |-> "none", newRun |-> FALSE]
Settled == \A id \in ID : \A n \in Object : sets[id][n] = <<>>
Idle == pc = "idle" /\ Settled

-----------------------------------------------------------------------------
(* The workflow context. *)

Update(id) == upd[id][reg[id]]
InFlight == Cardinality({id \in ID : reg[id] # 0})
OverInFlight == MaxInFlight # 0 /\ InFlight >= MaxInFlight
OverTotal == MaxTotal # 0 /\ InFlight + completedCount >= MaxTotal

\* ContextImpl.Clear, where the store is left as store: every update is aborted and forgotten.
ClearTo(store) ==
    /\ db' = store /\ ms' = store
    /\ upd' = Remaining(AbortAll(upd, "RegistryCleared"))
    /\ sets' = RemainingSets(AllAbortSets(upd, "RegistryCleared"))
    /\ loaded' = FALSE
    /\ reg' = [id \in ID |-> 0]
    /\ completedCount' = 0

\* A write of the mutable state m: what UpdateWorkflowExecution leaves behind.
Opened(store) == open \cup {id \in ID : store.running /\ store.info[id] = "accepted"}
WriteOK(m) ==
    /\ db' = m /\ ms' = m
    /\ open' = Opened(m)
WriteFailed(m) ==
    /\ "write" \in Faults
    /\ \E store \in {db, m} : ClearTo(store) /\ open' = Opened(store)

\* LoadMutableState and NewRegistry.
LoadContext ==
    /\ Idle /\ ~loaded
    /\ loaded' = TRUE
    /\ reg' = [id \in ID |-> IF db.info[id] \in {"admitted", "accepted"} THEN Fresh(id) ELSE 0]
    /\ upd' = [id \in ID |-> [n \in Object |->
                  IF reg'[id] # n THEN upd[id][n]
                  ELSE IF db.info[id] = "admitted" THEN NewAdmitted ELSE NewAccepted(db.running)]]
    /\ completedCount' = Cardinality({id \in ID : db.info[id] \in Outcome})
    /\ UNCHANGED <<db, ms, handler, sets, call, seen, history>>

\* The context is evicted, or a handler returns an error and clears it.
ClearContext ==
    /\ Idle /\ loaded
    /\ ClearTo(db)
    /\ UNCHANGED <<handler, call, seen, history>>

\* The host is lost: nobody is told anything.
Crash ==
    /\ "crash" \in Faults
    /\ ms' = db
    /\ loaded' = FALSE /\ reg' = [id \in ID |-> 0] /\ completedCount' = 0
    /\ upd' = [id \in ID |-> [n \in Object |-> Unused]]
    /\ sets' = [id \in ID |-> [n \in Object |-> <<>>]]
    /\ pc' = "idle" /\ effects' = <<>> /\ task' = NoTask
    /\ call' = [c \in Client |-> NoCall]
    /\ UNCHANGED <<db, seen, history>>

-----------------------------------------------------------------------------
(* Clients. *)

\* WaitLifecycleStage is entered on the object n of the update.
Enter(c, id, n, stage) == call' = [call EXCEPT ![c] = [pc |-> "enter", id |-> id, n |-> n, stage |-> stage]]

\* The answer of an update that is completed in the mutable state (newCompleted).
AnswerFromStore(id) ==
    /\ told' = [told EXCEPT ![id] = @ \cup {ms.info[id]}]
    /\ UNCHANGED <<db, ms, registry, upd, handler, sets, call, seen, open>>

UpdateWorkflowExecution(c, id, stage) ==
    /\ Idle /\ loaded /\ call[c].pc = "idle"
    /\ \/ /\ reg[id] # 0
          /\ Enter(c, id, reg[id], stage)
          /\ UNCHANGED <<db, ms, registry, upd, handler, sets, seen, history>>
       \/ reg[id] = 0 /\ ms.info[id] \in Outcome /\ AnswerFromStore(id)
       \/ /\ reg[id] = 0 /\ ms.info[id] = "none"
          /\ ~ms.running \/ OverInFlight \/ OverTotal
          /\ ClearTo(db)
          /\ UNCHANGED <<handler, call, seen, history>>
       \/ /\ reg[id] = 0 /\ ms.info[id] = "none"
          /\ ms.running /\ ~OverInFlight /\ ~OverTotal
          /\ reg' = [reg EXCEPT ![id] = Fresh(id)]
          /\ upd' = [upd EXCEPT ![id][Fresh(id)] = NewAdmitted]
          /\ ms' = IF ms.wft = "none" THEN [ms EXCEPT !.wft = "scheduled", !.speculative = TRUE] ELSE ms
          /\ Enter(c, id, Fresh(id), stage)
          /\ UNCHANGED <<db, loaded, completedCount, handler, sets, seen, history>>

PollWorkflowExecutionUpdate(c, id, stage) ==
    /\ Idle /\ loaded /\ call[c].pc = "idle"
    /\ \/ /\ reg[id] # 0
          /\ Enter(c, id, reg[id], stage)
          /\ UNCHANGED <<db, ms, registry, upd, handler, sets, seen, history>>
       \/ reg[id] = 0 /\ ms.info[id] \in Outcome /\ AnswerFromStore(id)

\* The call returns.  Answers that the store is to stand by are remembered: an update that was
\* rejected, or aborted while the run goes on, leaves no trace and may be requested again.
Return(c, answer) ==
    /\ call' = [call EXCEPT ![c] = NoCall]
    /\ told' = IF answer \in {"registryClearedErr", "workflowTaskFailErr", "admitted", "rejected"} THEN told
               ELSE [told EXCEPT ![call[c].id] = @ \cup {answer}]
    /\ LET id == call[c].id
           n == call[c].n
           last == reg[id] # n /\ \A d \in Client \ {c} : call[d].pc = "idle" \/ call[d].id # id \/ call[d].n # n
       IN  /\ upd' = IF last THEN [upd EXCEPT ![id][n] = Unused] ELSE upd
           /\ sets' = IF last THEN [sets EXCEPT ![id][n] = <<>>] ELSE sets
    /\ UNCHANGED <<db, ms, registry, handler, seen, open>>
Goto(c, where) ==
    /\ call' = [call EXCEPT ![c].pc = where]
    /\ UNCHANGED <<db, ms, registry, upd, handler, sets, seen, history>>

Awaited(c) == upd[call[c].id][call[c].n]

\* WaitLifecycleStage, its steps: which future to wait for, the outcome is ready, accepted is ready.
WaitLifecycleStage(c) ==
    /\ call[c].pc = "enter"
    /\ Goto(c, IF Awaited(c).outcome # "pending" \/ call[c].stage = "COMPLETED" THEN "outcome" ELSE "accepted")
OutcomeReady(c) ==
    /\ call[c].pc = "outcome" /\ Awaited(c).outcome # "pending"
    /\ IF Awaited(c).outcome = "registryClearedErr" /\ (Awaited(c).accepted # "pending" \/ call[c].stage = "ACCEPTED")
       THEN Goto(c, "accepted")
       ELSE Return(c, Awaited(c).outcome)
AcceptedReady(c) ==
    /\ call[c].pc = "accepted" /\ Awaited(c).accepted # "pending"
    /\ Return(c, IF Awaited(c).accepted = "accepted" /\ Awaited(c).outcome \notin Errors \cup {"pending"}
                 THEN Awaited(c).outcome ELSE Awaited(c).accepted)
WaitTimedOut(c) ==
    /\ "timeout" \in Faults
    /\ \/ /\ call[c].pc = "outcome" /\ Awaited(c).outcome = "pending"
          /\ IF Awaited(c).accepted # "pending" THEN Goto(c, "accepted") ELSE Return(c, "admitted")
       \/ call[c].pc = "accepted" /\ Awaited(c).accepted = "pending" /\ Return(c, "admitted")

\* The code under the lock sets a future.
SetFuture(id, n) ==
    /\ sets[id][n] # <<>>
    /\ upd' = [upd EXCEPT ![id][n] = IF Head(sets[id][n]).future = "outcome"
                                     THEN [@ EXCEPT !.outcome = Head(sets[id][n]).value]
                                     ELSE [@ EXCEPT !.accepted = Head(sets[id][n]).value]]
    /\ sets' = [sets EXCEPT ![id][n] = Tail(@)]
    /\ UNCHANGED <<db, ms, registry, handler, call, seen, history>>

-----------------------------------------------------------------------------
(* Workflow tasks: RecordWorkflowTaskStarted, timeouts. *)

\* HasOutgoingMessages and Send; the mutant only sees what was sent before.
OutgoingAgain == {id \in ID : reg[id] # 0 /\ Update(id).state = "Sent"}
Outgoing == {id \in ID : reg[id] # 0 /\ Update(id).state \in {"Admitted", "Sent"}}
\* An update of the history carries no request: the worker reads it from its event.
Messages == {id \in Outgoing : ms.info[id] # "admitted"}

\* registry.Send
Sent(u) == [id \in ID |-> [n \in Object |->
               IF reg[id] = n /\ u[id][n].state = "Admitted" THEN [u[id][n] EXCEPT !.state = "Sent"] ELSE u[id][n]]]

RecordWorkflowTaskStarted ==
    /\ Idle /\ loaded /\ ms.running /\ ms.wft = "scheduled"
    /\ LET m == [ms EXCEPT !.wft = "started"] IN
       \/ /\ ms.speculative /\ Messages # {}
          /\ ms' = m /\ upd' = Sent(upd) /\ seen' = seen \cup Outgoing
          /\ UNCHANGED <<db, registry, handler, sets, call, history>>
       \/ /\ ms.speculative /\ Messages = {}
          /\ ClearTo(db)
          /\ UNCHANGED <<handler, call, seen, history>>
       \/ /\ ~ms.speculative
          /\ WriteOK(m) /\ upd' = Sent(upd) /\ seen' = seen \cup Outgoing
          /\ UNCHANGED <<registry, handler, sets, call, told>>
       \/ /\ ~ms.speculative /\ WriteFailed(m)
          /\ UNCHANGED <<handler, call, seen, told>>

\* A speculative task that was not picked up, or any that was not completed, in time.
WorkflowTaskTimedOut ==
    /\ Idle /\ loaded /\ ms.running
    /\ ms.wft = "started" \/ (ms.wft = "scheduled" /\ ms.speculative)
    /\ LET m == [ms EXCEPT !.wft = "scheduled", !.speculative = FALSE] IN
       \/ WriteOK(m) /\ UNCHANGED <<registry, upd, handler, sets, call, seen, told>>
       \/ WriteFailed(m) /\ UNCHANGED <<handler, call, seen, told>>

\* The run is terminated, or times out: with a retry, a new run follows.
CloseWorkflow(reason) ==
    /\ Idle /\ loaded /\ ms.running
    /\ LET m == [ms EXCEPT !.running = FALSE, !.wft = "none", !.speculative = FALSE] IN
       \/ /\ WriteOK(m)
          /\ upd' = AbortAll(upd, reason) /\ sets' = AllAbortSets(upd, reason)
          /\ UNCHANGED <<registry, handler, call, seen, told>>
       \/ WriteFailed(m) /\ UNCHANGED <<handler, call, seen, told>>

-----------------------------------------------------------------------------
(* RespondWorkflowTaskCompleted. *)

\* AddWorkflowTaskCompletedEvent: a speculative task with nothing but rejections leaves no event.
RespondWorkflowTaskCompleted(discard) ==
    /\ Idle /\ loaded /\ ms.running /\ ms.wft = "started"
    /\ discard => ms.speculative
    /\ ms' = [ms EXCEPT !.wft = "none", !.speculative = FALSE]
    /\ pc' = "messages" /\ task' = [task EXCEPT !.discard = discard]
    /\ UNCHANGED <<db, registry, upd, effects, sets, call, seen, history>>

\* An effect is a pair of functions, one for commit and one for rollback.
Effect(kind, id, n, prev, value) == [kind |-> kind, id |-> id, n |-> n, prev |-> prev, value |-> value]

\* The object n of the update, as it is in u, moves to a state and leaves an effect.
Provisionally(u, id, n, state, kind, value) ==
    /\ upd' = [u EXCEPT ![id][n].state = state, ![id][n].event = @ \/ kind = "accept"]
    /\ effects' = Append(effects, Effect(kind, id, n, u[id][n].state, value))
    /\ UNCHANGED pc

\* Update.OnProtocolMessage; a message that the state does not expect fails the task.
OnProtocolMessage(u, id, n, kind, value) ==
    LET state == u[id][n].state
        abort == ~ms.running /\ kind # "reject"
        failure == FailureError("WorkflowCompleted", state)
        expected == IF kind = "respond" THEN {"ProvisionallyAccepted", "Accepted"} ELSE {"Sent", "Admitted"}
    IN  \/ abort /\ failure # "none" /\ UNCHANGED ms
           /\ Provisionally(u, id, n, "ProvisionallyAborted", "abort", failure)
        \/ abort /\ failure = "none" /\ upd' = u /\ UNCHANGED <<ms, effects, pc>>
        \/ ~abort /\ state \notin expected /\ upd' = u /\ pc' = "fail" /\ UNCHANGED <<ms, effects>>
        \/ ~abort /\ state \in expected /\ kind = "accept"
           /\ ms' = [ms EXCEPT !.info[id] = "accepted"]
           /\ Provisionally(u, id, n, "ProvisionallyAccepted", "accept", "accepted")
        \/ ~abort /\ state \in expected /\ kind = "reject" /\ UNCHANGED ms
           /\ Provisionally(u, id, n, "ProvisionallyCompleted", "reject", "rejected")
        \/ ~abort /\ state \in expected /\ kind = "respond"
           /\ ms' = [ms EXCEPT !.info[id] = value]
           /\ Provisionally(u, id, n, "ProvisionallyCompleted", "respond", value)

\* A worker that has closed the run says nothing more of an update it has rejected or completed;
\* in an open run the state of the update makes it fail the task.
Legal(id) == ~(~ms.running /\ reg[id] # 0 /\ Update(id).state = "ProvisionallyCompleted")

\* handleMessage: the update is found, or resurrected from the request in the message.
HandleMessage(id, kind, value) ==
    /\ pc = "messages" /\ id \in seen
    /\ Legal(id) \/ "worker" \in Faults
    /\ task.discard => kind = "reject"
    /\ \/ /\ reg[id] # 0
          /\ OnProtocolMessage(upd, id, reg[id], kind, value)
          /\ UNCHANGED reg
       \/ /\ reg[id] = 0 /\ ms.info[id] = "none" /\ ~OverTotal /\ kind # "respond"
          /\ reg' = [reg EXCEPT ![id] = Fresh(id)]
          /\ OnProtocolMessage([upd EXCEPT ![id][Fresh(id)] = NewAdmitted], id, Fresh(id), kind, value)
       \/ /\ reg[id] = 0 /\ ms.info[id] = "none"
          /\ pc' = IF OverTotal THEN "cancel" ELSE "fail"
          /\ UNCHANGED <<ms, reg, upd, effects>>
       \/ /\ reg[id] = 0 /\ ms.info[id] \in Outcome /\ (ms.running \/ kind = "reject")
          /\ pc' = "fail"
          /\ UNCHANGED <<ms, reg, upd, effects>>
    /\ UNCHANGED <<db, loaded, completedCount, task, sets, call, seen, history>>

\* A command that completes the run, alone or with a new run.
HandleCloseCommand(newRun) ==
    /\ pc = "messages" /\ ms.running /\ ~task.discard
    /\ ms' = [ms EXCEPT !.running = FALSE] /\ task' = [task EXCEPT !.newRun = newRun]
    /\ UNCHANGED <<db, registry, upd, pc, effects, sets, call, seen, history>>

\* A command that fails the task, or that returns an error.
HandleBadCommand ==
    /\ pc = "messages" /\ ~task.discard
    /\ pc' \in {"fail", "cancel"}
    /\ UNCHANGED <<db, ms, registry, upd, task, effects, sets, call, seen, history>>

\* The orders in which Go may range over a map.
Orders(S) == Bijection(1..Cardinality(S), S)

\* Every update of S moves to a state, and leaves an effect.
AllProvisionally(S, state, kind, value) ==
    /\ upd' = [id \in ID |-> [n \in Object |->
                  IF id \in S /\ reg[id] = n THEN [upd[id][n] EXCEPT !.state = state] ELSE upd[id][n]]]
    /\ \E s \in Orders(S) :
          effects' = effects \o [i \in DOMAIN s |-> Effect(kind, s[i], reg[s[i]], Update(s[i]).state, value)]

\* isSent: updates that the worker has said nothing of.  The mutant of Unprocessed is a server
\* that does not reject them.
NoneUnprocessed == {}
Unprocessed == {id \in ID : reg[id] # 0 /\ Update(id).state = "Sent"}
InAcceptance == {id \in ID : reg[id] # 0 /\ Update(id).state \in {"ProvisionallyAccepted", "Accepted"}}

\* After the messages: updates the worker ignored are rejected, those a closing run had
\* accepted are aborted, and the next workflow task is chosen.
FinishMessages(heartbeat, buffered, bypass) ==
    LET normal == ms.running /\ (heartbeat \/ buffered)
        rejected == IF ms.running /\ ~heartbeat THEN Unprocessed ELSE {}
        speculative == ms.running /\ ~normal /\ Outgoing \ rejected # {}
        next == IF normal \/ (speculative /\ ~bypass) THEN "normal"
                ELSE IF speculative THEN "speculative" ELSE "none"
    IN  /\ pc = "messages"
        /\ task.discard => ~heartbeat
        /\ IF ms.running THEN AllProvisionally(rejected, "ProvisionallyCompleted", "reject", "rejected")
                         ELSE AllProvisionally(InAcceptance, "ProvisionallyAborted", "abort", "failed")
        /\ task' = [task EXCEPT !.next = IF next = "normal" /\ bypass THEN "started" ELSE next]
        /\ ms' = IF next = "normal" THEN [ms EXCEPT !.wft = IF bypass THEN "started" ELSE "scheduled"] ELSE ms
        /\ pc' = IF task.discard /\ next # "normal" THEN "apply" ELSE "persist"
        /\ UNCHANGED <<db, registry, sets, call, seen, history>>

Persist ==
    /\ pc = "persist"
    /\ \/ WriteOK(ms) /\ pc' = "apply" /\ UNCHANGED <<registry, upd, sets>>
       \/ WriteFailed(ms) /\ pc' = "cancel"
    /\ UNCHANGED <<task, effects, call, seen, told>>

\* What an effect does after the commit: the states it goes on from, the next state, and
\* the values it sets on futures, in their order.
Effective(e, state) ==
    state \in CASE e.kind = "accept"  -> {"ProvisionallyAccepted", "ProvisionallyCompleted", "ProvisionallyAborted"}
                [] e.kind = "reject"  -> {"ProvisionallyCompleted"}
                [] e.kind = "respond" -> {"ProvisionallyCompleted", "ProvisionallyCompletedAfterAccepted"}
                [] e.kind = "abort"   -> {"ProvisionallyAborted", "ProvisionallyCompletedAfterAccepted"}
Committed(e, state) ==
    CASE e.kind = "accept" ->
            IF state = "ProvisionallyAccepted" THEN "Accepted" ELSE "ProvisionallyCompletedAfterAccepted"
      [] e.kind = "abort" -> "Aborted"
      [] e.kind \in {"reject", "respond"} -> "Completed"
\* The mutant of CommitSets sets accepted before the outcome of the same task.
CommitAcceptedFirst(e, state) ==
    LET accepted(v) == <<[future |-> "accepted", value |-> v]>>
        outcome == <<[future |-> "outcome", value |-> e.value]>>
    IN  CASE e.kind = "accept" -> accepted("accepted")
          [] e.kind = "reject" -> accepted("rejected") \o outcome
          [] e.kind = "respond" -> outcome
          [] e.kind = "abort" ->
                IF e.prev \in PreAccepted /\ state = "ProvisionallyAborted" THEN outcome \o accepted(e.value) ELSE outcome
CommitSets(e, state) ==
    LET accepted(v) == [future |-> "accepted", value |-> v]
        outcome == [future |-> "outcome", value |-> e.value]
        afterAccepted == state = "ProvisionallyCompletedAfterAccepted"
    IN  CASE e.kind = "accept" -> IF state = "ProvisionallyAccepted" THEN <<accepted("accepted")>> ELSE <<>>
          [] e.kind = "reject" -> <<accepted("rejected"), outcome>>
          [] e.kind = "respond" -> IF afterAccepted THEN <<outcome, accepted("accepted")>> ELSE <<outcome>>
          [] e.kind = "abort" -> IF afterAccepted THEN <<outcome, accepted("accepted")>>
                                 ELSE IF e.prev \in PreAccepted THEN <<outcome, accepted(e.value)>> ELSE <<outcome>>

\* One step of effects.Apply; a completed update is removed from the registry (onComplete).
ApplyEffect ==
    /\ pc = "apply" /\ Settled /\ effects # <<>>
    /\ LET e == Head(effects)
           state == upd[e.id][e.n].state
           done == Effective(e, state) /\ e.kind \in {"reject", "respond"} /\ reg[e.id] = e.n
       IN  /\ upd' = IF Effective(e, state) THEN [upd EXCEPT ![e.id][e.n].state = Committed(e, state)] ELSE upd
           /\ sets' = IF Effective(e, state) THEN [sets EXCEPT ![e.id][e.n] = CommitSets(e, state)] ELSE sets
           /\ reg' = IF done THEN [reg EXCEPT ![e.id] = 0] ELSE reg
           /\ completedCount' = IF done /\ upd[e.id][e.n].event THEN completedCount + 1 ELSE completedCount
    /\ effects' = Tail(effects)
    /\ UNCHANGED <<db, ms, loaded, pc, task, call, seen, history>>

\* After the effects: a closed run aborts what is left; the next task is started with what is to be sent.
FinishTask ==
    /\ pc = "apply" /\ Settled /\ effects = <<>>
    /\ pc' = "idle" /\ task' = NoTask
    /\ LET reason == IF task.newRun THEN "WorkflowContinuing" ELSE "WorkflowCompleted" IN
       \/ /\ ~ms.running
          /\ upd' = AbortAll(upd, reason) /\ sets' = AllAbortSets(upd, reason)
          /\ UNCHANGED <<db, ms, registry, seen>>
       \/ /\ ms.running /\ task.next \in {"none", "normal"}
          /\ UNCHANGED <<db, ms, registry, upd, sets, seen>>
       \/ /\ ms.running /\ (task.next = "started" \/ (task.next = "speculative" /\ Messages # {}))
          /\ ms' = IF task.next = "started" THEN ms ELSE [ms EXCEPT !.wft = "started", !.speculative = TRUE]
          /\ upd' = Sent(upd) /\ seen' = seen \cup Outgoing
          /\ UNCHANGED <<db, registry, sets>>
       \/ /\ ms.running /\ task.next = "speculative" /\ Messages = {}
          /\ ClearTo(db)
          /\ UNCHANGED seen
    /\ UNCHANGED <<effects, call, history>>

\* One step of effects.Cancel.
CancelEffect ==
    /\ pc \in {"cancel", "fail"} /\ Settled /\ effects # <<>>
    /\ LET e == effects[Len(effects)]
           from == CASE e.kind = "accept" -> "ProvisionallyAccepted"
                     [] e.kind = "abort"  -> "ProvisionallyAborted"
                     [] OTHER             -> "ProvisionallyCompleted"
       IN  upd' = IF upd[e.id][e.n].state = from
                  THEN [upd EXCEPT ![e.id][e.n].state = e.prev, ![e.id][e.n].event = @ /\ e.kind # "accept"]
                  ELSE upd
    /\ effects' = SubSeq(effects, 1, Len(effects) - 1)
    /\ UNCHANGED <<db, ms, registry, pc, task, sets, call, seen, history>>

\* The handler returns an error: its lease is released with it.
ReturnError ==
    /\ pc = "cancel" /\ Settled /\ effects = <<>>
    /\ pc' = "idle" /\ task' = NoTask
    /\ IF loaded THEN ClearTo(db) ELSE UNCHANGED <<db, ms, registry, upd, sets>>
    /\ UNCHANGED <<effects, call, seen, history>>

\* The task is failed: updates that no worker has answered are aborted for it, the context is
\* cleared, and the failure is written to what is loaded again, unless the task is dropped.
FailWorkflowTask ==
    /\ pc = "fail" /\ Settled /\ effects = <<>>
    /\ pc' = "idle" /\ task' = NoTask
    /\ \E store \in {db, [db EXCEPT !.wft = "scheduled"], [db EXCEPT !.running = FALSE, !.wft = "none"]} :
          db' = store /\ ms' = store /\ open' = Opened(store)
    /\ LET aborted == AbortAll(upd, "WorkflowTaskFailed")
           first == AllAbortSets(upd, "WorkflowTaskFailed")
           second == AllAbortSets(aborted, "RegistryCleared")
       IN  /\ upd' = Remaining(AbortAll(aborted, "RegistryCleared"))
           /\ sets' = RemainingSets([id \in ID |-> [n \in Object |-> first[id][n] \o second[id][n]]])
    /\ loaded' = FALSE /\ reg' = [id \in ID |-> 0] /\ completedCount' = 0
    /\ UNCHANGED <<effects, call, seen, told>>

-----------------------------------------------------------------------------
Init ==
    /\ db = [running |-> TRUE, wft |-> "scheduled", speculative |-> FALSE,
             info |-> [id \in ID |-> IF id \in Reset THEN "admitted" ELSE "none"]]
    /\ ms = db
    /\ loaded = FALSE /\ reg = [id \in ID |-> 0] /\ completedCount = 0
    /\ upd = [id \in ID |-> [n \in Object |-> Unused]]
    /\ pc = "idle" /\ task = NoTask /\ effects = <<>>
    /\ sets = [id \in ID |-> [n \in Object |-> <<>>]]
    /\ call = [c \in Client |-> NoCall]
    /\ seen = {}
    /\ told = [id \in ID |-> {}] /\ open = {}

ClientStep ==
    \E c \in Client :
        \/ WaitLifecycleStage(c) \/ OutcomeReady(c) \/ AcceptedReady(c) \/ WaitTimedOut(c)
        \/ \E id \in ID, stage \in Stages :
              UpdateWorkflowExecution(c, id, stage) \/ PollWorkflowExecutionUpdate(c, id, stage)
WorkerStep ==
    \/ \E discard \in BOOLEAN : RespondWorkflowTaskCompleted(discard)
    \/ \E id \in ID : HandleMessage(id, "accept", "none") \/ HandleMessage(id, "reject", "none")
    \/ \E id \in ID, o \in Outcome : HandleMessage(id, "respond", o)
    \/ \E newRun \in BOOLEAN : HandleCloseCommand(newRun)
    \/ HandleBadCommand
    \/ \E heartbeat, buffered, bypass \in BOOLEAN : FinishMessages(heartbeat, buffered, bypass)
HandlerStep ==
    \/ Persist \/ ApplyEffect \/ FinishTask \/ CancelEffect \/ ReturnError \/ FailWorkflowTask
    \/ \E id \in ID, n \in Object : SetFuture(id, n)
ServerStep ==
    \/ LoadContext \/ ClearContext \/ Crash
    \/ RecordWorkflowTaskStarted \/ WorkflowTaskTimedOut
    \/ \E reason \in {"WorkflowCompleted", "WorkflowContinuing"} : CloseWorkflow(reason)

Next == ClientStep \/ WorkerStep \/ HandlerStep \/ ServerStep
Spec == Init /\ [][Next]_vars

\* The goroutines of handlers and callers run.  A workflow task is dispatched, and given to a
\* worker again when it times out; a worker that keeps getting tasks answers one some time, and
\* does not only send heartbeats.
FairSpec ==
    /\ Spec
    /\ WF_vars(HandlerStep)
    /\ \A c \in Client : WF_vars(WaitLifecycleStage(c) \/ OutcomeReady(c) \/ AcceptedReady(c))
    /\ SF_vars(RecordWorkflowTaskStarted)
    /\ SF_vars(\E discard \in BOOLEAN : RespondWorkflowTaskCompleted(discard))
    /\ SF_vars(\E buffered, bypass \in BOOLEAN : FinishMessages(FALSE, buffered, bypass))

-----------------------------------------------------------------------------
(* Properties. *)

Value == {"pending", "accepted", "rejected", "failed"} \cup Outcome \cup Errors
Run == [running : BOOLEAN, wft : {"none", "scheduled", "started"}, speculative : BOOLEAN, info : [ID -> Info]]
UpdateObject == [state : States, event : BOOLEAN, accepted : Value, outcome : Value]
EffectRecord ==
    [kind : {"accept", "reject", "respond", "abort"}, id : ID, n : Object, prev : States, value : Value]
SetRecord == [future : {"accepted", "outcome"}, value : Value]
TaskRecord == [discard : BOOLEAN, next : {"none", "normal", "speculative", "started"}, newRun : BOOLEAN]
CallRecord == [pc : {"enter", "outcome", "accepted"}, id : ID, n : Object, stage : Stages]

\* Every variable has its type.
TypeOK ==
    /\ db \in Run /\ ms \in Run /\ loaded \in BOOLEAN
    /\ reg \in [ID -> Object \cup {0}] /\ completedCount \in Nat
    /\ upd \in [ID -> [Object -> UpdateObject]]
    /\ pc \in {"idle", "messages", "persist", "apply", "cancel", "fail"}
    /\ task \in TaskRecord
    /\ effects \in Seq(EffectRecord)
    /\ sets \in [ID -> [Object -> Seq(SetRecord)]]
    /\ call \in [Client -> CallRecord \cup {NoCall}]
    /\ seen \subseteq ID /\ open \subseteq ID
    /\ told \in [ID -> SUBSET (Value \ {"pending"})]

\* What callers were told of an update holds in the store, now and after any failure: accepted
\* only what was durably accepted and left open, an outcome only as it is stored, failed only
\* what the closed run had accepted, and aborted by the closing only what it had not.
ToldIsDurable ==
    \A id \in ID : \A answer \in told[id] :
        /\ answer = "accepted" => id \in open /\ db.info[id] \in {"accepted"} \cup Outcome
        /\ answer \in Outcome => db.info[id] = answer
        /\ answer = "failed" => db.info[id] = "accepted" /\ ~db.running
        /\ answer \in Errors => db.info[id] \in {"none", "admitted"} /\ ~db.running

\* A future is set once: FutureImpl.Set panics on a future that is ready.
FuturesSetOnce ==
    \A id \in ID, n \in Object : \A i \in DOMAIN sets[id][n] :
        /\ upd[id][n][sets[id][n][i].future] = "pending"
        /\ \A j \in DOMAIN sets[id][n] : sets[id][n][i].future = sets[id][n][j].future => i = j

\* Whenever the lock is free, a loaded context is what reading the store again would give: its
\* mutable state has the same updates, no update is left in a provisional state, the
\* registry has the accepted updates and none that is completed, and counts the latter.
RegistryAgrees ==
    Idle /\ loaded =>
        /\ ms.running = db.running /\ ms.info = db.info
        /\ \A id \in ID :
              CASE db.info[id] \in Outcome   -> reg[id] = 0
                [] db.info[id] = "accepted" -> reg[id] # 0 /\ Update(id).state = IF db.running THEN "Accepted" ELSE "Aborted"
                [] OTHER -> reg[id] = 0 \/ Update(id).state \in {"Admitted", "Sent", "Aborted"}
        /\ completedCount = Cardinality({id \in ID : db.info[id] \in Outcome})

\* An update that is to be sent has a workflow task that will take it along: otherwise the
\* workflow is stuck, until something else schedules one.
DeliveryPending ==
    Idle /\ loaded /\ ms.running =>
        \A id \in ID : reg[id] # 0 /\ Update(id).state \in {"Admitted", "Sent"} /\ ms.info[id] = "none"
                        => ms.wft # "none"

\* Whoever waits on an object is answered by the step that takes it off the registry, as nothing
\* will complete it afterwards: both futures are set then, or are being set.  Only a failed write
\* lets callers down, and only those of updates that its task had completed, who may wait for an
\* acceptance that nobody decides on, or had aborted as it closed the run.
Given(u, s, future) == u[future] # "pending" \/ \E i \in 1..Len(s) : s[i].future = future
Forgotten(id, n) == Waiting(id, n) /\ Waiting(id, n)' /\ reg[id] = n /\ reg'[id] # n
WriteFails == pc = "persist" /\ pc' = "cancel"
Answered(id, n) ==
    /\ \/ Given(upd'[id][n], sets'[id][n], "accepted")
       \/ WriteFails /\ upd[id][n].state \in {"ProvisionallyCompleted", "ProvisionallyAborted"}
    /\ \/ Given(upd'[id][n], sets'[id][n], "outcome")
       \/ WriteFails /\ upd[id][n].state = "ProvisionallyAborted"
ForgottenAnswered == [][\A id \in ID : \A n \in Object : Forgotten(id, n) => Answered(id, n)]_vars

\* A registry that is built from the store of a closed run has no update that can go on.
AbortedWhenClosed ==
    Idle /\ loaded /\ ~ms.running => \A id \in ID : reg[id] # 0 => Update(id).state = "Aborted"

\* What the callers and the store see is a behaviour of UpdateLifecycle.
Lifecycle == INSTANCE UpdateLifecycle WITH running <- db.running, info <- db.info
Implements == Lifecycle!Spec

\* A call that asks for the stage ACCEPTED comes back.
CallsAnswered ==
    \A c \in Client : (call[c].pc # "idle" /\ call[c].stage = "ACCEPTED") ~> call[c].pc = "idle"

=============================================================================
