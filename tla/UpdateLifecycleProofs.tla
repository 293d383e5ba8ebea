------------------------ MODULE UpdateLifecycleProofs ------------------------
(***************************************************************************)
(* WorkflowUpdates implements UpdateLifecycle, and what callers are told   *)
(* of an update is what the store says, now and later.                     *)
(*                                                                         *)
(* An answer is read from a future, by a caller that does not hold the     *)
(* lock, so the invariant speaks of every value that is on a future or on  *)
(* its way there (ObjectInv).  Such a value is set by an effect of the     *)
(* handler that has committed, or by an abort; that it agrees with what    *)
(* was written follows from what each buffered effect stands for           *)
(* (CommitInv) and from the states of the registered updates, whose        *)
(* provisional states each have an effect that is still to be applied      *)
(* (RegisteredInv).                                                        *)
(***************************************************************************)
EXTENDS WorkflowUpdatesProofs

USE DEF handler, registry, history

Pending == {"none", "admitted"}
Final == Outcome \cup {"failed"}
ClosingErrors == {"AbortedByWorkflowClosingErr", "ErrWorkflowClosing"}

\* States in which neither the caller nor the store knows an outcome.
Live == {"Admitted", "Sent", "ProvisionallyAccepted", "Accepted", "ProvisionallyCompleted",
         "ProvisionallyCompletedAfterAccepted", "ProvisionallyAborted"}

\* What a write may do to an update, and to the run.
Progress(before, after) ==
    \/ after = before
    \/ before \in Pending /\ after \in {"accepted"} \cup Outcome
    \/ before = "accepted" /\ after \in Outcome
SameUpdates(a, b) == a.running = b.running /\ a.info = b.info
Grows(a, b) == SameUpdates(a, b) \/ (a.running /\ \A id \in ID : Progress(a.info[id], b.info[id]))

-----------------------------------------------------------------------------
(* The invariant                                                           *)

\* How the mutable state of the context is related to the store.
StoreInv ==
    /\ \A id \in ID : db.running /\ db.info[id] = "accepted" => id \in open
    /\ \A id \in open : db.info[id] \in {"accepted"} \cup Outcome
    /\ ~loaded => ms = db
    /\ pc \in {"idle", "apply"} => SameUpdates(db, ms)
    /\ pc \in {"messages", "persist", "fail"} =>
          Settled /\ db.running /\ \A id \in ID : Progress(db.info[id], ms.info[id])
    /\ task.discard /\ pc \in {"messages", "persist", "apply"} => SameUpdates(db, ms)
    /\ pc = "idle" => effects = <<>>

\* What a run in the store says for a value that a caller is given.
Good(run, id, value) ==
    /\ value \in Outcome => run.info[id] = value
    /\ value = "failed" => ~run.running /\ run.info[id] = "accepted"
    /\ value \in ClosingErrors => ~run.running /\ run.info[id] \in Pending

IsOutcome(set) == set.future = "outcome"

\* An object of an update, and the values s that are still to be set on its futures: "accepted" is
\* said only of an update that was left open, or after its outcome.
ObjectInv(run, left, id, u, s) ==
    /\ Good(run, id, u.outcome) /\ u.outcome # "accepted"
    /\ Good(run, id, u.accepted)
    /\ u.accepted = "accepted" => id \in left \/ u.outcome \in Final
    /\ u.state \in Live \cup {"Unused"} => u.outcome = "pending"
    /\ u.state = "Unused" => u.accepted = "pending" /\ s = <<>>
    /\ u.outcome # "pending" \/ u.state \in Live => \A i \in 1..Len(s) : ~IsOutcome(s[i])
    /\ \A i \in 1..Len(s) :
          /\ Good(run, id, s[i].value)
          /\ IsOutcome(s[i]) => s[i].value \notin {"accepted", "pending"}
          /\ \A j \in 1..Len(s) : IsOutcome(s[i]) /\ IsOutcome(s[j]) => i = j
          /\ ~IsOutcome(s[i]) /\ s[i].value = "accepted" =>
                \/ id \in left \/ u.outcome \in Final
                \/ \E j \in 1..(i - 1) : IsOutcome(s[j]) /\ s[j].value \in Final
FutureInv == \A id \in ID : \A n \in Object : ObjectInv(db, open, id, upd[id][n], sets[id][n])

\* What was told.
ToldInv ==
    \A id \in ID : \A answer \in told[id] :
        /\ Good(db, id, answer)
        /\ answer = "accepted" => id \in open
        /\ answer \notin {"registryClearedErr", "workflowTaskFailErr"}

\* A rollback goes back to a state of an update that has no outcome.
RollbackInv == \A i \in 1..Len(effects) : effects[i].prev \in Live

\* What a mutable state m says of an update with a buffered effect that may be applied.
InfoAgrees(e, m) ==
    /\ e.kind = "accept" => m.info[e.id] \in {"accepted"} \cup Outcome
    /\ e.kind = "reject" => e.value = "rejected" /\ m.info[e.id] \in Pending
    /\ e.kind = "respond" => e.value \in Outcome /\ m.info[e.id] = e.value
    /\ e.kind = "abort" =>
          /\ ~m.running
          /\ \/ e.value = "failed" /\ m.info[e.id] = "accepted"
             \/ e.value \in ClosingErrors /\ m.info[e.id] \in Pending
\* The object of an effect is the registered one, until the update is completed.
Committable(e) ==
    /\ InfoAgrees(e, ms)
    /\ pc # "apply" => reg[e.id] = e.n
    /\ pc = "apply" => \/ reg[e.id] = e.n
                       \/ reg[e.id] = 0 /\ upd[e.id][e.n].state \in {"Completed", "Unused"}
    /\ pc = "messages" /\ e.kind \in {"respond", "reject"} => upd[e.id][e.n].state = "ProvisionallyCompleted"
CommitInv ==
    pc \in {"messages", "persist", "apply"} => \A i \in 1..Len(effects) : Committable(effects[i])

\* A registered update and the mutable state: a provisional state has an effect that will end it.
Remains(id, kinds) == \E i \in 1..Len(effects) : effects[i].id = id /\ effects[i].kind \in kinds
StateInv(id, s) ==
    /\ s \in {"Admitted", "Sent"} => ms.info[id] \in Pending
    /\ s \in {"ProvisionallyAccepted", "Accepted"} => ms.info[id] = "accepted"
    /\ s = "ProvisionallyAccepted" => Remains(id, {"accept"}) /\ (pc \in {"persist", "apply"} => ms.running)
    /\ s = "ProvisionallyCompleted" => Remains(id, {"reject", "respond"})
    /\ s = "ProvisionallyCompletedAfterAccepted" =>
          pc = "apply" /\ Remains(id, {"respond", "abort"}) /\ ms.info[id] \in {"accepted"} \cup Outcome
    /\ s = "ProvisionallyAborted" => Remains(id, {"abort"})
RegisteredInv ==
    pc \in {"idle", "messages", "persist", "apply"} =>
        \A id \in ID : reg[id] # 0 => StateInv(id, Update(id).state)

Inv == TypeInv /\ StoreInv /\ FutureInv /\ ToldInv /\ RollbackInv /\ CommitInv /\ RegisteredInv

-----------------------------------------------------------------------------
(* Runs and values                                                         *)

\* The kinds of values and stages do not overlap.
LEMMA Kinds ==
  /\ Outcome \cap {"none", "admitted", "accepted", "rejected", "failed", "pending", "registryClearedErr",
                   "AbortedByWorkflowClosingErr", "ErrWorkflowClosing", "workflowTaskFailErr"} = {}
  /\ Info = {"none", "admitted", "accepted"} \cup Outcome
  /\ Pending = {"none", "admitted"}
  BY UpdateConstants DEF Errors, Info, Pending

LEMMA GrowsSame ==
  ASSUME NEW run, NEW id
  PROVE  Grows(run, run) /\ Progress(run.info[id], run.info[id])
  BY DEF Grows, SameUpdates, Progress

\* What was good to say stays good.
LEMMA GoodGrows ==
  ASSUME NEW a \in Run, NEW b \in Run, Grows(a, b), NEW id \in ID, NEW value, Good(a, id, value)
  PROVE  Good(b, id, value)
<1>1. CASE SameUpdates(a, b)
  BY <1>1 DEF SameUpdates, Good
<1>2. CASE a.running /\ Progress(a.info[id], b.info[id])
  BY <1>2, Kinds DEF Progress, Good
<1> QED BY <1>1, <1>2 DEF Grows

LEMMA ObjectGrows ==
  ASSUME NEW a \in Run, NEW b \in Run, Grows(a, b), NEW left, NEW more, left \subseteq more,
         NEW id \in ID, NEW u \in UpdateObject, NEW s \in Seq(SetRecord), ObjectInv(a, left, id, u, s)
  PROVE  ObjectInv(b, more, id, u, s)
<1>1. \A value : Good(a, id, value) => Good(b, id, value)
  BY GoodGrows
<1> QED BY <1>1 DEF ObjectInv

\* The store after a write of a run that has grown.
LEMMA WriteStore ==
  ASSUME TypeOK, StoreInv, NEW store \in Run, Grows(db, store), db' = store, open' = Opened(store)
  PROVE  /\ open \subseteq open'
         /\ \A id \in ID : db'.running /\ db'.info[id] = "accepted" => id \in open'
         /\ \A id \in open' : db'.info[id] \in {"accepted"} \cup Outcome
<1>1. open \subseteq open' /\ \A id \in ID : db'.running /\ db'.info[id] = "accepted" => id \in open'
  BY DEF Opened
<1>2. ASSUME NEW id \in open' PROVE db'.info[id] \in {"accepted"} \cup Outcome
  <2>1. CASE id \in open
    <3>1. id \in ID /\ db.info[id] \in {"accepted"} \cup Outcome
      BY <2>1 DEF StoreInv, TypeOK
    <3>2. db'.info[id] = db.info[id] \/ Progress(db.info[id], db'.info[id])
      BY <3>1 DEF Grows, SameUpdates
    <3> QED BY <3>1, <3>2, Kinds DEF Progress
  <2>2. CASE id \notin open
    BY <1>2, <2>2 DEF Opened
  <2> QED BY <2>1, <2>2
<1> QED BY <1>1, <1>2

-----------------------------------------------------------------------------
(* Objects                                                                 *)

\* The records that are queued for futures.
OutcomeSet(v) == [future |-> "outcome", value |-> v]
AcceptedSet(v) == [future |-> "accepted", value |-> v]

LEMMA Queues ==
  ASSUME NEW x \in SetRecord, NEW y \in SetRecord
  PROVE  /\ <<x>> \in Seq(SetRecord) /\ Len(<<x>>) = 1 /\ <<x>>[1] = x
         /\ <<x, y>> \in Seq(SetRecord) /\ Len(<<x, y>>) = 2 /\ <<x, y>>[1] = x /\ <<x, y>>[2] = y
         /\ \A i \in 1..1 : i = 1
         /\ \A i \in 1..2 : i = 1 \/ i = 2
  OBVIOUS

\* An object that nothing has been set on.
LEMMA NewObjectInv ==
  ASSUME NEW run \in Run, NEW left, NEW id \in ID, NEW u \in UpdateObject,
         u.accepted = "pending", u.outcome = "pending"
  PROVE  ObjectInv(run, left, id, u, <<>>)
  BY Kinds DEF ObjectInv, Good, ClosingErrors

\* An object that the registry has made from the store.
LEMMA BuiltObjectInv ==
  ASSUME TypeOK, StoreInv, NEW id \in ID, db.info[id] = "accepted"
  PROVE  ObjectInv(db, open, id, NewAccepted(db.running), <<>>)
<1>1. db.running => id \in open
  BY DEF StoreInv
<1>2. db.running \in BOOLEAN
  BY DEF TypeOK, Run
<1> QED
  BY <1>1, <1>2, Kinds DEF ObjectInv, Good, ClosingErrors, NewAccepted, Final, Live

\* An object moves between states that have no outcome.
LEMMA LiveObjectInv ==
  ASSUME NEW run, NEW left, NEW id, NEW u, NEW v, NEW s, ObjectInv(run, left, id, u, s),
         u.state \in Live, v.state \in Live, v.accepted = u.accepted, v.outcome = u.outcome
  PROVE  ObjectInv(run, left, id, v, s)
  BY DEF ObjectInv, Live

\* An object gets its outcome, and perhaps an answer for those who wait for its acceptance: after
\* the outcome, unless the answer is not that the update was accepted.
LEMMA SettleObjectInv ==
  ASSUME NEW run \in Run, NEW left, NEW id \in ID, NEW u \in UpdateObject, ObjectInv(run, left, id, u, <<>>),
         u.state \in Live, NEW state \in States, state \notin Live \cup {"Unused"},
         NEW v \in Value, NEW w \in Value, v \notin {"accepted", "pending"},
         Good(run, id, v), Good(run, id, w), w = "accepted" => v \in Final,
         NEW s, s \in {<<OutcomeSet(v)>>, <<OutcomeSet(v), AcceptedSet(w)>>}
                \/ (s = <<AcceptedSet(w), OutcomeSet(v)>> /\ w # "accepted")
  PROVE  ObjectInv(run, left, id, [u EXCEPT !.state = state], s)
<1> DEFINE o == OutcomeSet(v)
           a == AcceptedSet(w)
           t == [u EXCEPT !.state = state]
<1>1. o \in SetRecord /\ a \in SetRecord /\ IsOutcome(o) /\ ~IsOutcome(a) /\ o.value = v /\ a.value = w
  BY DEF SetRecord, OutcomeSet, AcceptedSet, IsOutcome
<1>2. t.state = state /\ t.accepted = u.accepted /\ t.outcome = u.outcome
  BY DEF UpdateObject
<1>3. /\ Good(run, id, t.outcome) /\ t.outcome # "accepted" /\ Good(run, id, t.accepted)
      /\ t.accepted = "accepted" => id \in left \/ t.outcome \in Final
      /\ t.outcome = "pending" /\ t.state \notin Live \cup {"Unused"}
  BY <1>2 DEF ObjectInv
<1> HIDE DEF t, o, a
<1>4. CASE s = <<o>>
  BY <1>1, <1>3, <1>4, Queues, Z3 DEF ObjectInv
<1>5. CASE s = <<o, a>>
  <2>1. Len(s) = 2 /\ s[1] = o /\ s[2] = a /\ 1 \in 1..(2 - 1)
    BY <1>1, <1>5, Queues
  <2> QED BY <1>1, <1>3, <2>1, Queues DEF ObjectInv
<1>6. CASE s = <<a, o>> /\ w # "accepted"
  <2>1. Len(s) = 2 /\ s[1] = a /\ s[2] = o
    BY <1>1, <1>6, Queues
  <2> QED BY <1>1, <1>3, <1>6, <2>1, Queues DEF ObjectInv
<1> QED BY <1>4, <1>5, <1>6 DEF o, a, t

\* An update that is left open is answered.
LEMMA AcceptObjectInv ==
  ASSUME NEW run \in Run, NEW left, NEW id \in left, NEW u \in UpdateObject, ObjectInv(run, left, id, u, <<>>),
         u.state \in Live
  PROVE  ObjectInv(run, left, id, [u EXCEPT !.state = "Accepted"], <<AcceptedSet("accepted")>>)
<1> DEFINE t == [u EXCEPT !.state = "Accepted"]
           a == AcceptedSet("accepted")
           s == <<a>>
<1>1. a \in SetRecord /\ ~IsOutcome(a) /\ a.value = "accepted" /\ Good(run, id, a.value)
  BY Kinds DEF SetRecord, AcceptedSet, IsOutcome, Value, Good, ClosingErrors
<1>2. t.state = "Accepted" /\ t.accepted = u.accepted /\ t.outcome = u.outcome
  BY DEF UpdateObject
<1>3. /\ Good(run, id, t.outcome) /\ t.outcome = "pending" /\ Good(run, id, t.accepted)
      /\ t.state # "Unused"
  BY <1>2 DEF ObjectInv
<1>4. Len(s) = 1 /\ s[1] = a
  BY <1>1, Queues
<1> HIDE DEF t, a, s
<1>5. ObjectInv(run, left, id, t, s)
  BY <1>1, <1>3, <1>4, Queues DEF ObjectInv
<1> QED BY <1>5 DEF t, s, a

\* An object is aborted, for a reason that the run agrees with.
LEMMA AbortObjectInv ==
  ASSUME NEW run \in Run, NEW left, NEW id \in ID, NEW u \in UpdateObject, ObjectInv(run, left, id, u, <<>>),
         NEW reason \in Reasons, Good(run, id, FailureError(reason, u.state))
  PROVE  ObjectInv(run, left, id, Aborted(u, reason), AbortSets(u, reason))
<1> DEFINE f == FailureError(reason, u.state)
<1>1. u.state \in States
  BY DEF UpdateObject
<1>2. CASE f = "none"
  BY <1>2 DEF Aborted, AbortSets
<1>3. CASE f # "none"
  <2>1. f \in Value /\ f \notin {"accepted", "pending"}
    BY <1>1, <1>3, FailureErrorType DEF Value, Errors
  <2>2. u.state \in Live
    BY <1>1, <1>3 DEF FailureError, States, Live
  <2>3. Aborted(u, reason) = [u EXCEPT !.state = "Aborted"]
    BY <1>3 DEF Aborted
  <2>4. AbortSets(u, reason) \in {<<OutcomeSet(f)>>, <<OutcomeSet(f), AcceptedSet(f)>>}
    BY <1>3, Zenon DEF AbortSets, OutcomeSet, AcceptedSet
  <2>5. "Aborted" \in States /\ "Aborted" \notin Live \cup {"Unused"}
    BY DEF States, Live
  <2> HIDE DEF f
  <2>6. ObjectInv(run, left, id, [u EXCEPT !.state = "Aborted"], AbortSets(u, reason))
    BY <2>1, <2>2, <2>4, <2>5, SettleObjectInv DEF f
  <2> QED BY <2>3, <2>6
<1> QED BY <1>2, <1>3

\* All objects, later.
LEMMA LaterObjects ==
  ASSUME TypeOK, FutureInv, NEW store \in Run, Grows(db, store), NEW left, open \subseteq left,
         NEW id \in ID, NEW n \in Object
  PROVE  /\ upd[id][n] \in UpdateObject /\ sets[id][n] \in Seq(SetRecord)
         /\ ObjectInv(store, left, id, upd[id][n], sets[id][n])
<1>1. upd[id][n] \in UpdateObject /\ sets[id][n] \in Seq(SetRecord) /\ db \in Run
  BY DEF TypeOK
<1>2. ObjectInv(db, open, id, upd[id][n], sets[id][n])
  BY DEF FutureInv
<1> QED BY <1>1, <1>2, ObjectGrows

\* The registry is aborted, for a reason that the run agrees with in every registered update.
LEMMA AbortAllInv ==
  ASSUME TypeOK, FutureInv, Settled, NEW store \in Run, Grows(db, store), NEW left, open \subseteq left,
         NEW reason \in Reasons,
         \A id \in ID : reg[id] # 0 => Good(store, id, FailureError(reason, Update(id).state)),
         NEW id \in ID, NEW n \in Object
  PROVE  ObjectInv(store, left, id, AbortAll(upd, reason)[id][n], AllAbortSets(upd, reason)[id][n])
<1>1. /\ upd[id][n] \in UpdateObject /\ sets[id][n] = <<>>
      /\ ObjectInv(store, left, id, upd[id][n], sets[id][n])
  BY LaterObjects DEF Settled
<1>2. CASE reg[id] = n
  <2>1. /\ AbortAll(upd, reason)[id][n] = Aborted(upd[id][n], reason)
        /\ AllAbortSets(upd, reason)[id][n] = AbortSets(upd[id][n], reason)
    BY <1>2 DEF AbortAll, AllAbortSets
  <2>2. Good(store, id, FailureError(reason, upd[id][n].state))
    BY <1>2 DEF Update, Object
  <2> QED BY <1>1, <2>1, <2>2, AbortObjectInv
<1>3. CASE reg[id] # n
  BY <1>1, <1>3 DEF AbortAll, AllAbortSets
<1> QED BY <1>2, <1>3

\* An abort that may be retried says nothing of the run.
LEMMA ClearedIsGood ==
  ASSUME NEW run, NEW id, NEW state \in States
  PROVE  /\ Good(run, id, FailureError("RegistryCleared", state))
         /\ Good(run, id, FailureError("WorkflowTaskFailed", state))
<1>1. /\ FailureError("RegistryCleared", state) \in {"none", "registryClearedErr"}
      /\ FailureError("WorkflowTaskFailed", state) \in {"none", "registryClearedErr", "workflowTaskFailErr"}
  BY DEF FailureError
<1> QED BY <1>1, Kinds DEF Good, ClosingErrors

LEMMA RegisteredState ==
  ASSUME TypeOK, NEW id \in ID, reg[id] # 0
  PROVE  reg[id] \in Object /\ Update(id) \in UpdateObject /\ Update(id).state \in States
  BY DEF TypeOK, Update, UpdateObject

LEMMA UnusedInv ==
  ASSUME NEW run \in Run, NEW left, NEW id \in ID
  PROVE  ObjectInv(run, left, id, Unused, <<>>)
  BY NewObjects, NewObjectInv DEF Unused

LEMMA ClearFutures ==
  ASSUME TypeOK, FutureInv, Settled, NEW store \in Run, Grows(db, store), ClearTo(store), open \subseteq open'
  PROVE  FutureInv'
<1> DEFINE u == AbortAll(upd, "RegistryCleared")
           s == AllAbortSets(upd, "RegistryCleared")
<1>1. \A id \in ID : reg[id] # 0 => Good(store, id, FailureError("RegistryCleared", Update(id).state))
  BY RegisteredState, ClearedIsGood
<1>2. "RegistryCleared" \in Reasons
  BY DEF Reasons
<1>3. ASSUME NEW id \in ID, NEW n \in Object
      PROVE  ObjectInv(db', open', id, upd'[id][n], sets'[id][n])
  <2>1. ObjectInv(store, open', id, u[id][n], s[id][n])
    BY <1>1, <1>2, AbortAllInv
  <2> HIDE DEF u, s
  <2>2. upd' = Remaining(u) /\ sets' = RemainingSets(s) /\ db' = store
    BY DEF ClearTo, u, s
  <2>3. CASE Waiting(id, n)
    BY <2>1, <2>2, <2>3 DEF Remaining, RemainingSets
  <2>4. CASE ~Waiting(id, n)
    <3>1. upd'[id][n] = Unused /\ sets'[id][n] = <<>>
      BY <2>2, <2>4 DEF Remaining, RemainingSets
    <3> QED BY <2>2, <3>1, UnusedInv
  <2> QED BY <2>3, <2>4
<1> QED BY <1>3 DEF FutureInv

\* Nothing but the object of some updates moves, from one state without an outcome to another.
LEMMA LiveFutures ==
  ASSUME TypeOK, FutureInv, Grows(db, db'), db' \in Run, open \subseteq open', UNCHANGED sets,
         \A id \in ID : \A n \in Object :
            \/ upd'[id][n] = upd[id][n]
            \/ /\ upd[id][n].state \in Live /\ upd'[id][n].state \in Live
               /\ upd'[id][n].accepted = upd[id][n].accepted /\ upd'[id][n].outcome = upd[id][n].outcome
  PROVE  FutureInv'
<1>1. ASSUME NEW id \in ID, NEW n \in Object
      PROVE  ObjectInv(db', open', id, upd'[id][n], sets'[id][n])
  <2>1. ObjectInv(db', open', id, upd[id][n], sets'[id][n])
    BY LaterObjects
  <2>2. CASE upd'[id][n] = upd[id][n]
    BY <2>1, <2>2
  <2>3. CASE upd'[id][n] # upd[id][n]
    <3>1. /\ upd[id][n].state \in Live /\ upd'[id][n].state \in Live
          /\ upd'[id][n].accepted = upd[id][n].accepted /\ upd'[id][n].outcome = upd[id][n].outcome
      BY <2>3
    <3> QED BY <2>1, <3>1, LiveObjectInv
  <2> QED BY <2>2, <2>3
<1> QED BY <1>1 DEF FutureInv

\* Nothing happens to objects.
LEMMA SameFutures ==
  ASSUME TypeOK, FutureInv, Grows(db, db'), db' \in Run, open \subseteq open', UNCHANGED <<upd, sets>>
  PROVE  FutureInv'
  BY LiveFutures

\* registry.Send
LEMMA SentFutures ==
  ASSUME TypeOK, FutureInv, Grows(db, db'), db' \in Run, open \subseteq open', UNCHANGED sets, upd' = Sent(upd)
  PROVE  FutureInv'
<1>1. ASSUME NEW id \in ID, NEW n \in Object
      PROVE  \/ upd'[id][n] = upd[id][n]
             \/ /\ upd[id][n].state \in Live /\ upd'[id][n].state \in Live
                /\ upd'[id][n].accepted = upd[id][n].accepted /\ upd'[id][n].outcome = upd[id][n].outcome
  <2>1. upd[id][n] \in UpdateObject
    BY DEF TypeOK
  <2> QED BY <2>1 DEF Sent, Live, UpdateObject
<1> QED BY <1>1, LiveFutures

\* The head of the queue of an object is set.
LEMMA SetObjectInv ==
  ASSUME NEW run \in Run, NEW left, NEW id \in ID, NEW u \in UpdateObject, NEW s \in Seq(SetRecord), s # <<>>,
         ObjectInv(run, left, id, u, s), NEW v \in UpdateObject, v.state = u.state,
         IsOutcome(Head(s)) => v.outcome = Head(s).value /\ v.accepted = u.accepted,
         ~IsOutcome(Head(s)) => v.accepted = Head(s).value /\ v.outcome = u.outcome
  PROVE  ObjectInv(run, left, id, v, Tail(s))
<1> DEFINE t == Tail(s)
<1>1. /\ Head(s) = s[1] /\ t \in Seq(SetRecord) /\ Len(s) \in Nat \ {0} /\ Len(t) = Len(s) - 1
      /\ \A i \in 1..Len(t) : t[i] = s[i + 1] /\ i + 1 \in 1..Len(s)
  <2>1. t \in Seq(SetRecord) /\ Len(t) = Len(s) - 1 /\ \A i \in 1..Len(t) : t[i] = s[i + 1]
    BY HeadTailProperties
  <2>2. Len(s) \in Nat \ {0}
    BY EmptySeq
  <2> QED BY <2>1, <2>2
<1> HIDE DEF t
<1>2. 1 \in 1..Len(s)
  BY <1>1
<1>3. /\ Good(run, id, s[1].value)
      /\ IsOutcome(s[1]) => s[1].value \notin {"accepted", "pending"}
      /\ ~IsOutcome(s[1]) /\ s[1].value = "accepted" => id \in left \/ u.outcome \in Final
  BY <1>2 DEF ObjectInv
<1>4. u.state # "Unused"
  BY DEF ObjectInv
<1>5. CASE IsOutcome(s[1])
  <2>1. u.outcome = "pending" /\ u.state \notin Live /\ v.outcome = s[1].value /\ v.accepted = u.accepted
    BY <1>1, <1>2, <1>5 DEF ObjectInv
  <2>2. ASSUME NEW i \in 1..Len(t)
        PROVE  /\ ~IsOutcome(t[i]) /\ Good(run, id, t[i].value)
               /\ t[i].value = "accepted" => id \in left \/ v.outcome \in Final
    <3>1. t[i] = s[i + 1] /\ i + 1 \in 1..Len(s) /\ i + 1 # 1
      BY <1>1
    <3>2. ~IsOutcome(t[i]) /\ Good(run, id, t[i].value)
      BY <1>2, <1>5, <3>1 DEF ObjectInv
    <3>3. ASSUME t[i].value = "accepted", id \notin left PROVE v.outcome \in Final
      <4>1. PICK j \in 1..((i + 1) - 1) : IsOutcome(s[j]) /\ s[j].value \in Final
        BY <2>1, <3>1, <3>2, <3>3, Kinds DEF ObjectInv, Final
      <4>2. j \in 1..Len(s)
        BY <1>1, <4>1
      <4>3. j = 1
        BY <1>2, <1>5, <4>1, <4>2 DEF ObjectInv
      <4> QED BY <2>1, <4>1, <4>3
    <3> QED BY <3>2, <3>3
  <2>3. v.outcome # "accepted" /\ Good(run, id, v.outcome) /\ Good(run, id, v.accepted)
    BY <1>3, <1>5, <2>1 DEF ObjectInv
  <2>4. v.accepted = "accepted" => id \in left \/ v.outcome \in Final
    BY <2>1, Kinds DEF ObjectInv, Final
  <2>5. v.state \notin Live \cup {"Unused"}
    BY <1>4, <2>1
  <2> QED BY <2>2, <2>3, <2>4, <2>5 DEF ObjectInv, t
<1>6. CASE ~IsOutcome(s[1])
  <2>1. v.accepted = s[1].value /\ v.outcome = u.outcome
    BY <1>1, <1>6
  <2>2. ASSUME NEW i \in 1..Len(t)
        PROVE  /\ Good(run, id, t[i].value)
               /\ IsOutcome(t[i]) => t[i].value \notin {"accepted", "pending"}
               /\ \A j \in 1..Len(t) : IsOutcome(t[i]) /\ IsOutcome(t[j]) => i = j
               /\ ~IsOutcome(t[i]) /\ t[i].value = "accepted" =>
                     \/ id \in left \/ v.outcome \in Final
                     \/ \E j \in 1..(i - 1) : IsOutcome(t[j]) /\ t[j].value \in Final
               /\ v.outcome # "pending" \/ v.state \in Live => ~IsOutcome(t[i])
    <3>1. t[i] = s[i + 1] /\ i + 1 \in 1..Len(s)
      BY <1>1
    <3>2. /\ Good(run, id, t[i].value)
          /\ IsOutcome(t[i]) => t[i].value \notin {"accepted", "pending"}
          /\ v.outcome # "pending" \/ v.state \in Live => ~IsOutcome(t[i])
      BY <2>1, <3>1 DEF ObjectInv
    <3>3. ASSUME NEW j \in 1..Len(t), IsOutcome(t[i]), IsOutcome(t[j]) PROVE i = j
      <4>1. t[j] = s[j + 1] /\ j + 1 \in 1..Len(s)
        BY <1>1
      <4>2. i + 1 = j + 1
        BY <3>1, <3>3, <4>1 DEF ObjectInv
      <4> QED BY <4>2
    <3>4. ASSUME ~IsOutcome(t[i]), t[i].value = "accepted", ~(id \in left \/ v.outcome \in Final)
          PROVE  \E j \in 1..(i - 1) : IsOutcome(t[j]) /\ t[j].value \in Final
      <4>1. PICK j \in 1..((i + 1) - 1) : IsOutcome(s[j]) /\ s[j].value \in Final
        BY <2>1, <3>1, <3>4 DEF ObjectInv
      <4>2. j # 1
        BY <1>6, <4>1
      <4>3. j - 1 \in 1..(i - 1) /\ j - 1 \in 1..Len(t) /\ t[j - 1] = s[j]
        BY <1>1, <4>1, <4>2
      <4> QED BY <4>1, <4>3
    <3> QED BY <3>2, <3>3, <3>4
  <2>3. /\ Good(run, id, v.outcome) /\ v.outcome # "accepted" /\ Good(run, id, v.accepted)
        /\ v.accepted = "accepted" => id \in left \/ v.outcome \in Final
        /\ v.state \in Live \cup {"Unused"} => v.outcome = "pending"
    BY <1>3, <1>6, <2>1 DEF ObjectInv
  <2> QED BY <1>4, <2>2, <2>3 DEF ObjectInv, t
<1> QED BY <1>5, <1>6

LEMMA SetFutureInv ==
  ASSUME TypeOK, FutureInv, NEW id \in ID, NEW n \in Object, SetFuture(id, n), upd' \in Objects
  PROVE  FutureInv'
<1> DEFINE u == upd[id][n]
           s == sets[id][n]
<1>1. u \in UpdateObject /\ s \in Seq(SetRecord) /\ s # <<>> /\ ObjectInv(db, open, id, u, s) /\ db \in Run
  BY DEF TypeOK, SetFuture, FutureInv
<1>2. upd'[id][n] \in UpdateObject
  BY DEF Objects
<1>3. upd'[id][n] = IF Head(s).future = "outcome" THEN [u EXCEPT !.outcome = Head(s).value]
                                                   ELSE [u EXCEPT !.accepted = Head(s).value]
  BY DEF SetFuture, TypeOK
<1>4. sets'[id][n] = Tail(s) /\ UNCHANGED <<db, open>>
  BY DEF SetFuture, TypeOK
<1>5. \A i \in ID : \A m \in Object : (i # id \/ m # n) => upd'[i][m] = upd[i][m] /\ sets'[i][m] = sets[i][m]
  BY DEF SetFuture, TypeOK
<1>6. ObjectInv(db', open', id, upd'[id][n], sets'[id][n])
  <2>1. /\ upd'[id][n].state = u.state
        /\ IsOutcome(Head(s)) => upd'[id][n].outcome = Head(s).value /\ upd'[id][n].accepted = u.accepted
        /\ ~IsOutcome(Head(s)) => upd'[id][n].accepted = Head(s).value /\ upd'[id][n].outcome = u.outcome
    BY <1>1, <1>3 DEF UpdateObject, IsOutcome
  <2> HIDE DEF u, s
  <2> QED BY <1>1, <1>2, <1>4, <2>1, SetObjectInv
<1> QED BY <1>4, <1>5, <1>6 DEF FutureInv

-----------------------------------------------------------------------------
(* What several kinds of steps have in common                              *)

LifeInv == StoreInv /\ FutureInv /\ ToldInv /\ RollbackInv /\ CommitInv /\ RegisteredInv

LEMMA ToldGrows ==
  ASSUME TypeOK, ToldInv, db' \in Run, Grows(db, db'), open \subseteq open', UNCHANGED told
  PROVE  ToldInv'
<1>1. db \in Run
  BY DEF TypeOK
<1>2. \A id \in ID : \A answer : Good(db, id, answer) => Good(db', id, answer)
  BY <1>1, GoodGrows
<1> QED BY <1>2 DEF ToldInv

\* Without effects, no registered update is in a provisional state.
LEMMA SettledStates ==
  ASSUME TypeOK, RegisteredInv, pc \in {"idle", "apply"}, effects = <<>>, NEW id \in ID, reg[id] # 0
  PROVE  /\ Update(id).state \in {"Admitted", "Sent", "Accepted", "Aborted", "Completed", "Unused"}
         /\ Update(id).state \in {"Admitted", "Sent"} => ms.info[id] \in Pending
         /\ Update(id).state = "Accepted" => ms.info[id] = "accepted"
<1>1. StateInv(id, Update(id).state) /\ Update(id).state \in States
  BY RegisteredState DEF RegisteredInv
<1>2. Len(effects) = 0
  BY EmptySeq
<1>3. \A kinds : ~Remains(id, kinds)
  BY <1>2 DEF Remains
<1> QED BY <1>1, <1>3 DEF StateInv, States

\* When no effect is buffered, only the states of registered updates matter.
LEMMA NoEffectsInv ==
  ASSUME effects' = <<>>,
         \A id \in ID : reg'[id] # 0 =>
            /\ Update(id)'.state \in {"Admitted", "Sent", "Accepted", "Aborted", "Completed", "Unused"}
            /\ Update(id)'.state \in {"Admitted", "Sent"} => ms'.info[id] \in Pending
            /\ Update(id)'.state = "Accepted" => ms'.info[id] = "accepted"
  PROVE  RollbackInv' /\ CommitInv' /\ RegisteredInv'
<1>1. Len(effects') = 0
  BY EmptySeq
<1>2. RollbackInv' /\ CommitInv'
  BY <1>1 DEF RollbackInv, CommitInv
<1>3. \A id \in ID : reg'[id] # 0 => StateInv(id, Update(id).state)'
  BY DEF StateInv
<1> QED BY <1>2, <1>3 DEF RegisteredInv

LEMMA EffectsType ==
  ASSUME TypeOK
  PROVE  effects \in Seq(EffectRecord) /\ \A i \in 1..Len(effects) : effects[i] \in EffectRecord
<1>1. effects \in Seq(EffectRecord)
  BY DEF TypeOK
<1> QED BY <1>1

\* A step that works on no registered update, and on no variable of a handler but the queues of
\* values: objects that are not registered may go.
LEMMA QuietInv ==
  ASSUME TypeOK, RollbackInv, CommitInv, RegisteredInv, UNCHANGED <<ms, pc, effects, reg>>,
         \A id \in ID : \A n \in Object :
            \/ upd'[id][n].state = upd[id][n].state
            \/ reg[id] # n /\ upd'[id][n].state = "Unused"
  PROVE  RollbackInv' /\ CommitInv' /\ RegisteredInv'
<1>1. RollbackInv'
  BY DEF RollbackInv
<1>2. ASSUME NEW i \in 1..Len(effects), Committable(effects[i]), pc \in {"messages", "persist", "apply"}
      PROVE  Committable(effects[i])'
  <2>1. effects[i].id \in ID /\ effects[i].n \in Object
    BY EffectsType DEF EffectRecord
  <2> QED BY <1>2, <2>1 DEF Committable
<1>3. CommitInv'
  BY <1>2 DEF CommitInv
<1>4. ASSUME NEW id \in ID, reg[id] # 0, StateInv(id, Update(id).state)
      PROVE  StateInv(id, Update(id).state)'
  <2>1. Update(id)'.state = Update(id).state
    BY <1>4, RegisteredState DEF Update
  <2> QED BY <1>4, <2>1 DEF StateInv, Remains
<1>5. RegisteredInv'
  BY <1>4 DEF RegisteredInv
<1> QED BY <1>1, <1>3, <1>5

\* The context is cleared, by a handler that returns or by a write that failed.
LEMMA ClearInv ==
  ASSUME Inv, Settled, NEW store \in Run, Grows(db, store), ClearTo(store), open' = Opened(store),
         UNCHANGED <<effects, told>>, (pc' = "idle" /\ effects = <<>>) \/ pc' = "cancel"
  PROVE  LifeInv'
<1>1. TypeOK /\ StoreInv /\ FutureInv /\ ToldInv
  BY DEF Inv, TypeInv
<1>2. db' = store /\ ms' = store /\ reg' = [id \in ID |-> 0]
  BY DEF ClearTo
<1>3. /\ open \subseteq open'
      /\ \A id \in ID : db'.running /\ db'.info[id] = "accepted" => id \in open'
      /\ \A id \in open' : db'.info[id] \in {"accepted"} \cup Outcome
  BY <1>1, <1>2, WriteStore
<1>4. StoreInv'
  BY <1>2, <1>3 DEF StoreInv, SameUpdates
<1>5. FutureInv'
  BY <1>1, <1>3, ClearFutures
<1>6. ToldInv'
  BY <1>1, <1>2, <1>3, ToldGrows
<1>7. RollbackInv'
  BY DEF Inv, RollbackInv
<1>8. CommitInv'
  <2>1. pc' = "idle" => Len(effects') = 0
    BY EmptySeq
  <2> QED BY <2>1 DEF CommitInv
<1>9. RegisteredInv'
  BY <1>2 DEF RegisteredInv
<1> QED BY <1>4, <1>5, <1>6, <1>7, <1>8, <1>9 DEF LifeInv

\* Nothing new is durable when what is in the store is written again.
LEMMA OpenedSame ==
  ASSUME StoreInv
  PROVE  Opened(db) = open
  BY DEF StoreInv, Opened

LEMMA ClearSameInv ==
  ASSUME Inv, Settled, ClearTo(db), UNCHANGED <<effects, told, open>>, pc' = "idle", effects = <<>>
  PROVE  LifeInv'
<1>1. db \in Run /\ StoreInv
  BY DEF Inv, TypeInv, TypeOK
<1>2. Grows(db, db) /\ open' = Opened(db)
  BY <1>1, OpenedSame DEF Grows, SameUpdates
<1> QED BY <1>1, <1>2, ClearInv

LEMMA WriteFailedInv ==
  ASSUME Inv, Settled, NEW m \in Run, Grows(db, m), WriteFailed(m),
         UNCHANGED <<effects, told>>, (pc' = "idle" /\ effects = <<>>) \/ pc' = "cancel"
  PROVE  LifeInv'
<1>1. PICK store \in {db, m} : ClearTo(store) /\ open' = Opened(store)
  BY DEF WriteFailed
<1>2. store \in Run /\ Grows(db, store)
  BY <1>1 DEF Inv, TypeInv, TypeOK, Grows, SameUpdates
<1> QED BY <1>1, <1>2, ClearInv

-----------------------------------------------------------------------------
(* Clients                                                                 *)

\* A caller comes back with something that holds in the store.
LEMMA WaitAnswers ==
  ASSUME TypeOK, FutureInv, NEW c \in Client,
         WaitLifecycleStage(c) \/ OutcomeReady(c) \/ AcceptedReady(c) \/ WaitTimedOut(c)
  PROVE  /\ call[c].pc # "idle"
         /\ \/ \E where \in {"outcome", "accepted"} : Goto(c, where)
            \/ \E answer : /\ Return(c, answer)
                           /\ answer # "admitted" =>
                                 /\ Good(db, call[c].id, answer)
                                 /\ answer = "accepted" => call[c].id \in open
<1> DEFINE id == call[c].id
           u == Awaited(c)
<1>1. call[c].pc # "idle"
  BY WaitSteps
<1>2. /\ Good(db, id, u.outcome) /\ u.outcome # "accepted" /\ Good(db, id, u.accepted)
      /\ u.accepted = "accepted" => id \in open \/ u.outcome \in Final
  BY <1>1, AwaitedType DEF FutureInv, ObjectInv, Awaited
<1>3. CASE WaitLifecycleStage(c)
  BY <1>1, <1>3 DEF WaitLifecycleStage
<1>4. CASE OutcomeReady(c)
  BY <1>1, <1>2, <1>4 DEF OutcomeReady
<1>5. CASE AcceptedReady(c)
  <2>1. Final \cap (Errors \cup {"pending"}) = {}
    BY Kinds DEF Final, Errors
  <2>2. CASE u.accepted = "accepted" /\ u.outcome \notin Errors \cup {"pending"}
    <3>1. Return(c, u.outcome)
      BY <1>5, <2>2 DEF AcceptedReady
    <3> QED BY <1>1, <1>2, <3>1
  <2>3. CASE ~(u.accepted = "accepted" /\ u.outcome \notin Errors \cup {"pending"})
    <3>1. Return(c, u.accepted)
      BY <1>5, <2>3 DEF AcceptedReady
    <3>2. u.accepted = "accepted" => id \in open
      BY <1>2, <2>1, <2>3
    <3> QED BY <1>1, <1>2, <3>1, <3>2
  <2> QED BY <2>2, <2>3
<1>6. CASE WaitTimedOut(c)
  BY <1>1, <1>6 DEF WaitTimedOut
<1> QED BY <1>3, <1>4, <1>5, <1>6

LEMMA ReturnInv ==
  ASSUME Inv, NEW c \in Client, call[c].pc # "idle", NEW answer, Return(c, answer),
         answer # "admitted" => Good(db, call[c].id, answer) /\ (answer = "accepted" => call[c].id \in open)
  PROVE  LifeInv'
<1> DEFINE id == call[c].id
           n == call[c].n
<1>1. /\ TypeOK /\ StoreInv /\ FutureInv /\ ToldInv /\ RollbackInv /\ CommitInv /\ RegisteredInv
      /\ db \in Run /\ id \in ID /\ n \in Object /\ upd \in Objects /\ sets \in SetQueues
  BY AwaitedType DEF Inv, TypeInv, TypeOK, Objects, SetQueues
<1>2. UNCHANGED <<db, ms, loaded, reg, pc, task, effects, open>>
  BY DEF Return
<1>3. \/ UNCHANGED <<upd, sets>>
      \/ reg[id] # n /\ upd' = [upd EXCEPT ![id][n] = Unused] /\ sets' = [sets EXCEPT ![id][n] = <<>>]
  BY DEF Return
<1> HIDE DEF id, n
<1>4. ASSUME NEW i \in ID, NEW m \in Object
      PROVE  \/ upd'[i][m] = upd[i][m] /\ sets'[i][m] = sets[i][m]
             \/ reg[i] # m /\ upd'[i][m] = Unused /\ sets'[i][m] = <<>>
  <2>1. CASE UNCHANGED <<upd, sets>>
    BY <2>1
  <2>2. CASE /\ reg[id] # n
             /\ upd' = [upd EXCEPT ![id][n] = Unused] /\ sets' = [sets EXCEPT ![id][n] = <<>>]
    <3>1. CASE i = id /\ m = n
      <4>1. upd'[i][m] = Unused
        BY <1>1, <2>2, <3>1 DEF Objects
      <4>2. sets'[i][m] = <<>>
        BY <1>1, <2>2, <3>1 DEF SetQueues
      <4> QED BY <2>2, <3>1, <4>1, <4>2
    <3>2. CASE i # id \/ m # n
      <4>1. upd'[i][m] = upd[i][m]
        BY <1>1, <2>2, <3>2 DEF Objects
      <4>2. sets'[i][m] = sets[i][m]
        BY <1>1, <2>2, <3>2 DEF SetQueues
      <4> QED BY <4>1, <4>2
    <3> QED BY <3>1, <3>2
  <2> QED BY <1>3, <2>1, <2>2
<1>5. StoreInv'
  <2>1. Settled => Settled'
    BY <1>4 DEF Settled
  <2> QED BY <1>1, <1>2, <2>1 DEF StoreInv, SameUpdates
<1>6. FutureInv'
  <2>1. ASSUME NEW i \in ID, NEW m \in Object
        PROVE  ObjectInv(db', open', i, upd'[i][m], sets'[i][m])
    <3>1. ObjectInv(db, open, i, upd[i][m], sets[i][m]) /\ ObjectInv(db, open, i, Unused, <<>>)
      BY <1>1, UnusedInv DEF FutureInv
    <3>2. \/ upd'[i][m] = upd[i][m] /\ sets'[i][m] = sets[i][m]
          \/ upd'[i][m] = Unused /\ sets'[i][m] = <<>>
      BY <1>4
    <3> QED BY <1>2, <3>1, <3>2
  <2> QED BY <2>1 DEF FutureInv
<1>7. ToldInv'
  <2>1. told' = told \/ (/\ told' = [told EXCEPT ![id] = @ \cup {answer}]
                         /\ answer \notin {"registryClearedErr", "workflowTaskFailErr", "admitted"})
    BY DEF Return, id
  <2>2. told \in [ID -> SUBSET (Value \ {"pending"})]
    BY <1>1 DEF TypeOK
  <2>3. answer # "admitted" => Good(db, id, answer) /\ (answer = "accepted" => id \in open)
    BY DEF id
  <2>4. CASE told' = told
    BY <1>1, <1>2, <2>4 DEF ToldInv
  <2>5. CASE told' # told
    BY <1>1, <1>2, <2>1, <2>2, <2>3, <2>5 DEF ToldInv
  <2> QED BY <2>4, <2>5
<1>8. RollbackInv' /\ CommitInv' /\ RegisteredInv'
  <2>1. \A i \in ID : \A m \in Object :
           \/ upd'[i][m].state = upd[i][m].state
           \/ reg[i] # m /\ upd'[i][m].state = "Unused"
    BY <1>4 DEF Unused
  <2> QED BY <1>1, <1>2, <2>1, QuietInv
<1> QED BY <1>5, <1>6, <1>7, <1>8 DEF LifeInv

LEMMA WaitInv ==
  ASSUME Inv, NEW c \in Client,
         WaitLifecycleStage(c) \/ OutcomeReady(c) \/ AcceptedReady(c) \/ WaitTimedOut(c)
  PROVE  LifeInv'
<1>1. TypeOK /\ FutureInv
  BY DEF Inv, TypeInv
<1>2. CASE \E where \in {"outcome", "accepted"} : Goto(c, where)
  <2>1. UNCHANGED <<db, ms, loaded, reg, upd, pc, task, effects, sets, told, open>>
    BY <1>2 DEF Goto
  <2>2. StoreInv' /\ FutureInv' /\ ToldInv'
    BY <2>1 DEF Inv, StoreInv, FutureInv, ToldInv, Settled, SameUpdates
  <2>3. RollbackInv' /\ CommitInv' /\ RegisteredInv'
    BY <1>1, <2>1, QuietInv DEF Inv
  <2> QED BY <2>2, <2>3 DEF LifeInv
<1> QED BY <1>1, <1>2, WaitAnswers, ReturnInv

\* A new call, on a registered update, on one that is completed, or on one that is new.
LEMMA RequestInv ==
  ASSUME Inv, NEW c \in Client, NEW id \in ID, NEW stage \in Stages,
         UpdateWorkflowExecution(c, id, stage) \/ PollWorkflowExecutionUpdate(c, id, stage)
  PROVE  LifeInv'
<1>1. /\ TypeOK /\ StoreInv /\ FutureInv /\ ToldInv /\ RollbackInv /\ CommitInv /\ RegisteredInv
      /\ db \in Run /\ ms \in Run
  BY DEF Inv, TypeInv, TypeOK
<1>2. pc = "idle" /\ effects = <<>> /\ Settled /\ SameUpdates(db, ms)
  BY <1>1 DEF UpdateWorkflowExecution, PollWorkflowExecutionUpdate, Idle, StoreInv
<1>3. CASE UNCHANGED <<db, ms, loaded, reg, upd, pc, task, effects, sets, told, open>>
  <2>1. StoreInv' /\ FutureInv' /\ ToldInv'
    BY <1>1, <1>3 DEF StoreInv, FutureInv, ToldInv, Settled, SameUpdates
  <2>2. RollbackInv' /\ CommitInv' /\ RegisteredInv'
    BY <1>1, <1>3, QuietInv
  <2> QED BY <2>1, <2>2 DEF LifeInv
<1>4. CASE ms.info[id] \in Outcome /\ AnswerFromStore(id)
  <2>1. UNCHANGED <<db, ms, loaded, reg, upd, pc, task, effects, sets, open>>
    BY <1>4 DEF AnswerFromStore
  <2>2. StoreInv' /\ FutureInv'
    BY <1>1, <2>1 DEF StoreInv, FutureInv, Settled, SameUpdates
  <2>3. ToldInv'
    <3> DEFINE a == ms.info[id]
    <3>1. a = db.info[id] /\ a \in Outcome
      BY <1>2, <1>4 DEF SameUpdates
    <3>2. Good(db, id, a) /\ a \notin {"accepted", "registryClearedErr", "workflowTaskFailErr"}
      BY <3>1, Kinds DEF Good, ClosingErrors
    <3>3. told' = [told EXCEPT ![id] = @ \cup {a}]
      BY <1>4 DEF AnswerFromStore
    <3> HIDE DEF a
    <3> QED BY <1>1, <2>1, <3>2, <3>3 DEF ToldInv, TypeOK
  <2>4. RollbackInv' /\ CommitInv' /\ RegisteredInv'
    BY <1>1, <2>1, QuietInv
  <2> QED BY <2>2, <2>3, <2>4 DEF LifeInv
<1>5. CASE ClearTo(db) /\ UNCHANGED <<handler, call, seen, history>>
  BY <1>2, <1>5, ClearSameInv
<1>6. CASE /\ reg[id] = 0 /\ ms.info[id] = "none"
           /\ reg' = [reg EXCEPT ![id] = Fresh(id)]
           /\ upd' = [upd EXCEPT ![id][Fresh(id)] = NewAdmitted]
           /\ ms' = IF ms.wft = "none" THEN [ms EXCEPT !.wft = "scheduled", !.speculative = TRUE] ELSE ms
           /\ UNCHANGED <<db, loaded, handler, sets, history>> /\ loaded
  <2> DEFINE f == Fresh(id)
  <2>1. f \in Object
    BY <1>1, <1>6, FreshIsFree
  <2>2. ms'.info = ms.info /\ ms'.running = ms.running
    BY <1>1, <1>6 DEF Run
  <2>3. StoreInv'
    BY <1>1, <1>2, <1>6, <2>2 DEF StoreInv, SameUpdates
  <2>4. \A i \in ID : \A m \in Object :
           IF i = id /\ m = f THEN upd'[i][m] = NewAdmitted ELSE upd'[i][m] = upd[i][m]
    BY <1>1, <1>6, <2>1 DEF TypeOK
  <2>5. FutureInv'
    <3>1. ASSUME NEW i \in ID, NEW m \in Object
          PROVE  ObjectInv(db', open', i, upd'[i][m], sets'[i][m])
      <4>1. ObjectInv(db, open, i, upd[i][m], sets[i][m]) /\ sets[i][m] = <<>>
        BY <1>1, <1>2 DEF FutureInv, Settled
      <4>2. ObjectInv(db, open, i, NewAdmitted, <<>>)
        BY <1>1, NewObjects, NewObjectInv DEF NewAdmitted, Unused
      <4>3. UNCHANGED <<db, open, sets>>
        BY <1>6
      <4>4. upd'[i][m] = NewAdmitted \/ upd'[i][m] = upd[i][m]
        BY <2>4
      <4> QED BY <4>1, <4>2, <4>3, <4>4
    <3> QED BY <3>1 DEF FutureInv
  <2>6. ToldInv'
    BY <1>1, <1>6 DEF ToldInv
  <2>7. RollbackInv' /\ CommitInv' /\ RegisteredInv'
    <3>1. ASSUME NEW i \in ID, reg'[i] # 0, i # id
          PROVE  reg[i] # 0 /\ Update(i)' = Update(i)
      <4>1. reg'[i] = reg[i] /\ reg[i] \in Object
        BY <1>1, <1>6, <3>1 DEF TypeOK
      <4> QED BY <2>4, <3>1, <4>1 DEF Update
    <3>2. Update(id)' = NewAdmitted
      BY <1>1, <1>6, <2>1, <2>4 DEF Update, TypeOK
    <3>3. NewAdmitted.state = "Admitted" /\ ms'.info[id] \in Pending
      BY <1>6, <2>2 DEF NewAdmitted, Unused, Pending
    <3>4. effects' = <<>> /\ pc' = "idle"
      BY <1>2, <1>6
    <3> QED BY <1>1, <1>2, <2>2, <3>1, <3>2, <3>3, <3>4, SettledStates, NoEffectsInv
  <2> QED BY <2>3, <2>5, <2>6, <2>7 DEF LifeInv
<1> QED
  BY <1>3, <1>4, <1>5, <1>6 DEF UpdateWorkflowExecution, PollWorkflowExecutionUpdate, Enter

-----------------------------------------------------------------------------
(* The context, workflow tasks and the closing of the run                  *)

LEMMA SetFutureStep ==
  ASSUME Inv, TypeOK', NEW id \in ID, NEW n \in Object, SetFuture(id, n)
  PROVE  LifeInv'
<1>1. /\ TypeOK /\ StoreInv /\ FutureInv /\ ToldInv /\ RollbackInv /\ CommitInv /\ RegisteredInv
      /\ upd' \in Objects /\ sets[id][n] # <<>>
  BY DEF Inv, TypeInv, TypeOK, Objects, SetFuture
<1>2. UNCHANGED <<db, ms, loaded, reg, pc, task, effects, told, open>>
  BY DEF SetFuture
<1>3. StoreInv'
  <2>1. ~Settled
    BY <1>1 DEF Settled
  <2> QED BY <1>1, <1>2, <2>1 DEF StoreInv, SameUpdates
<1>4. FutureInv'
  BY <1>1, SetFutureInv
<1>5. ToldInv'
  BY <1>1, <1>2 DEF ToldInv
<1>6. \A i \in ID : \A m \in Object : upd'[i][m].state = upd[i][m].state
  <2>1. ASSUME NEW i \in ID, NEW m \in Object PROVE upd'[i][m].state = upd[i][m].state
    <3>1. upd[id][n] \in UpdateObject /\ upd \in Objects
      BY <1>1 DEF TypeOK, Objects
    <3>2. upd'[i][m] \in {upd[i][m], [upd[i][m] EXCEPT !.outcome = Head(sets[i][m]).value],
                                     [upd[i][m] EXCEPT !.accepted = Head(sets[i][m]).value]}
      BY <3>1 DEF SetFuture, Objects
    <3>3. upd[i][m] \in UpdateObject
      BY <3>1 DEF Objects
    <3> QED BY <3>2, <3>3 DEF UpdateObject
  <2> QED BY <2>1
<1>7. RollbackInv' /\ CommitInv' /\ RegisteredInv'
  BY <1>1, <1>2, <1>6, QuietInv
<1> QED BY <1>3, <1>4, <1>5, <1>7 DEF LifeInv

\* The registry is built again from what is durable.
LEMMA LoadInv ==
  ASSUME Inv, LoadContext
  PROVE  LifeInv'
<1>1. /\ TypeOK /\ StoreInv /\ FutureInv /\ ToldInv
      /\ db \in Run /\ ms = db /\ effects = <<>> /\ Settled /\ pc = "idle"
      /\ \A id \in ID : reg[id] = 0
  BY DEF Inv, TypeInv, TypeOK, Unloaded, StoreInv, LoadContext, Idle
<1>2. UNCHANGED <<db, ms, pc, task, effects, sets, told, open>> /\ loaded'
  BY DEF LoadContext
<1>3. StoreInv' /\ ToldInv'
  BY <1>1, <1>2 DEF StoreInv, SameUpdates, Settled, ToldInv
<1>4. ASSUME NEW id \in ID, reg'[id] # 0
      PROVE  /\ reg'[id] \in Object /\ db.info[id] \in {"admitted", "accepted"}
             /\ Update(id)' = IF db.info[id] = "admitted" THEN NewAdmitted ELSE NewAccepted(db.running)
  <2>1. reg'[id] = Fresh(id) /\ db.info[id] \in {"admitted", "accepted"}
    BY <1>4 DEF LoadContext
  <2>2. reg'[id] \in Object
    BY <1>1, <2>1, FreshIsFree
  <2> QED BY <2>1, <2>2 DEF LoadContext, Update
<1>5. ASSUME NEW id \in ID, NEW n \in Object
      PROVE  ObjectInv(db', open', id, upd'[id][n], sets'[id][n])
  <2>1. ObjectInv(db, open, id, upd[id][n], sets[id][n]) /\ sets[id][n] = <<>>
    BY <1>1 DEF FutureInv, Settled
  <2>2. CASE reg'[id] # n
    <3>1. upd'[id][n] = upd[id][n]
      BY <2>2 DEF LoadContext
    <3> QED BY <1>2, <2>1, <3>1
  <2>3. CASE reg'[id] = n
    <3>1. upd'[id][n] = IF db.info[id] = "admitted" THEN NewAdmitted ELSE NewAccepted(db.running)
      BY <2>3 DEF LoadContext
    <3>2. reg'[id] # 0
      BY <2>3 DEF Object
    <3>3. ObjectInv(db, open, id, NewAdmitted, <<>>)
      BY <1>1, NewObjects, NewObjectInv DEF NewAdmitted, Unused
    <3>4. db.info[id] = "accepted" => ObjectInv(db, open, id, NewAccepted(db.running), <<>>)
      BY <1>1, BuiltObjectInv
    <3> QED BY <1>2, <1>4, <2>1, <3>1, <3>2, <3>3, <3>4
  <2> QED BY <2>2, <2>3
<1>6. FutureInv'
  BY <1>5 DEF FutureInv
<1>7. RollbackInv' /\ CommitInv' /\ RegisteredInv'
  <2>1. ASSUME NEW id \in ID, reg'[id] # 0
        PROVE  /\ Update(id)'.state \in {"Admitted", "Accepted", "Aborted"}
               /\ Update(id)'.state = "Admitted" => ms'.info[id] \in Pending
               /\ Update(id)'.state = "Accepted" => ms'.info[id] = "accepted"
    <3>1. NewAdmitted.state = "Admitted" /\ NewAccepted(db.running).state \in {"Accepted", "Aborted"}
      BY DEF NewAdmitted, NewAccepted, Unused
    <3> QED BY <1>1, <1>2, <1>4, <2>1, <3>1 DEF Pending
  <2> QED BY <1>1, <1>2, <2>1, NoEffectsInv
<1> QED BY <1>3, <1>6, <1>7 DEF LifeInv

LEMMA CrashInv ==
  ASSUME Inv, Crash
  PROVE  LifeInv'
<1>1. /\ TypeOK /\ StoreInv /\ ToldInv /\ db \in Run
      /\ UNCHANGED <<db, open, told>> /\ ms' = db /\ effects' = <<>> /\ pc' = "idle"
      /\ reg' = [id \in ID |-> 0]
  BY DEF Inv, TypeInv, TypeOK, Crash
<1>2. StoreInv' /\ ToldInv'
  BY <1>1 DEF StoreInv, SameUpdates, ToldInv
<1>3. FutureInv'
  <2>1. \A id \in ID : \A n \in Object : upd'[id][n] = Unused /\ sets'[id][n] = <<>>
    BY DEF Crash
  <2> QED BY <1>1, <2>1, UnusedInv DEF FutureInv
<1>4. RollbackInv' /\ CommitInv' /\ RegisteredInv'
  BY <1>1, NoEffectsInv
<1> QED BY <1>2, <1>3, <1>4 DEF LifeInv

\* The workflow task changes, and updates may be sent with it.
LEMMA SendInv ==
  ASSUME Inv, pc \in {"idle", "apply"}, pc' = "idle", effects = <<>>, Settled, loaded,
         db' \in Run, SameUpdates(db, db'), SameUpdates(db', ms'), open' = open,
         upd' = Sent(upd) \/ upd' = upd, UNCHANGED <<loaded, reg, effects, sets, told>>
  PROVE  LifeInv'
<1>1. /\ TypeOK /\ StoreInv /\ FutureInv /\ ToldInv /\ RegisteredInv /\ SameUpdates(db, ms)
      /\ Grows(db, db')
  BY DEF Inv, TypeInv, StoreInv, Grows
<1>2. StoreInv'
  BY <1>1 DEF StoreInv, SameUpdates
<1>3. FutureInv' /\ ToldInv'
  BY <1>1, SentFutures, SameFutures, ToldGrows
<1>4. ASSUME NEW id \in ID, reg[id] # 0
      PROVE  \/ Update(id)'.state = Update(id).state
             \/ Update(id).state = "Admitted" /\ Update(id)'.state = "Sent"
  <2>1. Update(id) \in UpdateObject /\ reg[id] \in Object
    BY <1>1, <1>4, RegisteredState
  <2> QED BY <2>1 DEF Sent, Update, UpdateObject
<1>5. RollbackInv' /\ CommitInv' /\ RegisteredInv'
  <2>1. ms'.info = ms.info
    BY <1>1 DEF SameUpdates
  <2>2. ASSUME NEW id \in ID, reg'[id] # 0
        PROVE  /\ Update(id)'.state \in {"Admitted", "Sent", "Accepted", "Aborted", "Completed", "Unused"}
               /\ Update(id)'.state \in {"Admitted", "Sent"} => ms'.info[id] \in Pending
               /\ Update(id)'.state = "Accepted" => ms'.info[id] = "accepted"
    BY <1>1, <1>4, <2>1, <2>2, SettledStates
  <2> QED BY <1>1, <2>2, NoEffectsInv
<1> QED BY <1>2, <1>3, <1>5 DEF LifeInv

LEMMA ClosingIsGood ==
  ASSUME NEW run \in Run, ~run.running, NEW id \in ID, NEW reason \in {"WorkflowCompleted", "WorkflowContinuing"},
         NEW state \in {"Admitted", "Sent", "Accepted", "Aborted", "Completed", "Unused"},
         state \in {"Admitted", "Sent"} => run.info[id] \in Pending,
         state = "Accepted" => run.info[id] = "accepted"
  PROVE  Good(run, id, FailureError(reason, state))
<1>1. CASE state \in {"Admitted", "Sent"}
  <2>1. FailureError(reason, state) \in ClosingErrors
    BY <1>1 DEF FailureError, ClosingErrors
  <2> QED BY <1>1, <2>1, Kinds DEF Good, ClosingErrors
<1>2. CASE state = "Accepted"
  <2>1. FailureError(reason, state) = "failed"
    BY <1>2 DEF FailureError
  <2> QED BY <1>2, <2>1, Kinds DEF Good, ClosingErrors
<1>3. CASE state \in {"Aborted", "Completed", "Unused"}
  <2>1. FailureError(reason, state) = "none"
    BY <1>3 DEF FailureError
  <2> QED BY <2>1, Kinds DEF Good, ClosingErrors
<1> QED BY <1>1, <1>2, <1>3

\* The run is closed, and every registered update is aborted.
LEMMA CloseInv ==
  ASSUME Inv, pc \in {"idle", "apply"}, effects = <<>>, Settled, loaded, pc' = "idle",
         db' \in Run, Grows(db, db'), db'.info = db.info, ~db'.running, SameUpdates(db', ms'),
         NEW reason \in {"WorkflowCompleted", "WorkflowContinuing"},
         upd' = AbortAll(upd, reason), sets' = AllAbortSets(upd, reason),
         UNCHANGED <<open, told, loaded, reg, effects>>
  PROVE  LifeInv'
<1>1. /\ TypeOK /\ StoreInv /\ FutureInv /\ ToldInv /\ RegisteredInv /\ SameUpdates(db, ms) /\ reason \in Reasons
  BY DEF Inv, TypeInv, StoreInv, Reasons
<1>2. StoreInv'
  BY <1>1 DEF StoreInv, SameUpdates
<1>3. ASSUME NEW id \in ID, reg[id] # 0
      PROVE  /\ Good(db', id, FailureError(reason, Update(id).state))
             /\ \/ Update(id)'.state = "Aborted"
                \/ Update(id)'.state = Update(id).state /\ Update(id).state \in {"Aborted", "Completed", "Unused"}
  <2>1. /\ reg[id] \in Object /\ Update(id) \in UpdateObject
        /\ Update(id).state \in {"Admitted", "Sent", "Accepted", "Aborted", "Completed", "Unused"}
        /\ Update(id).state \in {"Admitted", "Sent"} => db'.info[id] \in Pending
        /\ Update(id).state = "Accepted" => db'.info[id] = "accepted"
    BY <1>1, <1>3, RegisteredState, SettledStates DEF SameUpdates
  <2>2. Good(db', id, FailureError(reason, Update(id).state))
    BY <2>1, ClosingIsGood
  <2>3. Update(id)' = Aborted(Update(id), reason)
    BY <2>1 DEF Update, AbortAll
  <2>4. Update(id).state \in {"Admitted", "Sent", "Accepted"} => FailureError(reason, Update(id).state) # "none"
    BY DEF FailureError
  <2> QED BY <2>1, <2>2, <2>3, <2>4 DEF Aborted, UpdateObject
<1>4. FutureInv'
  <2>1. \A id \in ID : \A n \in Object :
           ObjectInv(db', open, id, AbortAll(upd, reason)[id][n], AllAbortSets(upd, reason)[id][n])
    BY <1>1, <1>3, AbortAllInv
  <2> QED BY <2>1 DEF FutureInv
<1>5. ToldInv'
  BY <1>1, ToldGrows
<1>6. RollbackInv' /\ CommitInv' /\ RegisteredInv'
  BY <1>3, NoEffectsInv
<1> QED BY <1>2, <1>4, <1>5, <1>6 DEF LifeInv

LEMMA WorkflowTaskInv ==
  ASSUME Inv,
         \/ RecordWorkflowTaskStarted \/ WorkflowTaskTimedOut
         \/ \E reason \in {"WorkflowCompleted", "WorkflowContinuing"} : CloseWorkflow(reason)
  PROVE  LifeInv'
<1>1. /\ TypeOK /\ StoreInv /\ db \in Run /\ ms \in Run
      /\ pc = "idle" /\ effects = <<>> /\ Settled /\ SameUpdates(db, ms) /\ loaded
  BY DEF Inv, TypeInv, TypeOK, RecordWorkflowTaskStarted, WorkflowTaskTimedOut, CloseWorkflow, Idle, StoreInv
<1>2. ASSUME NEW m \in Run, SameUpdates(db, m)
      PROVE  Grows(db, m) /\ Opened(m) = open
  BY <1>1, <1>2, OpenedSame DEF Grows, SameUpdates, Opened
<1>3. ASSUME NEW m \in Run, Grows(db, m), WriteFailed(m), UNCHANGED <<handler, call, seen, told>>
      PROVE  LifeInv'
  BY <1>1, <1>3, WriteFailedInv
<1>4. CASE RecordWorkflowTaskStarted
  <2> DEFINE m == [ms EXCEPT !.wft = "started"]
  <2>1. m \in Run /\ SameUpdates(db, m)
    BY <1>1 DEF Run, SameUpdates
  <2>2. CASE /\ ms' = m /\ upd' = Sent(upd) /\ seen' = seen \cup Outgoing
             /\ UNCHANGED <<db, registry, handler, sets, call, history>>
    <3>1. db' \in Run /\ SameUpdates(db, db') /\ SameUpdates(db', ms')
      BY <1>1, <2>1, <2>2 DEF SameUpdates
    <3> QED BY <1>1, <2>2, <3>1, SendInv
  <2>3. CASE ClearTo(db) /\ UNCHANGED <<handler, call, seen, history>>
    BY <1>1, <2>3, ClearSameInv
  <2>4. CASE /\ WriteOK(m) /\ upd' = Sent(upd) /\ seen' = seen \cup Outgoing
             /\ UNCHANGED <<registry, handler, sets, call, told>>
    <3>1. db' \in Run /\ SameUpdates(db, db') /\ SameUpdates(db', ms') /\ open' = open
      BY <1>2, <2>1, <2>4 DEF WriteOK, SameUpdates
    <3> QED BY <1>1, <2>4, <3>1, SendInv
  <2>5. CASE WriteFailed(m) /\ UNCHANGED <<handler, call, seen, told>>
    BY <1>2, <1>3, <2>1, <2>5
  <2> QED BY <1>4, <2>2, <2>3, <2>4, <2>5 DEF RecordWorkflowTaskStarted
<1>5. CASE WorkflowTaskTimedOut
  <2> DEFINE m == [ms EXCEPT !.wft = "scheduled", !.speculative = FALSE]
  <2>1. m \in Run /\ SameUpdates(db, m)
    BY <1>1 DEF Run, SameUpdates
  <2>2. CASE WriteOK(m) /\ UNCHANGED <<registry, upd, handler, sets, call, seen, told>>
    <3>1. db' \in Run /\ SameUpdates(db, db') /\ SameUpdates(db', ms') /\ open' = open
      BY <1>2, <2>1, <2>2 DEF WriteOK, SameUpdates
    <3> QED BY <1>1, <2>2, <3>1, SendInv
  <2>3. CASE WriteFailed(m) /\ UNCHANGED <<handler, call, seen, told>>
    BY <1>2, <1>3, <2>1, <2>3
  <2> QED BY <1>5, <2>2, <2>3 DEF WorkflowTaskTimedOut
<1>6. ASSUME NEW reason \in {"WorkflowCompleted", "WorkflowContinuing"}, CloseWorkflow(reason)
      PROVE  LifeInv'
  <2> DEFINE m == [ms EXCEPT !.running = FALSE, !.wft = "none", !.speculative = FALSE]
  <2>1. m \in Run /\ ~m.running /\ m.info = db.info /\ db.running
    BY <1>1, <1>6 DEF Run, SameUpdates, CloseWorkflow
  <2>2. Grows(db, m) /\ Opened(m) = open
    <3>1. \A id \in ID : Progress(db.info[id], m.info[id])
      BY <2>1 DEF Progress
    <3> QED BY <2>1, <3>1 DEF Grows, Opened
  <2> HIDE DEF m
  <2>3. CASE /\ WriteOK(m) /\ upd' = AbortAll(upd, reason) /\ sets' = AllAbortSets(upd, reason)
             /\ UNCHANGED <<registry, handler, call, seen, told>>
    <3>1. db' = m /\ ms' = m /\ open' = open
      BY <2>2, <2>3 DEF WriteOK
    <3>2. SameUpdates(db', ms')
      BY <3>1 DEF SameUpdates
    <3> QED BY <1>1, <2>1, <2>2, <2>3, <3>1, <3>2, CloseInv
  <2>4. CASE WriteFailed(m) /\ UNCHANGED <<handler, call, seen, told>>
    BY <1>3, <2>1, <2>2, <2>4
  <2> QED BY <1>6, <2>3, <2>4 DEF CloseWorkflow, m
<1> QED BY <1>4, <1>5, <1>6

-----------------------------------------------------------------------------
(* The messages of a worker                                                *)

LEMMA RespondInv ==
  ASSUME Inv, NEW discard \in BOOLEAN, RespondWorkflowTaskCompleted(discard)
  PROVE  LifeInv'
<1>1. /\ TypeOK /\ StoreInv /\ FutureInv /\ ToldInv /\ RegisteredInv
      /\ db \in Run /\ ms \in Run /\ pc = "idle" /\ effects = <<>> /\ Settled /\ SameUpdates(db, ms) /\ loaded
  BY DEF Inv, TypeInv, TypeOK, RespondWorkflowTaskCompleted, Idle, StoreInv
<1>2. /\ ms'.running = ms.running /\ ms'.info = ms.info /\ ms.running /\ pc' = "messages"
      /\ UNCHANGED <<db, loaded, reg, upd, effects, sets, told, open>>
  BY <1>1 DEF RespondWorkflowTaskCompleted, Run
<1>3. StoreInv'
  <2>1. \A id \in ID : Progress(db.info[id], ms'.info[id])
    BY <1>1, <1>2 DEF SameUpdates, Progress
  <2> QED BY <1>1, <1>2, <2>1 DEF StoreInv, SameUpdates, Settled
<1>4. FutureInv' /\ ToldInv'
  BY <1>1, <1>2 DEF FutureInv, ToldInv
<1>5. RollbackInv' /\ CommitInv' /\ RegisteredInv'
  <2>1. \A id \in ID : Update(id)' = Update(id)
    BY <1>2 DEF Update
  <2> QED BY <1>1, <1>2, <2>1, SettledStates, NoEffectsInv
<1> QED BY <1>3, <1>4, <1>5 DEF LifeInv

LEMMA CommandInv ==
  ASSUME Inv, HandleBadCommand \/ \E newRun \in BOOLEAN : HandleCloseCommand(newRun)
  PROVE  LifeInv'
<1>1. /\ TypeOK /\ StoreInv /\ FutureInv /\ ToldInv /\ RollbackInv /\ CommitInv /\ RegisteredInv
      /\ ms \in Run /\ task \in TaskRecord /\ loaded
  BY DEF Inv, TypeInv, TypeOK, Unloaded, HandleBadCommand, HandleCloseCommand
<1>2. /\ pc = "messages" /\ ~task.discard
      /\ UNCHANGED <<db, loaded, reg, upd, effects, sets, told, open>>
  BY DEF HandleBadCommand, HandleCloseCommand
<1>3. FutureInv' /\ ToldInv' /\ RollbackInv'
  BY <1>1, <1>2 DEF FutureInv, ToldInv, RollbackInv
<1>4. CASE HandleBadCommand
  <2>1. pc' \in {"fail", "cancel"} /\ ms' = ms /\ task' = task
    BY <1>4 DEF HandleBadCommand
  <2>2. StoreInv'
    BY <1>1, <1>2, <2>1 DEF StoreInv, SameUpdates, Settled
  <2>3. CommitInv' /\ RegisteredInv'
    BY <2>1 DEF CommitInv, RegisteredInv
  <2> QED BY <1>3, <2>2, <2>3 DEF LifeInv
<1>5. ASSUME NEW newRun \in BOOLEAN, HandleCloseCommand(newRun)
      PROVE  LifeInv'
  <2>1. pc' = pc /\ ms.running /\ ms'.info = ms.info /\ ~ms'.running /\ ~task'.discard
    BY <1>1, <1>2, <1>5 DEF HandleCloseCommand, Run, TaskRecord
  <2>2. StoreInv'
    BY <1>1, <1>2, <2>1 DEF StoreInv, SameUpdates, Settled
  <2>3. CommitInv'
    <3>1. \A e : Committable(e) => Committable(e)'
      BY <1>2, <2>1 DEF Committable, InfoAgrees
    <3> QED BY <1>1, <1>2, <2>1, <3>1 DEF CommitInv
  <2>4. RegisteredInv'
    <3>1. \A id, s : StateInv(id, s) => StateInv(id, s)'
      BY <1>2, <2>1 DEF StateInv, Remains
    <3>2. \A id \in ID : Update(id)' = Update(id)
      BY <1>2 DEF Update
    <3> QED BY <1>1, <1>2, <2>1, <3>1, <3>2 DEF RegisteredInv
  <2> QED BY <1>3, <2>2, <2>3, <2>4 DEF LifeInv
<1> QED BY <1>4, <1>5

\* The object of an effect while messages are handled, with the registry r and the objects u.
Owned(e, r, u) ==
    /\ r[e.id] = e.n
    /\ e.kind \in {"respond", "reject"} => u[e.id][e.n].state = "ProvisionallyCompleted"

\* One message moves the object n of an update to a provisional state, and leaves an effect that
\* the mutable state agrees with.  Effects that were left before go on to agree.
LEMMA ProvisionalInv ==
  ASSUME TypeOK, StoreInv, ToldInv, RollbackInv, pc = "messages",
         NEW r \in [ID -> Object \cup {0}], NEW u \in Objects, NEW id \in ID, NEW n \in Object, r[id] = n, reg' = r,
         \A i \in ID : \A m \in Object : ObjectInv(db, open, i, u[i][m], sets[i][m]),
         \A i \in ID : r[i] # 0 => StateInv(i, u[i][r[i]].state),
         \A k \in 1..Len(effects) : InfoAgrees(effects[k], ms) /\ Owned(effects[k], r, u),
         NEW state \in Live, NEW kind \in {"accept", "reject", "respond", "abort"}, NEW value \in Value,
         Provisionally(u, id, n, state, kind, value), u[id][n].state \in Live,
         ms' \in Run, ms'.running = ms.running, \A i \in ID : i # id => ms'.info[i] = ms.info[i],
         Progress(db.info[id], ms'.info[id]), task.discard => ms' = ms,
         UNCHANGED <<db, loaded, task, sets, told, open>>, loaded,
         InfoAgrees(Effect(kind, id, n, u[id][n].state, value), ms'),
         kind \in {"respond", "reject"} => state = "ProvisionallyCompleted",
         \A k \in 1..Len(effects) : effects[k].id = id =>
            InfoAgrees(effects[k], ms') /\ effects[k].kind \notin {"respond", "reject"},
         state \in {"ProvisionallyAccepted", "ProvisionallyCompleted", "ProvisionallyAborted"},
         state = "ProvisionallyAccepted" => kind = "accept" /\ ms'.info[id] = "accepted",
         state = "ProvisionallyCompleted" => kind \in {"reject", "respond"},
         state = "ProvisionallyAborted" => kind = "abort"
  PROVE  LifeInv'
<1> DEFINE new == Effect(kind, id, n, u[id][n].state, value)
<1>1. /\ effects \in Seq(EffectRecord) /\ new \in EffectRecord
      /\ effects' = Append(effects, new) /\ pc' = pc
  <2>1. u[id][n].state \in States
    BY DEF Objects, UpdateObject
  <2> QED BY <2>1, EffectsType, EffectType DEF Provisionally
<1>2. /\ Len(effects') = Len(effects) + 1 /\ Len(effects) \in Nat
      /\ \A k \in 1..Len(effects) : effects'[k] = effects[k]
      /\ effects'[Len(effects) + 1] = new
      /\ \A k \in 1..Len(effects') : k \in 1..Len(effects) \/ k = Len(effects) + 1
  <2> HIDE DEF new
  <2> QED BY <1>1
<1>3. \A i \in ID : \A m \in Object :
         IF i = id /\ m = n
         THEN /\ upd'[i][m].state = state
              /\ upd'[i][m].accepted = u[i][m].accepted /\ upd'[i][m].outcome = u[i][m].outcome
         ELSE upd'[i][m] = u[i][m]
  BY DEF Provisionally, Objects, UpdateObject
<1>4. new.kind = kind /\ new.id = id /\ new.n = n /\ new.prev = u[id][n].state /\ new.value = value
  BY DEF Effect
<1>5. StoreInv'
  <2>1. \A i \in ID : Progress(db.info[i], ms'.info[i])
    BY DEF StoreInv
  <2>2. task'.discard => SameUpdates(db', ms')
    BY DEF StoreInv, SameUpdates
  <2> QED BY <1>1, <2>1, <2>2 DEF StoreInv, Settled
<1>6. FutureInv'
  <2>1. ASSUME NEW i \in ID, NEW m \in Object
        PROVE  ObjectInv(db', open', i, upd'[i][m], sets'[i][m])
    <3>1. ObjectInv(db, open, i, u[i][m], sets[i][m])
      OBVIOUS
    <3>2. CASE i = id /\ m = n
      <4>1. ObjectInv(db, open, i, upd'[i][m], sets[i][m])
        BY <1>3, <3>1, <3>2, LiveObjectInv
      <4> QED BY <4>1
    <3>3. CASE ~(i = id /\ m = n)
      BY <1>3, <3>1, <3>3
    <3> QED BY <3>2, <3>3
  <2> QED BY <2>1 DEF FutureInv
<1>7. ToldInv'
  BY DEF ToldInv
<1> HIDE DEF new
<1>8. RollbackInv'
  BY <1>2, <1>4 DEF RollbackInv
<1>9. CommitInv'
  <2>1. ASSUME NEW k \in 1..Len(effects) PROVE Committable(effects[k])'
    <3> DEFINE e == effects[k]
    <3>1. e.id \in ID /\ e.n \in Object /\ InfoAgrees(e, ms) /\ Owned(e, r, u)
      BY EffectsType DEF EffectRecord
    <3>2. CASE e.id = id
      <4>1. InfoAgrees(e, ms') /\ e.kind \notin {"respond", "reject"} /\ e.n = n
        BY <3>1, <3>2 DEF Owned
      <4>2. effects[k]' = effects'[k] /\ effects'[k] = e
        BY <1>2
      <4> QED BY <1>1, <1>2, <3>1, <3>2, <4>1, <4>2 DEF Committable
    <3>3. CASE e.id # id
      <4>1. InfoAgrees(e, ms')
        BY <3>1, <3>3 DEF InfoAgrees
      <4>2. effects'[k] = e /\ upd'[e.id][e.n] = u[e.id][e.n]
        BY <1>2, <1>3, <3>1, <3>3
      <4> QED BY <1>1, <3>1, <4>1, <4>2 DEF Committable, Owned
    <3> QED BY <3>2, <3>3
  <2>2. /\ InfoAgrees(new, ms') /\ reg'[new.id] = new.n
        /\ new.kind \in {"respond", "reject"} => upd'[new.id][new.n].state = "ProvisionallyCompleted"
    BY <1>3, <1>4 DEF new
  <2>3. ASSUME NEW k, k = Len(effects) + 1 PROVE Committable(effects[k])'
    <3>1. effects'[k] = new /\ pc' = "messages"
      BY <1>1, <1>2, <2>3
    <3> QED BY <2>2, <3>1 DEF Committable
  <2> QED BY <1>2, <2>1, <2>3 DEF CommitInv
<1>10. RegisteredInv'
  <2>1. ASSUME NEW i \in ID, NEW kinds, Remains(i, kinds) PROVE Remains(i, kinds)'
    BY <1>2, <2>1 DEF Remains
  <2>2. ASSUME NEW i \in ID, i # id, r[i] # 0 PROVE StateInv(i, Update(i).state)'
    <3>1. r[i] \in Object /\ Update(i)' = u[i][r[i]]
      BY <1>3, <2>2 DEF Update
    <3>2. StateInv(i, u[i][r[i]].state)
      BY <2>2
    <3> QED BY <1>1, <2>1, <2>2, <3>1, <3>2 DEF StateInv
  <2>3. StateInv(id, Update(id).state)'
    <3>1. Update(id)'.state = state
      BY <1>3 DEF Update
    <3>2. Len(effects) + 1 \in 1..Len(effects')
      BY <1>2
    <3>3. \A kinds : kind \in kinds => Remains(id, kinds)'
      BY <1>2, <1>4, <3>2 DEF Remains
    <3> QED BY <1>1, <3>1, <3>3 DEF StateInv
  <2> QED BY <2>2, <2>3 DEF RegisteredInv
<1> QED BY <1>5, <1>6, <1>7, <1>8, <1>9, <1>10 DEF LifeInv

\* What a message finds, with the objects u and r the registered ones.
MessageContext(r, u) ==
    /\ \A i \in ID : \A m \in Object : ObjectInv(db, open, i, u[i][m], sets[i][m])
    /\ \A i \in ID : r[i] # 0 => StateInv(i, u[i][r[i]].state)
    /\ \A k \in 1..Len(effects) : InfoAgrees(effects[k], ms) /\ Owned(effects[k], r, u)

\* A message to the object n of an update.
LEMMA MessageInv ==
  ASSUME TypeOK, StoreInv, FutureInv, ToldInv, RollbackInv, pc = "messages",
         NEW r \in [ID -> Object \cup {0}], NEW u \in Objects, NEW id \in ID, NEW n \in Object, r[id] = n, reg' = r,
         MessageContext(r, u),
         NEW kind \in {"accept", "reject", "respond"}, NEW value, kind = "respond" => value \in Outcome,
         ms.running \/ u[id][n].state # "ProvisionallyCompleted", task.discard => kind = "reject",
         OnProtocolMessage(u, id, n, kind, value),
         UNCHANGED <<db, loaded, task, sets, told, open>>, loaded
  PROVE  LifeInv'
<1> DEFINE state == u[id][n].state
           failure == FailureError("WorkflowCompleted", state)
<1>0. /\ \A i \in ID : \A m \in Object : ObjectInv(db, open, i, u[i][m], sets[i][m])
      /\ \A i \in ID : r[i] # 0 => StateInv(i, u[i][r[i]].state)
      /\ \A k \in 1..Len(effects) : InfoAgrees(effects[k], ms) /\ Owned(effects[k], r, u)
  BY DEF MessageContext
<1>1. /\ state \in States /\ StateInv(id, state) /\ ms \in Run
      /\ state # "ProvisionallyCompletedAfterAccepted"
  <2>1. state \in States /\ ms \in Run
    BY DEF TypeOK, Objects, UpdateObject
  <2>2. StateInv(id, state)
    BY <1>0 DEF Object
  <2> QED BY <2>1, <2>2 DEF StateInv
<1>2. \A i \in ID : Progress(db.info[i], ms.info[i])
  BY DEF StoreInv
\* Effects that the same update has left before.
<1>3. ASSUME NEW k \in 1..Len(effects), effects[k].id = id
      PROVE  /\ InfoAgrees(effects[k], ms) /\ effects[k].kind \in {"accept", "reject", "respond", "abort"}
             /\ effects[k].kind \in {"respond", "reject"} => state = "ProvisionallyCompleted"
  BY <1>0, <1>3, EffectsType DEF EffectRecord, Owned
\* Messages that change no update.
<1>4. CASE upd' = u /\ UNCHANGED <<ms, effects>> /\ pc' \in {pc, "fail"}
  <2>1. StoreInv'
    BY <1>4 DEF StoreInv, SameUpdates, Settled
  <2>2. FutureInv' /\ ToldInv' /\ RollbackInv'
    BY <1>0, <1>4 DEF FutureInv, ToldInv, RollbackInv
  <2>3. CommitInv'
    <3>1. ASSUME NEW k \in 1..Len(effects), pc' = pc PROVE Committable(effects[k])'
      <4>1. InfoAgrees(effects[k], ms) /\ Owned(effects[k], r, u)
        BY <1>0
      <4> QED BY <1>4, <3>1, <4>1 DEF Committable, Owned
    <3> QED BY <1>4, <3>1 DEF CommitInv
  <2>4. RegisteredInv'
    <3>1. ASSUME NEW i \in ID, r[i] # 0, pc' = pc PROVE StateInv(i, Update(i).state)'
      <4>1. StateInv(i, u[i][r[i]].state)
        BY <1>0, <3>1
      <4> QED BY <1>4, <3>1, <4>1 DEF StateInv, Remains, Update
    <3> QED BY <1>4, <3>1 DEF RegisteredInv
  <2> QED BY <2>1, <2>2, <2>3, <2>4 DEF LifeInv
\* In a run that the worker has closed, the update is aborted.
<1>5. CASE /\ ~ms.running /\ failure # "none" /\ UNCHANGED ms
           /\ Provisionally(u, id, n, "ProvisionallyAborted", "abort", failure)
  <2>1. \/ state \in {"Admitted", "Sent"} /\ failure \in ClosingErrors
        \/ state \in {"ProvisionallyAccepted", "Accepted"} /\ failure = "failed"
    <3>1. state \in {"Admitted", "Sent", "ProvisionallyAccepted", "Accepted"}
      BY <1>1, <1>5 DEF FailureError, States
    <3>2. CASE state \in {"Admitted", "Sent"}
      BY <3>2 DEF FailureError, ClosingErrors
    <3>3. CASE state \in {"ProvisionallyAccepted", "Accepted"}
      BY <3>3 DEF FailureError
    <3> QED BY <3>1, <3>2, <3>3
  <2>2. InfoAgrees(Effect("abort", id, n, state, failure), ms)
    BY <1>1, <1>5, <2>1 DEF InfoAgrees, Effect, StateInv
  <2>3. state \in Live /\ "ProvisionallyAborted" \in Live /\ failure \in Value
    BY <2>1 DEF Live, Value, ClosingErrors, Errors
  <2>4. \A k \in 1..Len(effects) : effects[k].id = id =>
           InfoAgrees(effects[k], ms) /\ effects[k].kind \notin {"respond", "reject"}
    BY <1>3, <2>1
  <2> HIDE DEF failure, state
  <2> QED BY <1>0, <1>1, <1>2, <1>5, <2>2, <2>3, <2>4, ProvisionalInv DEF state
<1>6. CASE /\ state \in {"Sent", "Admitted"} /\ ms.running /\ kind = "accept"
           /\ ms' = [ms EXCEPT !.info[id] = "accepted"]
           /\ Provisionally(u, id, n, "ProvisionallyAccepted", "accept", "accepted")
  <2>1. /\ ms' \in Run /\ ms'.running = ms.running /\ ms'.info[id] = "accepted"
        /\ \A i \in ID : i # id => ms'.info[i] = ms.info[i]
    BY <1>1, <1>6 DEF Run, Info
  <2>2. InfoAgrees(Effect("accept", id, n, state, "accepted"), ms')
    BY <2>1 DEF InfoAgrees, Effect
  <2>3. state \in Live /\ "ProvisionallyAccepted" \in Live /\ "accepted" \in Value
    BY <1>6 DEF Live, Value
  <2>4. \A k \in 1..Len(effects) : effects[k].id = id =>
           InfoAgrees(effects[k], ms') /\ effects[k].kind \notin {"respond", "reject"}
    BY <1>3, <1>6, <2>1 DEF InfoAgrees
  <2>5. Progress(db.info[id], ms'.info[id])
    <3>1. ms.info[id] \in Pending
      BY <1>1, <1>6 DEF StateInv
    <3> QED BY <1>2, <2>1, <3>1, Kinds DEF Progress
  <2>6. ~task.discard
    BY <1>6
  <2> HIDE DEF state
  <2> QED BY <1>0, <1>6, <2>1, <2>2, <2>3, <2>4, <2>5, <2>6, ProvisionalInv DEF state
<1>7. CASE /\ state \in {"Sent", "Admitted"} /\ kind = "reject" /\ UNCHANGED ms
           /\ Provisionally(u, id, n, "ProvisionallyCompleted", "reject", "rejected")
  <2>1. InfoAgrees(Effect("reject", id, n, state, "rejected"), ms)
    BY <1>1, <1>7 DEF InfoAgrees, Effect, StateInv
  <2>2. state \in Live /\ "ProvisionallyCompleted" \in Live /\ "rejected" \in Value
    BY <1>7 DEF Live, Value
  <2>3. \A k \in 1..Len(effects) : effects[k].id = id =>
           InfoAgrees(effects[k], ms) /\ effects[k].kind \notin {"respond", "reject"}
    BY <1>3, <1>7
  <2> HIDE DEF state
  <2> QED BY <1>0, <1>1, <1>2, <1>7, <2>1, <2>2, <2>3, ProvisionalInv DEF state
<1>8. CASE /\ state \in {"ProvisionallyAccepted", "Accepted"} /\ ms.running /\ kind = "respond"
           /\ ms' = [ms EXCEPT !.info[id] = value]
           /\ Provisionally(u, id, n, "ProvisionallyCompleted", "respond", value)
  <2>1. /\ value \in Outcome /\ ms' \in Run /\ ms'.running = ms.running /\ ms'.info[id] = value
        /\ \A i \in ID : i # id => ms'.info[i] = ms.info[i]
    BY <1>1, <1>8 DEF Run, Info
  <2>2. InfoAgrees(Effect("respond", id, n, state, value), ms')
    BY <2>1 DEF InfoAgrees, Effect
  <2>3. state \in Live /\ "ProvisionallyCompleted" \in Live /\ value \in Value
    BY <1>8, <2>1 DEF Live, Value
  <2>4. \A k \in 1..Len(effects) : effects[k].id = id =>
           InfoAgrees(effects[k], ms') /\ effects[k].kind \notin {"respond", "reject"}
    BY <1>3, <1>8, <2>1 DEF InfoAgrees
  <2>5. Progress(db.info[id], ms'.info[id])
    <3>1. ms.info[id] = "accepted"
      BY <1>1, <1>8 DEF StateInv
    <3> QED BY <1>2, <2>1, <3>1, Kinds DEF Progress
  <2>6. ~task.discard
    BY <1>8
  <2> HIDE DEF state
  <2> QED BY <1>0, <1>8, <2>1, <2>2, <2>3, <2>4, <2>5, <2>6, ProvisionalInv DEF state
<1> QED BY <1>4, <1>5, <1>6, <1>7, <1>8 DEF OnProtocolMessage

LEMMA HandleMessageInv ==
  ASSUME Inv, "worker" \notin Faults, NEW id \in ID, NEW kind \in {"accept", "reject", "respond"},
         NEW value, kind = "respond" => value \in Outcome, HandleMessage(id, kind, value)
  PROVE  LifeInv'
<1>1. /\ TypeOK /\ StoreInv /\ FutureInv /\ ToldInv /\ RollbackInv /\ CommitInv /\ RegisteredInv
      /\ pc = "messages" /\ loaded /\ db \in Run /\ upd \in Objects /\ reg \in [ID -> Object \cup {0}]
  BY DEF Inv, TypeInv, TypeOK, Unloaded, Objects, HandleMessage
<1>2. UNCHANGED <<db, loaded, task, sets, told, open>> /\ Legal(id) /\ (task.discard => kind = "reject")
  BY DEF HandleMessage
<1>3. \A k \in 1..Len(effects) :
         /\ InfoAgrees(effects[k], ms) /\ effects[k].id \in ID /\ effects[k].n \in Object
         /\ reg[effects[k].id] = effects[k].n
         /\ effects[k].kind \in {"respond", "reject"} =>
               upd[effects[k].id][effects[k].n].state = "ProvisionallyCompleted"
  BY <1>1, EffectsType DEF CommitInv, Committable, EffectRecord
<1>4. CASE reg[id] # 0 /\ OnProtocolMessage(upd, id, reg[id], kind, value) /\ UNCHANGED reg
  <2>1. reg[id] \in Object
    BY <1>1, <1>4
  <2>2. \A i \in ID : \A m \in Object : ObjectInv(db, open, i, upd[i][m], sets[i][m])
    BY <1>1 DEF FutureInv
  <2>3. \A i \in ID : reg[i] # 0 => StateInv(i, upd[i][reg[i]].state)
    BY <1>1 DEF RegisteredInv, Update
  <2>4. \A k \in 1..Len(effects) : InfoAgrees(effects[k], ms) /\ Owned(effects[k], reg, upd)
    BY <1>3 DEF Owned
  <2>5. ms.running \/ upd[id][reg[id]].state # "ProvisionallyCompleted"
    BY <1>2, <1>4 DEF Legal, Update
  <2>6. MessageContext(reg, upd)
    BY <2>2, <2>3, <2>4 DEF MessageContext
  <2> QED BY <1>1, <1>2, <1>4, <2>1, <2>5, <2>6, MessageInv
<1>5. CASE /\ reg[id] = 0 /\ ms.info[id] = "none" /\ reg' = [reg EXCEPT ![id] = Fresh(id)]
           /\ OnProtocolMessage([upd EXCEPT ![id][Fresh(id)] = NewAdmitted], id, Fresh(id), kind, value)
  <2> DEFINE f == Fresh(id)
             r == [reg EXCEPT ![id] = f]
             u == [upd EXCEPT ![id][f] = NewAdmitted]
  <2>1. f \in Object
    BY <1>1, <1>5, FreshIsFree
  <2>2. /\ r \in [ID -> Object \cup {0}] /\ r[id] = f
        /\ \A i \in ID : i # id => r[i] = reg[i]
    BY <1>1, <2>1
  <2>3. u \in Objects /\ u[id][f] = NewAdmitted /\ u[id][f].state = "Admitted"
    BY <1>1, <2>1, NewObjects DEF Objects, NewAdmitted, Unused
  <2>4. \A i \in ID : \A m \in Object : u[i][m] = IF i = id /\ m = f THEN NewAdmitted ELSE upd[i][m]
    BY <1>1, <2>1 DEF Objects
  <2>8. reg' = r /\ OnProtocolMessage(u, id, f, kind, value)
    BY <1>5
  <2> HIDE DEF f, r, u
  <2>5. ASSUME NEW i \in ID, NEW m \in Object
        PROVE  ObjectInv(db, open, i, u[i][m], sets[i][m])
    <3>1. ObjectInv(db, open, i, upd[i][m], sets[i][m]) /\ sets[i][m] = <<>>
      BY <1>1 DEF FutureInv, StoreInv, Settled
    <3>2. ObjectInv(db, open, i, NewAdmitted, <<>>)
      BY <1>1, NewObjects, NewObjectInv DEF NewAdmitted, Unused
    <3> QED BY <2>4, <3>1, <3>2
  <2>6. ASSUME NEW i \in ID, r[i] # 0
        PROVE  StateInv(i, u[i][r[i]].state)
    <3>1. CASE i = id
      BY <1>5, <2>2, <2>3, <3>1 DEF StateInv, Pending
    <3>2. CASE i # id
      <4>1. reg[i] # 0 /\ reg[i] \in Object /\ r[i] = reg[i] /\ u[i][r[i]] = upd[i][reg[i]]
        BY <1>1, <2>2, <2>4, <2>6, <3>2
      <4> QED BY <1>1, <4>1 DEF RegisteredInv, Update
    <3> QED BY <3>1, <3>2
  <2>7. ASSUME NEW k \in 1..Len(effects)
        PROVE  InfoAgrees(effects[k], ms) /\ Owned(effects[k], r, u)
    <3>1. effects[k].id # id
      BY <1>3, <1>5 DEF Object
    <3> QED BY <1>3, <2>2, <2>4, <3>1 DEF Owned
  <2>9. u[id][f].state # "ProvisionallyCompleted" /\ (kind = "respond" => value \in Outcome)
    BY <2>3
  <2>10. /\ \A i \in ID : \A m \in Object : ObjectInv(db, open, i, u[i][m], sets[i][m])
         /\ \A i \in ID : r[i] # 0 => StateInv(i, u[i][r[i]].state)
         /\ \A k \in 1..Len(effects) : InfoAgrees(effects[k], ms) /\ Owned(effects[k], r, u)
    BY <2>5, <2>6, <2>7
  <2>11. MessageContext(r, u)
    BY <2>10 DEF MessageContext
  <2>12. r \in [ID -> Object \cup {0}] /\ r[id] = f /\ u \in Objects
    BY <2>2, <2>3
  <2>13. /\ TypeOK /\ StoreInv /\ FutureInv /\ ToldInv /\ RollbackInv /\ pc = "messages" /\ loaded
         /\ task.discard => kind = "reject"
    BY <1>1, <1>2
  <2>14. UNCHANGED <<db, loaded, task, sets, told, open>>
    BY <1>2
  <2> QED BY <2>1, <2>8, <2>9, <2>11, <2>12, <2>13, <2>14, MessageInv
<1>6. CASE UNCHANGED <<ms, reg, upd, effects>> /\ pc' \in {"cancel", "fail"}
  <2>1. StoreInv'
    BY <1>1, <1>2, <1>6 DEF StoreInv, SameUpdates, Settled
  <2>2. FutureInv' /\ ToldInv' /\ RollbackInv'
    BY <1>1, <1>2, <1>6 DEF FutureInv, ToldInv, RollbackInv
  <2>3. CommitInv' /\ RegisteredInv'
    BY <1>6 DEF CommitInv, RegisteredInv
  <2> QED BY <2>1, <2>2, <2>3 DEF LifeInv
<1> QED BY <1>4, <1>5, <1>6 DEF HandleMessage

\* After the messages, the handler moves some registered updates itself.
LEMMA AllProvisionallyInv ==
  ASSUME Inv, pc = "messages", NEW S, S \subseteq {id \in ID : reg[id] # 0},
         NEW state \in {"ProvisionallyCompleted", "ProvisionallyAborted"}, NEW kind \in {"reject", "abort"},
         NEW value \in Value, AllProvisionally(S, state, kind, value),
         state = "ProvisionallyCompleted" <=> kind = "reject",
         \A id \in S : /\ Update(id).state \in Live
                       /\ InfoAgrees(Effect(kind, id, reg[id], Update(id).state, value), ms),
         ~ms.running => InAcceptance \subseteq S,
         ms' \in Run, ms'.running = ms.running, ms'.info = ms.info, task'.discard = task.discard,
         pc' \in {"persist", "apply"}, pc' = "apply" => task.discard,
         UNCHANGED <<db, loaded, reg, sets, told, open>>
  PROVE  LifeInv'
<1>1. /\ TypeOK /\ StoreInv /\ FutureInv /\ ToldInv /\ RollbackInv /\ CommitInv /\ RegisteredInv
      /\ db \in Run /\ loaded /\ upd \in Objects
  BY DEF Inv, TypeInv, TypeOK, Unloaded, Objects
<1>2. OneEffectEach(S, kind, value)
  <2>1. state \in States /\ kind \in {"accept", "reject", "respond", "abort"}
    BY DEF States
  <2> QED BY <1>1, <2>1, AllProvisionallyEffects
<1>3. \A id \in ID : \A n \in Object :
         upd'[id][n] = IF id \in S /\ reg[id] = n THEN [upd[id][n] EXCEPT !.state = state] ELSE upd[id][n]
  BY DEF AllProvisionally
<1>4. StoreInv'
  BY <1>1 DEF StoreInv, SameUpdates, Settled
<1>5. FutureInv'
  <2>1. ASSUME NEW id \in ID, NEW n \in Object
        PROVE  \/ upd'[id][n] = upd[id][n]
               \/ /\ upd[id][n].state \in Live /\ upd'[id][n].state \in Live
                  /\ upd'[id][n].accepted = upd[id][n].accepted /\ upd'[id][n].outcome = upd[id][n].outcome
    <3>1. CASE id \in S /\ reg[id] = n
      <4>1. upd[id][n].state \in Live /\ upd[id][n] \in UpdateObject /\ state \in Live
        BY <1>1, <3>1 DEF Update, Objects, Live
      <4> QED BY <1>3, <3>1, <4>1 DEF UpdateObject
    <3>2. CASE ~(id \in S /\ reg[id] = n)
      BY <1>3, <3>2
    <3> QED BY <3>1, <3>2
  <2>2. Grows(db, db')
    BY DEF Grows, SameUpdates
  <2> QED BY <1>1, <2>1, <2>2, LiveFutures
<1>6. ToldInv'
  BY <1>1 DEF ToldInv
<1>7. \A i \in 1..Len(effects') :
         \/ i \in 1..Len(effects) /\ effects'[i] = effects[i]
         \/ \E id \in S : effects'[i] = Effect(kind, id, reg[id], Update(id).state, value)
  BY <1>2 DEF OneEffectEach
<1>8. RollbackInv'
  <2>1. ASSUME NEW i \in 1..Len(effects') PROVE effects'[i].prev \in Live
    <3>1. CASE i \in 1..Len(effects) /\ effects'[i] = effects[i]
      BY <1>1, <3>1 DEF RollbackInv
    <3>2. CASE \E id \in S : effects'[i] = Effect(kind, id, reg[id], Update(id).state, value)
      BY <3>2 DEF Effect
    <3> QED BY <1>7, <3>1, <3>2
  <2> QED BY <2>1 DEF RollbackInv
<1>9. CommitInv'
  <2>1. \A e : InfoAgrees(e, ms) => InfoAgrees(e, ms')
    BY DEF InfoAgrees
  <2>2. ASSUME NEW i \in 1..Len(effects') PROVE Committable(effects[i])'
    <3>1. CASE i \in 1..Len(effects) /\ effects'[i] = effects[i]
      <4>1. Committable(effects[i])
        BY <1>1, <3>1 DEF CommitInv
      <4> QED BY <2>1, <3>1, <4>1 DEF Committable
    <3>2. CASE \E id \in S : effects'[i] = Effect(kind, id, reg[id], Update(id).state, value)
      <4>1. PICK id \in S : effects'[i] = Effect(kind, id, reg[id], Update(id).state, value)
        BY <3>2
      <4>2. InfoAgrees(effects'[i], ms') /\ reg'[effects'[i].id] = effects'[i].n
        BY <2>1, <4>1 DEF Effect
      <4> QED BY <4>2 DEF Committable
    <3> QED BY <1>7, <3>1, <3>2
  <2> QED BY <2>2 DEF CommitInv
<1>10. RegisteredInv'
  <2>1. ASSUME NEW id \in S PROVE StateInv(id, Update(id).state)'
    <3>1. Update(id)'.state = state
      <4>1. id \in ID /\ reg[id] \in Object /\ Update(id) \in UpdateObject
        BY <1>1, RegisteredState
      <4> QED BY <1>3, <4>1 DEF Update, UpdateObject
    <3>2. PICK i \in 1..Len(effects') : effects'[i] = Effect(kind, id, reg[id], Update(id).state, value)
      BY <1>2 DEF OneEffectEach
    <3>3. effects'[i].id = id /\ effects'[i].kind = kind
      BY <3>2 DEF Effect
    <3>4. \A kinds : kind \in kinds => Remains(id, kinds)'
      BY <3>2, <3>3 DEF Remains
    <3> QED BY <3>1, <3>4 DEF StateInv
  <2>2. ASSUME NEW id \in ID, id \notin S, reg[id] # 0 PROVE StateInv(id, Update(id).state)'
    <3>1. Update(id)' = Update(id) /\ StateInv(id, Update(id).state)
      <4>1. reg[id] \in Object
        BY <1>1, <2>2, RegisteredState
      <4> QED BY <1>1, <1>3, <2>2, <4>1 DEF Update, RegisteredInv
    <3>2. \A kinds : Remains(id, kinds) => Remains(id, kinds)'
      BY <1>2 DEF Remains, OneEffectEach
    <3>3. Update(id).state = "ProvisionallyAccepted" => ms.running
      BY <2>2 DEF InAcceptance
    <3> QED BY <3>1, <3>2, <3>3 DEF StateInv
  <2> QED BY <2>1, <2>2 DEF RegisteredInv
<1> QED BY <1>4, <1>5, <1>6, <1>8, <1>9, <1>10 DEF LifeInv

LEMMA FinishMessagesInv ==
  ASSUME Inv, NEW heartbeat \in BOOLEAN, NEW buffered \in BOOLEAN, NEW bypass \in BOOLEAN,
         FinishMessages(heartbeat, buffered, bypass)
  PROVE  LifeInv'
<1>1. TypeOK /\ RegisteredInv /\ ms \in Run /\ task \in TaskRecord /\ pc = "messages"
  BY DEF Inv, TypeInv, TypeOK, FinishMessages
<1>2. /\ ms' \in Run /\ ms'.running = ms.running /\ ms'.info = ms.info
      /\ UNCHANGED <<db, loaded, reg, sets, told, open>>
  BY <1>1 DEF FinishMessages, Run
<1>3. task'.discard = task.discard /\ pc' \in {"persist", "apply"} /\ (pc' = "apply" => task.discard)
  BY <1>1 DEF FinishMessages, TaskRecord
<1>4. \A id \in ID : reg[id] # 0 => StateInv(id, Update(id).state)
  BY <1>1 DEF RegisteredInv
<1>5. CASE ms.running
  <2>1. PICK S \in {{}, Unprocessed} : AllProvisionally(S, "ProvisionallyCompleted", "reject", "rejected")
    BY <1>5 DEF FinishMessages
  <2>2. S \subseteq {id \in ID : reg[id] # 0} /\ \A id \in S : Update(id).state = "Sent"
    BY <2>1 DEF Unprocessed
  <2>3. ASSUME NEW id \in S
        PROVE  /\ Update(id).state \in Live
               /\ InfoAgrees(Effect("reject", id, reg[id], Update(id).state, "rejected"), ms)
    BY <1>4, <2>2 DEF Live, InfoAgrees, Effect, StateInv
  <2>4. "rejected" \in Value
    BY DEF Value
  <2> QED BY <1>1, <1>2, <1>3, <1>5, <2>1, <2>2, <2>3, <2>4, AllProvisionallyInv
<1>6. CASE ~ms.running
  <2> DEFINE S == InAcceptance
  <2>1. AllProvisionally(S, "ProvisionallyAborted", "abort", "failed")
    BY <1>6 DEF FinishMessages
  <2>2. S \subseteq {id \in ID : reg[id] # 0}
    BY DEF InAcceptance
  <2>3. ASSUME NEW id \in S
        PROVE  /\ Update(id).state \in Live
               /\ InfoAgrees(Effect("abort", id, reg[id], Update(id).state, "failed"), ms)
    BY <1>4, <1>6 DEF InAcceptance, Live, InfoAgrees, Effect, StateInv
  <2>4. "failed" \in Value
    BY DEF Value
  <2> QED BY <1>1, <1>2, <1>3, <2>1, <2>2, <2>3, <2>4, AllProvisionallyInv
<1> QED BY <1>5, <1>6

-----------------------------------------------------------------------------
(* The write, and what follows it                                          *)

LEMMA PersistInv ==
  ASSUME Inv, Persist
  PROVE  LifeInv'
<1>1. /\ TypeOK /\ StoreInv /\ FutureInv /\ ToldInv /\ RollbackInv /\ CommitInv /\ RegisteredInv
      /\ db \in Run /\ ms \in Run /\ pc = "persist" /\ Settled /\ loaded
  BY DEF Inv, TypeInv, TypeOK, Unloaded, Persist, StoreInv
<1>2. Grows(db, ms)
  BY <1>1 DEF StoreInv, Grows
<1>3. CASE WriteOK(ms) /\ pc' = "apply" /\ UNCHANGED <<registry, upd, sets>>
  <2>1. /\ db' = ms /\ ms' = ms /\ open' = Opened(ms) /\ pc' = "apply"
        /\ UNCHANGED <<loaded, reg, upd, sets, task, effects, told>>
    BY <1>3 DEF WriteOK, Persist
  <2>2. /\ open \subseteq open'
        /\ \A id \in ID : db'.running /\ db'.info[id] = "accepted" => id \in open'
        /\ \A id \in open' : db'.info[id] \in {"accepted"} \cup Outcome
    BY <1>1, <1>2, <2>1, WriteStore
  <2>3. StoreInv'
    BY <1>1, <2>1, <2>2 DEF StoreInv, SameUpdates
  <2>4. FutureInv' /\ ToldInv'
    BY <1>1, <1>2, <2>1, <2>2, SameFutures, ToldGrows
  <2>5. RollbackInv'
    BY <1>1, <2>1 DEF RollbackInv
  <2>6. CommitInv'
    BY <1>1, <2>1 DEF CommitInv, Committable
  <2>7. RegisteredInv'
    BY <1>1, <2>1 DEF RegisteredInv, StateInv, Remains, Update
  <2> QED BY <2>3, <2>4, <2>5, <2>6, <2>7 DEF LifeInv
<1>4. CASE WriteFailed(ms) /\ pc' = "cancel"
  <2>1. UNCHANGED <<effects, told>>
    BY DEF Persist
  <2> QED BY <1>1, <1>2, <1>4, <2>1, WriteFailedInv
<1> QED BY <1>3, <1>4 DEF Persist

\* An effect that comes later than the first is still to be applied.
LEMMA RemainsInTail ==
  ASSUME TypeOK, effects # <<>>, effects' = Tail(effects), NEW id \in ID, NEW kinds, Remains(id, kinds),
         ~(Head(effects).id = id /\ Head(effects).kind \in kinds)
  PROVE  Remains(id, kinds)'
<1>1. PICK i \in 1..Len(effects) : effects[i].id = id /\ effects[i].kind \in kinds
  BY DEF Remains
<1>2. /\ Head(effects) = effects[1] /\ Len(effects) \in Nat \ {0} /\ Len(effects') = Len(effects) - 1
      /\ \A j \in 1..Len(effects) - 1 : effects'[j] = effects[j + 1]
  BY HeadEffect
<1>3. i # 1
  BY <1>1, <1>2
<1>4. i - 1 \in 1..Len(effects') /\ effects'[i - 1] = effects[i]
  BY <1>2, <1>3
<1> QED BY <1>1, <1>4 DEF Remains

\* The effect that is applied first, its object, and what is known of them.
LEMMA FirstEffect ==
  ASSUME Inv, pc = "apply", effects # <<>>, NEW e, e = Head(effects)
  PROVE  /\ e \in EffectRecord /\ e.id \in ID /\ e.n \in Object /\ InfoAgrees(e, ms)
         /\ e.kind \in {"accept", "reject", "respond", "abort"}
         /\ upd[e.id][e.n] \in UpdateObject
         /\ \/ reg[e.id] = e.n /\ StateInv(e.id, upd[e.id][e.n].state)
            \/ reg[e.id] = 0 /\ upd[e.id][e.n].state \in {"Completed", "Unused"}
<1>1. TypeOK /\ CommitInv /\ RegisteredInv
  BY DEF Inv, TypeInv
<1>2. /\ e \in EffectRecord /\ e.id \in ID /\ e.n \in Object /\ upd[e.id][e.n] \in UpdateObject
      /\ e = effects[1] /\ 1 \in 1..Len(effects)
  BY <1>1, HeadEffect
<1>3. Committable(e)
  BY <1>1, <1>2 DEF CommitInv
<1>4. reg[e.id] = e.n => StateInv(e.id, upd[e.id][e.n].state)
  BY <1>1, <1>2 DEF RegisteredInv, Update, Object
<1>5. e.kind \in {"accept", "reject", "respond", "abort"}
  BY <1>2 DEF EffectRecord
<1> QED BY <1>2, <1>3, <1>4, <1>5 DEF Committable

\* What an effect makes of its object is what the store says of the update.
LEMMA CommittedObject ==
  ASSUME Inv, pc = "apply", effects # <<>>, Settled, NEW e, e = Head(effects),
         NEW u, u = upd[e.id][e.n], Effective(e, u.state)
  PROVE  /\ reg[e.id] = e.n /\ u.state \in Live
         /\ ObjectInv(db, open, e.id, [u EXCEPT !.state = Committed(e, u.state)], CommitSets(e, u.state))
<1> DEFINE id == e.id
           n == e.n
<1>1. /\ e \in EffectRecord /\ id \in ID /\ n \in Object /\ InfoAgrees(e, ms)
      /\ e.kind \in {"accept", "reject", "respond", "abort"} /\ u \in UpdateObject
  BY FirstEffect
<1>2. /\ u.state \in {"ProvisionallyAccepted", "ProvisionallyCompleted", "ProvisionallyAborted",
                      "ProvisionallyCompletedAfterAccepted"}
      /\ u.state \in Live
  BY <1>1 DEF Effective, Live
<1>3. reg[id] = n /\ StateInv(id, u.state)
  BY <1>2, FirstEffect
<1>4. db \in Run /\ SameUpdates(db, ms) /\ ObjectInv(db, open, id, u, <<>>)
  <2>1. TypeOK /\ StoreInv /\ FutureInv
    BY DEF Inv, TypeInv
  <2>2. sets[id][n] = <<>> /\ ObjectInv(db, open, id, u, sets[id][n])
    BY <1>1, <2>1 DEF Settled, FutureInv
  <2> QED BY <2>1, <2>2 DEF TypeOK, StoreInv
<1>5. "accepted" \in Value /\ "rejected" \in Value /\ e.value \in Value
  BY <1>1 DEF Value, EffectRecord
<1>6. Good(db, id, "accepted") /\ Good(db, id, "rejected")
  BY Kinds DEF Good, ClosingErrors
<1>7. CASE e.kind = "accept" /\ u.state = "ProvisionallyAccepted"
  <2>1. id \in open
    BY <1>1, <1>3, <1>4, <1>7 DEF StateInv, SameUpdates, Inv, StoreInv
  <2>2. Committed(e, u.state) = "Accepted" /\ CommitSets(e, u.state) = <<AcceptedSet("accepted")>>
    BY <1>7 DEF Committed, CommitSets, AcceptedSet
  <2>3. ObjectInv(db, open, id, [u EXCEPT !.state = "Accepted"], <<AcceptedSet("accepted")>>)
    BY <1>1, <1>2, <1>4, <2>1, AcceptObjectInv
  <2> DEFINE v == [u EXCEPT !.state = "Accepted"]
             s == <<AcceptedSet("accepted")>>
  <2>4. v = [u EXCEPT !.state = Committed(e, u.state)] /\ s = CommitSets(e, u.state)
    BY <2>2
  <2>5. ObjectInv(db, open, id, v, s)
    BY <2>3
  <2> HIDE DEF v, s
  <2> QED BY <1>2, <1>3, <2>4, <2>5
<1>8. CASE e.kind = "accept" /\ u.state # "ProvisionallyAccepted"
  <2> DEFINE v == [u EXCEPT !.state = "ProvisionallyCompletedAfterAccepted"]
  <2>1. Committed(e, u.state) = "ProvisionallyCompletedAfterAccepted" /\ CommitSets(e, u.state) = <<>>
    BY <1>8 DEF Committed, CommitSets
  <2>2. v.state \in Live /\ v.accepted = u.accepted /\ v.outcome = u.outcome
    BY <1>1 DEF UpdateObject, Live
  <2> HIDE DEF v
  <2>3. ObjectInv(db, open, id, v, <<>>)
    BY <1>2, <1>4, <2>2, LiveObjectInv
  <2> QED BY <1>2, <1>3, <2>1, <2>3 DEF v
\* The other effects give the update its outcome.
<1>9. ASSUME NEW state \in {"Completed", "Aborted"}, Committed(e, u.state) = state,
             NEW v \in Value, NEW w \in Value, v \notin {"accepted", "pending"},
             Good(db, id, v), Good(db, id, w), w = "accepted" => v \in Final,
             CommitSets(e, u.state) \in {<<OutcomeSet(v)>>, <<OutcomeSet(v), AcceptedSet(w)>>}
             \/ (CommitSets(e, u.state) = <<AcceptedSet(w), OutcomeSet(v)>> /\ w # "accepted")
      PROVE  ObjectInv(db, open, id, [u EXCEPT !.state = Committed(e, u.state)], CommitSets(e, u.state))
  <2>1. state \in States /\ state \notin Live \cup {"Unused"}
    BY DEF States, Live
  <2> QED BY <1>1, <1>2, <1>4, <1>9, <2>1, SettleObjectInv
<1>10. CASE e.kind = "reject"
  <2>1. e.value = "rejected"
    BY <1>1, <1>10 DEF InfoAgrees
  <2>2. CommitSets(e, u.state) = <<AcceptedSet("rejected"), OutcomeSet("rejected")>>
    BY <1>10, <2>1 DEF CommitSets, AcceptedSet, OutcomeSet
  <2>3. Committed(e, u.state) = "Completed"
    BY <1>10 DEF Committed
  <2> QED BY <1>2, <1>3, <1>5, <1>6, <1>9, <2>2, <2>3
<1>11. CASE e.kind = "respond"
  <2>1. e.value \in Outcome /\ db.info[id] = e.value
    BY <1>1, <1>4, <1>11 DEF InfoAgrees, SameUpdates
  <2>2. Good(db, id, e.value) /\ e.value \in Final /\ e.value \notin {"accepted", "pending"}
    BY <2>1, Kinds DEF Good, ClosingErrors, Final
  <2>3. CommitSets(e, u.state) \in {<<OutcomeSet(e.value)>>, <<OutcomeSet(e.value), AcceptedSet("accepted")>>}
    BY <1>11 DEF CommitSets, AcceptedSet, OutcomeSet
  <2>4. Committed(e, u.state) = "Completed"
    BY <1>11 DEF Committed
  <2> QED BY <1>2, <1>3, <1>5, <1>6, <1>9, <2>2, <2>3, <2>4
<1>12. CASE e.kind = "abort"
  <2>1. /\ ~db.running
        /\ \/ e.value = "failed" /\ db.info[id] = "accepted"
           \/ e.value \in ClosingErrors /\ db.info[id] \in Pending
    BY <1>1, <1>4, <1>12 DEF InfoAgrees, SameUpdates
  <2>2. Good(db, id, e.value) /\ e.value \notin {"accepted", "pending"}
    BY <2>1, Kinds DEF Good, ClosingErrors
  <2>3. Committed(e, u.state) = "Aborted"
    BY <1>12 DEF Committed
  <2>4. CASE u.state = "ProvisionallyCompletedAfterAccepted"
    <3>1. db.info[id] \in {"accepted"} \cup Outcome
      BY <1>3, <1>4, <2>4 DEF StateInv, SameUpdates
    <3>2. e.value \in Final
      BY <2>1, <3>1, Kinds DEF Final
    <3>3. CommitSets(e, u.state) = <<OutcomeSet(e.value), AcceptedSet("accepted")>>
      BY <1>12, <2>4 DEF CommitSets, AcceptedSet, OutcomeSet
    <3> QED BY <1>2, <1>3, <1>5, <1>6, <1>9, <2>2, <2>3, <3>2, <3>3
  <2>5. CASE u.state # "ProvisionallyCompletedAfterAccepted"
    <3>1. CommitSets(e, u.state) \in {<<OutcomeSet(e.value)>>, <<OutcomeSet(e.value), AcceptedSet(e.value)>>}
      BY <1>12, <2>5 DEF CommitSets, AcceptedSet, OutcomeSet
    <3> QED BY <1>2, <1>3, <1>5, <1>9, <2>2, <2>3, <3>1
  <2> QED BY <2>4, <2>5
<1> QED BY <1>1, <1>7, <1>8, <1>10, <1>11, <1>12

LEMMA ApplyEffectInv ==
  ASSUME Inv, ApplyEffect
  PROVE  LifeInv'
<1> SUFFICES ASSUME NEW e, e = Head(effects), NEW u, u = upd[e.id][e.n]
             PROVE  LifeInv'
  OBVIOUS
<1> DEFINE done == Effective(e, u.state) /\ e.kind \in {"reject", "respond"} /\ reg[e.id] = e.n
<1>1. /\ TypeOK /\ StoreInv /\ FutureInv /\ ToldInv /\ RollbackInv /\ CommitInv /\ RegisteredInv
      /\ upd \in Objects /\ sets \in SetQueues /\ reg \in [ID -> Object \cup {0}]
      /\ pc = "apply" /\ effects # <<>> /\ Settled /\ loaded
  BY DEF Inv, TypeInv, TypeOK, Unloaded, Objects, SetQueues, ApplyEffect
<1>2. /\ e \in EffectRecord /\ e.id \in ID /\ e.n \in Object /\ InfoAgrees(e, ms)
      /\ e.kind \in {"accept", "reject", "respond", "abort"} /\ u \in UpdateObject
      /\ \/ reg[e.id] = e.n /\ StateInv(e.id, u.state)
         \/ reg[e.id] = 0 /\ u.state \in {"Completed", "Unused"}
  BY <1>1, FirstEffect
<1>3. UNCHANGED <<db, ms, loaded, pc, task, call, told, open>> /\ effects' = Tail(effects)
  BY DEF ApplyEffect
<1>4. /\ upd' = IF Effective(e, u.state) THEN [upd EXCEPT ![e.id][e.n].state = Committed(e, u.state)] ELSE upd
      /\ sets' = IF Effective(e, u.state) THEN [sets EXCEPT ![e.id][e.n] = CommitSets(e, u.state)] ELSE sets
      /\ reg' = IF done THEN [reg EXCEPT ![e.id] = 0] ELSE reg
  BY DEF ApplyEffect
<1>5. /\ Len(effects) \in Nat \ {0} /\ Len(effects') = Len(effects) - 1
      /\ \A i \in 1..Len(effects') : effects'[i] = effects[i + 1] /\ i + 1 \in 1..Len(effects)
  BY <1>1, <1>3, HeadEffect
<1>6. Effective(e, u.state) =>
         /\ reg[e.id] = e.n /\ u.state \in Live
         /\ ObjectInv(db, open, e.id, [u EXCEPT !.state = Committed(e, u.state)], CommitSets(e, u.state))
  BY <1>1, CommittedObject
<1> HIDE DEF done
<1>7. ASSUME NEW id \in ID, NEW n \in Object
      PROVE  /\ \/ upd'[id][n] = upd[id][n] /\ sets'[id][n] = sets[id][n]
                \/ /\ Effective(e, u.state) /\ id = e.id /\ n = e.n
                   /\ upd'[id][n] = [u EXCEPT !.state = Committed(e, u.state)]
                   /\ sets'[id][n] = CommitSets(e, u.state)
             /\ id = e.id /\ n = e.n /\ Effective(e, u.state) => upd'[id][n].state = Committed(e, u.state)
  <2>1. CASE Effective(e, u.state) /\ id = e.id /\ n = e.n
    <3>1. upd'[id][n] = [u EXCEPT !.state = Committed(e, u.state)]
      BY <1>1, <1>2, <1>4, <2>1 DEF Objects
    <3>2. sets'[id][n] = CommitSets(e, u.state)
      BY <1>1, <1>2, <1>4, <2>1 DEF SetQueues
    <3> QED BY <1>2, <2>1, <3>1, <3>2 DEF UpdateObject
  <2>2. CASE ~(Effective(e, u.state) /\ id = e.id /\ n = e.n)
    <3>1. upd'[id][n] = upd[id][n]
      BY <1>1, <1>2, <1>4, <2>2 DEF Objects
    <3>2. sets'[id][n] = sets[id][n]
      BY <1>1, <1>2, <1>4, <2>2 DEF SetQueues
    <3> QED BY <2>2, <3>1, <3>2
  <2> QED BY <2>1, <2>2
<1>8. StoreInv'
  BY <1>1, <1>3 DEF StoreInv, SameUpdates
<1>9. FutureInv'
  <2>1. ASSUME NEW id \in ID, NEW n \in Object
        PROVE  ObjectInv(db', open', id, upd'[id][n], sets'[id][n])
    <3>1. ObjectInv(db, open, id, upd[id][n], sets[id][n])
      BY <1>1 DEF FutureInv
    <3> QED BY <1>3, <1>6, <1>7, <3>1
  <2> QED BY <2>1 DEF FutureInv
<1>10. ToldInv' /\ RollbackInv'
  BY <1>1, <1>3, <1>5 DEF ToldInv, RollbackInv
<1>11. CommitInv'
  <2>1. ASSUME NEW i \in 1..Len(effects')
        PROVE  Committable(effects[i])'
    <3> DEFINE d == effects[i + 1]
    <3>1. effects'[i] = d /\ Committable(d) /\ d.id \in ID /\ d.n \in Object
      BY <1>1, <1>5, EffectsType DEF CommitInv, EffectRecord
    <3> HIDE DEF d
    <3>2. InfoAgrees(d, ms') /\ pc' = "apply"
      BY <1>1, <1>3, <3>1 DEF Committable
    <3>3. \/ reg'[d.id] = d.n
          \/ reg'[d.id] = 0 /\ upd'[d.id][d.n].state \in {"Completed", "Unused"}
      <4>1. CASE reg[d.id] = d.n /\ ~(done /\ d.id = e.id)
        BY <1>1, <1>2, <1>4, <3>1, <4>1
      <4>2. CASE reg[d.id] = d.n /\ done /\ d.id = e.id
        <5>1. d.n = e.n /\ reg'[d.id] = 0 /\ Effective(e, u.state) /\ e.kind \in {"reject", "respond"}
          BY <1>1, <1>2, <1>4, <4>2 DEF done
        <5>2. upd'[d.id][d.n].state = Committed(e, u.state)
          BY <1>7, <3>1, <4>2, <5>1
        <5>3. Committed(e, u.state) = "Completed"
          BY <5>1 DEF Committed
        <5> QED BY <5>1, <5>2, <5>3
      <4>3. CASE reg[d.id] # d.n
        <5>1. reg[d.id] = 0 /\ upd[d.id][d.n].state \in {"Completed", "Unused"}
          BY <1>1, <3>1, <4>3 DEF Committable
        <5>2. reg'[d.id] = 0
          BY <1>1, <1>2, <1>4, <3>1, <5>1
        <5>3. upd'[d.id][d.n] = upd[d.id][d.n]
          <6>1. ~(Effective(e, u.state) /\ d.id = e.id /\ d.n = e.n)
            BY <1>6, <4>3
          <6> QED BY <1>7, <3>1, <6>1
        <5> QED BY <5>1, <5>2, <5>3
      <4> QED BY <4>1, <4>2, <4>3
    <3> QED BY <3>1, <3>2, <3>3 DEF Committable
  <2> QED BY <2>1 DEF CommitInv
<1>12. RegisteredInv'
  <2>1. ASSUME NEW id \in ID, NEW kinds, Remains(id, kinds), ~(e.id = id /\ e.kind \in kinds)
        PROVE  Remains(id, kinds)'
    BY <1>1, <1>3, <2>1, RemainsInTail
  <2>2. ASSUME NEW id \in ID, id # e.id, reg'[id] # 0 PROVE StateInv(id, Update(id).state)'
    <3>1. reg'[id] = reg[id] /\ reg[id] \in Object
      BY <1>1, <1>2, <1>4, <2>2
    <3>2. Update(id)' = Update(id) /\ StateInv(id, Update(id).state)
      <4>1. upd'[id][reg[id]] = upd[id][reg[id]]
        BY <1>7, <2>2, <3>1
      <4>2. reg[id] # 0 /\ pc = "apply" /\ RegisteredInv
        BY <1>1, <2>2, <3>1
      <4> QED BY <3>1, <4>1, <4>2 DEF Update, RegisteredInv
    <3>3. UNCHANGED <<ms, pc>> /\ \A kinds : Remains(id, kinds) => Remains(id, kinds)'
      <4>1. ASSUME NEW kinds, Remains(id, kinds) PROVE Remains(id, kinds)'
        BY <2>1, <2>2, <4>1
      <4> QED BY <1>3, <4>1
    <3>4. Update(id)'.state = Update(id).state
      BY <3>2
    <3> QED BY <3>2, <3>3, <3>4 DEF StateInv
  <2>3. ASSUME reg'[e.id] # 0 PROVE StateInv(e.id, Update(e.id).state)'
    <3>1. ~done /\ reg'[e.id] = reg[e.id] /\ reg[e.id] = e.n /\ StateInv(e.id, u.state)
      BY <1>1, <1>2, <1>4, <2>3
    <3>2. Update(e.id)' = upd'[e.id][e.n]
      BY <3>1 DEF Update
    <3>3. CASE ~Effective(e, u.state)
      <4>1. upd'[e.id][e.n] = u
        BY <1>2, <1>7, <3>3
      <4>2. StateInv(e.id, u.state)'
        BY <1>2, <1>3, <2>1, <3>1, <3>3 DEF StateInv, Effective
      <4> QED BY <3>2, <4>1, <4>2
    <3>7. Effective(e, u.state) => upd'[e.id][e.n].state = Committed(e, u.state)
      BY <1>2, <1>7
    <3>4. CASE Effective(e, u.state) /\ e.kind = "abort"
      <4>1. Committed(e, u.state) = "Aborted"
        BY <3>4 DEF Committed
      <4>2. Update(e.id)'.state = "Aborted"
        BY <3>2, <3>4, <3>7, <4>1
      <4> QED BY <4>2 DEF StateInv
    <3>5. CASE e.kind = "accept" /\ u.state = "ProvisionallyAccepted"
      <4>1. Update(e.id)'.state = "Accepted"
        BY <3>2, <3>5, <3>7 DEF Committed, Effective
      <4> QED BY <1>3, <3>1, <3>5, <4>1 DEF StateInv
    <3>6. CASE Effective(e, u.state) /\ e.kind = "accept" /\ u.state # "ProvisionallyAccepted"
      <4>0. Committed(e, u.state) = "ProvisionallyCompletedAfterAccepted"
        BY <3>6 DEF Committed
      <4>1. Update(e.id)'.state = "ProvisionallyCompletedAfterAccepted"
        BY <3>2, <3>6, <3>7, <4>0
      <4>2. ms.info[e.id] \in {"accepted"} \cup Outcome
        BY <1>2, <3>6 DEF InfoAgrees
      <4>3. u.state \in {"ProvisionallyCompleted", "ProvisionallyAborted"}
        BY <3>6 DEF Effective
      <4>4. Remains(e.id, {"respond", "abort"})
        <5>1. PICK i \in 1..Len(effects) :
                 effects[i].id = e.id /\ effects[i].kind \in {"reject", "respond", "abort"}
          BY <3>1, <4>3 DEF StateInv, Remains
        <5>2. effects[i].kind # "reject"
          <6>1. InfoAgrees(effects[i], ms)
            BY <1>1 DEF CommitInv, Committable
          <6> QED BY <4>2, <5>1, <6>1, Kinds DEF InfoAgrees
        <5> QED BY <5>1, <5>2 DEF Remains
      <4>5. Remains(e.id, {"respond", "abort"})'
        BY <1>2, <2>1, <3>6, <4>4
      <4> QED BY <1>1, <1>3, <4>1, <4>2, <4>5 DEF StateInv
    <3> QED BY <1>2, <3>1, <3>3, <3>4, <3>5, <3>6 DEF done
  <2> QED BY <2>2, <2>3 DEF RegisteredInv
<1> QED BY <1>8, <1>9, <1>10, <1>11, <1>12 DEF LifeInv


-----------------------------------------------------------------------------
(* The end of a workflow task                                              *)

LEMMA FinishTaskInv ==
  ASSUME Inv, FinishTask
  PROVE  LifeInv'
<1>1. /\ TypeOK /\ StoreInv /\ db \in Run /\ ms \in Run
      /\ pc = "apply" /\ effects = <<>> /\ Settled /\ SameUpdates(db, ms) /\ loaded
  BY DEF Inv, TypeInv, TypeOK, Unloaded, FinishTask, StoreInv
<1>2. pc' = "idle" /\ UNCHANGED <<effects, told, open>>
  BY DEF FinishTask
<1>3. SameUpdates(db, db) /\ Grows(db, db)
  BY DEF Grows, SameUpdates
<1>4. ASSUME ~ms.running, NEW reason \in {"WorkflowCompleted", "WorkflowContinuing"},
             upd' = AbortAll(upd, reason), sets' = AllAbortSets(upd, reason),
             UNCHANGED <<db, ms, registry, seen>>
      PROVE  LifeInv'
  <2>1. db' \in Run /\ Grows(db, db') /\ db'.info = db.info /\ ~db'.running /\ SameUpdates(db', ms')
    BY <1>1, <1>3, <1>4 DEF SameUpdates
  <2> QED BY <1>1, <1>2, <1>4, <2>1, CloseInv
<1>5. CASE UNCHANGED <<db, ms, registry, upd, sets, seen>>
  <2>1. db' \in Run /\ SameUpdates(db, db') /\ SameUpdates(db', ms')
    BY <1>1, <1>3, <1>5
  <2> QED BY <1>1, <1>2, <1>5, <2>1, SendInv
<1>6. CASE /\ ms' = IF task.next = "started" THEN ms ELSE [ms EXCEPT !.wft = "started", !.speculative = TRUE]
           /\ upd' = Sent(upd) /\ seen' = seen \cup Outgoing
           /\ UNCHANGED <<db, registry, sets>>
  <2>1. db' \in Run /\ SameUpdates(db, db') /\ SameUpdates(db', ms')
    BY <1>1, <1>3, <1>6 DEF SameUpdates, Run
  <2> QED BY <1>1, <1>2, <1>6, <2>1, SendInv
<1>7. CASE ClearTo(db)
  BY <1>1, <1>2, <1>7, ClearSameInv
<1> QED
  <2>1. (IF task.newRun THEN "WorkflowContinuing" ELSE "WorkflowCompleted") \in {"WorkflowCompleted", "WorkflowContinuing"}
    OBVIOUS
  <2> QED BY <2>1, <1>4, <1>5, <1>6, <1>7 DEF FinishTask

\* A rollback takes an update back to where it was.
LEMMA CancelEffectInv ==
  ASSUME Inv, CancelEffect
  PROVE  LifeInv'
<1> DEFINE e == effects[Len(effects)]
           from == CASE e.kind = "accept" -> "ProvisionallyAccepted"
                     [] e.kind = "abort"  -> "ProvisionallyAborted"
                     [] OTHER             -> "ProvisionallyCompleted"
<1>1. /\ TypeOK /\ StoreInv /\ FutureInv /\ ToldInv /\ RollbackInv /\ db \in Run /\ upd \in Objects
      /\ effects \in Seq(EffectRecord) /\ pc \in {"cancel", "fail"}
  BY DEF Inv, TypeInv, TypeOK, CancelEffect, Objects
<1>2. Len(effects) \in Nat \ {0}
  BY <1>1, EmptySeq DEF CancelEffect
<1>3. UNCHANGED <<db, ms, loaded, reg, pc, task, sets, told, open>>
  BY DEF CancelEffect
<1>4. e.id \in ID /\ e.n \in Object /\ e.prev \in Live /\ from \in Live
  <2>1. e \in EffectRecord
    BY <1>1, <1>2
  <2>2. e.prev \in Live
    BY <1>1, <1>2 DEF RollbackInv
  <2>3. from \in Live
    BY DEF Live
  <2> QED BY <2>1, <2>2, <2>3 DEF EffectRecord
<1>5. upd' = IF upd[e.id][e.n].state = from
             THEN [upd EXCEPT ![e.id][e.n].state = e.prev, ![e.id][e.n].event = @ /\ e.kind # "accept"]
             ELSE upd
  BY DEF CancelEffect
<1> HIDE DEF from
<1>6. StoreInv'
  BY <1>1, <1>3 DEF StoreInv, SameUpdates, Settled
<1>7. FutureInv'
  <2>1. ASSUME NEW i \in ID, NEW m \in Object
        PROVE  \/ upd'[i][m] = upd[i][m]
               \/ /\ upd[i][m].state \in Live /\ upd'[i][m].state \in Live
                  /\ upd'[i][m].accepted = upd[i][m].accepted /\ upd'[i][m].outcome = upd[i][m].outcome
    <3> HIDE DEF e
    <3>1. CASE upd[e.id][e.n].state = from /\ i = e.id /\ m = e.n
      <4>1. upd[i][m] \in UpdateObject
        BY <1>1 DEF Objects
      <4>2. upd'[i][m] = [upd[i][m] EXCEPT !.state = e.prev, !.event = @ /\ e.kind # "accept"]
        BY <1>1, <1>4, <1>5, <3>1 DEF Objects
      <4> QED BY <1>4, <3>1, <4>1, <4>2 DEF UpdateObject
    <3>2. CASE ~(upd[e.id][e.n].state = from /\ i = e.id /\ m = e.n)
      BY <1>1, <1>4, <1>5, <3>2 DEF Objects
    <3> QED BY <3>1, <3>2
  <2>2. Grows(db, db') /\ db' \in Run
    BY <1>1, <1>3 DEF Grows, SameUpdates
  <2> QED BY <1>1, <1>3, <2>1, <2>2, LiveFutures
<1>8. ToldInv'
  BY <1>1, <1>3 DEF ToldInv
<1>9. RollbackInv'
  <2>1. \A i \in 1..(Len(effects) - 1) : effects[i] \in EffectRecord
    BY <1>1, <1>2
  <2>2. effects' = SubSeq(effects, 1, Len(effects) - 1)
    BY DEF CancelEffect
  <2>3. ASSUME NEW k \in Nat, \A i \in 1..k : effects[i] \in EffectRecord
        PROVE  /\ Len(SubSeq(effects, 1, k)) = k
               /\ \A i \in 1..k : SubSeq(effects, 1, k)[i] = effects[i]
    <3>1. /\ Len(SubSeq(effects, 1, k)) = IF 1 <= k THEN k - 1 + 1 ELSE 0
          /\ \A i \in 1..(k - 1 + 1) : SubSeq(effects, 1, k)[i] = effects[1 + i - 1]
      <4>1. 1 \in Int /\ k \in Int
        OBVIOUS
      <4> QED BY <2>3, <4>1, SubSeqProperties
    <3> QED BY <3>1
  <2>4. Len(effects) - 1 \in Nat
    BY <1>2
  <2>5. /\ Len(effects') = Len(effects) - 1
        /\ \A i \in 1..(Len(effects) - 1) : effects'[i] = effects[i]
    BY <2>1, <2>2, <2>3, <2>4
  <2> QED BY <1>1, <1>2, <2>5 DEF RollbackInv
<1>10. CommitInv' /\ RegisteredInv'
  BY <1>1, <1>3 DEF CommitInv, RegisteredInv
<1> QED BY <1>6, <1>7, <1>8, <1>9, <1>10 DEF LifeInv

LEMMA ReturnErrorInv ==
  ASSUME Inv, ReturnError
  PROVE  LifeInv'
<1>1. /\ TypeOK /\ StoreInv /\ FutureInv /\ ToldInv /\ Unloaded /\ pc = "cancel" /\ effects = <<>> /\ Settled
  BY DEF Inv, TypeInv, ReturnError
<1>2. pc' = "idle" /\ UNCHANGED <<effects, told, open>>
  BY DEF ReturnError
<1>3. CASE loaded
  <2>1. ClearTo(db)
    BY <1>3 DEF ReturnError
  <2> QED BY <1>1, <1>2, <2>1, ClearSameInv
<1>4. CASE ~loaded
  <2>1. UNCHANGED <<db, ms, registry, upd, sets>> /\ ms = db
    BY <1>1, <1>4 DEF ReturnError, StoreInv
  <2>2. StoreInv' /\ FutureInv' /\ ToldInv'
    BY <1>1, <1>2, <2>1 DEF StoreInv, FutureInv, ToldInv, SameUpdates
  <2>3. \A id \in ID : reg'[id] = 0
    BY <1>1, <1>4, <2>1 DEF Unloaded
  <2>4. RollbackInv' /\ CommitInv' /\ RegisteredInv'
    BY <1>1, <1>2, <2>3, NoEffectsInv
  <2> QED BY <2>2, <2>4 DEF LifeInv
<1> QED BY <1>3, <1>4


\* The task is failed: registered updates are aborted for it, or else because the registry goes.
LEMMA FailedObject ==
  ASSUME NEW run \in Run, NEW left, NEW id \in ID, NEW u \in UpdateObject, ObjectInv(run, left, id, u, <<>>)
  PROVE  LET a == Aborted(u, "WorkflowTaskFailed")
         IN  ObjectInv(run, left, id, Aborted(a, "RegistryCleared"),
                       AbortSets(u, "WorkflowTaskFailed") \o AbortSets(a, "RegistryCleared"))
<1> DEFINE a == Aborted(u, "WorkflowTaskFailed")
           first == AbortSets(u, "WorkflowTaskFailed")
           second == AbortSets(a, "RegistryCleared")
<1>1. u.state \in States /\ "WorkflowTaskFailed" \in Reasons /\ "RegistryCleared" \in Reasons
  BY DEF UpdateObject, Reasons
<1>2. ObjectInv(run, left, id, a, first)
  BY <1>1, ClearedIsGood, AbortObjectInv
<1>3. a \in UpdateObject /\ first \in Seq(SetRecord)
  BY <1>1, AbortType
<1>4. second \in Seq(SetRecord)
  BY <1>1, <1>3, AbortType
<1>5. CASE FailureError("WorkflowTaskFailed", u.state) = "none"
  <2>1. a = u /\ first = <<>>
    BY <1>5 DEF Aborted, AbortSets
  <2>2. ObjectInv(run, left, id, Aborted(a, "RegistryCleared"), second)
    BY <1>1, <2>1, ClearedIsGood, AbortObjectInv
  <2> HIDE DEF second, first, a
  <2>3. first \o second = second
    BY <1>4, <2>1, ConcatEmptySeq
  <2> QED BY <2>2, <2>3 DEF second, first, a
<1>6. CASE FailureError("WorkflowTaskFailed", u.state) # "none"
  <2>1. a.state = "Aborted"
    BY <1>6 DEF Aborted, UpdateObject
  <2>2. Aborted(a, "RegistryCleared") = a /\ second = <<>>
    BY <2>1 DEF Aborted, AbortSets, FailureError
  <2> HIDE DEF second, first, a
  <2>3. first \o second = first
    BY <1>3, <2>2, ConcatEmptySeq
  <2> QED BY <1>2, <2>2, <2>3 DEF second, first, a
<1> QED BY <1>5, <1>6

LEMMA FailWorkflowTaskInv ==
  ASSUME Inv, FailWorkflowTask
  PROVE  LifeInv'
<1> DEFINE aborted == AbortAll(upd, "WorkflowTaskFailed")
           first == AllAbortSets(upd, "WorkflowTaskFailed")
           second == AllAbortSets(aborted, "RegistryCleared")
           both == [id \in ID |-> [n \in Object |-> first[id][n] \o second[id][n]]]
           final == AbortAll(aborted, "RegistryCleared")
<1>1. /\ TypeOK /\ StoreInv /\ FutureInv /\ ToldInv /\ db \in Run /\ pc = "fail" /\ effects = <<>>
      /\ Settled /\ db.running
  BY DEF Inv, TypeInv, TypeOK, FailWorkflowTask, StoreInv
<1>2. PICK store \in {db, [db EXCEPT !.wft = "scheduled"], [db EXCEPT !.running = FALSE, !.wft = "none"]} :
         db' = store /\ ms' = store /\ open' = Opened(store)
  BY DEF FailWorkflowTask
<1>3. store \in Run /\ Grows(db, store)
  <2>1. store \in Run /\ store.info = db.info
    BY <1>1, <1>2 DEF Run
  <2> QED BY <1>1, <2>1 DEF Grows, Progress
<1>4. /\ open \subseteq open'
      /\ \A id \in ID : db'.running /\ db'.info[id] = "accepted" => id \in open'
      /\ \A id \in open' : db'.info[id] \in {"accepted"} \cup Outcome
  BY <1>1, <1>2, <1>3, WriteStore
<1>5. pc' = "idle" /\ UNCHANGED <<effects, told>> /\ loaded' = FALSE /\ reg' = [id \in ID |-> 0]
  BY DEF FailWorkflowTask
<1>6. StoreInv'
  BY <1>1, <1>2, <1>4, <1>5 DEF StoreInv, SameUpdates
<1>7. FutureInv'
  <2>1. ASSUME NEW id \in ID, NEW n \in Object
        PROVE  ObjectInv(store, open', id, final[id][n], both[id][n])
    <3>1. upd[id][n] \in UpdateObject /\ ObjectInv(store, open', id, upd[id][n], <<>>)
      <4>1. upd[id][n] \in UpdateObject /\ ObjectInv(store, open', id, upd[id][n], sets[id][n])
        BY <1>1, <1>3, <1>4, LaterObjects
      <4> QED BY <1>1, <4>1 DEF Settled
    <3>2. CASE reg[id] = n
      <4>1. aborted[id][n] = Aborted(upd[id][n], "WorkflowTaskFailed")
        BY <3>2 DEF AbortAll
      <4>2. final[id][n] = Aborted(aborted[id][n], "RegistryCleared")
        BY <3>2 DEF AbortAll
      <4>3. /\ first[id][n] = AbortSets(upd[id][n], "WorkflowTaskFailed")
            /\ second[id][n] = AbortSets(aborted[id][n], "RegistryCleared")
        BY <3>2 DEF AllAbortSets
      <4> HIDE DEF aborted, final, first, second
      <4> QED BY <1>3, <3>1, <4>1, <4>2, <4>3, FailedObject
    <3>3. CASE reg[id] # n
      <4>1. final[id][n] = upd[id][n]
        BY <3>3 DEF AbortAll
      <4>2. first[id][n] = <<>> /\ second[id][n] = <<>>
        BY <3>3 DEF AllAbortSets
      <4> HIDE DEF final, first, second
      <4>3. both[id][n] = <<>>
        <5>1. <<>> \o <<>> = <<>>
          OBVIOUS
        <5> QED BY <4>2, <5>1
      <4> QED BY <3>1, <4>1, <4>3
    <3> QED BY <3>2, <3>3
  <2> HIDE DEF final, both
  <2>2. upd' = Remaining(final) /\ sets' = RemainingSets(both)
    BY DEF FailWorkflowTask, final, both
  <2>3. ASSUME NEW id \in ID, NEW n \in Object
        PROVE  ObjectInv(db', open', id, upd'[id][n], sets'[id][n])
    <3>1. CASE Waiting(id, n)
      <4>1. upd'[id][n] = final[id][n] /\ sets'[id][n] = both[id][n]
        BY <2>2, <3>1 DEF Remaining, RemainingSets
      <4> QED BY <1>2, <2>1, <4>1
    <3>2. CASE ~Waiting(id, n)
      <4>1. upd'[id][n] = Unused /\ sets'[id][n] = <<>>
        BY <2>2, <3>2 DEF Remaining, RemainingSets
      <4> QED BY <1>2, <1>3, <4>1, UnusedInv
    <3> QED BY <3>1, <3>2
  <2> QED BY <2>3 DEF FutureInv
<1>8. ToldInv'
  BY <1>1, <1>2, <1>3, <1>4, <1>5, ToldGrows
<1>9. RollbackInv' /\ CommitInv' /\ RegisteredInv'
  BY <1>1, <1>5, NoEffectsInv
<1> QED BY <1>6, <1>7, <1>8, <1>9 DEF LifeInv

-----------------------------------------------------------------------------
(* The invariant holds                                                     *)

LEMMA LifeInit == Init => Inv
<1> SUFFICES ASSUME Init PROVE Inv
  OBVIOUS
<1>1. TypeInv /\ db \in Run
  BY TypeInit, UnloadedInit DEF TypeInv, TypeOK
<1>2. /\ ms = db /\ pc = "idle" /\ effects = <<>> /\ open = {} /\ ~loaded
      /\ \A id \in ID : told[id] = {} /\ reg[id] = 0 /\ db.info[id] \in {"none", "admitted"}
  BY DEF Init
<1>3. Len(effects) = 0
  BY <1>2, EmptySeq
<1>4. StoreInv
  BY <1>2, Kinds DEF StoreInv, SameUpdates
<1>5. FutureInv
  <2>1. \A id \in ID : \A n \in Object : upd[id][n] = Unused /\ sets[id][n] = <<>>
    BY DEF Init
  <2> QED BY <1>1, <2>1, UnusedInv DEF FutureInv
<1>6. ToldInv
  BY <1>2 DEF ToldInv
<1>7. RollbackInv /\ CommitInv
  BY <1>3 DEF RollbackInv, CommitInv
<1>8. RegisteredInv
  BY <1>2 DEF RegisteredInv
<1> QED BY <1>1, <1>4, <1>5, <1>6, <1>7, <1>8 DEF Inv

\* One case for every action; a worker that breaks its discipline is not among the faults.
LEMMA LifeNext ==
  ASSUME "worker" \notin Faults, Inv, [Next]_vars
  PROVE  Inv'
<1>1. TypeInv' /\ TypeOK'
  BY TypeNext DEF Inv, TypeInv
<1> SUFFICES LifeInv'
  BY <1>1 DEF Inv, LifeInv
<1>2. CASE UNCHANGED vars
  <2>1. UNCHANGED <<db, ms, loaded, reg, upd, pc, task, effects, sets, told, open>>
    BY <1>2 DEF vars
  <2>2. StoreInv' /\ FutureInv' /\ ToldInv'
    BY <2>1 DEF Inv, StoreInv, FutureInv, ToldInv, Settled, SameUpdates
  <2>3. RollbackInv' /\ CommitInv' /\ RegisteredInv'
    BY <2>1, QuietInv DEF Inv, TypeInv
  <2> QED BY <2>2, <2>3 DEF LifeInv
<1>3. CASE ClientStep
  BY <1>3, WaitInv, RequestInv DEF ClientStep
<1>4. CASE WorkerStep
  <2>1. CASE \E discard \in BOOLEAN : RespondWorkflowTaskCompleted(discard)
    BY <2>1, RespondInv
  <2>2. ASSUME NEW id \in ID, HandleMessage(id, "accept", "none") \/ HandleMessage(id, "reject", "none")
        PROVE  LifeInv'
    BY <2>2, HandleMessageInv
  <2>3. ASSUME NEW id \in ID, NEW o \in Outcome, HandleMessage(id, "respond", o)
        PROVE  LifeInv'
    BY <2>3, HandleMessageInv
  <2>4. CASE HandleBadCommand \/ \E newRun \in BOOLEAN : HandleCloseCommand(newRun)
    BY <2>4, CommandInv
  <2>5. CASE \E heartbeat, buffered, bypass \in BOOLEAN : FinishMessages(heartbeat, buffered, bypass)
    BY <2>5, FinishMessagesInv
  <2> QED BY <1>4, <2>1, <2>2, <2>3, <2>4, <2>5 DEF WorkerStep
<1>5. CASE HandlerStep
  BY <1>1, <1>5, PersistInv, ApplyEffectInv, FinishTaskInv, CancelEffectInv, ReturnErrorInv,
     FailWorkflowTaskInv, SetFutureStep DEF HandlerStep
<1>6. CASE ServerStep
  <2>1. CASE ClearContext
    <3>1. Settled /\ ClearTo(db) /\ UNCHANGED <<effects, told, open>> /\ pc' = "idle" /\ effects = <<>>
      BY <2>1 DEF ClearContext, Idle, Inv, StoreInv
    <3> QED BY <3>1, ClearSameInv
  <2> QED BY <1>6, <2>1, LoadInv, CrashInv, WorkflowTaskInv DEF ServerStep
<1> QED BY <1>2, <1>3, <1>4, <1>5, <1>6 DEF Next

LEMMA ToldIsGood == Inv => ToldIsDurable
<1> SUFFICES ASSUME Inv, NEW id \in ID, NEW answer \in told[id]
             PROVE  /\ answer = "accepted" => id \in open /\ db.info[id] \in {"accepted"} \cup Outcome
                    /\ answer \in Outcome => db.info[id] = answer
                    /\ answer = "failed" => db.info[id] = "accepted" /\ ~db.running
                    /\ answer \in Errors => db.info[id] \in {"none", "admitted"} /\ ~db.running
  BY DEF ToldIsDurable
<1>1. /\ Good(db, id, answer) /\ (answer = "accepted" => id \in open)
      /\ answer \notin {"registryClearedErr", "workflowTaskFailErr"}
  BY DEF Inv, ToldInv
<1>2. \A i \in open : db.info[i] \in {"accepted"} \cup Outcome
  BY DEF Inv, StoreInv
<1> QED BY <1>1, <1>2 DEF Good, ClosingErrors, Pending, Errors

LEMMA LifeCorrect ==
  ASSUME "worker" \notin Faults
  PROVE  Spec => []Inv
<1>1. Inv /\ [Next]_vars => Inv'
  BY LifeNext
<1> QED BY <1>1, LifeInit, PTL DEF Spec

\* What the callers of updates are told is what the store says, whatever writes fail, hosts crash,
\* contexts are evicted and tasks time out, for any number of updates, callers and objects: as long
\* as the worker sends no second message for an update after it has closed the run.
THEOREM Durable ==
  ASSUME "worker" \notin Faults
  PROVE  Spec => []ToldIsDurable
  BY LifeCorrect, ToldIsGood, PTL


-----------------------------------------------------------------------------
(* The refinement                                                          *)

LEMMA LifecycleInit == Init => Lifecycle!Init
<1> SUFFICES ASSUME Init PROVE Lifecycle!Init
  OBVIOUS
<1>1. db.running = TRUE /\ db.info \in [ID -> {"none", "admitted"}]
  BY DEF Init
<1>2. open = {} /\ told = [id \in ID |-> {}]
  BY DEF Init
<1> QED BY <1>1, <1>2 DEF Lifecycle!Init, Lifecycle!Pending

\* A step that the callers and the store do not see.
LEMMA Unseen ==
  ASSUME UNCHANGED <<db, open, told>>
  PROVE  [Lifecycle!Next]_Lifecycle!vars
  BY DEF Lifecycle!vars

\* A write of a run that has grown, or that differs only in its workflow task.
LEMMA WriteStep ==
  ASSUME Inv, NEW store \in Run, Grows(db, store), db' = store, open' = Opened(store), UNCHANGED told
  PROVE  [Lifecycle!Next]_Lifecycle!vars
<1>1. StoreInv
  BY DEF Inv
<1>2. CASE SameUpdates(db, store)
  <2>1. Opened(store) = open
    BY <1>1, <1>2, OpenedSame DEF Opened, SameUpdates
  <2> QED BY <1>2, <2>1 DEF SameUpdates, Lifecycle!vars
<1>3. CASE db.running /\ \A id \in ID : Progress(db.info[id], store.info[id])
  <2>1. db'.running \in BOOLEAN /\ db'.info \in [ID -> Lifecycle!Stage]
    BY DEF Run, Info, Lifecycle!Stage, Lifecycle!Pending
  <2>2. \A id \in ID : Lifecycle!Progress(db.info[id], db'.info[id])
    BY <1>3 DEF Progress, Pending, Lifecycle!Progress, Lifecycle!Pending
  <2>3. open' = IF db'.running THEN open \cup {id \in ID : db'.info[id] = "accepted"} ELSE open
    BY DEF Opened, Run
  <2>4. Lifecycle!Write
    BY <1>3, <2>1, <2>2, <2>3 DEF Lifecycle!Write
  <2> QED BY <2>4 DEF Lifecycle!Next
<1> QED BY <1>2, <1>3 DEF Grows

LEMMA WriteFailedStep ==
  ASSUME Inv, NEW m \in Run, Grows(db, m), WriteFailed(m), UNCHANGED told
  PROVE  [Lifecycle!Next]_Lifecycle!vars
<1>1. PICK store \in {db, m} : ClearTo(store) /\ open' = Opened(store)
  BY DEF WriteFailed
<1>2. store \in Run /\ Grows(db, store) /\ db' = store
  BY <1>1 DEF Inv, TypeInv, TypeOK, Grows, SameUpdates, ClearTo
<1> QED BY <1>1, <1>2, WriteStep

\* An answer that the store stands by.
LEMMA AnswerStep ==
  ASSUME NEW id \in ID, NEW answer \in Value \ {"pending", "rejected", "registryClearedErr", "workflowTaskFailErr"},
         Good(db, id, answer), answer = "accepted" => id \in open,
         told' = [told EXCEPT ![id] = @ \cup {answer}], UNCHANGED <<db, open>>
  PROVE  [Lifecycle!Next]_Lifecycle!vars
<1>1. answer \in {"accepted", "failed"} \cup Outcome \cup ClosingErrors
  BY DEF Value, Errors, ClosingErrors
<1>2. Lifecycle!Justified(id, answer)
  BY <1>1 DEF Good, ClosingErrors, Pending, Lifecycle!Justified, Lifecycle!ClosingErrors, Lifecycle!Pending
<1>3. answer \in Lifecycle!Answers
  BY <1>1 DEF ClosingErrors, Lifecycle!Answers, Lifecycle!ClosingErrors
<1>4. Lifecycle!Answer(id, answer)
  BY <1>2 DEF Lifecycle!Answer
<1> QED BY <1>3, <1>4 DEF Lifecycle!Next

LEMMA ClientSteps ==
  ASSUME Inv, Inv', ClientStep
  PROVE  [Lifecycle!Next]_Lifecycle!vars
<1>1. TypeOK /\ TypeOK' /\ StoreInv /\ FutureInv
  BY DEF Inv, TypeInv
<1>2. ASSUME NEW c \in Client,
             WaitLifecycleStage(c) \/ OutcomeReady(c) \/ AcceptedReady(c) \/ WaitTimedOut(c)
      PROVE  [Lifecycle!Next]_Lifecycle!vars
  <2>1. CASE \E where \in {"outcome", "accepted"} : Goto(c, where)
    BY <2>1, Unseen DEF Goto
  <2>2. ASSUME NEW answer, Return(c, answer), call[c].pc # "idle",
               answer # "admitted" => Good(db, call[c].id, answer) /\ (answer = "accepted" => call[c].id \in open)
        PROVE  [Lifecycle!Next]_Lifecycle!vars
    <3>1. UNCHANGED <<db, open>>
      BY <2>2 DEF Return
    <3>2. CASE answer \in {"registryClearedErr", "workflowTaskFailErr", "admitted", "rejected"}
      BY <2>2, <3>1, <3>2, Unseen DEF Return
    <3>3. CASE answer \notin {"registryClearedErr", "workflowTaskFailErr", "admitted", "rejected"}
      <4>1. told' = [told EXCEPT ![call[c].id] = @ \cup {answer}] /\ call[c].id \in ID
        BY <1>1, <2>2, <3>3, AwaitedType DEF Return
      <4>2. answer \in Value \ {"pending"}
        BY <1>1, <4>1 DEF TypeOK
      <4> QED BY <2>2, <3>1, <3>3, <4>1, <4>2, AnswerStep
    <3> QED BY <3>2, <3>3
  <2> QED BY <1>1, <1>2, <2>1, <2>2, WaitAnswers
<1>3. ASSUME NEW c \in Client, NEW id \in ID, NEW stage \in Stages,
             UpdateWorkflowExecution(c, id, stage) \/ PollWorkflowExecutionUpdate(c, id, stage)
      PROVE  [Lifecycle!Next]_Lifecycle!vars
  <2>1. CASE UNCHANGED <<db, open, told>>
    BY <2>1, Unseen
  <2>2. CASE ms.info[id] \in Outcome /\ AnswerFromStore(id)
    <3>1. pc = "idle"
      BY <1>3 DEF UpdateWorkflowExecution, PollWorkflowExecutionUpdate, Idle
    <3> DEFINE a == ms.info[id]
    <3>2. a = db.info[id] /\ a \in Outcome
      BY <1>1, <2>2, <3>1 DEF StoreInv, SameUpdates
    <3>3. UNCHANGED <<db, open>> /\ told' = [told EXCEPT ![id] = @ \cup {a}]
      BY <2>2 DEF AnswerFromStore
    <3> HIDE DEF a
    <3>4. /\ Good(db, id, a) /\ a # "accepted"
          /\ a \in Value \ {"pending", "rejected", "registryClearedErr", "workflowTaskFailErr"}
      BY <3>2, Kinds DEF Good, ClosingErrors, Value
    <3> QED BY <3>3, <3>4, AnswerStep
  <2>3. CASE ClearTo(db) /\ UNCHANGED <<handler, call, seen, history>>
    BY <2>3, Unseen DEF ClearTo
  <2> QED
    BY <1>3, <2>1, <2>2, <2>3 DEF UpdateWorkflowExecution, PollWorkflowExecutionUpdate
<1> QED BY <1>2, <1>3 DEF ClientStep

LEMMA WorkerSteps ==
  ASSUME WorkerStep
  PROVE  [Lifecycle!Next]_Lifecycle!vars
<1>1. ASSUME NEW id \in ID, NEW kind, NEW value, HandleMessage(id, kind, value)
      PROVE  UNCHANGED <<db, open, told>>
  BY <1>1 DEF HandleMessage
<1>2. ASSUME NEW heartbeat, NEW buffered, NEW bypass, FinishMessages(heartbeat, buffered, bypass)
      PROVE  UNCHANGED <<db, open, told>>
  BY <1>2, Zenon DEF FinishMessages
<1>3. ASSUME NEW discard, RespondWorkflowTaskCompleted(discard)
      PROVE  UNCHANGED <<db, open, told>>
  BY <1>3 DEF RespondWorkflowTaskCompleted
<1>4. ASSUME NEW newRun, HandleCloseCommand(newRun) \/ HandleBadCommand
      PROVE  UNCHANGED <<db, open, told>>
  BY <1>4 DEF HandleCloseCommand, HandleBadCommand
<1>5. UNCHANGED <<db, open, told>>
  BY <1>1, <1>2, <1>3, <1>4, Zenon DEF WorkerStep
<1> QED BY <1>5, Unseen

LEMMA HandlerSteps ==
  ASSUME Inv, HandlerStep
  PROVE  [Lifecycle!Next]_Lifecycle!vars
<1>1. TypeOK /\ StoreInv /\ db \in Run /\ ms \in Run
  BY DEF Inv, TypeInv, TypeOK
<1>2. CASE Persist
  <2>1. Grows(db, ms) /\ UNCHANGED told
    BY <1>1, <1>2 DEF Persist, StoreInv, Grows
  <2>2. CASE WriteOK(ms)
    BY <1>1, <2>1, <2>2, WriteStep DEF WriteOK
  <2>3. CASE WriteFailed(ms)
    BY <1>1, <2>1, <2>3, WriteFailedStep
  <2> QED BY <1>2, <2>2, <2>3 DEF Persist
<1>3. CASE ApplyEffect \/ CancelEffect \/ \E id \in ID, n \in Object : SetFuture(id, n)
  BY <1>3, Unseen DEF ApplyEffect, CancelEffect, SetFuture
<1>4. CASE FinishTask \/ ReturnError
  BY <1>4, Unseen DEF FinishTask, ReturnError, ClearTo
<1>5. CASE FailWorkflowTask
  <2>1. db.running /\ UNCHANGED told
    BY <1>1, <1>5 DEF StoreInv, FailWorkflowTask
  <2>2. PICK store \in {db, [db EXCEPT !.wft = "scheduled"], [db EXCEPT !.running = FALSE, !.wft = "none"]} :
           db' = store /\ open' = Opened(store)
    BY <1>5 DEF FailWorkflowTask
  <2>3. store \in Run /\ store.info = db.info
    BY <1>1, <2>2 DEF Run
  <2>4. Grows(db, store)
    BY <2>1, <2>3 DEF Grows, Progress
  <2> QED BY <2>1, <2>2, <2>3, <2>4, WriteStep
<1> QED BY <1>2, <1>3, <1>4, <1>5 DEF HandlerStep

LEMMA ServerSteps ==
  ASSUME Inv, ServerStep
  PROVE  [Lifecycle!Next]_Lifecycle!vars
<1>1. TypeOK /\ StoreInv /\ db \in Run /\ ms \in Run
  BY DEF Inv, TypeInv, TypeOK
<1>2. CASE LoadContext \/ ClearContext \/ Crash
  BY <1>2, Unseen DEF LoadContext, ClearContext, Crash, ClearTo
<1>3. ASSUME NEW m \in Run, Grows(db, m), UNCHANGED told, WriteOK(m) \/ WriteFailed(m)
      PROVE  [Lifecycle!Next]_Lifecycle!vars
  BY <1>3, WriteStep, WriteFailedStep DEF WriteOK
<1>4. CASE RecordWorkflowTaskStarted
  <2> DEFINE m == [ms EXCEPT !.wft = "started"]
  <2>1. m \in Run /\ Grows(db, m)
    <3>1. SameUpdates(db, ms)
      BY <1>1, <1>4 DEF RecordWorkflowTaskStarted, Idle, StoreInv
    <3>2. m \in Run /\ m.running = ms.running /\ m.info = ms.info
      BY <1>1 DEF Run
    <3> QED BY <3>1, <3>2 DEF Grows, SameUpdates
  <2>2. \/ UNCHANGED <<db, history>> \/ (ClearTo(db) /\ UNCHANGED history)
        \/ UNCHANGED told /\ (WriteOK(m) \/ WriteFailed(m))
    BY <1>4, Zenon DEF RecordWorkflowTaskStarted
  <2> HIDE DEF m
  <2>3. CASE UNCHANGED <<db, history>> \/ (ClearTo(db) /\ UNCHANGED history)
    BY <2>3, Unseen DEF ClearTo
  <2> QED BY <1>3, <2>1, <2>2, <2>3
<1>5. CASE WorkflowTaskTimedOut
  <2> DEFINE m == [ms EXCEPT !.wft = "scheduled", !.speculative = FALSE]
  <2>1. m \in Run /\ Grows(db, m)
    <3>1. SameUpdates(db, ms)
      BY <1>1, <1>5 DEF WorkflowTaskTimedOut, Idle, StoreInv
    <3>2. m \in Run /\ m.running = ms.running /\ m.info = ms.info
      BY <1>1 DEF Run
    <3> QED BY <3>1, <3>2 DEF Grows, SameUpdates
  <2>2. UNCHANGED told /\ (WriteOK(m) \/ WriteFailed(m))
    BY <1>5 DEF WorkflowTaskTimedOut
  <2> HIDE DEF m
  <2> QED BY <1>3, <2>1, <2>2
<1>6. ASSUME NEW reason \in {"WorkflowCompleted", "WorkflowContinuing"}, CloseWorkflow(reason)
      PROVE  [Lifecycle!Next]_Lifecycle!vars
  <2> DEFINE m == [ms EXCEPT !.running = FALSE, !.wft = "none", !.speculative = FALSE]
  <2>1. db.running /\ db.info = ms.info
    BY <1>1, <1>6 DEF CloseWorkflow, Idle, StoreInv, SameUpdates
  <2>2. m \in Run /\ m.info = db.info
    BY <1>1, <2>1 DEF Run
  <2>3. UNCHANGED told /\ (WriteOK(m) \/ WriteFailed(m))
    BY <1>6 DEF CloseWorkflow
  <2> HIDE DEF m
  <2>4. Grows(db, m)
    BY <2>1, <2>2 DEF Grows, Progress
  <2> QED BY <1>3, <2>2, <2>3, <2>4
<1> QED BY <1>2, <1>4, <1>5, <1>6 DEF ServerStep

\* The handlers, registries, futures, effects and clients of WorkflowUpdates are an implementation of
\* UpdateLifecycle: every write moves the stored updates as it allows, every answer is one that it
\* allows, and nothing else is seen, whatever fails.
THEOREM Refinement ==
  ASSUME "worker" \notin Faults
  PROVE  Spec => Implements
<1>1. Inv /\ Inv' /\ [Next]_vars => [Lifecycle!Next]_Lifecycle!vars
  <2> SUFFICES ASSUME Inv, Inv', [Next]_vars PROVE [Lifecycle!Next]_Lifecycle!vars
    OBVIOUS
  <2>1. CASE UNCHANGED vars
    BY <2>1, Unseen DEF vars
  <2> QED BY <2>1, ClientSteps, WorkerSteps, HandlerSteps, ServerSteps DEF Next
<1> QED BY <1>1, LifeCorrect, LifecycleInit, PTL DEF Spec, Implements, Lifecycle!Spec

=============================================================================
