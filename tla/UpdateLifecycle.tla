--------------------------- MODULE UpdateLifecycle ---------------------------
(***************************************************************************)
(* What the updates of a workflow run promise to their callers: the store  *)
(* moves each update forward only, at the pace of one write per workflow   *)
(* task, and every answer that says something of an update's stage or      *)
(* outcome is one that the store will always stand by.  A rejection leaves *)
(* no trace, and an abort that may be retried says nothing: the update may *)
(* be requested again.                                                     *)
(*                                                                         *)
(* Registries, futures, effects and provisional states do not appear here: *)
(* WorkflowUpdates implements this specification with them.                *)
(***************************************************************************)
CONSTANTS
    ID,         \* update IDs
    Outcome     \* outcomes that a worker may give an update

VARIABLES
    running,    \* is the run open?
    info,       \* the durable stage of every update, its outcome once it is completed
    open,       \* updates that were durably accepted while the run was open
    told        \* answers given to the callers of each update

vars == <<running, info, open, told>>

Pending == {"none", "admitted"}
Stage == Pending \cup {"accepted"} \cup Outcome
ClosingErrors == {"AbortedByWorkflowClosingErr", "ErrWorkflowClosing"}
Answers == {"accepted", "failed"} \cup Outcome \cup ClosingErrors

Init ==
    /\ running = TRUE
    /\ info \in [ID -> Pending]
    /\ open = {}
    /\ told = [id \in ID |-> {}]

Progress(before, after) ==
    \/ after = before
    \/ before \in Pending /\ after \in {"accepted"} \cup Outcome
    \/ before = "accepted" /\ after \in Outcome

Write ==
    /\ running
    /\ running' \in BOOLEAN
    /\ info' \in [ID -> Stage]
    /\ \A id \in ID : Progress(info[id], info'[id])
    /\ open' = IF running' THEN open \cup {id \in ID : info'[id] = "accepted"} ELSE open
    /\ UNCHANGED told

\* A caller that asked for the stage ACCEPTED hears "accepted" only if the update was left open:
\* what is accepted and completed, or accepted and cut off, by one task is answered by its outcome.
Justified(id, answer) ==
    \/ answer = "accepted" /\ id \in open
    \/ answer \in Outcome /\ info[id] = answer
    \/ answer = "failed" /\ ~running /\ info[id] = "accepted"
    \/ answer \in ClosingErrors /\ ~running /\ info[id] \in Pending

Answer(id, answer) ==
    /\ Justified(id, answer)
    /\ told' = [told EXCEPT ![id] = @ \cup {answer}]
    /\ UNCHANGED <<running, info, open>>

Next == Write \/ \E id \in ID : \E answer \in Answers : Answer(id, answer)
Spec == Init /\ [][Next]_vars

=============================================================================
