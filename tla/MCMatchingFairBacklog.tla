------------------------ MODULE MCMatchingFairBacklog ------------------------
(***************************************************************************)
(* Instances of MatchingFairBacklog for TLC.                               *)
(***************************************************************************)
EXTENDS MatchingFairBacklog

\* Tasks are written below others, by keys of different weight, and no task fails to start; or
\* every task has the pass of the others, and anything goes wrong.
KeysOrFaults ==
    {[passes |-> {1, 2}, faults |-> {"write", "read", "takeover"}],
     [passes |-> {1}, faults |-> Faults]}

\* Nothing goes wrong.
OnePass == {[passes |-> {1}, faults |-> {}]}

\* A task fails to start, or a deletion comes late, and tasks are written below others.
KeysAndRespool == {[passes |-> {1, 2}, faults |-> {"respool"}]}
KeysAndLate == {[passes |-> {1, 2}, faults |-> {"takeover", "late"}]}
=============================================================================
