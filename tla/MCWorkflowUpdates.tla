--------------------------- MODULE MCWorkflowUpdates ---------------------------
(***************************************************************************)
(* Instances of WorkflowUpdates for TLC.                                   *)
(***************************************************************************)
EXTENDS WorkflowUpdates, TLC

\* No two updates, callers or outcomes differ.
Symmetry == Permutations(ID) \cup Permutations(Client) \cup Permutations(Outcome)
=============================================================================
