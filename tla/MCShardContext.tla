--------------------------- MODULE MCShardContext ---------------------------
(***************************************************************************)
(* Instances of ShardContext for TLC.                                      *)
(***************************************************************************)
EXTENDS ShardContext, TLC

\* Neither the contexts nor the slots for calls are told apart by the model.
Symmetry == Permutations(Contexts) \cup Permutations(Requests)
=============================================================================
