--------------------------- MODULE MCHistoryQueue ---------------------------
(***************************************************************************)
(* Instances of HistoryQueue for TLC.                                      *)
(***************************************************************************)
EXTENDS HistoryQueue

GroupSymmetry == Permutations(Groups)

\* Readers may load as long as fewer executables than this are tracked; the
\* default reader more than the others.
NoLimit == [id \in ReaderIDs |-> 100]
TwoAndOne == [id \in ReaderIDs |-> IF id = DefaultReaderId THEN 2 ELSE 1]
=============================================================================
