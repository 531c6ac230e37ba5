--------------------------- MODULE MCSnapshotCache ---------------------------
(* Instances of SnapshotCache for TLC. *)
EXTENDS SnapshotCache, TLC

\* Requests are interchangeable.
Symmetry == Permutations(Request)
=============================================================================
