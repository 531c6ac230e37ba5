---------------------------- MODULE MCSegmentEdit ----------------------------
(* Instances of SegmentEdit for TLC. *)
EXTENDS SegmentEdit, TLC

\* Operators are interchangeable.
Symmetry == Permutations(Op)
=============================================================================
