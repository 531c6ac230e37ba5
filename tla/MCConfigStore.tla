---------------------------- MODULE MCConfigStore ----------------------------
(* Instances of ConfigStore for TLC: two variants, of which v1 is `off', and  *)
(* one segment.  Operators write a configuration that targets the segment and  *)
(* one whose rule serves the second variant.                                  *)
EXTENDS ConfigStore, TLC

MCBody ==
    { [base |-> {Off}, rules |-> {}, refs |-> Segment],
      [base |-> {Off}, rules |-> Variant, refs |-> {}] }

MCVariantSet == {{}, {Off}, Variant}

\* Operators are interchangeable.
Symmetry == Permutations(Op)
=============================================================================
