--------------------------- MODULE MCEventPipeline ---------------------------
(* An exposure and a conversion of one experiment, each in a cell of its own, *)
(* and either may happen twice.                                               *)
EXTENDS EventPipeline

CONSTANTS a1, b1, A, B, x

MCCellOf == [e \in Event |-> IF e = a1 THEN A ELSE B]

MCExperimentOf == [c \in Cell |-> x]
=============================================================================
