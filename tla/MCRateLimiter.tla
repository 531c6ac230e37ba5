---------------------------- MODULE MCRateLimiter ----------------------------
(* A credential, an address and the shared bucket; ticks of a third of a     *)
(* second, and a bucket of two that fills in three ticks and may be swept    *)
(* after two; two requests are checked at a time.                            *)
EXTENDS RateLimiter, TLC

Symmetry == Permutations(Worker)
=============================================================================
