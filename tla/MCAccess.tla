------------------------------ MODULE MCAccess ------------------------------
(* An admin and a member, one key and two nodes; a minute is one tick.     *)
EXTENDS Access, TLC

Symmetric == Permutations(Node)

\* The admin's token is about to expire, the member's is new.
MCRemaining == [u \in User |-> IF u = "ada" THEN 0 ELSE Ttl]

MCRole == [u \in User |-> IF u = "ada" THEN "admin" ELSE "member"]

=============================================================================
