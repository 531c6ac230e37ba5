-------------------------------- MODULE Clock --------------------------------
(***************************************************************************)
(* What RateLimiter and Access, the two things a request passes on its way *)
(* into an API node, have in common: the time in ticks, how often nodes    *)
(* were restarted, and the maps they keep in memory.                       *)
(***************************************************************************)
EXTENDS Integers

CONSTANTS MaxTime, MaxRestarts   \* bounds

VARIABLES clock, restarts

Idle == [phase |-> "idle"]
Anonymous == "anonymous"   \* a request without a credential

\* Maps: without entries, and with one more.
Empty == [x \in {} |-> x]
Put(f, x, v) == [y \in DOMAIN f \cup {x} |-> IF y = x THEN v ELSE f[y]]

=============================================================================
