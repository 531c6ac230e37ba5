----------------------------- MODULE RateLimiter -----------------------------
(***************************************************************************)
(* The per-client token bucket an API node keeps in memory                 *)
(* (api/src/rate_limit.rs).                                                *)
(*                                                                         *)
(* Time is a clock of ticks, Second of them to a second; tokens are        *)
(* counted in parts of 1/Second, so that one tick refills PerSecond parts  *)
(* and a request costs Second of them.                                     *)
(***************************************************************************)
EXTENDS Clock, Sequences, FiniteSets, Functions

CONSTANTS
    Credential, Address,       \* what a request may carry
    Worker,                    \* requests the node can be checking at once
    Burst, PerSecond, Second,
    SweepThreshold, IdleEviction,
    MaxRequests

ASSUME RateLimiterAssumption ==
    /\ {Burst, PerSecond, Second} \subseteq Nat \ {0}
    /\ {SweepThreshold, IdleEviction, MaxTime, MaxRequests, MaxRestarts} \subseteq Nat

VARIABLES
    buckets,    \* [some clients -> [tokens, last_refill]]
    checks,     \* [Worker -> the check under way, or Idle]
    arrived,
    \* What the properties remember:
    admitted,   \* [some clients -> <<when, lag>> of each admission since the bucket was last lost short of full]
    lag,        \* [BucketKey -> ticks its checks spent between reading the clock and charging the bucket]
    promised    \* [some clients -> when a rejected client was told to come back]

limiterVars == <<clock, buckets, checks, arrived, restarts, admitted, lag, promised>>

None == "none"
BucketKey == Credential \cup Address \cup {Anonymous}
Without(f, S) == Restrict(f, DOMAIN f \ S)
Least(a, b) == IF a < b THEN a ELSE b

\* client_key: the Authorization header, else the first forwarded address,
\* else a bucket everybody else shares.
ClientKey(auth, forwarded) ==
    CASE auth # None      -> auth
      [] forwarded # None -> forwarded
      [] OTHER            -> Anonymous

Full == Burst * Second

\* duration_since: zero when another check has been here with a later clock.
Since(bucket, now) == IF now < bucket.last_refill THEN 0 ELSE now - bucket.last_refill

\* Mutant: a refill that does not stop at the burst.
RefilledUncapped(bucket, now) == bucket.tokens + Since(bucket, now) * PerSecond

\* What a bucket holds at a tick.
Refilled(bucket, now) == Least(bucket.tokens + Since(bucket, now) * PerSecond, Full)

\* What the sweep takes once the map is large: idle buckets, full or not.
Swept(now) ==
    IF Cardinality(DOMAIN buckets) > SweepThreshold
    THEN {c \in DOMAIN buckets : Since(buckets[c], now) >= IdleEviction}
    ELSE {}

\* Buckets whose loss gives their client more than it had.
ShortOfFull(cs) == {c \in cs : Refilled(buckets[c], clock) < Full}

\* Mutant: rounded down.
RetryAfterFloor(held) == (Second - held) \div (Second * PerSecond)

\* Seconds until the next token, rounded up and never zero.
RetryAfter(held) ==
    LET wait == (Second - held + Second * PerSecond - 1) \div (Second * PerSecond) IN
    IF wait < 1 THEN 1 ELSE wait

\* A request that carries these headers comes in; check reads the clock.
Enforce(w, auth, forwarded) ==
    /\ checks[w] = Idle
    /\ arrived < MaxRequests
    /\ arrived' = arrived + 1
    /\ checks' = [checks EXCEPT ![w] = [phase |-> "sweep", client |-> ClientKey(auth, forwarded), now |-> clock]]
    /\ UNCHANGED <<clock, buckets, restarts, admitted, lag, promised>>

Sweep(w) ==
    /\ checks[w].phase = "sweep"
    /\ checks' = [checks EXCEPT ![w].phase = "charge"]
    /\ buckets' = Without(buckets, Swept(checks[w].now))
    /\ admitted' = Without(admitted, ShortOfFull(Swept(checks[w].now)))
    /\ UNCHANGED <<clock, arrived, restarts, lag, promised>>

\* The bucket is found or inserted, refilled and charged, under its lock.
Charge(w) ==
    LET c    == checks[w].client
        now  == checks[w].now
        held == IF c \in DOMAIN buckets THEN Refilled(buckets[c], now) ELSE Full
        ok   == held >= Second
        log  == IF c \in DOMAIN admitted THEN admitted[c] ELSE <<>>
    IN /\ checks[w].phase = "charge"
       /\ checks' = [checks EXCEPT ![w] = Idle]
       /\ buckets' = Put(buckets, c, [tokens |-> IF ok THEN held - Second ELSE held, last_refill |-> now])
       /\ admitted' = IF ok THEN Put(admitted, c, Append(log, <<clock, lag[c]>>)) ELSE admitted
       /\ lag' = [lag EXCEPT ![c] = @ + clock - now]
       /\ promised' = IF ok THEN Without(promised, {c})
                            ELSE Put(promised, c, clock + RetryAfter(held) * Second)
       /\ UNCHANGED <<clock, arrived, restarts>>

\* The node stops and starts again with an empty map.
LimiterRestart ==
    /\ restarts < MaxRestarts
    /\ restarts' = restarts + 1
    /\ buckets' = Empty
    /\ checks' = [w \in Worker |-> Idle]
    /\ admitted' = Without(admitted, ShortOfFull(DOMAIN buckets))
    /\ promised' = Empty
    /\ UNCHANGED <<clock, arrived, lag>>

LimiterTick ==
    /\ clock < MaxTime
    /\ clock' = clock + 1
    /\ UNCHANGED <<buckets, checks, arrived, restarts, admitted, lag, promised>>

LimiterInit ==
    /\ clock = 0 /\ arrived = 0 /\ restarts = 0
    /\ buckets = Empty /\ admitted = Empty /\ promised = Empty
    /\ checks = [w \in Worker |-> Idle]
    /\ lag = [c \in BucketKey |-> 0]

LimiterNext ==
    \/ \E w \in Worker, auth \in Credential \cup {None}, forwarded \in Address \cup {None} :
          Enforce(w, auth, forwarded)
    \/ \E w \in Worker : Sweep(w) \/ Charge(w)
    \/ LimiterRestart
    \/ LimiterTick

LimiterSpec == LimiterInit /\ [][LimiterNext]_limiterVars

-------------------------------------------------------------------------------
(* Properties.                                                             *)

\* In no stretch of time does a node admit more of one client's requests than
\* the burst plus what the stretch refills, as long as the client's bucket was
\* not dropped short of full; a check that is slow to charge the bucket after
\* it read the clock sets last_refill back, and its delay counts twice
\* (rate_limit.rs, check and sweep).
AdmittedWithinBudget ==
    \A c \in DOMAIN admitted :
        LET at == admitted[c] IN
        \A i \in DOMAIN at : \A j \in i..Len(at) :
            (j - i + 1) * Second <= Full + PerSecond * (at[j][1] - at[i][1] + at[j][2] - at[i][2])

\* A client that waits as long as Retry-After told it is not turned away
\* again, whatever its own slower requests and other clients did meanwhile
\* (rate_limit.rs, check).
RetryHintSuffices ==
    [][\A w \in Worker : \A c \in DOMAIN promised \cap DOMAIN promised' :
          checks[w].phase = "charge" /\ checks'[w] = Idle /\ checks[w].client = c
              => checks[w].now < promised[c]]_limiterVars

===============================================================================
