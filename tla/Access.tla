-------------------------------- MODULE Access --------------------------------
(***************************************************************************)
(* How a request gets past an API node once the rate limiter let it in:    *)
(* the two credentials and their extractors (api/src/auth), SDK keys and   *)
(* their last-used bookkeeping (storage/src/api_keys.rs,                   *)
(* api/src/auth/usage.rs), the administrators who mint and revoke keys     *)
(* (api/src/routes/keys.rs), the tokens they hold and the audit entries    *)
(* their changes leave (storage/src/audit.rs). Time is a clock of ticks    *)
(* shared by the nodes and the database.                                   *)
(***************************************************************************)
EXTENDS Clock, FiniteSets, Functions

CONSTANTS
    Node, Key, User,
    SdkSlot, AdminSlot,   \* requests of either kind that may be under way at once
    Role,            \* [User -> role]: the role each account has
    Interval,        \* RECORD_INTERVAL, and the query's one minute
    Ttl, Timeout,    \* a token's life and the request timeout, in ticks
    Remaining        \* [User -> ticks]: what is left at first of the token each account holds

ASSUME AccessAssumption ==
    /\ {Interval, Ttl, Timeout} \subseteq Nat \ {0}
    /\ {MaxTime, MaxRestarts} \subseteq Nat
    /\ Remaining \in [User -> 0..Ttl]
    /\ Role \in [User -> {"owner", "admin", "member", "viewer"}]

VARIABLES
    tracker,    \* [Node -> [some keys -> when a write was last claimed]]
    keys,       \* the api_keys table: [some keys -> [scope, revoked, last_used]]
    log,        \* the audit_log table: who did what to which key
    tokens,     \* the token each user holds: its expiry, or Never
    requests,   \* [Slot -> the request being handled, or Idle]
    touches,    \* [Node -> [Key -> the spawned last_used_at writes that have not run yet]]
    \* What the properties remember:
    used,       \* [Key -> when it last authenticated a request]
    unrecorded, \* keys a touch was lost for
    answered    \* changes of keys whose request has been answered

vars == <<clock, tracker, keys, log, tokens, requests, touches, restarts, used, unrecorded, answered>>
store == <<keys, log, tokens>>

Never == -1
Slot == SdkSlot \cup AdminSlot
NoKey == "no key"
AnyNode == "any node"   \* a management request uses nothing a node remembers
Client == Key \cup User \cup {Anonymous}

Sdk == {"evaluate", "snapshot"}
Management == {"create_key", "revoke_key"}
KeyRow == [scope : {"server", "client"}, revoked : BOOLEAN, last_used : Int]
SdkRequest == [phase : {"checked", "served"}, node : Node, route : Sdk, key : Key,
               sent : Nat, late : BOOLEAN]
AdminRequest == [phase : {"checked", "written", "recorded"}, node : {AnyNode},
                 route : Management, key : Key \cup {NoKey}, sent : Nat, late : {FALSE}, by : User]
IsPartial(f, S, T) == DOMAIN f \subseteq S /\ f \in [DOMAIN f -> T]

TypeOK ==
    /\ clock \in Nat /\ restarts \in Nat
    /\ DOMAIN tracker = Node /\ \A n \in Node : IsPartial(tracker[n], Key, Nat)
    /\ IsPartial(keys, Key, KeyRow)
    /\ log \subseteq [action : Management, key : Key, by : User]
    /\ tokens \in [User -> Int]
    /\ requests \in [Slot -> {Idle} \cup SdkRequest \cup AdminRequest]
    /\ touches \in [Node -> [Key -> Nat]]
    /\ used \in [Key -> Int]
    /\ unrecorded \subseteq Key
    /\ answered \subseteq Management \X Key

-------------------------------------------------------------------------------
(* Credentials. A request carries an Authorization header or an            *)
(* x-flagforge-key header, or neither; each holds a user's token or a key. *)

\* Which credential the SDK extractor looks at.
Presented(auth, header) == IF auth # Anonymous THEN auth ELSE header

\* Mutant: only the signature is looked at.
VerifiedForever(u) == u \in User /\ tokens[u] # Never

\* verify: the signature is good and the expiry has not passed, no leeway (the
\* library lets a token through in the second it expires).
Verified(u) == u \in User /\ tokens[u] # Never /\ clock <= tokens[u]

CanAdminister(role) == role \in {"owner", "admin"}

\* Mutant: any valid token will do.
AuthUserAdmitsAnyRole(auth) == Verified(auth)

\* The checks a management request passes before it touches the database.
AuthUserAdmits(auth) == Verified(auth) /\ CanAdminister(Role[auth])

\* Mutant: an identity the node has already seen is taken as still good.
ResolvesOnceSeen(k) ==
    k \in DOMAIN keys /\ (keys[k].revoked => \E n \in Node : k \in DOMAIN tracker[n])

\* api_keys::resolve, at the moment its query runs.
Resolves(k) == k \in DOMAIN keys /\ ~keys[k].revoked

\* A client-scoped key evaluates; it may not take the whole snapshot home.
ScopeAllows(k, route) == route = "snapshot" => keys[k].scope = "server"

\* Mutant: a key is recorded the first time a process sees it, and never again.
ShouldRecordOnce(n, k) == k \notin DOMAIN tracker[n]

\* UsageTracker::should_record.
ShouldRecord(n, k) == k \in DOMAIN tracker[n] => clock - tracker[n][k] >= Interval

-------------------------------------------------------------------------------
(* Requests.                                                               *)

\* A request reaches node n and its extractor decides what it can without
\* leaving the node.
Arrive(s, r, passes) ==
    /\ requests[s] = Idle
    /\ passes
    /\ requests' = [requests EXCEPT ![s] = r]
    /\ UNCHANGED <<clock, tracker, store, touches, restarts, used, unrecorded, answered>>

\* An SDK request: only something shaped like a key becomes a lookup.
SendSdk(s, n, route, auth, header) ==
    LET k == Presented(auth, header) IN
    Arrive(s, [phase |-> "checked", node |-> n, route |-> route, key |-> k,
               sent |-> clock, late |-> <<"revoke_key", k>> \in answered],
           k \in Key)

\* A management request: a live token of an owner or an admin.
SendAdmin(s, route, auth, k) ==
    Arrive(s, [phase |-> "checked", node |-> AnyNode, route |-> route, key |-> k,
               sent |-> clock, late |-> FALSE, by |-> auth],
           AuthUserAdmits(auth))

\* The SDK extractor's query answers and the handler runs: refused, or served
\* and, when due, a write of last_used_at spawned.
Authenticate(s) ==
    LET r == requests[s]
        k == r.key
        n == r.node
        good == Resolves(k)
        due == good /\ ShouldRecord(n, k)
    IN /\ r.phase = "checked" /\ r.route \in Sdk
       /\ requests' = [requests EXCEPT ![s] =
              IF good /\ ScopeAllows(k, r.route) THEN [r EXCEPT !.phase = "served"] ELSE Idle]
       /\ used' = IF good THEN [used EXCEPT ![k] = clock] ELSE used
       /\ tracker' = IF due THEN [tracker EXCEPT ![n] = Put(tracker[n], k, clock)] ELSE tracker
       /\ touches' = IF due THEN [touches EXCEPT ![n][k] = @ + 1] ELSE touches
       /\ UNCHANGED <<clock, store, restarts, unrecorded, answered>>

\* Mutant: the handler answers without an audit entry.
WrittenUnlogged(s, k) == requests' = [requests EXCEPT ![s].phase = "recorded", ![s].key = k]

\* An administrator's statement: a new key, or a revocation (an earlier one stands).
Written(s, k) == requests' = [requests EXCEPT ![s].phase = "written", ![s].key = k]

WriteKey(s) ==
    LET r == requests[s] IN
    /\ r.phase = "checked" /\ r.route \in Management
    /\ \/ /\ r.route = "create_key"
          /\ \E k \in Key \ DOMAIN keys, scope \in {"server", "client"} :
                /\ keys' = Put(keys, k, [scope |-> scope, revoked |-> FALSE, last_used |-> Never])
                /\ Written(s, k)
       \/ /\ r.route = "revoke_key"
          /\ keys' = [keys EXCEPT ![r.key].revoked = TRUE]
          /\ Written(s, r.key)
    /\ UNCHANGED <<clock, tracker, log, tokens, touches, restarts, used, unrecorded, answered>>

\* audit::record: a statement of its own, after the change has been committed.
Record(s) ==
    LET r == requests[s] IN
    /\ r.phase = "written"
    /\ log' = log \cup {[action |-> r.route, key |-> r.key, by |-> r.by]}
    /\ requests' = [requests EXCEPT ![s].phase = "recorded"]
    /\ UNCHANGED <<clock, tracker, keys, tokens, touches, restarts, used, unrecorded, answered>>

\* The answer: a change has been promised.
Answer(s) ==
    LET r == requests[s] IN
    /\ r.phase \in {"served", "recorded"}
    /\ requests' = [requests EXCEPT ![s] = Idle]
    /\ answered' = IF r.route \in Management THEN answered \cup {<<r.route, r.key>>} ELSE answered
    /\ UNCHANGED <<clock, tracker, store, touches, restarts, used, unrecorded>>

\* The caller hangs up, a statement fails or the request times out.
Cut(s) ==
    /\ requests[s] # Idle
    /\ requests' = [requests EXCEPT ![s] = Idle]
    /\ UNCHANGED <<clock, tracker, store, touches, restarts, used, unrecorded, answered>>

\* login: the password matches (a wrong one changes nothing). Users come back
\* when their token no longer serves.
Login(u) ==
    /\ ~Verified(u)
    /\ tokens' = [tokens EXCEPT ![u] = clock + Ttl]
    /\ UNCHANGED <<clock, tracker, keys, log, requests, touches, restarts, used, unrecorded, answered>>

-------------------------------------------------------------------------------
(* The bookkeeping, the clock and restarts.                                *)

\* A spawned write runs: the query changes the row only if the last write is
\* more than a minute old.
Touch(n, k) ==
    /\ touches[n][k] > 0
    /\ touches' = [touches EXCEPT ![n][k] = @ - 1]
    /\ keys' = IF keys[k].last_used = Never \/ keys[k].last_used < clock - Interval
               THEN [keys EXCEPT ![k].last_used = clock] ELSE keys
    /\ UNCHANGED <<clock, tracker, log, tokens, requests, restarts, used, unrecorded, answered>>

\* A spawned write fails: a debug line, and the claim stays.
TouchFails(n, k) ==
    /\ touches[n][k] > 0
    /\ touches' = [touches EXCEPT ![n][k] = @ - 1]
    /\ unrecorded' = unrecorded \cup {k}
    /\ UNCHANGED <<clock, tracker, store, requests, restarts, used, answered>>

\* A node stops and starts again: its tracker, its requests and its
\* spawned writes are gone.
Restart(n) ==
    /\ restarts < MaxRestarts
    /\ restarts' = restarts + 1
    /\ tracker' = [tracker EXCEPT ![n] = Empty]
    /\ requests' = [s \in Slot |-> IF requests[s] # Idle /\ requests[s].node = n THEN Idle ELSE requests[s]]
    /\ touches' = [touches EXCEPT ![n] = [k \in Key |-> 0]]
    /\ unrecorded' = unrecorded \cup {k \in Key : touches[n][k] > 0}
    /\ UNCHANGED <<clock, store, used, answered>>

\* No request outlives the timeout.
Tick ==
    /\ clock < MaxTime
    /\ \A s \in Slot : requests[s] # Idle => clock < requests[s].sent + Timeout
    /\ clock' = clock + 1
    /\ UNCHANGED <<tracker, store, requests, touches, restarts, used, unrecorded, answered>>

Init ==
    /\ clock = 0
    /\ tracker = [n \in Node |-> Empty]
    /\ keys = Empty
    /\ log = {}
    /\ tokens = Remaining
    /\ requests = [s \in Slot |-> Idle]
    /\ touches = [n \in Node |-> [k \in Key |-> 0]]
    /\ restarts = 0
    /\ used = [k \in Key |-> Never]
    /\ unrecorded = {}
    /\ answered = {}

Next ==
    \/ \E s \in SdkSlot, n \in Node, route \in Sdk :
          \/ \E auth \in Client : SendSdk(s, n, route, auth, Anonymous)
          \/ \E header \in Key : SendSdk(s, n, route, Anonymous, header)
    \/ \E s \in AdminSlot, auth \in Client :
          \/ SendAdmin(s, "create_key", auth, NoKey)
          \/ \E k \in DOMAIN keys : SendAdmin(s, "revoke_key", auth, k)
    \/ \E s \in Slot : Authenticate(s) \/ WriteKey(s) \/ Record(s) \/ Answer(s) \/ Cut(s)
    \/ \E u \in User : Login(u)
    \/ \E n \in Node, k \in Key : Touch(n, k) \/ TouchFails(n, k)
    \/ \E n \in Node : Restart(n)
    \/ Tick

Spec == Init /\ [][Next]_vars

-------------------------------------------------------------------------------
(* Properties.                                                             *)

\* A request sent after the revocation of its key was answered is not served
\* by any node, however recently that node accepted the key; and a key scoped
\* to browsers never takes a snapshot (extract.rs, api_keys.rs resolve).
RevokedIsOut ==
    \A s \in Slot : requests[s].phase = "served" =>
        /\ ~requests[s].late
        /\ requests[s].route = "snapshot" => keys[requests[s].key].scope = "server"

\* Keys appear and are revoked only at the hands of an owner or admin whose
\* token had not expired when the request came in, and revocation is for good
\* (routes/keys.rs, jwt.rs).
KeysChangeUnderAuthority ==
    [][(\/ DOMAIN keys' # DOMAIN keys
        \/ \E k \in DOMAIN keys : keys'[k].revoked # keys[k].revoked)
       => /\ \E s \in AdminSlot :
                /\ requests[s].phase = "checked" /\ requests'[s].phase = "written"
                /\ CanAdminister(Role[requests[s].by])
                /\ clock <= tokens[requests[s].by] + Timeout
          /\ \A k \in DOMAIN keys : k \in DOMAIN keys' /\ (keys[k].revoked => keys'[k].revoked)]_vars

\* The entries there are for a change of a key.
Logged(action, k) == \E entry \in log : entry.action = action /\ entry.key = k

\* The trail and the keys agree: a change that was answered has its entry, and
\* there is no entry for a change that never happened or by someone who may not
\* make it, wherever requests are cut (routes/keys.rs, storage/audit.rs).
ChangesAreAudited ==
    /\ \A change \in answered : Logged(change[1], change[2])
    /\ \A entry \in log :
          /\ entry.key \in DOMAIN keys /\ CanAdminister(Role[entry.by])
          /\ entry.action = "revoke_key" => keys[entry.key].revoked

\* Once no write is on its way and none was lost, a key's last_used_at is less
\* than two intervals older than its last use: one for the claim that spares a
\* write, one for the query that discards a write made too soon after another
\* (usage.rs should_record, api_keys.rs touch).
UsageFresh ==
    \A k \in DOMAIN keys :
        (used[k] # Never /\ k \notin unrecorded /\ \A n \in Node : touches[n][k] = 0)
        => keys[k].last_used # Never /\ used[k] - keys[k].last_used < 2 * Interval

===============================================================================
