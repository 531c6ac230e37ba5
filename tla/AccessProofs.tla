----------------------------- MODULE AccessProofs -----------------------------
(***************************************************************************)
(* Proofs about Access for any nodes, keys, users, roles and requests at a *)
(* time.  The tables only grow in what they say (Grows), so a request that *)
(* stands still stays Good; each action then only has to make the request  *)
(* it moves Good.  UsageFresh rests on a second invariant, Usage, which    *)
(* follows each use and each claim to the write that accounts for it.      *)
(* The last part is about RateLimiter, the step before: what a client's    *)
(* bucket holds accounts for everything the client was admitted for.       *)
(***************************************************************************)
EXTENDS Access, RateLimiter, TLAPS

Request == {Idle} \cup SdkRequest \cup AdminRequest

\* A management request under way.
Admin(r) == r.phase # "idle" /\ r.route \in Management

\* What a request has established by the phase it is in.
Good(s) ==
    LET r == requests[s] IN
    /\ Admin(r) => /\ s \in AdminSlot /\ r.by \in User /\ CanAdminister(Role[r.by])
                   /\ r.route = "revoke_key" => r.key \in DOMAIN keys
                   /\ r.sent <= tokens[r.by] /\ clock <= r.sent + Timeout
    /\ r.phase \in {"written", "recorded"} =>
          r.key \in DOMAIN keys /\ (r.route = "revoke_key" => keys[r.key].revoked = TRUE)
    /\ r.phase = "recorded" => Logged(r.route, r.key)
    /\ r.phase \in {"checked", "served"} /\ r.late = TRUE => <<"revoke_key", r.key>> \in answered
    /\ r.phase = "served" =>
          /\ r.late = FALSE /\ r.key \in DOMAIN keys
          /\ r.route = "snapshot" => keys[r.key].scope = "server"

IInv == TypeOK /\ ChangesAreAudited /\ \A s \in Slot : Good(s)

\* Nothing that a request relies on is taken back.
Grows ==
    /\ \A k \in DOMAIN keys :
          /\ k \in DOMAIN keys' /\ keys'[k].scope = keys[k].scope
          /\ keys[k].revoked = TRUE => keys'[k].revoked = TRUE
    /\ log \subseteq log' /\ answered \subseteq answered'
    /\ \A u \in User : tokens[u] <= tokens'[u] /\ tokens'[u] \in Int

-----------------------------------------------------------------------------
(* Types *)

\* A request under way is an SDK request or a management request.
LEMMA RequestKinds ==
    ASSUME NEW r \in Request
    PROVE  /\ r.phase \in {"idle", "checked", "served", "written", "recorded"}
           /\ r.phase = "idle" => r = Idle
           /\ r.phase # "idle" /\ r.route \in Sdk => r \in SdkRequest
           /\ r.phase # "idle" /\ r.route \in Management => r \in AdminRequest
           /\ r.phase = "served" => r \in SdkRequest
           /\ r.phase \in {"written", "recorded"} => r \in AdminRequest
           /\ r # Idle => r.phase # "idle" /\ r.sent \in Nat /\ r.route \in Sdk \cup Management
<1>1. CASE r = Idle
  BY <1>1 DEF Idle
<1>2. CASE r \in SdkRequest
  <2>1. r.phase \in {"checked", "served"} /\ r.route \in Sdk /\ r.sent \in Nat
    BY <1>2 DEF SdkRequest
  <2> QED BY <1>2, <2>1 DEF Sdk, Management
<1>3. CASE r \in AdminRequest
  <2>1. r.phase \in {"checked", "written", "recorded"} /\ r.route \in Management /\ r.sent \in Nat
    BY <1>3 DEF AdminRequest
  <2> QED BY <1>3, <2>1 DEF Sdk, Management
<1> QED BY <1>1, <1>2, <1>3 DEF Request

\* Put adds a key to a partial function.
LEMMA PutType ==
    ASSUME NEW S, NEW T, NEW f, IsPartial(f, S, T), NEW x \in S, NEW v \in T
    PROVE  IsPartial(Put(f, x, v), S, T)
BY DEF IsPartial, Put

\* So does a node that has forgotten everything.
LEMMA EmptyType == ASSUME NEW S, NEW T PROVE IsPartial(Empty, S, T)
BY DEF IsPartial, Empty

\* Every action keeps the types.
LEMMA NextType == IInv /\ [Next]_vars => TypeOK'
<1> SUFFICES ASSUME IInv, [Next]_vars PROVE TypeOK'
  OBVIOUS
<1> USE AccessAssumption
<1>0. TypeOK /\ \A s \in Slot : requests[s] \in Request /\ Good(s)
  BY DEF IInv, TypeOK, Request
<1>1. ASSUME NEW s \in SdkSlot, NEW n \in Node, NEW route \in Sdk, NEW auth, NEW header,
             SendSdk(s, n, route, auth, header)
      PROVE  TypeOK'
  <2> DEFINE k == Presented(auth, header)
             r == [phase |-> "checked", node |-> n, route |-> route, key |-> k,
                   sent |-> clock, late |-> <<"revoke_key", k>> \in answered]
  <2>1. k \in Key /\ requests' = [requests EXCEPT ![s] = r]
    BY <1>1 DEF SendSdk, Arrive
  <2>2. r \in SdkRequest
    BY <1>0, <2>1 DEF SdkRequest, TypeOK
  <2>3. requests' \in [Slot -> {Idle} \cup SdkRequest \cup AdminRequest]
    <3> HIDE DEF r
    <3> QED BY <1>0, <2>1, <2>2 DEF TypeOK, Slot
  <2> QED BY <1>0, <1>1, <2>3 DEF SendSdk, Arrive, TypeOK, store
<1>2. ASSUME NEW s \in AdminSlot, NEW route \in Management, NEW auth, NEW k \in Key \cup {NoKey},
             SendAdmin(s, route, auth, k)
      PROVE  TypeOK'
  <2> DEFINE r == [phase |-> "checked", node |-> AnyNode, route |-> route, key |-> k,
                   sent |-> clock, late |-> FALSE, by |-> auth]
  <2>1. auth \in User /\ requests' = [requests EXCEPT ![s] = r]
    BY <1>2 DEF SendAdmin, Arrive, AuthUserAdmits, Verified
  <2>2. r \in AdminRequest
    BY <1>0, <2>1 DEF AdminRequest, TypeOK
  <2>3. requests' \in [Slot -> {Idle} \cup SdkRequest \cup AdminRequest]
    <3> HIDE DEF r
    <3> QED BY <1>0, <2>1, <2>2 DEF TypeOK, Slot
  <2> QED BY <1>0, <1>2, <2>3 DEF SendAdmin, Arrive, TypeOK, store
<1>3. ASSUME NEW s \in Slot, Authenticate(s) PROVE TypeOK'
  <2>1. requests[s] \in SdkRequest
    BY <1>0, <1>3, RequestKinds DEF Authenticate
  <2>2. [requests[s] EXCEPT !.phase = "served"] \in SdkRequest
    BY <2>1 DEF SdkRequest
  <2>3. requests' \in [Slot -> {Idle} \cup SdkRequest \cup AdminRequest]
    BY <1>0, <1>3, <2>2 DEF Authenticate, TypeOK
  <2>4. requests[s].key \in Key /\ requests[s].node \in Node
    BY <2>1 DEF SdkRequest
  <2>5. used' \in [Key -> Int]
    BY <1>0, <1>3, <2>4 DEF Authenticate, TypeOK
  <2>6. DOMAIN tracker' = Node /\ \A n \in Node : IsPartial(tracker'[n], Key, Nat)
    <3>1. IsPartial(Put(tracker[requests[s].node], requests[s].key, clock), Key, Nat)
      BY <1>0, <2>4, PutType DEF TypeOK
    <3> QED BY <1>0, <1>3, <2>4, <3>1 DEF Authenticate, TypeOK
  <2>7. touches' \in [Node -> [Key -> Nat]]
    BY <1>0, <1>3, <2>4 DEF Authenticate, TypeOK
  <2> QED BY <1>0, <1>3, <2>3, <2>5, <2>6, <2>7 DEF Authenticate, TypeOK, store
<1>4. ASSUME NEW s \in Slot, WriteKey(s) PROVE TypeOK'
  <2>1. requests[s] \in AdminRequest
    BY <1>0, <1>4, RequestKinds DEF WriteKey
  <2>2. ASSUME NEW k \in Key, Written(s, k)
        PROVE  requests' \in [Slot -> {Idle} \cup SdkRequest \cup AdminRequest]
    <3>1. [requests[s] EXCEPT !.phase = "written", !.key = k] \in AdminRequest
      BY <2>1 DEF AdminRequest
    <3> QED BY <1>0, <2>2, <3>1 DEF Written, TypeOK
  <2>3. CASE \E k \in Key \ DOMAIN keys, scope \in {"server", "client"} :
                /\ keys' = Put(keys, k, [scope |-> scope, revoked |-> FALSE, last_used |-> Never])
                /\ Written(s, k)
    <3>1. PICK k \in Key, scope \in {"server", "client"} :
                /\ keys' = Put(keys, k, [scope |-> scope, revoked |-> FALSE, last_used |-> Never])
                /\ Written(s, k)
      BY <2>3
    <3>2. [scope |-> scope, revoked |-> FALSE, last_used |-> Never] \in KeyRow
      BY DEF KeyRow, Never
    <3>3. IsPartial(keys', Key, KeyRow)
      BY <1>0, <3>1, <3>2, PutType DEF TypeOK
    <3> QED BY <1>0, <1>4, <2>2, <3>1, <3>3 DEF WriteKey, TypeOK
  <2>4. CASE /\ requests[s].route = "revoke_key"
             /\ keys' = [keys EXCEPT ![requests[s].key].revoked = TRUE]
             /\ Written(s, requests[s].key)
    <3>1. requests[s].key \in DOMAIN keys
      BY <1>0, <1>4, <2>4 DEF Good, Admin, WriteKey
    <3>2. requests[s].key \in Key /\ keys[requests[s].key] \in KeyRow
      BY <1>0, <3>1 DEF TypeOK, IsPartial
    <3>3. [keys[requests[s].key] EXCEPT !.revoked = TRUE] \in KeyRow
      BY <3>2 DEF KeyRow
    <3>4. IsPartial(keys', Key, KeyRow)
      BY <1>0, <2>4, <3>1, <3>3 DEF TypeOK, IsPartial
    <3> QED BY <1>0, <1>4, <2>2, <2>4, <3>2, <3>4 DEF WriteKey, TypeOK
  <2> QED BY <1>4, <2>3, <2>4 DEF WriteKey
<1>5. ASSUME NEW s \in Slot, Record(s) PROVE TypeOK'
  <2>1. requests[s] \in AdminRequest /\ requests[s].key \in DOMAIN keys
    BY <1>0, <1>5, RequestKinds DEF Record, Good
  <2>2. [requests[s] EXCEPT !.phase = "recorded"] \in AdminRequest
    BY <2>1 DEF AdminRequest
  <2>3. requests' \in [Slot -> {Idle} \cup SdkRequest \cup AdminRequest]
    BY <1>0, <1>5, <2>2 DEF Record, TypeOK
  <2>4. [action |-> requests[s].route, key |-> requests[s].key, by |-> requests[s].by]
           \in [action : Management, key : Key, by : User]
    BY <1>0, <2>1 DEF AdminRequest, TypeOK, IsPartial
  <2>5. log' \subseteq [action : Management, key : Key, by : User]
    BY <1>0, <1>5, <2>4 DEF Record, TypeOK
  <2> QED BY <1>0, <1>5, <2>3, <2>5 DEF Record, TypeOK
<1>6. ASSUME NEW s \in Slot, Answer(s) PROVE TypeOK'
  <2>1. requests' \in [Slot -> {Idle} \cup SdkRequest \cup AdminRequest]
    BY <1>0, <1>6 DEF Answer, TypeOK
  <2>2. requests[s].route \in Management => <<requests[s].route, requests[s].key>> \in Management \X Key
    <3> SUFFICES ASSUME requests[s].route \in Management PROVE requests[s].key \in Key
      OBVIOUS
    <3>1. requests[s].phase = "recorded"
      BY <1>0, <1>6, RequestKinds DEF Answer, SdkRequest, Sdk, Management
    <3>2. requests[s].key \in DOMAIN keys
      BY <1>0, <3>1 DEF Good
    <3> QED BY <1>0, <3>2 DEF TypeOK, IsPartial
  <2>3. answered' \subseteq Management \X Key
    BY <1>0, <1>6, <2>2 DEF Answer, TypeOK
  <2> QED BY <1>0, <1>6, <2>1, <2>3 DEF Answer, TypeOK, store
<1>7. ASSUME NEW s \in Slot, Cut(s) PROVE TypeOK'
  BY <1>0, <1>7 DEF Cut, TypeOK, store
<1>8. ASSUME NEW u \in User, Login(u) PROVE TypeOK'
  BY <1>0, <1>8 DEF Login, TypeOK
<1>9. ASSUME NEW n \in Node, NEW k \in Key, Touch(n, k) PROVE TypeOK'
  <2>1. touches' \in [Node -> [Key -> Nat]]
    BY <1>0, <1>9 DEF Touch, TypeOK
  <2>2. IsPartial([keys EXCEPT ![k].last_used = clock], Key, KeyRow)
    <3>1. k \in DOMAIN keys => [keys[k] EXCEPT !.last_used = clock] \in KeyRow
      BY <1>0 DEF TypeOK, IsPartial, KeyRow
    <3> QED BY <1>0, <3>1 DEF TypeOK, IsPartial
  <2>3. IsPartial(keys', Key, KeyRow)
    BY <1>0, <1>9, <2>2 DEF Touch, TypeOK
  <2> QED BY <1>0, <1>9, <2>1, <2>3 DEF Touch, TypeOK
<1>10. ASSUME NEW n \in Node, NEW k \in Key, TouchFails(n, k) PROVE TypeOK'
  <2>1. touches' \in [Node -> [Key -> Nat]]
    BY <1>0, <1>10 DEF TouchFails, TypeOK
  <2> QED BY <1>0, <1>10, <2>1 DEF TouchFails, TypeOK, store
<1>11. ASSUME NEW n \in Node, Restart(n) PROVE TypeOK'
  <2>1. DOMAIN tracker' = Node /\ \A m \in Node : IsPartial(tracker'[m], Key, Nat)
    BY <1>0, <1>11, EmptyType DEF Restart, TypeOK
  <2>2. requests' \in [Slot -> {Idle} \cup SdkRequest \cup AdminRequest]
    BY <1>0, <1>11 DEF Restart, TypeOK
  <2> QED BY <1>0, <1>11, <2>1, <2>2 DEF Restart, TypeOK, store
<1>12. CASE Tick
  BY <1>0, <1>12 DEF Tick, TypeOK, store
<1>13. CASE UNCHANGED vars
  BY <1>0, <1>13 DEF vars, TypeOK
<1>14. \A k \in DOMAIN keys : k \in Key
  BY <1>0 DEF TypeOK, IsPartial
<1>15. {"create_key", "revoke_key"} \subseteq Management
  BY DEF Management
<1> QED BY <1>1, <1>2, <1>3, <1>4, <1>5, <1>6, <1>7, <1>8, <1>9, <1>10, <1>11, <1>12, <1>13,
           <1>14, <1>15 DEF Next

-----------------------------------------------------------------------------
(* The inductive invariant *)

\* No step takes back a key, a revocation, an entry, an answer or a token.
LEMMA NextGrows == IInv /\ [Next]_vars => Grows
<1> SUFFICES ASSUME IInv, [Next]_vars PROVE Grows
  OBVIOUS
<1>0. TypeOK /\ \A u \in User : tokens[u] \in Int
  BY DEF IInv, TypeOK
<1>1. ASSUME UNCHANGED keys, log \subseteq log', answered \subseteq answered', UNCHANGED tokens
      PROVE  Grows
  BY <1>0, <1>1 DEF Grows
<1>2. ASSUME NEW s \in Slot, WriteKey(s) PROVE Grows
  <2>1. CASE \E k \in Key \ DOMAIN keys, scope \in {"server", "client"} :
                keys' = Put(keys, k, [scope |-> scope, revoked |-> FALSE, last_used |-> Never])
    BY <1>0, <1>2, <2>1 DEF WriteKey, Grows, Put
  <2>2. CASE keys' = [keys EXCEPT ![requests[s].key].revoked = TRUE]
    <3>1. \A k \in DOMAIN keys : keys[k] \in KeyRow
      BY <1>0 DEF TypeOK, IsPartial
    <3>2. \A k \in DOMAIN keys : /\ k \in DOMAIN keys'
                                 /\ keys'[k] \in {keys[k], [keys[k] EXCEPT !.revoked = TRUE]}
      BY <2>2
    <3>3. \A x \in KeyRow : [x EXCEPT !.revoked = TRUE].scope = x.scope
                            /\ [x EXCEPT !.revoked = TRUE].revoked = TRUE
      BY DEF KeyRow
    <3>4. \A k \in DOMAIN keys : /\ k \in DOMAIN keys' /\ keys'[k].scope = keys[k].scope
                                 /\ keys[k].revoked = TRUE => keys'[k].revoked = TRUE
      BY <3>1, <3>2, <3>3
    <3>5. UNCHANGED <<log, answered, tokens>>
      BY <1>2 DEF WriteKey
    <3> QED BY <1>0, <3>4, <3>5 DEF Grows
  <2> QED BY <1>2, <2>1, <2>2 DEF WriteKey
<1>3. ASSUME NEW n \in Node, NEW k \in Key, Touch(n, k) PROVE Grows
  <2>1. \A y \in DOMAIN keys : keys[y] \in KeyRow
    BY <1>0 DEF TypeOK, IsPartial
  <2>2. \A y \in DOMAIN keys : /\ y \in DOMAIN keys'
                               /\ keys'[y] \in {keys[y], [keys[y] EXCEPT !.last_used = clock]}
    BY <1>3 DEF Touch
  <2>3. \A x \in KeyRow : [x EXCEPT !.last_used = clock].scope = x.scope
                          /\ [x EXCEPT !.last_used = clock].revoked = x.revoked
    BY DEF KeyRow
  <2> QED BY <1>0, <1>3, <2>1, <2>2, <2>3 DEF Touch, Grows
<1>4. ASSUME NEW u \in User, Login(u) PROVE Grows
  <2>1. tokens[u] <= clock + Ttl
    BY <1>0, <1>4, AccessAssumption DEF Login, Verified, Never, TypeOK
  <2>2. clock + Ttl \in Int /\ \A v \in User : tokens'[v] = IF v = u THEN clock + Ttl ELSE tokens[v]
    BY <1>0, <1>4, AccessAssumption DEF Login, TypeOK
  <2>3. \A v \in User : tokens[v] <= tokens'[v] /\ tokens'[v] \in Int
    BY <1>0, <2>1, <2>2
  <2> QED BY <1>4, <2>3 DEF Login, Grows
<1>5. ASSUME NEW s \in Slot, Record(s) \/ Answer(s) PROVE Grows
  BY <1>1, <1>5 DEF Record, Answer, store
<1>6. ASSUME NEW s \in Slot, Authenticate(s) \/ Cut(s) PROVE Grows
  BY <1>1, <1>6 DEF Authenticate, Cut, store
<1>7. CASE Tick \/ UNCHANGED vars \/ \E n \in Node : Restart(n) \/ \E k \in Key : TouchFails(n, k)
  BY <1>1, <1>7 DEF Tick, vars, Restart, TouchFails, store
<1>8. ASSUME NEW s, NEW r, NEW passes, Arrive(s, r, passes) PROVE Grows
  BY <1>1, <1>8 DEF Arrive, store
<1> QED BY <1>2, <1>3, <1>4, <1>5, <1>6, <1>7, <1>8 DEF Next, SendSdk, SendAdmin

\* A request that is idle, or stands still while its time is not up, stays Good.
LEMMA GoodKept ==
    ASSUME IInv, Grows, NEW s \in Slot, requests'[s] \in {Idle, requests[s]},
           requests'[s] = Idle \/ clock' = clock \/ clock' <= requests[s].sent + Timeout
    PROVE  Good(s)'
<1>1. CASE requests'[s] = Idle
  BY <1>1 DEF Good, Admin, Idle
<1>2. CASE requests'[s] = requests[s] /\ requests[s] # Idle
  <2> DEFINE r == requests[s]
  <2>0. r \in Request /\ Good(s) /\ TypeOK
    BY DEF IInv, TypeOK, Request
  <2>1. Admin(r) => /\ s \in AdminSlot /\ r.by \in User /\ CanAdminister(Role[r.by])
                    /\ r.route = "revoke_key" => r.key \in DOMAIN keys'
                    /\ r.sent <= tokens'[r.by] /\ clock' <= r.sent + Timeout
    <3> SUFFICES ASSUME Admin(r)
                 PROVE  /\ s \in AdminSlot /\ r.by \in User /\ CanAdminister(Role[r.by])
                        /\ r.route = "revoke_key" => r.key \in DOMAIN keys'
                        /\ r.sent <= tokens'[r.by] /\ clock' <= r.sent + Timeout
      OBVIOUS
    <3>1. /\ s \in AdminSlot /\ r.by \in User /\ CanAdminister(Role[r.by])
          /\ r.route = "revoke_key" => r.key \in DOMAIN keys
          /\ r.sent <= tokens[r.by] /\ clock <= r.sent + Timeout
      BY <2>0 DEF Good
    <3>2. r.sent \in Nat /\ tokens[r.by] \in Int
      BY <1>2, <2>0, <3>1, RequestKinds DEF TypeOK
    <3> QED BY <1>2, <3>1, <3>2 DEF Grows
  <2>2. r.phase \in {"written", "recorded"} =>
          r.key \in DOMAIN keys' /\ (r.route = "revoke_key" => keys'[r.key].revoked = TRUE)
    BY <2>0 DEF Good, Grows
  <2>3. r.phase = "recorded" => Logged(r.route, r.key)'
    BY <1>2, <2>0 DEF Good, Grows, Logged
  <2>4. r.phase \in {"checked", "served"} /\ r.late = TRUE => <<"revoke_key", r.key>> \in answered'
    BY <2>0 DEF Good, Grows
  <2>5. r.phase = "served" =>
          /\ r.late = FALSE /\ r.key \in DOMAIN keys'
          /\ r.route = "snapshot" => keys'[r.key].scope = "server"
    BY <2>0 DEF Good, Grows
  <2> QED BY <1>2, <2>1, <2>2, <2>3, <2>4, <2>5 DEF Good, Admin, Logged
<1> QED BY <1>1, <1>2

\* What holds at the start.
LEMMA InitInv == Init => IInv
<1> SUFFICES ASSUME Init PROVE IInv
  OBVIOUS
<1>1. IsPartial(Empty, Key, Nat) /\ IsPartial(Empty, Key, KeyRow)
  BY EmptyType
<1>2. TypeOK
  BY <1>1, AccessAssumption DEF Init, TypeOK, Never
<1>3. \A s \in Slot : Good(s)
  BY DEF Init, Good, Admin, Idle
<1> QED BY <1>2, <1>3 DEF Init, IInv, ChangesAreAudited

\* Every action leaves every request Good.
LEMMA NextGood == IInv /\ [Next]_vars => \A s \in Slot : Good(s)'
<1> SUFFICES ASSUME IInv, [Next]_vars, NEW s \in Slot PROVE Good(s)'
  OBVIOUS
<1>0. Grows /\ TypeOK /\ requests[s] \in Request /\ Good(s)
  BY NextGrows DEF IInv, TypeOK, Request
<1>1. CASE requests'[s] \in {Idle, requests[s]} /\ clock' = clock
  BY <1>0, <1>1, GoodKept
<1>2. CASE Tick
  <2>1. requests[s] # Idle => clock' <= requests[s].sent + Timeout
    <3> SUFFICES ASSUME requests[s] # Idle PROVE clock' <= requests[s].sent + Timeout
      OBVIOUS
    <3>1. requests[s].sent \in Nat /\ clock \in Nat /\ Timeout \in Nat
      BY <1>0, RequestKinds, AccessAssumption DEF TypeOK
    <3> QED BY <1>2, <3>1 DEF Tick
  <2> QED BY <1>0, <1>2, <2>1, GoodKept DEF Tick
<1>3. ASSUME NEW n \in Node, NEW route \in Sdk, NEW auth, NEW header,
             SendSdk(s, n, route, auth, header)
      PROVE  Good(s)'
  <2> DEFINE k == Presented(auth, header)
             r == [phase |-> "checked", node |-> n, route |-> route, key |-> k,
                   sent |-> clock, late |-> <<"revoke_key", k>> \in answered]
  <2>1. requests'[s] = r /\ UNCHANGED answered
    BY <1>0, <1>3 DEF SendSdk, Arrive, TypeOK
  <2>2. r.phase = "checked" /\ r.route \notin Management /\ r.key = k
        /\ r.late = (<<"revoke_key", k>> \in answered)
    BY DEF Sdk, Management
  <2> HIDE DEF r, k
  <2> QED BY <2>1, <2>2 DEF Good, Admin
<1>4. ASSUME s \in AdminSlot, NEW route \in Management, NEW auth, NEW k,
             route = "revoke_key" => k \in DOMAIN keys, SendAdmin(s, route, auth, k)
      PROVE  Good(s)'
  <2> DEFINE r == [phase |-> "checked", node |-> AnyNode, route |-> route, key |-> k,
                   sent |-> clock, late |-> FALSE, by |-> auth]
  <2>1. requests'[s] = r /\ UNCHANGED <<keys, tokens, clock, answered>>
    BY <1>0, <1>4 DEF SendAdmin, Arrive, TypeOK, store
  <2>2. r.phase = "checked" /\ r.route = route /\ r.key = k /\ r.sent = clock /\ r.by = auth
        /\ r.late = FALSE
    OBVIOUS
  <2>3. auth \in User /\ CanAdminister(Role[auth]) /\ clock <= tokens[auth]
    BY <1>4 DEF SendAdmin, Arrive, AuthUserAdmits, Verified
  <2>4. clock <= clock + Timeout
    BY <1>0, AccessAssumption DEF TypeOK
  <2> HIDE DEF r
  <2> QED BY <1>4, <2>1, <2>2, <2>3, <2>4 DEF Good, Admin
<1>5. CASE Authenticate(s)
  <2>1. requests[s] \in SdkRequest
    BY <1>0, <1>5, RequestKinds DEF Authenticate
  <2>2. CASE requests'[s] = Idle
    BY <1>1, <1>5, <2>2 DEF Authenticate
  <2>3. CASE requests'[s] # Idle
    <3> DEFINE r == requests[s]
               q == [r EXCEPT !.phase = "served"]
    <3>1. requests'[s] = q /\ Resolves(r.key) /\ ScopeAllows(r.key, r.route) /\ UNCHANGED <<keys, answered>>
      BY <1>0, <1>5, <2>3 DEF Authenticate, TypeOK, store
    <3>2. q.phase = "served" /\ q.route = r.route /\ q.key = r.key /\ q.late = r.late
          /\ q.late \in BOOLEAN /\ q.route \in Sdk
      BY <2>1 DEF SdkRequest
    <3>3. r.key \in DOMAIN keys /\ keys[r.key].revoked # TRUE
      BY <3>1 DEF Resolves
    <3>4. <<"revoke_key", r.key>> \notin answered
      <4> SUFFICES ASSUME <<"revoke_key", r.key>> \in answered PROVE FALSE
        OBVIOUS
      <4>1. Logged("revoke_key", r.key)
        BY DEF IInv, ChangesAreAudited
      <4> QED BY <3>3, <4>1 DEF Logged, IInv, ChangesAreAudited
    <3>5. r.late # TRUE
      BY <1>0, <1>5, <3>4 DEF Good, Authenticate
    <3>6. q.route \notin Management
      BY <3>2 DEF Sdk, Management
    <3> HIDE DEF q
    <3> QED BY <3>1, <3>2, <3>3, <3>5, <3>6 DEF Good, Admin, ScopeAllows
  <2> QED BY <2>2, <2>3
<1>6. ASSUME WriteKey(s) PROVE Good(s)'
  <2> DEFINE r == requests[s]
  <2>1. r \in AdminRequest /\ Admin(r)
    BY <1>0, <1>6, RequestKinds DEF WriteKey, Admin
  <2>2. PICK k : /\ Written(s, k) /\ k \in DOMAIN keys'
                 /\ r.route = "revoke_key" => keys'[k].revoked = TRUE
    <3>1. CASE r.route = "create_key"
      <4>1. \E k \in Key \ DOMAIN keys, scope \in {"server", "client"} :
                /\ keys' = Put(keys, k, [scope |-> scope, revoked |-> FALSE, last_used |-> Never])
                /\ Written(s, k)
        BY <1>6, <3>1 DEF WriteKey
      <4> QED BY <3>1, <4>1 DEF Put
    <3>2. CASE r.route = "revoke_key"
      <4>1. keys' = [keys EXCEPT ![r.key].revoked = TRUE] /\ Written(s, r.key)
        BY <1>6, <3>2 DEF WriteKey
      <4>2. r.key \in DOMAIN keys
        BY <1>0, <2>1, <3>2 DEF Good
      <4>3. keys[r.key] \in KeyRow
        BY <1>0, <4>2 DEF TypeOK, IsPartial
      <4>4. [keys[r.key] EXCEPT !.revoked = TRUE].revoked = TRUE
        BY <4>3 DEF KeyRow
      <4> QED BY <4>1, <4>2, <4>4
    <3> QED BY <2>1, <3>1, <3>2 DEF AdminRequest, Management
  <2> DEFINE q == [r EXCEPT !.phase = "written", !.key = k]
  <2>3. requests'[s] = q /\ UNCHANGED <<tokens, clock>>
    BY <1>0, <1>6, <2>2 DEF Written, WriteKey, TypeOK
  <2>4. q.phase = "written" /\ q.key = k /\ q.route = r.route /\ q.by = r.by /\ q.sent = r.sent
    BY <2>1 DEF AdminRequest
  <2> HIDE DEF q
  <2> QED BY <1>0, <2>1, <2>2, <2>3, <2>4 DEF Good, Admin
<1>7. ASSUME Record(s) PROVE Good(s)'
  <2> DEFINE r == requests[s]
             q == [r EXCEPT !.phase = "recorded"]
  <2>1. r \in AdminRequest /\ Admin(r)
    BY <1>0, <1>7, RequestKinds DEF Record, Admin, AdminRequest
  <2>2. requests'[s] = q /\ UNCHANGED <<keys, tokens, clock>>
    BY <1>0, <1>7 DEF Record, TypeOK
  <2>3. q.phase = "recorded" /\ q.key = r.key /\ q.route = r.route /\ q.by = r.by /\ q.sent = r.sent
    BY <2>1 DEF AdminRequest
  <2>4. \E entry \in log' : entry.action = r.route /\ entry.key = r.key
    <3>1. [action |-> r.route, key |-> r.key, by |-> r.by] \in log'
      BY <1>7 DEF Record
    <3> QED BY <3>1
  <2> HIDE DEF q
  <2> QED BY <1>0, <1>7, <2>1, <2>2, <2>3, <2>4 DEF Good, Admin, Record, Logged
<1>8. ASSUME NEW t \in Slot, t # s, Authenticate(t) \/ WriteKey(t) \/ Record(t) PROVE Good(s)'
  <2>1. requests'[s] = requests[s] /\ clock' = clock
    BY <1>0, <1>8 DEF Authenticate, WriteKey, Written, Record, TypeOK
  <2> QED BY <1>1, <2>1
<1>9. ASSUME NEW t \in Slot, Answer(t) \/ Cut(t) PROVE Good(s)'
  <2>1. requests'[s] \in {Idle, requests[s]} /\ clock' = clock
    BY <1>0, <1>9 DEF Answer, Cut, TypeOK
  <2> QED BY <1>1, <2>1
<1>10. ASSUME NEW t \in Slot, t # s, NEW r, NEW passes, Arrive(t, r, passes) PROVE Good(s)'
  <2>1. requests'[s] = requests[s] /\ clock' = clock
    BY <1>0, <1>10 DEF Arrive, TypeOK
  <2> QED BY <1>1, <2>1
<1>11. ASSUME NEW n \in Node, Restart(n) PROVE Good(s)'
  <2>1. requests'[s] \in {Idle, requests[s]} /\ clock' = clock
    BY <1>0, <1>11 DEF Restart, TypeOK
  <2> QED BY <1>1, <2>1
<1>12. CASE UNCHANGED <<requests, clock>>
  BY <1>1, <1>12
<1>13. CASE \E u \in User : Login(u)
  BY <1>12, <1>13 DEF Login
<1>14. CASE \E n \in Node, k \in Key : Touch(n, k) \/ TouchFails(n, k)
  BY <1>12, <1>14 DEF Touch, TouchFails
<1>15. CASE UNCHANGED vars
  BY <1>12, <1>15 DEF vars
<1>16. ASSUME NEW t \in SdkSlot, NEW n \in Node, NEW route \in Sdk, NEW auth, NEW header,
              SendSdk(t, n, route, auth, header)
       PROVE  Good(s)'
  <2>1. t \in Slot
    BY DEF Slot
  <2>2. CASE t = s
    BY <1>3, <1>16, <2>2
  <2>3. CASE t # s
    BY <1>10, <1>16, <2>1, <2>3 DEF SendSdk
  <2> QED BY <2>2, <2>3
<1>17. ASSUME NEW t \in AdminSlot, NEW route \in Management, NEW auth, NEW k,
              route = "revoke_key" => k \in DOMAIN keys, SendAdmin(t, route, auth, k)
       PROVE  Good(s)'
  <2>1. t \in Slot
    BY DEF Slot
  <2>2. CASE t = s
    BY <1>4, <1>17, <2>2
  <2>3. CASE t # s
    BY <1>10, <1>17, <2>1, <2>3 DEF SendAdmin
  <2> QED BY <2>2, <2>3
<1>18. "create_key" \in Management /\ "revoke_key" \in Management
  BY DEF Management
<1> QED BY <1>2, <1>5, <1>6, <1>7, <1>8, <1>9, <1>11, <1>13, <1>14, <1>15, <1>16, <1>17, <1>18 DEF Next

\* Every action keeps the trail and the keys in agreement.
LEMMA NextAudited == IInv /\ [Next]_vars => ChangesAreAudited'
<1> SUFFICES ASSUME IInv, [Next]_vars PROVE ChangesAreAudited'
  OBVIOUS
<1>0. Grows /\ ChangesAreAudited /\ \A s \in Slot : requests[s] \in Request /\ Good(s)
  BY NextGrows DEF IInv, TypeOK, Request
<1>1. CASE UNCHANGED <<log, answered>>
  <2>1. \A change \in answered' : Logged(change[1], change[2])'
    BY <1>0, <1>1 DEF ChangesAreAudited, Logged
  <2>2. \A entry \in log' :
          /\ entry.key \in DOMAIN keys' /\ CanAdminister(Role[entry.by])
          /\ entry.action = "revoke_key" => keys'[entry.key].revoked = TRUE
    <3>1. \A entry \in log : entry.action = "revoke_key" => keys[entry.key].revoked = TRUE
      BY DEF IInv, ChangesAreAudited, TypeOK, IsPartial, KeyRow
    <3> QED BY <1>0, <1>1, <3>1 DEF ChangesAreAudited, Grows
  <2> QED BY <2>1, <2>2 DEF ChangesAreAudited
<1>2. ASSUME NEW s \in Slot, Record(s) PROVE ChangesAreAudited'
  <2> DEFINE r == requests[s]
             e == [action |-> r.route, key |-> r.key, by |-> r.by]
  <2>1. log' = log \cup {e} /\ UNCHANGED <<keys, answered>>
    BY <1>2 DEF Record
  <2>2. e.key = r.key /\ e.by = r.by /\ e.action = r.route
    OBVIOUS
  <2>3. /\ r.key \in DOMAIN keys /\ CanAdminister(Role[r.by])
        /\ r.route = "revoke_key" => keys[r.key].revoked = TRUE
    BY <1>0, <1>2, RequestKinds DEF Record, Good, Admin, AdminRequest
  <2>4. \A change \in answered' : Logged(change[1], change[2])'
    BY <1>0, <2>1 DEF ChangesAreAudited, Logged
  <2> HIDE DEF e, r
  <2>5. \A entry \in log' :
          /\ entry.key \in DOMAIN keys' /\ CanAdminister(Role[entry.by])
          /\ entry.action = "revoke_key" => keys'[entry.key].revoked
    BY <1>0, <2>1, <2>2, <2>3 DEF ChangesAreAudited
  <2> QED BY <2>4, <2>5 DEF ChangesAreAudited
<1>3. ASSUME NEW s \in Slot, Answer(s) PROVE ChangesAreAudited'
  <2> DEFINE r == requests[s]
  <2>1. UNCHANGED <<keys, log>>
    BY <1>3 DEF Answer, store
  <2>2. \A change \in answered' :
            change \in answered \/ (r.route \in Management /\ change = <<r.route, r.key>>)
    <3> DEFINE new == <<r.route, r.key>>
    <3>1. answered' = IF r.route \in Management THEN answered \cup {new} ELSE answered
      BY <1>3 DEF Answer
    <3> HIDE DEF new
    <3>2. \A change \in answered' : change \in answered \/ (r.route \in Management /\ change = new)
      BY <3>1
    <3> QED BY <3>2 DEF new
  <2>3. r.route \in Management => r.phase = "recorded"
    <3>1. r.phase \in {"served", "recorded"} /\ r \in Request
      BY <1>0, <1>3 DEF Answer
    <3>2. r \in SdkRequest => r.route \notin Management
      BY DEF SdkRequest, Sdk, Management
    <3> QED BY <3>1, <3>2, RequestKinds
  <2>4. r.route \in Management => Logged(r.route, r.key)
    BY <1>0, <2>3 DEF Good
  <2>5. \A change \in answered' : Logged(change[1], change[2])
    BY <1>0, <2>2, <2>4 DEF ChangesAreAudited
  <2> QED BY <1>0, <2>1, <2>5 DEF ChangesAreAudited, Logged
<1>4. ASSUME NEW s \in Slot, Authenticate(s) \/ WriteKey(s) \/ Cut(s) PROVE ChangesAreAudited'
  BY <1>1, <1>4 DEF Authenticate, WriteKey, Cut, store
<1>5. ASSUME NEW s, NEW r, NEW passes, Arrive(s, r, passes) PROVE ChangesAreAudited'
  BY <1>1, <1>5 DEF Arrive, store
<1>6. CASE Tick \/ UNCHANGED vars \/ (\E u \in User : Login(u)) \/ (\E n \in Node : Restart(n))
  BY <1>1, <1>6 DEF Tick, vars, Login, Restart, store
<1>7. CASE \E n \in Node, k \in Key : Touch(n, k) \/ TouchFails(n, k)
  BY <1>1, <1>7 DEF Touch, TouchFails, store
<1> QED BY <1>2, <1>3, <1>4, <1>5, <1>6, <1>7 DEF Next, SendSdk, SendAdmin

\* The inductive invariant holds throughout.
LEMMA InvHolds == Spec => []IInv
<1>1. IInv /\ [Next]_vars => IInv'
  BY NextType, NextGood, NextAudited DEF IInv
<1> QED BY InitInv, <1>1, PTL DEF Spec

-----------------------------------------------------------------------------
(* Theorems *)

\* Tables, tokens and requests keep their types, for any number of nodes, keys,
\* users and requests (api/src/auth, storage/api_keys.rs).
THEOREM AccessTypeCorrect == Spec => []TypeOK
<1>1. IInv => TypeOK
  BY DEF IInv
<1> QED BY InvHolds, <1>1, PTL

\* No request that was sent after its key's revocation was answered is served,
\* on however many nodes and with however many requests under way
\* (api/src/auth/extract.rs, storage/api_keys.rs resolve).
THEOREM RevokedIsOutHolds == Spec => []RevokedIsOut
<1>1. IInv => RevokedIsOut
  BY DEF IInv, RevokedIsOut, Good
<1> QED BY InvHolds, <1>1, PTL

\* Every answered change of a key has an audit entry, and every entry stands for
\* a change that was made by someone who may make it (routes/keys.rs,
\* storage/audit.rs).
THEOREM ChangesAreAuditedHolds == Spec => []ChangesAreAudited
<1>1. IInv => ChangesAreAudited
  BY DEF IInv
<1> QED BY InvHolds, <1>1, PTL

\* A step that changes who has a key is the statement of a management request.
LEMMA KeysChangeInWriteKey ==
    ASSUME IInv, [Next]_vars,
           \/ DOMAIN keys' # DOMAIN keys
           \/ \E k \in DOMAIN keys : keys'[k].revoked # keys[k].revoked
    PROVE  \E s \in Slot : WriteKey(s)
<1>1. ASSUME NEW n \in Node, NEW k \in Key, Touch(n, k) PROVE FALSE
  <2>1. \A y \in DOMAIN keys : keys[y] \in KeyRow
    BY DEF IInv, TypeOK, IsPartial
  <2>2. /\ DOMAIN keys' = DOMAIN keys
        /\ \A y \in DOMAIN keys : keys'[y] \in {keys[y], [keys[y] EXCEPT !.last_used = clock]}
    BY <1>1 DEF Touch
  <2>3. \A x \in KeyRow : [x EXCEPT !.last_used = clock].revoked = x.revoked
    BY DEF KeyRow
  <2> QED BY <2>1, <2>2, <2>3
<1>2. keys' # keys
  OBVIOUS
<1>3. ~(\E s \in Slot : Authenticate(s) \/ Record(s) \/ Answer(s) \/ Cut(s))
  BY <1>2 DEF Authenticate, Record, Answer, Cut, store
<1>4. ~(Tick \/ UNCHANGED vars \/ (\E u \in User : Login(u)) \/ (\E n \in Node : Restart(n))
        \/ (\E n \in Node, k \in Key : TouchFails(n, k)))
  BY <1>2 DEF Tick, vars, Login, Restart, TouchFails, store
<1>5. ASSUME NEW s, NEW r, NEW passes PROVE ~Arrive(s, r, passes)
  BY <1>2 DEF Arrive, store
<1> QED BY <1>1, <1>3, <1>4, <1>5 DEF Next, SendSdk, SendAdmin

\* Keys change only at the hands of an owner or admin whose token was live when
\* the request came in, and no revocation is taken back (routes/keys.rs,
\* auth/extract.rs, auth/jwt.rs).
THEOREM KeysChangeUnderAuthorityHolds == Spec => KeysChangeUnderAuthority
<1> DEFINE Changed == \/ DOMAIN keys' # DOMAIN keys
                      \/ \E k \in DOMAIN keys : keys'[k].revoked # keys[k].revoked
           Authorized == \E s \in AdminSlot :
                /\ requests[s].phase = "checked" /\ requests'[s].phase = "written"
                /\ CanAdminister(Role[requests[s].by])
                /\ clock <= tokens[requests[s].by] + Timeout
           Kept == \A k \in DOMAIN keys : k \in DOMAIN keys' /\ (keys[k].revoked => keys'[k].revoked)
<1>1. ASSUME IInv, [Next]_vars, Changed PROVE Authorized
  <2>1. PICK s \in Slot : WriteKey(s)
    BY <1>1, KeysChangeInWriteKey
  <2> DEFINE r == requests[s]
  <2>2. TypeOK /\ Good(s) /\ r \in Request
    BY <1>1 DEF IInv, TypeOK, Request
  <2>3. r.phase = "checked" /\ Admin(r) /\ r \in AdminRequest
    BY <2>1, <2>2, RequestKinds DEF WriteKey, Admin
  <2>4. /\ s \in AdminSlot /\ r.by \in User /\ CanAdminister(Role[r.by])
        /\ r.sent <= tokens[r.by] /\ clock <= r.sent + Timeout
    BY <2>2, <2>3 DEF Good
  <2>5. r.sent \in Nat /\ tokens[r.by] \in Int /\ clock \in Nat /\ Timeout \in Nat
    BY <2>2, <2>3, <2>4, AccessAssumption DEF TypeOK, AdminRequest
  <2>6. PICK k : Written(s, k)
    BY <2>1 DEF WriteKey
  <2>7. requests'[s].phase = "written"
    <3>1. requests'[s] = [r EXCEPT !.phase = "written", !.key = k]
      BY <2>2, <2>6 DEF Written, TypeOK
    <3> QED BY <2>3, <3>1 DEF AdminRequest
  <2>8. clock <= tokens[r.by] + Timeout
    BY <2>4, <2>5
  <2> QED BY <2>3, <2>4, <2>7, <2>8
<1>2. ASSUME IInv, [Next]_vars PROVE Kept
  <2>1. \A k \in DOMAIN keys : keys[k].revoked \in BOOLEAN
    BY <1>2 DEF IInv, TypeOK, IsPartial, KeyRow
  <2> QED BY <1>2, <2>1, NextGrows DEF Grows
<1>3. IInv /\ [Next]_vars => [Changed => Authorized /\ Kept]_vars
  BY <1>1, <1>2
<1> QED BY InvHolds, <1>3, PTL DEF Spec, KeysChangeUnderAuthority

-----------------------------------------------------------------------------
(* Usage. A claim or a use is accounted for while a write for it is on its *)
(* way; once the write has run, by what last_used_at says.                 *)

\* last_used_at says the key was used at t or later.
Covers(k, t) == keys[k].last_used # Never /\ keys[k].last_used >= t

Claims ==
    \A n \in Node : \A k \in DOMAIN tracker[n] :
        /\ k \in DOMAIN keys /\ tracker[n][k] <= clock
        /\ k \in unrecorded \/ touches[n][k] > 0 \/ Covers(k, tracker[n][k] - Interval)

Uses ==
    \A k \in Key :
        /\ used[k] <= clock
        /\ used[k] # Never =>
              /\ k \in DOMAIN keys
              /\ \/ k \in unrecorded \/ \E n \in Node : touches[n][k] > 0
                 \/ Covers(k, used[k] - 2 * Interval + 1)

Spawned == \A n \in Node, k \in Key : touches[n][k] > 0 => k \in DOMAIN keys

Usage == Claims /\ Uses /\ Spawned

\* Nobody has been anywhere yet.
LEMMA InitUsage == Init => Usage
BY DEF Init, Usage, Claims, Uses, Spawned, Empty, Never

\* A step that touches none of the bookkeeping.
LEMMA UsageKept ==
    ASSUME TypeOK, TypeOK', Usage, UNCHANGED <<tracker, touches, used, unrecorded>>, clock' >= clock,
           \A k \in DOMAIN keys : k \in DOMAIN keys' /\ keys'[k].last_used = keys[k].last_used
    PROVE  Usage'
<1>1. clock \in Nat /\ clock' \in Nat
  BY DEF TypeOK
<1>2. \A n \in Node : \A k \in DOMAIN tracker[n] : tracker[n][k] \in Nat
  BY DEF TypeOK, IsPartial
<1>3. \A k \in Key : used[k] \in Int
  BY DEF TypeOK
<1>4. Claims'
  BY <1>1, <1>2 DEF Usage, Claims, Covers
<1>5. Uses'
  BY <1>1, <1>3 DEF Usage, Uses, Covers
<1> QED BY <1>4, <1>5 DEF Usage, Spawned

\* A key authenticates a request: a node whose claim has run out claims a write
\* and spawns it, the others rely on their claim.
LEMMA AuthenticateUsage ==
    ASSUME IInv, TypeOK', Usage, NEW s \in Slot, Authenticate(s)
    PROVE  Usage'
<1> DEFINE r == requests[s]
           k == r.key
           n == r.node
           good == Resolves(k)
           due == good /\ ShouldRecord(n, k)
<1>1. TypeOK /\ r \in Request
  BY DEF IInv, TypeOK, Request
<1>2. k \in Key /\ n \in Node
  BY <1>1, RequestKinds DEF Authenticate, SdkRequest
<1>3. /\ used' = IF good THEN [used EXCEPT ![k] = clock] ELSE used
      /\ tracker' = IF due THEN [tracker EXCEPT ![n] = Put(tracker[n], k, clock)] ELSE tracker
      /\ touches' = IF due THEN [touches EXCEPT ![n][k] = @ + 1] ELSE touches
      /\ UNCHANGED <<clock, keys, unrecorded>>
  BY DEF Authenticate, store
<1>4. good => k \in DOMAIN keys
  BY DEF Resolves
<1>5. ShouldRecord(n, k) <=> (k \in DOMAIN tracker[n] => clock - tracker[n][k] >= Interval)
  BY DEF ShouldRecord
<1>6. /\ clock \in Nat /\ Interval \in Nat \ {0} /\ DOMAIN tracker = Node
      /\ \A m \in Node : \A x \in DOMAIN tracker[m] : x \in Key /\ tracker[m][x] \in Nat
      /\ touches \in [Node -> [Key -> Nat]] /\ used \in [Key -> Int]
      /\ \A x \in DOMAIN keys : keys[x].last_used \in Int
  BY <1>1, AccessAssumption DEF TypeOK, IsPartial, KeyRow
<1> HIDE DEF r, k, n
<1>7. CASE ~good
  <2>1. UNCHANGED <<tracker, touches, used, unrecorded, clock, keys>>
    BY <1>3, <1>7
  <2> QED BY <1>1, <1>6, <2>1, UsageKept
<1>8. CASE good /\ due
  <2>1. /\ used' = [used EXCEPT ![k] = clock] /\ tracker' = [tracker EXCEPT ![n] = Put(tracker[n], k, clock)]
        /\ touches' = [touches EXCEPT ![n] = [touches[n] EXCEPT ![k] = touches[n][k] + 1]]
    BY <1>3, <1>8
  <2>2. \A m \in Node, x \in Key :
           touches'[m][x] = IF m = n /\ x = k THEN touches[n][k] + 1 ELSE touches[m][x]
    BY <1>2, <1>6, <2>1
  <2>3. touches'[n][k] > 0 /\ \A m \in Node, x \in Key : touches[m][x] > 0 => touches'[m][x] > 0
    BY <1>2, <1>6, <2>2
  <2>4. Claims'
    <3> SUFFICES ASSUME NEW m \in Node, NEW x \in DOMAIN tracker'[m]
                 PROVE  /\ x \in DOMAIN keys /\ tracker'[m][x] <= clock
                        /\ x \in unrecorded \/ touches'[m][x] > 0 \/ Covers(x, tracker'[m][x] - Interval)
      BY <1>3 DEF Claims, Covers
    <3>1. CASE m = n /\ x = k
      BY <1>2, <1>4, <1>6, <1>8, <2>1, <2>3, <3>1 DEF Put
    <3>2. CASE ~(m = n /\ x = k)
      <4>1. x \in DOMAIN tracker[m] /\ tracker'[m][x] = tracker[m][x]
        BY <1>2, <1>6, <2>1, <3>2 DEF Put
      <4> QED BY <1>6, <2>3, <4>1 DEF Usage, Claims
    <3> QED BY <3>1, <3>2
  <2>5. Uses'
    <3> SUFFICES ASSUME NEW x \in Key
                 PROVE  /\ used'[x] <= clock
                        /\ used'[x] # Never =>
                              /\ x \in DOMAIN keys
                              /\ \/ x \in unrecorded \/ \E m \in Node : touches'[m][x] > 0
                                 \/ Covers(x, used'[x] - 2 * Interval + 1)
      BY <1>3 DEF Uses, Covers
    <3>1. CASE x = k
      BY <1>2, <1>4, <1>6, <1>8, <2>1, <2>3, <3>1
    <3>2. CASE x # k
      <4>1. used'[x] = used[x]
        BY <2>1, <3>2, <1>6
      <4> QED BY <2>3, <4>1 DEF Usage, Uses
    <3> QED BY <3>1, <3>2
  <2>6. Spawned'
    BY <1>2, <1>3, <1>4, <1>6, <1>8, <2>2 DEF Usage, Spawned
  <2> QED BY <2>4, <2>5, <2>6 DEF Usage
<1>9. CASE good /\ ~due
  <2>1. used' = [used EXCEPT ![k] = clock] /\ UNCHANGED <<tracker, touches, unrecorded, clock, keys>>
    BY <1>3, <1>9
  <2>2. k \in DOMAIN tracker[n] /\ ~(clock - tracker[n][k] >= Interval)
    BY <1>5, <1>9
  <2>3. Claims' /\ Spawned'
    BY <2>1 DEF Usage, Claims, Spawned, Covers
  <2>4. k \in unrecorded \/ touches[n][k] > 0 \/ Covers(k, tracker[n][k] - Interval)
    BY <1>2, <2>2 DEF Usage, Claims
  <2>5. Covers(k, tracker[n][k] - Interval) => Covers(k, clock - 2 * Interval + 1)
    BY <1>2, <1>4, <1>6, <1>9, <2>2 DEF Covers
  <2>6. Uses'
    <3> SUFFICES ASSUME NEW x \in Key
                 PROVE  /\ used'[x] <= clock
                        /\ used'[x] # Never =>
                              /\ x \in DOMAIN keys
                              /\ \/ x \in unrecorded \/ \E m \in Node : touches[m][x] > 0
                                 \/ Covers(x, used'[x] - 2 * Interval + 1)
      BY <2>1 DEF Uses, Covers
    <3>1. CASE x = k
      BY <1>2, <1>4, <1>6, <1>9, <2>1, <2>4, <2>5, <3>1
    <3>2. CASE x # k
      BY <1>6, <2>1, <3>2 DEF Usage, Uses
    <3> QED BY <3>1, <3>2
  <2> QED BY <2>3, <2>6 DEF Usage
<1> QED BY <1>7, <1>8, <1>9

\* Once a write has run, last_used_at is at most an interval old.
LEMMA TouchUsage ==
    ASSUME IInv, TypeOK', Usage, NEW n \in Node, NEW k \in Key, Touch(n, k)
    PROVE  Usage'
<1>1. /\ touches[n][k] > 0 /\ k \in DOMAIN keys
      /\ touches' = [touches EXCEPT ![n] = [touches[n] EXCEPT ![k] = touches[n][k] - 1]]
      /\ keys' = IF keys[k].last_used = Never \/ keys[k].last_used < clock - Interval
                 THEN [keys EXCEPT ![k].last_used = clock] ELSE keys
      /\ UNCHANGED <<clock, tracker, used, unrecorded>>
  BY DEF Touch, Usage, Spawned
<1>2. /\ clock \in Nat /\ Interval \in Nat \ {0} /\ DOMAIN tracker = Node
      /\ \A m \in Node : \A x \in DOMAIN tracker[m] : x \in Key /\ tracker[m][x] \in Nat
      /\ touches \in [Node -> [Key -> Nat]] /\ used \in [Key -> Int]
      /\ \A x \in DOMAIN keys : keys[x] \in KeyRow /\ keys[x].last_used \in Int
  BY AccessAssumption DEF IInv, TypeOK, IsPartial, KeyRow
<1>3. /\ DOMAIN keys' = DOMAIN keys
      /\ \A x \in DOMAIN keys : x # k => keys'[x] = keys[x]
      /\ keys'[k].last_used = IF keys[k].last_used = Never \/ keys[k].last_used < clock - Interval
                              THEN clock ELSE keys[k].last_used
  <2>1. [keys[k] EXCEPT !.last_used = clock].last_used = clock
    BY <1>1, <1>2 DEF KeyRow
  <2> QED BY <1>1, <2>1
<1>4. keys'[k].last_used # Never /\ keys'[k].last_used \in Int /\ keys'[k].last_used >= clock - Interval
  BY <1>1, <1>2, <1>3 DEF Never
<1>5. \A m \in Node, x \in Key : x # k => touches'[m][x] = touches[m][x]
  BY <1>1, <1>2
<1>6. \A m \in Node, x \in Key : touches'[m][x] > 0 => touches[m][x] > 0
  BY <1>1, <1>2
<1>7. Claims'
  <2> SUFFICES ASSUME NEW m \in Node, NEW x \in DOMAIN tracker[m]
               PROVE  /\ x \in DOMAIN keys' /\ tracker[m][x] <= clock
                      /\ \/ x \in unrecorded \/ touches'[m][x] > 0
                         \/ keys'[x].last_used # Never /\ keys'[x].last_used >= tracker[m][x] - Interval
    BY <1>1 DEF Claims, Covers
  <2>1. x \in Key /\ tracker[m][x] \in Nat /\ x \in DOMAIN keys /\ tracker[m][x] <= clock
    BY <1>2 DEF Usage, Claims
  <2>2. CASE x = k
    <3>1. keys'[x].last_used >= tracker[m][x] - Interval
      BY <1>2, <1>4, <2>1, <2>2
    <3> QED BY <1>3, <1>4, <2>1, <2>2, <3>1
  <2>3. CASE x # k
    <3>1. x \in unrecorded \/ touches[m][x] > 0 \/ Covers(x, tracker[m][x] - Interval)
      BY DEF Usage, Claims
    <3>2. keys'[x] = keys[x] /\ touches'[m][x] = touches[m][x]
      BY <1>3, <1>5, <2>1, <2>3
    <3> QED BY <1>3, <2>1, <3>1, <3>2 DEF Covers
  <2> QED BY <2>2, <2>3
<1>8. Uses'
  <2> SUFFICES ASSUME NEW x \in Key
               PROVE  /\ used[x] <= clock
                      /\ used[x] # Never =>
                            /\ x \in DOMAIN keys'
                            /\ \/ x \in unrecorded \/ \E m \in Node : touches'[m][x] > 0
                               \/ /\ keys'[x].last_used # Never
                                  /\ keys'[x].last_used >= used[x] - 2 * Interval + 1
    BY <1>1 DEF Uses, Covers
  <2>1. used[x] <= clock /\ used[x] \in Int
    BY <1>2 DEF Usage, Uses
  <2>2. CASE x = k
    <3>1. keys'[x].last_used >= used[x] - 2 * Interval + 1
      BY <1>2, <1>4, <2>1, <2>2
    <3> QED BY <1>1, <1>3, <1>4, <2>1, <2>2, <3>1
  <2>3. CASE x # k
    <3>1. used[x] # Never =>
            /\ x \in DOMAIN keys
            /\ x \in unrecorded \/ (\E m \in Node : touches[m][x] > 0) \/ Covers(x, used[x] - 2 * Interval + 1)
      BY DEF Usage, Uses
    <3>2. /\ x \in DOMAIN keys => x \in DOMAIN keys' /\ keys'[x] = keys[x]
          /\ \A m \in Node : touches'[m][x] = touches[m][x]
      BY <1>3, <1>5, <2>3
    <3> QED BY <2>1, <3>1, <3>2 DEF Covers
  <2> QED BY <2>2, <2>3
<1>9. Spawned'
  BY <1>3, <1>6 DEF Usage, Spawned
<1> QED BY <1>7, <1>8, <1>9 DEF Usage

\* A lost write marks its key.
LEMMA TouchFailsUsage ==
    ASSUME IInv, TypeOK', Usage, NEW n \in Node, NEW k \in Key, TouchFails(n, k)
    PROVE  Usage'
<1>1. /\ touches' = [touches EXCEPT ![n] = [touches[n] EXCEPT ![k] = touches[n][k] - 1]]
      /\ unrecorded' = unrecorded \cup {k}
      /\ UNCHANGED <<clock, tracker, keys, used>>
  BY DEF TouchFails, store
<1>2. touches \in [Node -> [Key -> Nat]] /\ \A m \in Node : DOMAIN tracker[m] \subseteq Key
  BY DEF IInv, TypeOK, IsPartial
<1>3. \A m \in Node, x \in Key : x # k => touches'[m][x] = touches[m][x]
  BY <1>1, <1>2
<1>4. \A m \in Node, x \in Key : touches'[m][x] > 0 => touches[m][x] > 0
  BY <1>1, <1>2
<1>5. Claims'
  BY <1>1, <1>2, <1>3 DEF Usage, Claims, Covers
<1>6. Uses'
  BY <1>1, <1>3 DEF Usage, Uses, Covers
<1>7. Spawned'
  BY <1>1, <1>4 DEF Usage, Spawned
<1> QED BY <1>5, <1>6, <1>7 DEF Usage

\* A restart forgets the claims of its node and loses the writes it had spawned.
LEMMA RestartUsage ==
    ASSUME IInv, TypeOK', Usage, NEW n \in Node, Restart(n)
    PROVE  Usage'
<1>1. /\ tracker' = [tracker EXCEPT ![n] = Empty]
      /\ touches' = [touches EXCEPT ![n] = [k \in Key |-> 0]]
      /\ unrecorded' = unrecorded \cup {k \in Key : touches[n][k] > 0}
      /\ UNCHANGED <<clock, keys, used>>
  BY DEF Restart, store
<1>2. /\ touches \in [Node -> [Key -> Nat]]
      /\ DOMAIN tracker = Node /\ \A m \in Node : DOMAIN tracker[m] \subseteq Key
  BY DEF IInv, TypeOK, IsPartial
<1>3. \A m \in Node, x \in Key : touches'[m][x] = IF m = n THEN 0 ELSE touches[m][x]
  BY <1>1, <1>2
<1>4. \A m \in Node, x \in Key : touches[m][x] > 0 => touches'[m][x] > 0 \/ x \in unrecorded'
  BY <1>1, <1>2, <1>3
<1>5. Claims'
  <2> SUFFICES ASSUME NEW m \in Node, NEW x \in DOMAIN tracker'[m]
               PROVE  /\ x \in DOMAIN keys /\ tracker'[m][x] <= clock
                      /\ x \in unrecorded' \/ touches'[m][x] > 0 \/ Covers(x, tracker'[m][x] - Interval)
    BY <1>1 DEF Claims, Covers
  <2>1. x \in DOMAIN tracker[m] /\ tracker'[m] = tracker[m]
    BY <1>1, <1>2 DEF Empty
  <2>2. x \in Key
    BY <1>2, <2>1
  <2> QED BY <1>1, <1>4, <2>1, <2>2 DEF Usage, Claims
<1>6. Uses'
  BY <1>1, <1>4 DEF Usage, Uses, Covers
<1>7. Spawned'
  BY <1>1, <1>3 DEF Usage, Spawned
<1> QED BY <1>5, <1>6, <1>7 DEF Usage

\* An administrator's statement leaves last_used_at alone.
LEMMA WriteKeyKeepsUse ==
    ASSUME TypeOK, NEW s \in Slot, WriteKey(s)
    PROVE  \A k \in DOMAIN keys : k \in DOMAIN keys' /\ keys'[k].last_used = keys[k].last_used
<1>1. \A k \in DOMAIN keys : keys[k] \in KeyRow
  BY DEF TypeOK, IsPartial
<1>2. \A row \in KeyRow : [row EXCEPT !.revoked = TRUE].last_used = row.last_used
  BY DEF KeyRow
<1>3. CASE \E k \in Key \ DOMAIN keys, scope \in {"server", "client"} :
              keys' = Put(keys, k, [scope |-> scope, revoked |-> FALSE, last_used |-> Never])
  BY <1>3 DEF Put
<1>4. CASE keys' = [keys EXCEPT ![requests[s].key].revoked = TRUE]
  <2>1. /\ DOMAIN keys' = DOMAIN keys
        /\ \A k \in DOMAIN keys : keys'[k] \in {keys[k], [keys[k] EXCEPT !.revoked = TRUE]}
    BY <1>4
  <2> QED BY <1>1, <1>2, <2>1
<1> QED BY <1>3, <1>4 DEF WriteKey

\* Every step keeps the account.
LEMMA NextUsage == IInv /\ TypeOK' /\ Usage /\ [Next]_vars => Usage'
<1> SUFFICES ASSUME IInv, TypeOK', Usage, [Next]_vars PROVE Usage'
  OBVIOUS
<1>1. TypeOK /\ clock \in Nat /\ clock >= clock /\ clock + 1 >= clock
  BY DEF IInv, TypeOK
<1>2. ASSUME NEW s, NEW r, NEW passes, Arrive(s, r, passes) PROVE Usage'
  BY <1>1, <1>2, UsageKept DEF Arrive, store
<1>3. ASSUME NEW s \in Slot, WriteKey(s) PROVE Usage'
  <2>1. UNCHANGED <<tracker, touches, used, unrecorded, clock>>
    BY <1>3 DEF WriteKey
  <2> QED BY <1>1, <1>3, <2>1, WriteKeyKeepsUse, UsageKept
<1>4. ASSUME NEW s \in Slot, Record(s) \/ Answer(s) \/ Cut(s) PROVE Usage'
  BY <1>1, <1>4, UsageKept DEF Record, Answer, Cut, store
<1>5. CASE Tick \/ UNCHANGED vars \/ \E u \in User : Login(u)
  BY <1>1, <1>5, UsageKept DEF Tick, vars, Login, store
<1> QED BY <1>2, <1>3, <1>4, <1>5, AuthenticateUsage, TouchUsage, TouchFailsUsage, RestartUsage
        DEF Next, SendSdk, SendAdmin

\* Once no write of it is on its way and none was lost, a key's last_used_at is
\* less than two intervals older than its last use, on any number of nodes with
\* trackers of their own (usage.rs should_record, api_keys.rs touch).
THEOREM UsageFreshHolds == Spec => []UsageFresh
<1>1. IInv /\ Usage => UsageFresh
  <2> SUFFICES ASSUME IInv, Usage, NEW k \in DOMAIN keys, used[k] # Never, k \notin unrecorded,
                      \A n \in Node : touches[n][k] = 0
               PROVE  keys[k].last_used # Never /\ used[k] - keys[k].last_used < 2 * Interval
    BY DEF UsageFresh
  <2>1. k \in Key /\ used[k] \in Int /\ keys[k].last_used \in Int /\ Interval \in Nat
    BY AccessAssumption DEF IInv, TypeOK, IsPartial, KeyRow
  <2>2. Covers(k, used[k] - 2 * Interval + 1)
    BY <2>1 DEF Usage, Uses
  <2> QED BY <2>1, <2>2 DEF Covers
<1>2. IInv => TypeOK
  BY DEF IInv
<1> QED BY InitUsage, InvHolds, NextUsage, <1>1, <1>2, PTL DEF Spec

-----------------------------------------------------------------------------
(* The rate limiter, which a request passes before it gets to Access.      *)

\* A request whose check is under way.
CheckUnderWay == [phase : {"sweep", "charge"}, client : BucketKey, now : Nat]

\* Times and tokens are numbers, no bucket holds more than fits, and nobody
\* has read a clock that is ahead.
LimiterTypes ==
    /\ clock \in Nat
    /\ DOMAIN buckets \subseteq BucketKey
    /\ \A c \in DOMAIN buckets :
          /\ buckets[c].tokens \in Nat /\ buckets[c].tokens <= Full
          /\ buckets[c].last_refill \in Nat /\ buckets[c].last_refill <= clock
    /\ checks \in [Worker -> CheckUnderWay \cup {Idle}]
    /\ \A w \in Worker : checks[w] # Idle => checks[w].now <= clock
    /\ lag \in [BucketKey -> Nat]
    /\ DOMAIN admitted \subseteq BucketKey
    /\ \A c \in DOMAIN admitted : admitted[c] \in Seq(Nat \X Nat)
    /\ DOMAIN promised \subseteq BucketKey
    /\ \A c \in DOMAIN promised : promised[c] \in Nat

\* What so many ticks refill, and what so many requests cost.
Rate(t) == PerSecond * t
Cost(n) == n * Second

\* When an admission counts: the delays of the checks before it come on top.
Stamp(entry) == entry[1] + entry[2]

\* Every stretch of admissions fits into the burst and what it refills.
Within(at) ==
    \A i \in 1..Len(at) : \A j \in i..Len(at) :
        Cost(j - i + 1) <= Full + Rate(Stamp(at[j]) - Stamp(at[i]))

\* The admissions from any on, and the tokens left, fit into the burst and what
\* was refilled by the tick.
Holds(at, rest, tick) ==
    \A i \in 1..Len(at) : Cost(Len(at) - i + 1) + rest <= Full + Rate(tick - Stamp(at[i]))

\* What a bucket holds is what the admissions have left of it; a client without
\* one has a full bucket.
Budget ==
    \A c \in DOMAIN admitted :
        /\ Within(admitted[c])
        /\ IF c \in DOMAIN buckets
           THEN Holds(admitted[c], buckets[c].tokens, buckets[c].last_refill + lag[c])
           ELSE Holds(admitted[c], Full, clock + lag[c])

\* By the time a client was told to come back, its bucket has a token.
Promise ==
    \A c \in DOMAIN promised \cap DOMAIN buckets :
        /\ buckets[c].last_refill <= promised[c]
        /\ Second <= buckets[c].tokens + Rate(promised[c] - buckets[c].last_refill)

LimiterInv == LimiterTypes /\ Budget /\ Promise

-----------------------------------------------------------------------------
\* Refill is proportional to time, cost to the number of requests.
LEMMA Proportions ==
    /\ Full \in Nat /\ Second \in Nat /\ Second >= 1 /\ Second <= Full
    /\ Cost(1) = Second /\ Rate(0) = 0
    /\ \A x \in Int : Rate(x) \in Int /\ Cost(x) \in Int /\ Cost(x + 1) = Cost(x) + Second
    /\ \A x, y \in Int : Rate(x + y) = Rate(x) + Rate(y)
    /\ \A x, y \in Int : x <= y => Rate(x) <= Rate(y)
<1>1. PerSecond \in Nat /\ PerSecond >= 1 /\ Second \in Nat /\ Second >= 1 /\ Burst \in Nat /\ Burst >= 1
  BY RateLimiterAssumption
<1>2. Full \in Nat
  BY <1>1 DEF Full
<1>3. Second <= Full
  <2>1. Burst * Second = Second + (Burst - 1) * Second
    BY <1>1
  <2>2. (Burst - 1) * Second >= 0
    BY <1>1
  <2> QED BY <1>1, <2>1, <2>2 DEF Full
<1>4. \A x \in Int : Rate(x) \in Int /\ Cost(x) \in Int /\ Cost(x + 1) = Cost(x) + Second
  BY <1>1 DEF Rate, Cost
<1>5. \A x, y \in Int : Rate(x + y) = Rate(x) + Rate(y)
  BY <1>1 DEF Rate
<1>6. \A x, y \in Int : x <= y => Rate(x) <= Rate(y)
  <2> SUFFICES ASSUME NEW x \in Int, NEW y \in Int, x <= y PROVE Rate(x) <= Rate(y)
    OBVIOUS
  <2>1. y = x + (y - x) /\ y - x \in Nat
    OBVIOUS
  <2>2. Rate(y) = Rate(x) + Rate(y - x)
    BY <1>5, <2>1
  <2>3. Rate(y - x) >= 0
    BY <1>1, <2>1 DEF Rate
  <2> QED BY <1>4, <2>1, <2>2, <2>3
<1>7. Cost(1) = Second /\ Rate(0) = 0
  BY <1>1 DEF Cost, Rate
<1> QED BY <1>1, <1>2, <1>3, <1>4, <1>5, <1>6, <1>7

\* A bucket's tokens at a tick: no more than were there and were refilled since,
\* nor than fit.
LEMMA RefilledIs ==
    ASSUME NEW b, b.tokens \in Nat, b.tokens <= Full, b.last_refill \in Nat, NEW now \in Nat
    PROVE  /\ Refilled(b, now) \in Nat /\ Refilled(b, now) <= Full
           /\ \A t \in Nat : now <= t /\ b.last_refill <= t =>
                 Refilled(b, now) <= b.tokens + Rate(t - b.last_refill)
           /\ b.last_refill <= now =>
                 \/ Refilled(b, now) = Full
                 \/ Refilled(b, now) = b.tokens + Rate(now - b.last_refill)
<1> DEFINE s == Since(b, now)
<1>1. s \in Nat /\ (b.last_refill <= now => s = now - b.last_refill)
  BY DEF Since
<1>2. \A t \in Nat : now <= t /\ b.last_refill <= t => s <= t - b.last_refill
  BY DEF Since
<1> HIDE DEF s
<1>3. s * PerSecond = Rate(s) /\ Rate(s) \in Int /\ Rate(s) >= 0
  <2>1. s * PerSecond = PerSecond * s
    BY <1>1, RateLimiterAssumption
  <2>2. Rate(s) \in Int /\ Rate(0) <= Rate(s) /\ Rate(0) = 0
    <3>1. s \in Int /\ 0 \in Int /\ 0 <= s
      BY <1>1
    <3>2. Rate(0) <= Rate(s)
      BY <3>1, Proportions
    <3> QED BY <3>1, <3>2, Proportions
  <2> QED BY <2>1, <2>2 DEF Rate
<1>4. Refilled(b, now) = IF b.tokens + Rate(s) < Full THEN b.tokens + Rate(s) ELSE Full
  BY <1>3 DEF Refilled, Least, s
<1>5. /\ Refilled(b, now) \in Nat /\ Refilled(b, now) <= Full
      /\ Refilled(b, now) <= b.tokens + Rate(s)
  <2>1. Full \in Nat
    BY Proportions
  <2> QED BY <1>3, <1>4, <2>1
<1>6. ASSUME NEW t \in Nat, now <= t, b.last_refill <= t
      PROVE  Refilled(b, now) <= b.tokens + Rate(t - b.last_refill)
  <2>1. Rate(s) <= Rate(t - b.last_refill) /\ Rate(t - b.last_refill) \in Int
    <3> DEFINE r == t - b.last_refill
    <3>1. r \in Int /\ s \in Int /\ s <= r
      BY <1>1, <1>2, <1>6
    <3> HIDE DEF r
    <3>2. Rate(s) <= Rate(r) /\ Rate(r) \in Int
      BY <3>1, Proportions
    <3> QED BY <3>2 DEF r
  <2> QED BY <1>3, <1>5, <2>1
<1>7. b.last_refill <= now =>
         \/ Refilled(b, now) = Full
         \/ Refilled(b, now) = b.tokens + Rate(now - b.last_refill)
  BY <1>1, <1>4
<1> QED BY <1>5, <1>6, <1>7

\* More time, or fewer tokens, and what was admitted still fits.
LEMMA HoldsLonger ==
    ASSUME NEW at \in Seq(Nat \X Nat), NEW x \in Int, NEW y \in Int, NEW t \in Int, NEW u \in Int,
           Holds(at, x, t), t <= u, y <= x + Rate(u - t)
    PROVE  Holds(at, y, u)
<1> SUFFICES ASSUME NEW i \in 1..Len(at)
             PROVE  Cost(Len(at) - i + 1) + y <= Full + Rate(u - Stamp(at[i]))
  BY DEF Holds
<1> DEFINE s == Stamp(at[i])
<1>1. s \in Int
  BY DEF Stamp
<1>2. Cost(Len(at) - i + 1) + x <= Full + Rate(t - s)
  BY DEF Holds
<1> HIDE DEF s
<1>3. Rate(u - s) = Rate(u - t) + Rate(t - s)
  <2>1. u - s = (u - t) + (t - s) /\ u - t \in Int /\ t - s \in Int
    BY <1>1
  <2> QED BY <2>1, Proportions
<1>4. Cost(Len(at) - i + 1) \in Int /\ Rate(u - t) \in Int /\ Rate(t - s) \in Int
  <2> DEFINE a == Len(at) - i + 1
             b == u - t
             d == t - s
  <2>1. a \in Int /\ b \in Int /\ d \in Int
    BY <1>1
  <2> HIDE DEF a, b, d
  <2>2. Cost(a) \in Int /\ Rate(b) \in Int /\ Rate(d) \in Int
    BY <2>1, Proportions
  <2> QED BY <2>2 DEF a, b, d
<1>5. Full \in Int
  BY Proportions
<1>6. Cost(Len(at) - i + 1) + y <= Full + Rate(u - s)
  BY <1>2, <1>3, <1>4, <1>5
<1> QED BY <1>6 DEF s

\* One more admission, out of the tokens there are.
LEMMA HoldsOneMore ==
    ASSUME NEW at \in Seq(Nat \X Nat), NEW held \in Nat, Second <= held, held <= Full,
           NEW e \in Nat \X Nat,
           Within(at), Holds(at, held, Stamp(e))
    PROVE  Within(Append(at, e)) /\ Holds(Append(at, e), held - Second, Stamp(e))
<1> DEFINE n == Len(at)
           bt == Append(at, e)
<1>1. n \in Nat /\ Len(bt) = n + 1 /\ bt[n + 1] = e /\ \A i \in 1..n : bt[i] = at[i] /\ at[i] \in Nat \X Nat
  OBVIOUS
<1>2. Stamp(e) \in Int /\ \A i \in 1..n : Stamp(at[i]) \in Int
  BY <1>1 DEF Stamp
<1>3. \A i \in 1..n : Cost(n - i + 1) + held <= Full + Rate(Stamp(e) - Stamp(at[i]))
  BY DEF Holds
<1>4. /\ Within(at)
      /\ \A i \in 1..n : \A j \in i..n : Cost(j - i + 1) <= Full + Rate(Stamp(at[j]) - Stamp(at[i]))
  BY DEF Within
<1> HIDE DEF n, bt
<1>5. \A i \in 1..n : /\ Cost((n + 1) - i + 1) = Cost(n - i + 1) + Second
                      /\ Cost(n - i + 1) \in Int /\ Rate(Stamp(e) - Stamp(at[i])) \in Int
  <2> TAKE i \in 1..n
  <2>1. n - i + 1 \in Int /\ (n + 1) - i + 1 = (n - i + 1) + 1
    BY <1>1
  <2>2. Stamp(e) - Stamp(at[i]) \in Int
    BY <1>2
  <2> QED BY <2>1, <2>2, Proportions
<1>6. Cost((n + 1) - (n + 1) + 1) = Second /\ Rate(Stamp(e) - Stamp(e)) = 0
  BY <1>1, <1>2, Proportions
<1>0. Full \in Nat /\ Second \in Nat
  BY Proportions
<1>7. Holds(bt, held - Second, Stamp(e))
  <2> SUFFICES ASSUME NEW i \in 1..(n + 1)
               PROVE  Cost((n + 1) - i + 1) + (held - Second) <= Full + Rate(Stamp(e) - Stamp(bt[i]))
    BY <1>1 DEF Holds
  <2>1. CASE i \in 1..n
    BY <1>0, <1>1, <1>3, <1>5, <2>1
  <2>2. CASE i = n + 1
    BY <1>0, <1>1, <1>6, <2>2
  <2> QED BY <1>1, <2>1, <2>2
<1>8. Within(bt)
  <2> SUFFICES ASSUME NEW i \in 1..(n + 1), NEW j \in i..(n + 1)
               PROVE  Cost(j - i + 1) <= Full + Rate(Stamp(bt[j]) - Stamp(bt[i]))
    BY <1>1 DEF Within
  <2>1. CASE j \in 1..n
    <3>1. i \in 1..n /\ j \in i..n
      BY <1>1, <2>1
    <3> QED BY <1>1, <1>4, <2>1, <3>1
  <2>2. CASE j = n + 1 /\ i \in 1..n
    <3>1. bt[j] = e /\ bt[i] = at[i] /\ j - i + 1 = (n + 1) - i + 1
      BY <1>1, <2>2
    <3>2. Cost((n + 1) - i + 1) <= Full + Rate(Stamp(e) - Stamp(at[i]))
      BY <1>0, <1>3, <1>5, <2>2
    <3> QED BY <3>1, <3>2
  <2>3. CASE j = n + 1 /\ i = n + 1
    <3>1. Second <= Full
      BY Proportions
    <3> QED BY <1>0, <1>1, <1>6, <2>3, <3>1
  <2> QED BY <1>1, <2>1, <2>2, <2>3
<1> QED BY <1>7, <1>8 DEF bt

\* A bucket that is lost full is worth what it held.
LEMMA LoseBudget ==
    ASSUME LimiterTypes, Budget, NEW S, S \subseteq DOMAIN buckets, UNCHANGED <<clock, lag>>,
           buckets' = Without(buckets, S), admitted' = Without(admitted, ShortOfFull(S))
    PROVE  Budget'
<1>1. /\ DOMAIN buckets' = DOMAIN buckets \ S
      /\ \A c \in DOMAIN buckets' : buckets'[c] = buckets[c]
      /\ DOMAIN admitted' = DOMAIN admitted \ ShortOfFull(S)
      /\ \A c \in DOMAIN admitted' : admitted'[c] = admitted[c]
  BY DEF Without, Restrict
<1> SUFFICES ASSUME NEW c \in DOMAIN admitted \ ShortOfFull(S)
             PROVE  /\ Within(admitted[c])
                    /\ IF c \in DOMAIN buckets \ S
                       THEN Holds(admitted[c], buckets[c].tokens, buckets[c].last_refill + lag[c])
                       ELSE Holds(admitted[c], Full, clock + lag[c])
  BY <1>1 DEF Budget
<1>2. CASE c \notin S
  BY <1>2 DEF Budget
<1>3. CASE c \in S
  <2> DEFINE b == buckets[c]
  <2>1. /\ b.tokens \in Nat /\ b.tokens <= Full /\ b.last_refill \in Nat /\ b.last_refill <= clock
        /\ clock \in Nat /\ lag[c] \in Nat /\ admitted[c] \in Seq(Nat \X Nat)
    BY <1>3 DEF LimiterTypes
  <2>2. ~(Refilled(b, clock) < Full)
    BY <1>3 DEF ShortOfFull
  <2>3. Within(admitted[c]) /\ Holds(admitted[c], b.tokens, b.last_refill + lag[c])
    BY <1>3 DEF Budget
  <2> HIDE DEF b
  <2>4. Full <= b.tokens + Rate(clock - b.last_refill) /\ Full \in Int
    <3>1. /\ Refilled(b, clock) \in Nat /\ Refilled(b, clock) <= Full
          /\ Refilled(b, clock) <= b.tokens + Rate(clock - b.last_refill)
      BY <2>1, RefilledIs
    <3>2. Full \in Nat
      BY Proportions
    <3> QED BY <2>2, <3>1, <3>2
  <2> DEFINE t == b.last_refill + lag[c]
             u == clock + lag[c]
  <2>5. t \in Int /\ u \in Int /\ t <= u /\ u - t = clock - b.last_refill
    BY <2>1
  <2>6. Holds(admitted[c], b.tokens, t) /\ Full <= b.tokens + Rate(u - t)
    BY <2>3, <2>4, <2>5
  <2>7. b.tokens \in Int
    BY <2>1
  <2> HIDE DEF t, u
  <2>8. Holds(admitted[c], Full, u)
    BY <2>1, <2>4, <2>5, <2>6, <2>7, HoldsLonger
  <2> QED BY <1>3, <2>3, <2>8 DEF u
<1> QED BY <1>2, <1>3

\* Buckets and promises that go leave the other promises.
LEMMA LosePromise ==
    ASSUME Promise, DOMAIN buckets' \subseteq DOMAIN buckets, DOMAIN promised' \subseteq DOMAIN promised,
           \A c \in DOMAIN buckets' : buckets'[c] = buckets[c],
           \A c \in DOMAIN promised' : promised'[c] = promised[c]
    PROVE  Promise'
BY DEF Promise

\* The seconds a client is told are enough to refill a token.
LEMMA RetryIsLongEnough ==
    ASSUME NEW held \in Nat, held < Second
    PROVE  /\ RetryAfter(held) * Second \in Nat
           /\ Second <= held + Rate(RetryAfter(held) * Second)
<1>1. PerSecond \in Nat /\ PerSecond >= 1 /\ Second \in Nat /\ Second >= 1
  BY RateLimiterAssumption
<1>2. Second * PerSecond \in Nat /\ Second * PerSecond >= 1
  BY <1>1
<1>3. RetryAfter(held) \in Nat /\ RetryAfter(held) >= 1
  <2> DEFINE d == Second * PerSecond
             x == Second - held + d - 1
  <2>1. x \in Int /\ d \in Nat /\ d >= 1
    BY <1>1, <1>2
  <2>2. RetryAfter(held) = IF x \div d < 1 THEN 1 ELSE x \div d
    BY DEF RetryAfter
  <2> HIDE DEF d, x
  <2>3. x \div d \in Int
    BY <2>1
  <2> QED BY <2>2, <2>3
<1> DEFINE r == RetryAfter(held)
<1> HIDE DEF r
<1>4. r \in Nat /\ r >= 1
  BY <1>3 DEF r
<1>5. r * Second \in Nat /\ r * Second >= Second
  <2>1. r * Second = Second + (r - 1) * Second /\ (r - 1) * Second >= 0
    BY <1>1, <1>4
  <2> QED BY <1>1, <1>4, <2>1
<1>6. Rate(r * Second) >= r * Second
  <2> DEFINE m == r * Second
  <2>1. m \in Nat
    BY <1>5
  <2> HIDE DEF m
  <2>2. PerSecond * m = m + (PerSecond - 1) * m /\ (PerSecond - 1) * m >= 0
    BY <1>1, <2>1
  <2>3. Rate(m) >= m
    BY <1>1, <2>1, <2>2 DEF Rate
  <2> QED BY <2>3 DEF m
<1>7. Rate(r * Second) \in Int
  BY <1>5, Proportions
<1>8. Second <= held + Rate(r * Second)
  BY <1>1, <1>5, <1>6, <1>7
<1> QED BY <1>5, <1>8 DEF r

\* What a check finds when it charges its client c: the tokens held fit, and so
\* do they with everything that was admitted so far.
Finds(c, now, held, at) ==
    /\ c \in BucketKey /\ now \in Nat /\ now <= clock /\ held \in Nat /\ held <= Full
    /\ at \in Seq(Nat \X Nat) /\ Within(at) /\ Holds(at, held, clock + lag[c])

\* Charge finds that, be the bucket there or not.
LEMMA ChargeFinds ==
    ASSUME LimiterTypes, Budget, NEW w \in Worker, checks[w].phase = "charge"
    PROVE  LET c == checks[w].client
               now == checks[w].now
               held == IF c \in DOMAIN buckets THEN Refilled(buckets[c], now) ELSE Full
               past == IF c \in DOMAIN admitted THEN admitted[c] ELSE <<>>
           IN Finds(c, now, held, past)
<1> DEFINE c == checks[w].client
           now == checks[w].now
           held == IF c \in DOMAIN buckets THEN Refilled(buckets[c], now) ELSE Full
           past == IF c \in DOMAIN admitted THEN admitted[c] ELSE <<>>
           b == buckets[c]
<1>1. checks[w] \in CheckUnderWay /\ checks[w] # Idle /\ clock \in Nat
  BY DEF LimiterTypes, Idle
<1>2. c \in BucketKey /\ now \in Nat /\ now <= clock
  BY <1>1 DEF LimiterTypes, CheckUnderWay
<1>3. lag[c] \in Nat /\ Full \in Nat
  BY <1>2, Proportions DEF LimiterTypes
<1>4. c \in DOMAIN admitted => admitted[c] \in Seq(Nat \X Nat) /\ Within(admitted[c])
  BY DEF LimiterTypes, Budget
<1>5. Within(<<>>) /\ (<<>> \in Seq(Nat \X Nat)) /\ \A x, t : Holds(<<>>, x, t)
  BY DEF Within, Holds
<1>6. CASE c \in DOMAIN buckets
  <2>1. b.tokens \in Nat /\ b.tokens <= Full /\ b.last_refill \in Nat /\ b.last_refill <= clock
    BY <1>6 DEF LimiterTypes
  <2>2. c \in DOMAIN admitted => Holds(admitted[c], b.tokens, b.last_refill + lag[c])
    BY <1>6 DEF Budget
  <2>3. held = Refilled(b, now)
    BY <1>6
  <2> HIDE DEF b, held, c, now, past
  <2>4. held \in Nat /\ held <= Full /\ held <= b.tokens + Rate(clock - b.last_refill)
    BY <1>1, <1>2, <2>1, <2>3, RefilledIs
  <2> DEFINE t == b.last_refill + lag[c]
             u == clock + lag[c]
  <2>5. t \in Int /\ u \in Int /\ t <= u /\ u - t = clock - b.last_refill
    BY <1>1, <1>3, <2>1
  <2>6. held \in Int /\ b.tokens \in Int /\ held <= b.tokens + Rate(u - t)
    BY <2>1, <2>4, <2>5
  <2>7. c \in DOMAIN admitted => Holds(admitted[c], b.tokens, t)
    BY <2>2
  <2> HIDE DEF t, u
  <2>8. c \in DOMAIN admitted => Holds(admitted[c], held, u)
    BY <1>4, <2>5, <2>6, <2>7, HoldsLonger
  <2> QED BY <1>2, <1>4, <1>5, <2>4, <2>8 DEF Finds, u, past, held, c, now
<1>7. CASE c \notin DOMAIN buckets
  <2>1. held = Full /\ (c \in DOMAIN admitted => Holds(admitted[c], held, clock + lag[c]))
    BY <1>7 DEF Budget
  <2> HIDE DEF c, now, held
  <2>2. held \in Nat /\ held <= Full
    BY <1>3, <2>1
  <2> QED BY <1>2, <1>4, <1>5, <2>1, <2>2 DEF Finds, c, now, held
<1> QED BY <1>6, <1>7

\* The bucket is refilled and charged.
LEMMA ChargeKeeps ==
    ASSUME LimiterInv, NEW w \in Worker, Charge(w)
    PROVE  LimiterInv'
<1> DEFINE c == checks[w].client
           now == checks[w].now
           held == IF c \in DOMAIN buckets THEN Refilled(buckets[c], now) ELSE Full
           ok == held >= Second
           past == IF c \in DOMAIN admitted THEN admitted[c] ELSE <<>>
           left == IF ok THEN held - Second ELSE held
           e == <<clock, lag[c]>>
<1>1. /\ checks' = [checks EXCEPT ![w] = Idle]
      /\ buckets' = Put(buckets, c, [tokens |-> left, last_refill |-> now])
      /\ admitted' = IF ok THEN Put(admitted, c, Append(past, e)) ELSE admitted
      /\ lag' = [lag EXCEPT ![c] = @ + clock - now]
      /\ promised' = IF ok THEN Without(promised, {c})
                           ELSE Put(promised, c, clock + RetryAfter(held) * Second)
      /\ clock' = clock /\ checks[w].phase = "charge"
  BY DEF Charge
<1>2. Finds(c, now, held, past) /\ LimiterTypes /\ clock \in Nat
  BY <1>1, ChargeFinds DEF LimiterInv, LimiterTypes
<1>3. c \in DOMAIN admitted => past = admitted[c]
  OBVIOUS
<1> HIDE DEF held, past, c, now
<1>4. /\ c \in BucketKey /\ now \in Nat /\ now <= clock /\ held \in Nat /\ held <= Full
      /\ past \in Seq(Nat \X Nat) /\ Within(past) /\ Holds(past, held, clock + lag[c])
  BY <1>2 DEF Finds
<1>5. lag[c] \in Nat /\ Second \in Nat /\ Second >= 1 /\ Full \in Nat
  BY <1>2, <1>4, Proportions DEF LimiterTypes
<1>6. left \in Nat /\ left <= Full
  BY <1>4, <1>5
<1>7. /\ DOMAIN buckets' = DOMAIN buckets \cup {c}
      /\ buckets'[c].tokens = left /\ buckets'[c].last_refill = now
      /\ \A d \in DOMAIN buckets \ {c} : buckets'[d] = buckets[d]
  BY <1>1 DEF Put
<1>8. /\ DOMAIN lag' = DOMAIN lag /\ lag'[c] = lag[c] + clock - now
      /\ \A d \in BucketKey \ {c} : lag'[d] = lag[d]
  BY <1>1, <1>2, <1>4 DEF LimiterTypes
<1>9. now + lag'[c] = clock + lag[c] /\ lag'[c] \in Nat
  BY <1>2, <1>4, <1>5, <1>8
<1>10. ok => /\ Append(past, e) \in Seq(Nat \X Nat) /\ Within(Append(past, e))
             /\ Holds(Append(past, e), left, clock + lag[c])
  <2>1. e \in Nat \X Nat /\ Stamp(e) = clock + lag[c]
    BY <1>2, <1>5 DEF Stamp
  <2>2. ok => Second <= held
    BY <1>4, <1>5
  <2>3. Append(past, e) \in Seq(Nat \X Nat)
    BY <1>4, <2>1
  <2> HIDE DEF e
  <2> QED BY <1>4, <2>1, <2>2, <2>3, HoldsOneMore
<1> HIDE DEF e
<1>11. ok => /\ DOMAIN admitted' = DOMAIN admitted \cup {c} /\ admitted'[c] = Append(past, e)
             /\ \A d \in DOMAIN admitted \ {c} : admitted'[d] = admitted[d]
  BY <1>1 DEF Put
<1>12. ok => DOMAIN promised' = DOMAIN promised \ {c} /\ \A d \in DOMAIN promised' : promised'[d] = promised[d]
  BY <1>1 DEF Without, Restrict
<1> DEFINE wait == RetryAfter(held) * Second
<1>13. ~ok => /\ DOMAIN promised' = DOMAIN promised \cup {c} /\ promised'[c] = clock + wait
              /\ \A d \in DOMAIN promised \ {c} : promised'[d] = promised[d]
  BY <1>1 DEF Put
<1>14. ~ok => held < Second /\ wait \in Nat /\ Second <= held + Rate(wait)
  <2> SUFFICES ASSUME ~ok PROVE held < Second /\ wait \in Nat /\ Second <= held + Rate(wait)
    OBVIOUS
  <2>1. held < Second
    BY <1>4, <1>5
  <2> QED BY <1>4, <2>1, RetryIsLongEnough
<1> HIDE DEF wait
<1>15. LimiterTypes'
  <2>1. /\ DOMAIN buckets' \subseteq BucketKey
        /\ \A d \in DOMAIN buckets' :
              /\ buckets'[d].tokens \in Nat /\ buckets'[d].tokens <= Full
              /\ buckets'[d].last_refill \in Nat /\ buckets'[d].last_refill <= clock
    BY <1>2, <1>4, <1>6, <1>7 DEF LimiterTypes
  <2>2. /\ checks' \in [Worker -> CheckUnderWay \cup {Idle}]
        /\ \A v \in Worker : checks'[v] # Idle => checks'[v].now <= clock
    BY <1>1, <1>2 DEF LimiterTypes
  <2>3. lag' \in [BucketKey -> Nat]
    BY <1>1, <1>2, <1>4, <1>8, <1>9 DEF LimiterTypes
  <2>4. /\ DOMAIN admitted' \subseteq BucketKey
        /\ \A d \in DOMAIN admitted' : admitted'[d] \in Seq(Nat \X Nat)
    BY <1>1, <1>2, <1>4, <1>10, <1>11 DEF LimiterTypes
  <2>5. DOMAIN promised' \subseteq BucketKey /\ \A d \in DOMAIN promised' : promised'[d] \in Nat
    <3>1. ~ok => clock + wait \in Nat
      BY <1>2, <1>14
    <3> QED BY <1>2, <1>4, <1>12, <1>13, <3>1 DEF LimiterTypes
  <2> QED BY <1>1, <1>2, <2>1, <2>2, <2>3, <2>4, <2>5 DEF LimiterTypes
<1>16. Budget'
  <2> SUFFICES ASSUME NEW d \in DOMAIN admitted'
               PROVE  /\ Within(admitted'[d])
                      /\ IF d \in DOMAIN buckets'
                         THEN Holds(admitted'[d], buckets'[d].tokens, buckets'[d].last_refill + lag'[d])
                         ELSE Holds(admitted'[d], Full, clock + lag'[d])
    BY <1>1 DEF Budget
  <2>1. CASE d # c
    <3>1. d \in DOMAIN admitted /\ admitted'[d] = admitted[d] /\ d \in BucketKey
      BY <1>1, <1>2, <1>11, <2>1 DEF LimiterTypes
    <3>2. lag'[d] = lag[d] /\ (d \in DOMAIN buckets' <=> d \in DOMAIN buckets)
          /\ (d \in DOMAIN buckets => buckets'[d] = buckets[d])
      BY <1>7, <1>8, <2>1, <3>1
    <3> QED BY <3>1, <3>2 DEF LimiterInv, Budget
  <2>2. CASE d = c
    <3>1. Within(admitted'[c]) /\ Holds(admitted'[c], left, clock + lag[c])
      <4>1. CASE ok
        BY <1>10, <1>11, <4>1
      <4>2. CASE ~ok
        BY <1>1, <1>3, <1>4, <2>2, <4>2
      <4> QED BY <4>1, <4>2
    <3> QED BY <1>7, <1>9, <2>2, <3>1
  <2> QED BY <2>1, <2>2
<1>17. Promise'
  <2> SUFFICES ASSUME NEW d \in DOMAIN promised' \cap DOMAIN buckets'
               PROVE  /\ buckets'[d].last_refill <= promised'[d]
                      /\ Second <= buckets'[d].tokens + Rate(promised'[d] - buckets'[d].last_refill)
    BY DEF Promise
  <2>1. CASE d # c
    <3>1. d \in DOMAIN promised \cap DOMAIN buckets /\ promised'[d] = promised[d] /\ buckets'[d] = buckets[d]
      BY <1>7, <1>12, <1>13, <2>1
    <3> QED BY <3>1 DEF LimiterInv, Promise
  <2>2. CASE d = c
    <3>1. ~ok
      BY <1>12, <2>2
    <3>2. /\ promised'[c] = clock + wait /\ held < Second /\ wait \in Nat /\ Second <= held + Rate(wait)
          /\ buckets'[c].tokens = held /\ buckets'[c].last_refill = now
      BY <1>7, <1>13, <1>14, <3>1
    <3> DEFINE x == (clock + wait) - now
    <3>3. wait \in Int /\ x \in Int /\ wait <= x /\ now <= clock + wait
      BY <1>2, <1>4, <3>2
    <3> HIDE DEF x
    <3>4. Rate(wait) <= Rate(x) /\ Rate(x) \in Int /\ Rate(wait) \in Int
      BY <3>3, Proportions
    <3>5. Second <= held + Rate(x)
      BY <1>4, <1>5, <3>2, <3>4
    <3>6. promised'[d] = clock + wait /\ buckets'[d].last_refill = now /\ buckets'[d].tokens = held
      BY <2>2, <3>2
    <3>7. promised'[d] - buckets'[d].last_refill = x
      BY <3>6 DEF x
    <3> QED BY <3>3, <3>5, <3>6, <3>7
  <2> QED BY <2>1, <2>2
<1> QED BY <1>15, <1>16, <1>17 DEF LimiterInv

\* A request comes in.
LEMMA EnforceKeeps ==
    ASSUME LimiterInv, NEW w \in Worker,
           NEW auth \in Credential \cup {None}, NEW forwarded \in Address \cup {None},
           Enforce(w, auth, forwarded)
    PROVE  LimiterInv'
<1> DEFINE k == ClientKey(auth, forwarded)
<1>1. k \in BucketKey
  BY DEF ClientKey, BucketKey
<1> HIDE DEF k
<1>2. /\ checks' = [checks EXCEPT ![w] = [phase |-> "sweep", client |-> k, now |-> clock]]
      /\ UNCHANGED <<clock, buckets, admitted, lag, promised>>
  BY DEF Enforce, k
<1>3. LimiterTypes'
  <2>1. LimiterTypes
    BY DEF LimiterInv
  <2>2. /\ checks' \in [Worker -> CheckUnderWay \cup {Idle}]
        /\ \A v \in Worker : checks'[v] # Idle => checks'[v].now <= clock
    <3>1. [phase |-> "sweep", client |-> k, now |-> clock] \in CheckUnderWay /\ clock \in Nat
      BY <1>1, <2>1 DEF LimiterTypes, CheckUnderWay
    <3> QED BY <1>2, <2>1, <3>1 DEF LimiterTypes
  <2> QED BY <1>2, <2>1, <2>2 DEF LimiterTypes
<1>4. Budget' /\ Promise'
  BY <1>2 DEF LimiterInv, Budget, Promise
<1> QED BY <1>3, <1>4 DEF LimiterInv

\* Buckets go, the idle ones of a sweep or all of them at a restart.
LEMMA LoseKeeps ==
    ASSUME LimiterInv, NEW S, S \subseteq DOMAIN buckets, UNCHANGED <<clock, lag>>,
           buckets' = Without(buckets, S),
           admitted' = Without(admitted, ShortOfFull(S)),
           promised' = promised \/ promised' = Empty,
           checks' \in [Worker -> CheckUnderWay \cup {Idle}],
           \A v \in Worker : checks'[v] # Idle => checks'[v].now <= clock
    PROVE  LimiterInv'
<1>1. /\ DOMAIN buckets' \subseteq DOMAIN buckets
      /\ \A c \in DOMAIN buckets' : buckets'[c] = buckets[c]
      /\ DOMAIN admitted' \subseteq DOMAIN admitted
      /\ \A c \in DOMAIN admitted' : admitted'[c] = admitted[c]
  BY DEF Without, Restrict
<1>2. DOMAIN promised' \subseteq DOMAIN promised /\ \A c \in DOMAIN promised' : promised'[c] = promised[c]
  BY DEF Empty
<1>3. LimiterTypes'
  BY <1>1, <1>2 DEF LimiterInv, LimiterTypes
<1>4. Budget'
  BY LoseBudget DEF LimiterInv
<1>5. Promise'
  BY <1>1, <1>2, LosePromise DEF LimiterInv
<1> QED BY <1>3, <1>4, <1>5 DEF LimiterInv

\* A sweep drops idle buckets.
LEMMA SweepKeeps ==
    ASSUME LimiterInv, NEW w \in Worker, Sweep(w)
    PROVE  LimiterInv'
<1> DEFINE S == Swept(checks[w].now)
<1>1. S \subseteq DOMAIN buckets
  BY DEF Swept
<1> HIDE DEF S
<1>2. /\ checks' = [checks EXCEPT ![w].phase = "charge"] /\ checks[w].phase = "sweep"
      /\ buckets' = Without(buckets, S) /\ admitted' = Without(admitted, ShortOfFull(S))
      /\ UNCHANGED <<clock, lag, promised>>
  BY DEF Sweep, S
<1>3. checks[w] \in CheckUnderWay /\ checks \in [Worker -> CheckUnderWay \cup {Idle}]
      /\ \A v \in Worker : checks[v] # Idle => checks[v].now <= clock
  BY <1>2 DEF LimiterInv, LimiterTypes, Idle
<1>4. [checks[w] EXCEPT !.phase = "charge"] \in CheckUnderWay
      /\ [checks[w] EXCEPT !.phase = "charge"].now = checks[w].now
      /\ checks[w] # Idle
  BY <1>2, <1>3 DEF CheckUnderWay, Idle
<1>5. checks' \in [Worker -> CheckUnderWay \cup {Idle}]
      /\ \A v \in Worker : checks'[v] # Idle => checks'[v].now <= clock
  BY <1>2, <1>3, <1>4
<1> QED BY <1>1, <1>2, <1>5, LoseKeeps

\* A restart drops every bucket, check and promise.
LEMMA RestartKeeps ==
    ASSUME LimiterInv, LimiterRestart
    PROVE  LimiterInv'
<1> DEFINE S == DOMAIN buckets
<1>1. Without(buckets, S) = Empty
  BY DEF Without, Restrict, Empty
<1>2. /\ buckets' = Without(buckets, S) /\ admitted' = Without(admitted, ShortOfFull(S))
      /\ UNCHANGED <<clock, lag>> /\ promised' = Empty /\ checks' = [w \in Worker |-> Idle]
  BY <1>1 DEF LimiterRestart
<1>3. checks' \in [Worker -> CheckUnderWay \cup {Idle}]
      /\ \A v \in Worker : checks'[v] # Idle => checks'[v].now <= clock
  BY <1>2
<1> QED BY <1>2, <1>3, LoseKeeps

\* A client without a bucket has a full one for as long as nobody comes.
LEMMA TickKeeps ==
    ASSUME LimiterInv, LimiterTick
    PROVE  LimiterInv'
<1>1. clock' = clock + 1 /\ UNCHANGED <<buckets, checks, admitted, lag, promised>>
      /\ LimiterTypes /\ clock \in Nat
  BY DEF LimiterTick, LimiterInv, LimiterTypes
<1>2. LimiterTypes'
  <2>1. \A w \in Worker : checks[w] # Idle => checks[w].now <= clock + 1
    <3> TAKE w \in Worker
    <3> SUFFICES ASSUME checks[w] # Idle PROVE checks[w].now <= clock + 1
      OBVIOUS
    <3>1. checks[w] \in CheckUnderWay
      BY <1>1 DEF LimiterTypes
    <3> QED BY <1>1, <3>1 DEF LimiterTypes, CheckUnderWay
  <2>2. \A c \in DOMAIN buckets : buckets[c].last_refill <= clock + 1
    BY <1>1 DEF LimiterTypes
  <2> QED BY <1>1, <2>1, <2>2 DEF LimiterTypes
<1>3. Budget'
  <2> SUFFICES ASSUME NEW c \in DOMAIN admitted, c \notin DOMAIN buckets
               PROVE  Holds(admitted[c], Full, (clock + 1) + lag[c])
    BY <1>1 DEF LimiterInv, Budget
  <2> DEFINE t == clock + lag[c]
             u == (clock + 1) + lag[c]
  <2>1. admitted[c] \in Seq(Nat \X Nat) /\ Holds(admitted[c], Full, t)
    BY <1>1 DEF LimiterInv, LimiterTypes, Budget
  <2>2. t \in Int /\ u \in Int /\ t <= u /\ u - t = 1
    <3>1. lag[c] \in Nat
      BY <1>1 DEF LimiterTypes
    <3> QED BY <1>1, <3>1
  <2>3. Full \in Int /\ Full <= Full + Rate(1)
    <3>1. Full \in Nat /\ Rate(1) \in Int /\ Rate(0) = 0 /\ Rate(0) <= Rate(1)
      BY Proportions
    <3> QED BY <3>1
  <2> HIDE DEF t, u
  <2>4. Full <= Full + Rate(u - t)
    BY <2>2, <2>3
  <2>5. Holds(admitted[c], Full, u)
    BY <2>1, <2>2, <2>3, <2>4, HoldsLonger
  <2> QED BY <2>5 DEF u
<1>4. Promise'
  BY <1>1 DEF LimiterInv, Promise
<1> QED BY <1>2, <1>3, <1>4 DEF LimiterInv

\* The invariant holds at first, and every step keeps it.
LEMMA LimiterInvariant == LimiterSpec => []LimiterInv
<1>1. LimiterInit => LimiterInv
  <2> SUFFICES ASSUME LimiterInit PROVE LimiterInv
    OBVIOUS
  <2>1. DOMAIN Empty = {}
    BY DEF Empty
  <2>2. LimiterTypes
    BY <2>1 DEF LimiterInit, LimiterTypes
  <2>3. Budget /\ Promise
    BY <2>1 DEF LimiterInit, Budget, Promise
  <2> QED BY <2>2, <2>3 DEF LimiterInv
<1>2. LimiterInv /\ [LimiterNext]_limiterVars => LimiterInv'
  <2> SUFFICES ASSUME LimiterInv, [LimiterNext]_limiterVars PROVE LimiterInv'
    OBVIOUS
  <2>1. CASE UNCHANGED limiterVars
    BY <2>1 DEF limiterVars, LimiterInv, LimiterTypes, Budget, Promise
  <2>2. ASSUME NEW w \in Worker, NEW auth \in Credential \cup {None},
               NEW forwarded \in Address \cup {None},
               Enforce(w, auth, forwarded)
        PROVE  LimiterInv'
    BY <2>2, EnforceKeeps
  <2>3. ASSUME NEW w \in Worker, Sweep(w) PROVE LimiterInv'
    BY <2>3, SweepKeeps
  <2>4. ASSUME NEW w \in Worker, Charge(w) PROVE LimiterInv'
    BY <2>4, ChargeKeeps
  <2>5. CASE LimiterRestart
    BY <2>5, RestartKeeps
  <2>6. CASE LimiterTick
    BY <2>6, TickKeeps
  <2> QED BY <2>1, <2>2, <2>3, <2>4, <2>5, <2>6 DEF LimiterNext
<1> QED BY <1>1, <1>2, PTL DEF LimiterSpec

\* AdmittedWithinBudget: in no stretch of time are more of a client's requests
\* admitted than the burst and what the stretch refills, the delays of slow
\* checks counted twice (rate_limit.rs, check and sweep).
THEOREM AdmittedWithinBudgetHolds == LimiterSpec => []AdmittedWithinBudget
<1>1. LimiterInv => AdmittedWithinBudget
  <2> SUFFICES ASSUME LimiterInv, NEW c \in DOMAIN admitted, NEW i \in DOMAIN admitted[c],
                      NEW j \in i..Len(admitted[c])
               PROVE  (j - i + 1) * Second
                        <= Full + PerSecond * (admitted[c][j][1] - admitted[c][i][1]
                                                 + admitted[c][j][2] - admitted[c][i][2])
    BY DEF AdmittedWithinBudget
  <2> DEFINE at == admitted[c]
  <2>1. at \in Seq(Nat \X Nat) /\ Within(at)
    BY DEF LimiterInv, LimiterTypes, Budget
  <2> HIDE DEF at
  <2>2. i \in 1..Len(at) /\ j \in 1..Len(at) /\ j \in i..Len(at)
    BY <2>1 DEF at
  <2>3. at[i] \in Nat \X Nat /\ at[j] \in Nat \X Nat
    BY <2>1, <2>2
  <2>4. Stamp(at[j]) - Stamp(at[i]) = at[j][1] - at[i][1] + at[j][2] - at[i][2]
    BY <2>3 DEF Stamp
  <2>5. Cost(j - i + 1) <= Full + Rate(Stamp(at[j]) - Stamp(at[i]))
    BY <2>1, <2>2 DEF Within
  <2> QED BY <2>4, <2>5 DEF Cost, Rate, at
<1> QED BY <1>1, LimiterInvariant, PTL

\* RetryHintSuffices: a client that waits as long as Retry-After told it is not
\* turned away again (rate_limit.rs, check).
THEOREM RetryHintSufficesHolds == LimiterSpec => RetryHintSuffices
<1>1. ASSUME LimiterInv, LimiterNext, NEW w \in Worker, NEW c \in DOMAIN promised \cap DOMAIN promised',
             checks[w].phase = "charge", checks'[w] = Idle, checks[w].client = c
      PROVE  checks[w].now < promised[c]
  <2>1. LimiterTypes /\ checks[w] # Idle
    BY <1>1 DEF LimiterInv, Idle
  <2>2. ASSUME NEW v \in Worker, NEW auth \in Credential \cup {None},
               NEW forwarded \in Address \cup {None},
               Enforce(v, auth, forwarded)
        PROVE  FALSE
    BY <1>1, <2>1, <2>2 DEF Enforce, LimiterTypes, Idle
  <2>3. ASSUME NEW v \in Worker, Sweep(v) PROVE FALSE
    BY <1>1, <2>1, <2>3 DEF Sweep, LimiterTypes, Idle
  <2>4. ~LimiterRestart
    BY <1>1 DEF LimiterRestart, Empty
  <2>5. ~LimiterTick
    BY <1>1, <2>1 DEF LimiterTick
  <2>6. PICK v \in Worker : Charge(v)
    BY <1>1, <2>2, <2>3, <2>4, <2>5 DEF LimiterNext
  <2>7. v = w
    BY <1>1, <2>1, <2>6 DEF Charge, LimiterTypes, Idle
  <2> DEFINE now == checks[w].now
             held == IF c \in DOMAIN buckets THEN Refilled(buckets[c], now) ELSE Full
             b == buckets[c]
  <2>8. ~(held >= Second)
    BY <1>1, <2>6, <2>7 DEF Charge, Without, Restrict
  <2>9. now \in Nat /\ promised[c] \in Nat
    BY <1>1, <2>1 DEF LimiterTypes, CheckUnderWay
  <2>10. Full \in Nat /\ Second \in Nat /\ Second <= Full
    BY <2>1, Proportions
  <2>11. c \in DOMAIN buckets /\ held = Refilled(b, now)
    BY <2>8, <2>10
  <2>12. b.tokens \in Nat /\ b.tokens <= Full /\ b.last_refill \in Nat
    BY <2>1, <2>11 DEF LimiterTypes
  <2>13. b.last_refill <= promised[c] /\ Second <= b.tokens + Rate(promised[c] - b.last_refill)
    BY <1>1, <2>11 DEF LimiterInv, Promise
  <2> SUFFICES ASSUME ~(now < promised[c]) PROVE FALSE
    OBVIOUS
  <2> HIDE DEF now, held, b
  <2>14. promised[c] <= now /\ b.last_refill <= now
    BY <2>9, <2>12, <2>13
  <2>15. /\ Refilled(b, now) \in Nat
         /\ \/ Refilled(b, now) = Full
            \/ Refilled(b, now) = b.tokens + Rate(now - b.last_refill)
    BY <2>9, <2>12, <2>14, <2>1, RefilledIs
  <2>16. /\ Rate(promised[c] - b.last_refill) <= Rate(now - b.last_refill)
         /\ Rate(promised[c] - b.last_refill) \in Int /\ Rate(now - b.last_refill) \in Int
    <3> DEFINE x == promised[c] - b.last_refill
               y == now - b.last_refill
    <3>1. x \in Int /\ y \in Int /\ x <= y
      BY <2>9, <2>12, <2>14
    <3> HIDE DEF x, y
    <3>2. Rate(x) <= Rate(y) /\ Rate(x) \in Int /\ Rate(y) \in Int
      BY <2>1, <3>1, Proportions
    <3> QED BY <3>2 DEF x, y
  <2> QED BY <2>8, <2>10, <2>11, <2>12, <2>13, <2>15, <2>16
<1>2. LimiterInv /\ [LimiterNext]_limiterVars
        => [\A w \in Worker : \A c \in DOMAIN promised \cap DOMAIN promised' :
              checks[w].phase = "charge" /\ checks'[w] = Idle /\ checks[w].client = c
                  => checks[w].now < promised[c]]_limiterVars
  BY <1>1
<1> QED BY <1>2, LimiterInvariant, PTL DEF LimiterSpec, RetryHintSuffices
=============================================================================
