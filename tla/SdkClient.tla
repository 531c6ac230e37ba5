------------------------------ MODULE SdkClient ------------------------------
(* The SDK's snapshot client: the background refresher with its backoff,     *)
(* callers of refresh, connect, and the clones of a Client whose last drop   *)
(* stops the background tasks.  A configuration is the number of the commit  *)
(* it was read after.  The API nodes are the register SnapshotCache          *)
(* implements: what a node serves only moves forward, and nodes differ.      *)
EXTENDS Integers, FiniteSets

CONSTANTS
    Node,        \* API nodes behind the base URL
    Clone,       \* handles a program may hold: clones of the Client
    Poller,      \* the background refresher
    NoNode,
    Intervals,   \* poll intervals a program may choose; 0 disables polling
    MaxBackoff,  \* MAX_BACKOFF
    MaxRev       \* bound: committed configurations

ASSUME SdkAssumption ==
    /\ Poller \notin Clone /\ NoNode \notin Node
    /\ Intervals \subseteq Nat /\ MaxBackoff \in Nat \ {0} /\ MaxRev \in Nat \ {0}

VARIABLES
    rev,        \* the committed configuration
    served,     \* what each node serves
    keyed,      \* the SDK key is accepted
    interval,   \* the builder's poll interval
    backoff,    \* the refresher's next sleep
    current,    \* the stored snapshot, 0 before the first, and its node
    pc,         \* where each fetch is
    got,        \* the answer on its way to a fetch
    clones,     \* live handles
    dropping,   \* handles whose Drop has looked at the count
    aborted,    \* whether the tasks' abort() has been called, and by whom
    passed      \* history: fetches since whose sending another one stored

server == <<rev, served, keyed>>
handles == <<clones, dropping, aborted>>
vars == <<server, interval, backoff, current, pc, got, handles, passed>>

Task == Clone \cup {Poller}
Snapshot == [rev : 0..MaxRev, node : Node \cup {NoNode}]
Nothing == [rev |-> 0, node |-> NoNode]

TypeOK ==
    /\ rev \in 1..MaxRev
    /\ served \in [Node -> 1..MaxRev]
    /\ keyed \in BOOLEAN
    /\ interval \in Intervals
    /\ backoff \in {interval} \cup 1..MaxBackoff
    /\ current \in Snapshot
    /\ pc \in [Task -> {"idle", "connecting", "sent", "stopped"}]
    /\ got \in [Task -> Snapshot]
    /\ clones \in SUBSET Clone
    /\ dropping \in SUBSET clones
    /\ aborted \in {"no", "shutdown", "drop"}
    /\ passed \in SUBSET Task

\* build, by connect_lazy or by connect, which sends its fetch at once and
\* returns the handle when it is stored.  The refresher sleeps first.
Init ==
    /\ rev = 1
    /\ served = [n \in Node |-> 1]
    /\ keyed = TRUE
    /\ interval \in Intervals
    /\ backoff = interval
    /\ current = Nothing
    /\ \E c \in Clone, first \in {"idle", "connecting"} :
          /\ clones = {c}
          /\ pc = [t \in Task |-> IF t = c THEN first
                                  ELSE IF t = Poller /\ interval = 0 THEN "stopped"
                                  ELSE "idle"]
    /\ got = [t \in Task |-> Nothing]
    /\ dropping = {}
    /\ aborted = "no"
    /\ passed = {}

-----------------------------------------------------------------------------
(* The server. *)

Write ==
    /\ rev < MaxRev
    /\ rev' = rev + 1
    /\ UNCHANGED <<served, keyed, interval, backoff, current, pc, got, handles, passed>>

\* Mutant of Serve: a node may go back to an older configuration.
ServeAnything(n) ==
    /\ \E r \in 1..rev : r # served[n] /\ served' = [served EXCEPT ![n] = r]
    /\ UNCHANGED <<rev, keyed, interval, backoff, current, pc, got, handles, passed>>

\* A node's cache reloads: never something older, see SnapshotRegister.
Serve(n) ==
    /\ \E r \in served[n] + 1..rev : served' = [served EXCEPT ![n] = r]
    /\ UNCHANGED <<rev, keyed, interval, backoff, current, pc, got, handles, passed>>

Revoke ==
    /\ keyed
    /\ keyed' = FALSE
    /\ UNCHANGED <<rev, served, interval, backoff, current, pc, got, handles, passed>>

-----------------------------------------------------------------------------
(* fetch *)

\* A request goes out.
Send(t) ==
    /\ pc' = [pc EXCEPT ![t] = "sent"]
    /\ passed' = passed \ {t}
    /\ UNCHANGED <<server, interval, backoff, current, got, handles>>

\* The refresher's sleep ends.
Wake ==
    /\ pc[Poller] = "idle" /\ aborted = "no"
    /\ Send(Poller)

Refresh(c) ==
    /\ c \in clones \ dropping /\ pc[c] = "idle"
    /\ Send(c)

Fetching(t) == pc[t] \in {"sent", "connecting"}

\* 200: the node's snapshot is on its way.
Answer(t, n) ==
    /\ Fetching(t) /\ got[t] = Nothing
    /\ keyed
    /\ got' = [got EXCEPT ![t] = [rev |-> served[n], node |-> n]]
    /\ UNCHANGED <<server, interval, backoff, current, pc, handles, passed>>

\* t is done with its fetch; a connect that failed drops the only handle.
Done(t, connected) ==
    /\ pc' = [pc EXCEPT ![t] = "idle"]
    /\ got' = [got EXCEPT ![t] = Nothing]
    /\ IF pc[t] = "connecting" /\ ~connected
       THEN clones' = clones \ {t} /\ aborted' = "drop" /\ UNCHANGED dropping
       ELSE UNCHANGED handles

\* current.store; the refresher is back at its interval.
Store(t) ==
    /\ Fetching(t) /\ got[t] # Nothing
    /\ current' = got[t]
    /\ backoff' = IF t = Poller THEN interval ELSE backoff
    /\ passed' = passed \cup {u \in Task \ {t} : Fetching(u)}
    /\ Done(t, TRUE)
    /\ UNCHANGED <<server, interval>>

\* Mutant of NextBackoff: a failure waits for the interval, no longer.
NextBackoffFlat(transient) == IF transient THEN interval ELSE MaxBackoff

\* How long the refresher sleeps after a failure.
NextBackoff(transient) ==
    IF transient /\ 2 * backoff < MaxBackoff THEN 2 * backoff ELSE MaxBackoff

\* Mutant of Fails: an answer that failed leaves nothing to serve.
FailsEmptying(t, transient) ==
    /\ Fetching(t)
    /\ keyed \/ ~transient
    /\ backoff' = IF t = Poller THEN NextBackoff(transient) ELSE backoff
    /\ current' = Nothing
    /\ Done(t, FALSE)
    /\ UNCHANGED <<server, interval, passed>>

\* A connection error, a timeout, 5xx and 429 are transient; 401, 403, another
\* status or a body that does not parse are not.  The stored snapshot stays.
Fails(t, transient) ==
    /\ Fetching(t)
    /\ keyed \/ ~transient
    /\ backoff' = IF t = Poller THEN NextBackoff(transient) ELSE backoff
    /\ Done(t, FALSE)
    /\ UNCHANGED <<server, interval, current, passed>>

\* The future of a refresh or of a connect is dropped.
Cancel(c) ==
    /\ c \in Clone /\ Fetching(c)
    /\ Done(c, FALSE)
    /\ UNCHANGED <<server, interval, backoff, current, passed>>

-----------------------------------------------------------------------------
(* Handles. *)

Held(c) == c \in clones \ dropping /\ pc[c] = "idle"

\* c is a clone of another handle.
CloneHandle(c) ==
    /\ c \notin clones
    /\ \E d \in clones \ dropping : pc[d] # "connecting"
    /\ clones' = clones \cup {c}
    /\ UNCHANGED <<server, interval, backoff, current, pc, got, dropping, aborted, passed>>

\* shutdown, by any handle.
Shutdown(c) ==
    /\ Held(c)
    /\ aborted' = "shutdown"
    /\ UNCHANGED <<server, interval, backoff, current, pc, got, clones, dropping, passed>>

\* Mutant of DropHandle: every handle's drop stops the tasks.
DropHandleAborts(c) ==
    /\ Held(c)
    /\ aborted' = IF aborted = "no" THEN "drop" ELSE aborted
    /\ dropping' = dropping \cup {c}
    /\ UNCHANGED <<server, interval, backoff, current, pc, got, clones, passed>>

\* Drop: strong_count of the tasks, read before this handle's own is released.
DropHandle(c) ==
    /\ Held(c)
    /\ aborted' = IF aborted = "no" /\ Cardinality(clones) = 1 THEN "drop" ELSE aborted
    /\ dropping' = dropping \cup {c}
    /\ UNCHANGED <<server, interval, backoff, current, pc, got, clones, passed>>

\* ... and then its fields are dropped.
ReleaseHandle(c) ==
    /\ c \in dropping
    /\ clones' = clones \ {c}
    /\ dropping' = dropping \ {c}
    /\ UNCHANGED <<server, interval, backoff, current, pc, got, aborted, passed>>

\* abort takes effect when the refresher next yields.
Stops ==
    /\ aborted # "no" /\ pc[Poller] # "stopped"
    /\ pc' = [pc EXCEPT ![Poller] = "stopped"]
    /\ got' = [got EXCEPT ![Poller] = Nothing]
    /\ UNCHANGED <<server, interval, backoff, current, handles, passed>>

\* The program has no handle left, and nothing runs on its behalf.
Ended ==
    /\ clones = {} /\ pc[Poller] = "stopped"
    /\ UNCHANGED vars

Next ==
    \/ Write \/ Revoke \/ Wake \/ Stops \/ Ended
    \/ \E n \in Node : Serve(n)
    \/ \E t \in Task : \/ \E n \in Node : Answer(t, n)
                       \/ \E transient \in BOOLEAN : Fails(t, transient)
                       \/ Store(t)
    \/ \E c \in Clone : \/ Refresh(c) \/ Cancel(c) \/ CloneHandle(c)
                        \/ Shutdown(c) \/ DropHandle(c) \/ ReleaseHandle(c)

Spec == Init /\ [][Next]_vars

\* Nodes repair themselves (cache_live).  The refresher's timer fires and every
\* request ends; a server asked again and again answers some time, before
\* anything fails.
Fairness ==
    /\ \A n \in Node : WF_vars(Serve(n))
    /\ WF_vars(Wake) /\ WF_vars(Stops)
    /\ SF_vars(Store(Poller))
    /\ \A n \in Node : SF_vars(Answer(Poller, n))
    /\ \A c \in Clone : WF_vars(Store(c) \/ Fails(c, FALSE)) /\ WF_vars(ReleaseHandle(c))

FairSpec == Spec /\ Fairness

-----------------------------------------------------------------------------
(* Properties. *)

\* The program wants no refresher, or has no handle or no valid key any more.
Unattended == aborted = "shutdown" \/ clones = {} \/ interval = 0 \/ ~keyed

\* spawn_refresher: however refreshes and polls overtake each other, whatever
\* fails in between and whichever other handle is dropped, a client ends up with
\* the committed configuration, as long as somebody holds it, nobody shut it
\* down and its key is accepted.
EventuallyCurrent == <>[](Unattended \/ current.rev = rev)

\* "Keep serving what we have": a client that has a configuration never goes
\* back to the callers' fallbacks, whatever fails, is cancelled or is dropped.
KeepsServing == [][current # Nothing => current' # Nothing]_vars

\* Inner::store keeps whatever was fetched last.  It replaces a configuration
\* by an older one only when another node answered, or another fetch has stored
\* its answer since this one was sent.
RegressesOnlyWhenOvertaken ==
    [][\A t \in Task :
         (Fetching(t) /\ current' = got[t] /\ current' # current /\ current'.rev < current.rev)
            => t \in passed \/ got[t].node # current.node]_vars

\* "high enough not to add load to something already struggling": no failure
\* shortens the refresher's sleep, unless it was longer than the cap to begin
\* with.
FailureNeverHastens ==
    [][\A transient \in BOOLEAN :
         Fails(Poller, transient) => backoff' >= backoff \/ backoff > MaxBackoff]_vars
=============================================================================
