--------------------------- MODULE SdkClientProofs ---------------------------
(***************************************************************************)
(* Proofs about SdkClient for any nodes, handles, poll intervals and       *)
(* number of committed configurations.  Liveness stays with TLC.  What     *)
(* makes the theorem about regressions inductive is Ahead: an answer on    *)
(* its way that nobody overtook is no older than what is stored, if both   *)
(* came from the same node.                                                *)
(***************************************************************************)
EXTENDS SdkClient, TLAPS

\* A refresher that was never spawned does not run, and a handle that is being
\* dropped has no fetch.
Quiet ==
    /\ interval = 0 => pc[Poller] = "stopped"
    /\ \A c \in dropping : pc[c] = "idle"

\* An answer belongs to a fetch, and its node serves it or something newer.
Sourced ==
    \A t \in Task : got[t] # Nothing =>
        Fetching(t) /\ got[t].node \in Node /\ got[t].rev <= served[got[t].node]

\* So does the node of the stored configuration.
Behind == current # Nothing => current.node \in Node /\ current.rev <= served[current.node]

Ahead ==
    \A t \in Task :
        (got[t] # Nothing /\ t \notin passed /\ got[t].node = current.node)
            => current.rev <= got[t].rev

IInv == TypeOK /\ Quiet /\ Sourced /\ Behind /\ Ahead

-----------------------------------------------------------------------------
(* Types *)

\* The failed refresher's sleep is the cap or a doubled positive sleep.
LEMMA BackoffType ==
    ASSUME TypeOK, interval # 0, NEW transient \in BOOLEAN
    PROVE  NextBackoff(transient) \in 1..MaxBackoff
<1>1. backoff \in Nat \ {0} /\ MaxBackoff \in Nat \ {0}
  BY SdkAssumption DEF TypeOK
<1> QED BY <1>1 DEF NextBackoff

\* No snapshot yet is a snapshot.
LEMMA NothingType == Nothing \in Snapshot
BY SdkAssumption DEF Nothing, Snapshot

\* The end of a fetch keeps the types and frees the answer.
LEMMA DoneFacts ==
    ASSUME TypeOK, Quiet, NEW t \in Task, NEW connected \in BOOLEAN, Done(t, connected), Fetching(t)
    PROVE  /\ pc' = [pc EXCEPT ![t] = "idle"]
           /\ got' = [got EXCEPT ![t] = Nothing]
           /\ clones' \in SUBSET Clone /\ dropping' \in SUBSET clones' /\ dropping' = dropping
           /\ aborted' \in {"no", "shutdown", "drop"}
<1>1. t \notin dropping
  BY DEF Quiet, Fetching
<1> QED BY <1>1 DEF Done, TypeOK, handles

\* Every action keeps the types.
LEMMA NextType == TypeOK /\ Quiet /\ [Next]_vars => TypeOK'
<1> SUFFICES ASSUME TypeOK, Quiet, [Next]_vars PROVE TypeOK'
  OBVIOUS
<1> USE SdkAssumption, NothingType
<1> USE DEF Task
<1>1. CASE Write
  BY <1>1 DEF Write, TypeOK, handles
<1>2. CASE Revoke
  BY <1>2 DEF Revoke, TypeOK, handles
<1>3. CASE Wake
  BY <1>3 DEF Wake, Send, TypeOK, server, handles
<1>4. CASE Stops
  BY <1>4 DEF Stops, TypeOK, server, handles
<1>5. CASE Ended \/ UNCHANGED vars
  BY <1>5 DEF Ended, vars, TypeOK, server, handles
<1>6. ASSUME NEW n \in Node, Serve(n) PROVE TypeOK'
  BY <1>6 DEF Serve, TypeOK, handles
<1>7. ASSUME NEW t \in Task, NEW n \in Node, Answer(t, n) PROVE TypeOK'
  <2>1. [rev |-> served[n], node |-> n] \in Snapshot
    BY DEF TypeOK, Snapshot
  <2> QED BY <1>7, <2>1 DEF Answer, TypeOK, server, handles
<1>8. ASSUME NEW t \in Task, NEW transient \in BOOLEAN, Fails(t, transient) PROVE TypeOK'
  <2>1. t = Poller => interval # 0
    BY <1>8 DEF Fails, Fetching, Quiet
  <2>2. backoff' \in {interval} \cup 1..MaxBackoff
    BY <1>8, <2>1, BackoffType DEF Fails, TypeOK
  <2>3. /\ pc' = [pc EXCEPT ![t] = "idle"] /\ got' = [got EXCEPT ![t] = Nothing]
        /\ clones' \in SUBSET Clone /\ dropping' \in SUBSET clones'
        /\ aborted' \in {"no", "shutdown", "drop"}
    BY <1>8, DoneFacts DEF Fails
  <2> QED BY <1>8, <2>2, <2>3 DEF Fails, TypeOK, server
<1>9. ASSUME NEW t \in Task, Store(t) PROVE TypeOK'
  <2>1. backoff' \in {interval} \cup 1..MaxBackoff
    BY <1>9 DEF Store, TypeOK
  <2>2. /\ pc' = [pc EXCEPT ![t] = "idle"] /\ got' = [got EXCEPT ![t] = Nothing]
        /\ clones' \in SUBSET Clone /\ dropping' \in SUBSET clones'
        /\ aborted' \in {"no", "shutdown", "drop"}
    BY <1>9, DoneFacts DEF Store
  <2> QED BY <1>9, <2>1, <2>2 DEF Store, TypeOK, server
<1>10. ASSUME NEW c \in Clone, Refresh(c) PROVE TypeOK'
  BY <1>10 DEF Refresh, Send, TypeOK, server, handles
<1>11. ASSUME NEW c \in Clone, Cancel(c) PROVE TypeOK'
  <2>1. /\ pc' = [pc EXCEPT ![c] = "idle"] /\ got' = [got EXCEPT ![c] = Nothing]
        /\ clones' \in SUBSET Clone /\ dropping' \in SUBSET clones'
        /\ aborted' \in {"no", "shutdown", "drop"}
    BY <1>11, DoneFacts DEF Cancel
  <2> QED BY <1>11, <2>1 DEF Cancel, TypeOK, server
<1>12. ASSUME NEW c \in Clone, CloneHandle(c) PROVE TypeOK'
  BY <1>12 DEF CloneHandle, TypeOK, server
<1>13. ASSUME NEW c \in Clone, Shutdown(c) PROVE TypeOK'
  BY <1>13 DEF Shutdown, TypeOK, server
<1>14. ASSUME NEW c \in Clone, DropHandle(c) PROVE TypeOK'
  BY <1>14 DEF DropHandle, Held, TypeOK, server
<1>15. ASSUME NEW c \in Clone, ReleaseHandle(c) PROVE TypeOK'
  BY <1>15 DEF ReleaseHandle, TypeOK, server
<1> QED BY <1>1, <1>2, <1>3, <1>4, <1>5, <1>6, <1>7, <1>8, <1>9, <1>10, <1>11, <1>12,
           <1>13, <1>14, <1>15 DEF Next

-----------------------------------------------------------------------------
(* The inductive invariant *)

\* What holds at the start.
LEMMA InitInv == Init => IInv
<1> SUFFICES ASSUME Init PROVE IInv
  OBVIOUS
<1>1. PICK c \in Clone, first \in {"idle", "connecting"} :
        /\ clones = {c}
        /\ pc = [t \in Task |-> IF t = c THEN first
                                ELSE IF t = Poller /\ interval = 0 THEN "stopped"
                                ELSE "idle"]
  BY DEF Init
<1>2. TypeOK
  BY <1>1, SdkAssumption, NothingType DEF Init, TypeOK
<1>3. Quiet
  BY <1>1, SdkAssumption DEF Init, Quiet, Task
<1> QED BY <1>2, <1>3 DEF Init, IInv, Sourced, Behind, Ahead

\* Every action keeps a refresher that was not spawned and handles that are
\* being dropped quiet.
LEMMA NextQuiet == IInv /\ [Next]_vars => Quiet'
<1> SUFFICES ASSUME IInv, [Next]_vars PROVE Quiet'
  OBVIOUS
<1> USE SdkAssumption
<1> USE DEF IInv, Task
<1>1. CASE Write \/ Revoke \/ Ended \/ UNCHANGED vars
  BY <1>1 DEF Write, Revoke, Ended, vars, Quiet, server, handles
<1>2. CASE Wake
  BY <1>2 DEF Wake, Send, TypeOK, Quiet, server, handles
<1>3. CASE Stops
  BY <1>3 DEF Stops, TypeOK, Quiet, server, handles
<1>4. ASSUME NEW n \in Node, Serve(n) PROVE Quiet'
  BY <1>4 DEF Serve, Quiet, handles
<1>5. ASSUME NEW t \in Task, NEW n \in Node, Answer(t, n) PROVE Quiet'
  BY <1>5 DEF Answer, Quiet, handles
<1>6. ASSUME NEW t \in Task, NEW connected \in BOOLEAN, Fetching(t), Done(t, connected),
             interval' = interval
      PROVE  Quiet'
  <2>1. pc' = [pc EXCEPT ![t] = "idle"] /\ dropping' = dropping
    BY <1>6, DoneFacts
  <2>2. t = Poller => interval # 0
    BY <1>6 DEF Fetching, Quiet
  <2> QED BY <1>6, <2>1, <2>2 DEF TypeOK, Quiet
<1>7. ASSUME NEW c \in Clone, Refresh(c) PROVE Quiet'
  BY <1>7 DEF Refresh, Send, TypeOK, Quiet, handles
<1>8. ASSUME NEW c \in Clone, CloneHandle(c) \/ Shutdown(c) PROVE Quiet'
  BY <1>8 DEF CloneHandle, Shutdown, Quiet
<1>9. ASSUME NEW c \in Clone, DropHandle(c) PROVE Quiet'
  BY <1>9 DEF DropHandle, Held, Quiet
<1>10. ASSUME NEW c \in Clone, ReleaseHandle(c) PROVE Quiet'
  BY <1>10 DEF ReleaseHandle, Quiet
<1>11. ASSUME NEW t \in Task, NEW transient \in BOOLEAN, Fails(t, transient) PROVE Quiet'
  BY <1>11, <1>6 DEF Fails
<1>12. ASSUME NEW t \in Task, Store(t) PROVE Quiet'
  BY <1>12, <1>6 DEF Store
<1>13. ASSUME NEW c \in Clone, Cancel(c) PROVE Quiet'
  BY <1>13, <1>6 DEF Cancel
<1> QED BY <1>1, <1>2, <1>3, <1>4, <1>5, <1>7, <1>8, <1>9, <1>10, <1>11, <1>12, <1>13 DEF Next

\* Every action keeps answers and the stored configuration behind their nodes,
\* and answers nobody overtook ahead of what is stored.
LEMMA NextAnswers == IInv /\ [Next]_vars => (Sourced /\ Behind /\ Ahead)'
<1> SUFFICES ASSUME IInv, [Next]_vars PROVE (Sourced /\ Behind /\ Ahead)'
  OBVIOUS
<1> USE DEF IInv
<1>0. /\ \A n \in Node : served[n] \in Nat
      /\ current.rev \in Nat
      /\ \A t \in Task : got[t].rev \in Nat
  BY SdkAssumption DEF TypeOK, Snapshot
<1>1. ASSUME UNCHANGED <<served, current, got, pc, passed>> PROVE (Sourced /\ Behind /\ Ahead)'
  BY <1>1 DEF Sourced, Behind, Ahead, Fetching
<1>2. ASSUME NEW t \in Task, pc[t] = "idle", Send(t) PROVE (Sourced /\ Behind /\ Ahead)'
  <2>1. got[t] = Nothing
    BY <1>2 DEF Sourced, Fetching
  <2>2. Sourced'
    BY <1>2, <2>1 DEF Send, Sourced, Fetching, TypeOK, server
  <2>3. Behind'
    BY <1>2 DEF Send, Behind, server
  <2>4. Ahead'
    BY <1>2, <2>1 DEF Send, Ahead
  <2> QED BY <2>2, <2>3, <2>4
<1>3. ASSUME NEW t \in Task, got' = [got EXCEPT ![t] = Nothing],
             \A u \in Task \ {t} : pc'[u] = pc[u],
             UNCHANGED <<served, current, passed>>
      PROVE  (Sourced /\ Behind /\ Ahead)'
  <2>1. got'[t] = Nothing /\ \A u \in Task \ {t} : got'[u] = got[u]
    BY <1>3 DEF TypeOK
  <2>2. Sourced'
    BY <1>3, <2>1 DEF Sourced, Fetching
  <2>3. Behind' /\ Ahead'
    BY <1>3, <2>1 DEF Behind, Ahead
  <2> QED BY <2>2, <2>3
<1>4. ASSUME NEW n \in Node, Serve(n) PROVE (Sourced /\ Behind /\ Ahead)'
  <2>1. \A m \in Node : served'[m] \in Nat /\ served[m] <= served'[m]
    BY <1>4, <1>0 DEF Serve, TypeOK
  <2>2. Sourced'
    BY <1>0, <1>4, <2>1 DEF Serve, Sourced, Fetching
  <2>3. Behind'
    BY <1>0, <1>4, <2>1 DEF Serve, Behind
  <2> QED BY <1>4, <2>2, <2>3 DEF Serve, Ahead
<1>5. ASSUME NEW t \in Task, NEW n \in Node, Answer(t, n) PROVE (Sourced /\ Behind /\ Ahead)'
  <2>1. /\ got'[t] = [rev |-> served[n], node |-> n]
        /\ \A u \in Task \ {t} : got'[u] = got[u]
    BY <1>5 DEF Answer, TypeOK
  <2>2. Sourced'
    BY <1>0, <1>5, <2>1 DEF Answer, Sourced, Fetching, server
  <2>3. Behind'
    BY <1>5 DEF Answer, Behind, server
  <2>4. current.node = n => current.rev <= served[n]
    BY SdkAssumption DEF Behind, Nothing
  <2>5. Ahead'
    BY <1>5, <2>1, <2>4 DEF Answer, Ahead
  <2> QED BY <2>2, <2>3, <2>5
<1>6. ASSUME NEW t \in Task, Store(t) PROVE (Sourced /\ Behind /\ Ahead)'
  <2>1. /\ Fetching(t) /\ got[t] # Nothing /\ current' = got[t] /\ UNCHANGED served
        /\ got'[t] = Nothing
        /\ \A u \in Task \ {t} : got'[u] = got[u] /\ pc'[u] = pc[u]
        /\ \A u \in Task \ {t} : Fetching(u) => u \in passed'
    BY <1>6 DEF Store, Done, TypeOK, server
  <2>2. Sourced'
    BY <2>1 DEF Sourced, Fetching
  <2>3. Behind'
    BY <2>1 DEF Sourced, Behind
  <2>4. Ahead'
    BY <2>1 DEF Sourced, Ahead
  <2> QED BY <2>2, <2>3, <2>4
<1>7. CASE Write \/ Revoke \/ Ended \/ UNCHANGED vars
  BY <1>1, <1>7 DEF Write, Revoke, Ended, vars, server
<1>8. CASE Wake
  BY <1>2, <1>8 DEF Wake, Task
<1>9. CASE Stops
  BY <1>3, <1>9 DEF Stops, TypeOK, server, Task
<1>10. ASSUME NEW t \in Task, NEW transient \in BOOLEAN, Fails(t, transient)
       PROVE (Sourced /\ Behind /\ Ahead)'
  BY <1>3, <1>10 DEF Fails, Done, TypeOK, server
<1>11. ASSUME NEW c \in Clone, Cancel(c) PROVE (Sourced /\ Behind /\ Ahead)'
  BY <1>3, <1>11 DEF Cancel, Done, TypeOK, server, Task
<1>12. ASSUME NEW c \in Clone, Refresh(c) PROVE (Sourced /\ Behind /\ Ahead)'
  BY <1>2, <1>12 DEF Refresh, Task
<1>13. ASSUME NEW c \in Clone,
              CloneHandle(c) \/ Shutdown(c) \/ DropHandle(c) \/ ReleaseHandle(c)
       PROVE (Sourced /\ Behind /\ Ahead)'
  BY <1>1, <1>13 DEF CloneHandle, Shutdown, DropHandle, ReleaseHandle, server
<1> QED BY <1>4, <1>5, <1>6, <1>7, <1>8, <1>9, <1>10, <1>11, <1>12, <1>13 DEF Next

\* The inductive invariant holds throughout.
LEMMA InvHolds == Spec => []IInv
<1>1. IInv /\ [Next]_vars => IInv'
  BY NextType, NextQuiet, NextAnswers DEF IInv
<1> QED BY InitInv, <1>1, PTL DEF Spec

-----------------------------------------------------------------------------
(* Theorems *)

\* The client's state keeps its types, for any nodes, handles and intervals
\* (sdk/client.rs).
THEOREM ClientTypeCorrect == Spec => []TypeOK
<1>1. IInv => TypeOK
  BY DEF IInv
<1> QED BY InvHolds, <1>1, PTL

\* Whatever a step does to the stored configuration, it puts an answer there.
LEMMA StoresAnAnswer ==
    ASSUME [Next]_vars, current' # current
    PROVE  \E u \in Task : got[u] # Nothing /\ current' = got[u]
<1>1. \E u \in Task : Store(u)
  BY DEF Next, Write, Revoke, Wake, Send, Stops, Ended, vars, Serve, Answer, Fails,
         Refresh, Cancel, CloneHandle, Shutdown, DropHandle, ReleaseHandle
<1> QED BY <1>1 DEF Store

\* A client that has a configuration always has one (Inner::store is the only
\* write to it, sdk/client.rs).
THEOREM KeepsServingHolds == Spec => KeepsServing
<1>1. [Next]_vars => [current # Nothing => current' # Nothing]_vars
  BY StoresAnAnswer
<1> QED BY <1>1, PTL DEF Spec, KeepsServing

\* A configuration is replaced by an older one only by an answer from another
\* node, or by a fetch that another one overtook (sdk/client.rs, fetch and store).
THEOREM RegressesOnlyWhenOvertakenHolds == Spec => RegressesOnlyWhenOvertaken
<1>1. IInv /\ [Next]_vars =>
        [\A t \in Task :
           (Fetching(t) /\ current' = got[t] /\ current' # current /\ current'.rev < current.rev)
              => t \in passed \/ got[t].node # current.node]_vars
  <2> SUFFICES ASSUME IInv, [Next]_vars, NEW t \in Task,
                      current' = got[t], current' # current, current'.rev < current.rev
               PROVE  t \in passed \/ got[t].node # current.node
    OBVIOUS
  <2>1. got[t] # Nothing
    BY StoresAnAnswer
  <2>2. current.rev \in Nat /\ got[t].rev \in Nat
    BY SdkAssumption DEF IInv, TypeOK, Snapshot
  <2> QED BY <2>1, <2>2 DEF IInv, Ahead
<1> QED BY InvHolds, <1>1, PTL DEF Spec, RegressesOnlyWhenOvertaken

\* No failure of a fetch makes the refresher sleep less, for any interval up to
\* the cap (sdk/client.rs, spawn_refresher).
THEOREM FailureNeverHastensHolds == Spec => FailureNeverHastens
<1>1. IInv /\ [Next]_vars =>
        [\A transient \in BOOLEAN :
           Fails(Poller, transient) => backoff' >= backoff \/ backoff > MaxBackoff]_vars
  <2> SUFFICES ASSUME IInv, NEW transient \in BOOLEAN, Fails(Poller, transient)
               PROVE  backoff' >= backoff \/ backoff > MaxBackoff
    OBVIOUS
  <2>1. backoff \in Nat /\ MaxBackoff \in Nat
    BY SdkAssumption DEF IInv, TypeOK
  <2>2. backoff' = NextBackoff(transient)
    BY DEF Fails
  <2> QED BY <2>1, <2>2 DEF NextBackoff
<1> QED BY InvHolds, <1>1, PTL DEF Spec, FailureNeverHastens
=============================================================================
