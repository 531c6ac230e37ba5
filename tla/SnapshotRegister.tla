-------------------------- MODULE SnapshotRegister --------------------------
(***************************************************************************)
(* What the snapshot cache promises the evaluation path, with no mention   *)
(* of slots, mutexes, tasks or notifications: for every environment a node *)
(* shows either nothing or a snapshot.  A snapshot is made of parts that   *)
(* were all committed to the database, it is replaced only by one at least *)
(* as new in every part, and it is withdrawn only when the environment no  *)
(* longer exists.                                                          *)
(***************************************************************************)
EXTENDS Naturals

CONSTANTS Env, Part, None

VARIABLES live, rev, shown

regVars == <<live, rev, shown>>

RegisterInit ==
    /\ live = Env
    /\ rev = [e \in Env |-> [p \in Part |-> 0]]
    /\ shown = [e \in Env |-> None]

\* Somebody commits a change, or deletes environments.
DatabaseMoves ==
    /\ live' \subseteq live
    /\ \A e \in Env, p \in Part : rev'[e][p] >= rev[e][p]
    /\ UNCHANGED shown

\* A snapshot is shown for e: nothing in it is newer than the database, and
\* nothing in it is older than what was shown before.
Publish(e) ==
    /\ shown' = [shown EXCEPT ![e] = shown'[e]]
    /\ shown'[e] # None
    /\ \A p \in Part : /\ shown'[e][p] <= rev[e][p]
                       /\ shown[e] # None => shown[e][p] <= shown'[e][p]
    /\ UNCHANGED <<live, rev>>

\* Nothing is shown for e any more.
Withdraw(e) ==
    /\ e \notin live
    /\ shown' = [shown EXCEPT ![e] = None]
    /\ UNCHANGED <<live, rev>>

RegisterNext ==
    \/ DatabaseMoves
    \/ \E e \in Env : Publish(e) \/ Withdraw(e)

RegisterSpec == RegisterInit /\ [][RegisterNext]_regVars
=============================================================================
