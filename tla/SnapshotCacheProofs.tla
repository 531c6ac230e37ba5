------------------------- MODULE SnapshotCacheProofs -------------------------
(***************************************************************************)
(* Proofs about SnapshotCache for any number of environments, requests and *)
(* writes: types, locking and order; the refinement of SnapshotRegister;   *)
(* and freshness.                                                          *)
(***************************************************************************)
EXTENDS SnapshotCache, TLAPS

-----------------------------------------------------------------------------
(* Type correctness. *)

\* The snapshot of an environment nobody wrote to.
LEMMA BlankType == Blank \in Snapshot
BY DEF Blank, Snapshot

\* The initial state has its types.
LEMMA InitType == Init => TypeOK
<1> SUFFICES ASSUME Init PROVE TypeOK
  OBVIOUS
<1>1. NothingWritten \in Change
  BY DEF Change, NothingWritten, Part
<1>2. AnyEnv \in Env
  BY ConstantsAssumption
<1> QED BY <1>1, <1>2, BlankType DEF Init, TypeOK, PC

\* A committed write keeps the database and the listener's inbox typed.
LEMMA CommitType ==
    ASSUME TypeOK, NEW e \in Env, NEW p \in Part, CommitPart(e, p)
    PROVE  /\ exists' \in SUBSET Env
           /\ rev' \in [Env -> Snapshot]
           /\ connected' \in BOOLEAN
           /\ inbox' \in [Env -> Nat]
           /\ lost' \in [Env -> Snapshot]
BY DEF TypeOK, CommitPart, Bump, Notify, Snapshot

\* Ending a task keeps the types of what it resets.
LEMMA FinishType ==
    ASSUME TypeOK, NEW t \in Task, Finish(t)
    PROVE  /\ holder' \in [Slot -> Task \cup {None}]
           /\ pc' \in [Task -> PC]
           /\ op' \in [Task -> {"get", "refresh"}]
           /\ env' \in [Task -> Env]
           /\ slot' \in [Task -> Slot \cup {NoSlot}]
           /\ buf' \in [Task -> Snapshot]
           /\ todo' \in SUBSET Env
           /\ wrote' \in [Request -> Change]
BY ConstantsAssumption
   DEF TypeOK, Finish, Leave, Goto, Snapshot, Blank, NothingWritten, Change, PC, Part

\* So does returning from get or refresh, whoever called.
LEMMA ReturnType ==
    ASSUME TypeOK, NEW t \in Task, Return(t)
    PROVE  /\ holder' \in [Slot -> Task \cup {None}]
           /\ pc' \in [Task -> PC]
           /\ op' \in [Task -> {"get", "refresh"}]
           /\ env' \in [Task -> Env]
           /\ slot' \in [Task -> Slot \cup {NoSlot}]
           /\ buf' \in [Task -> Snapshot]
           /\ todo' \in SUBSET Env
           /\ wrote' \in [Request -> Change]
<1>1. CASE Finish(t)
  BY <1>1, FinishType
<1>2. CASE Leave(t) /\ Goto(t, "respond") /\ UNCHANGED <<env, wrote>>
  BY <1>2 DEF TypeOK, Leave, Goto, Snapshot, Blank, PC, Part
<1> QED BY <1>1, <1>2 DEF Return

\* So does starting a refresh.
LEMMA RefreshType ==
    ASSUME TypeOK, NEW t \in Task, NEW e \in Env, Refresh(t, e)
    PROVE  /\ pc' \in [Task -> PC]
           /\ op' \in [Task -> {"get", "refresh"}]
           /\ env' \in [Task -> Env]
           /\ slot' \in [Task -> Slot \cup {NoSlot}]
BY DEF TypeOK, Refresh, WaitFor, Goto, PC

\* Every action keeps the types.
LEMMA NextType == TypeOK /\ [Next]_vars => TypeOK'
<1> SUFFICES ASSUME TypeOK, [Next]_vars PROVE TypeOK'
  OBVIOUS
<1> USE DEF TypeOK
<1>1. ASSUME NEW e \in Env, NEW p \in Part, Write(e, p) PROVE TypeOK'
  BY <1>1, CommitType DEF Write, cacheVars, taskVars
<1>2. CASE WriteFlag
  BY <1>2 DEF WriteFlag, Bump, Notify, Snapshot, Part, cacheVars, taskVars
<1>3. ASSUME NEW e \in Env, DeleteEnvironment(e) PROVE TypeOK'
  BY <1>3 DEF DeleteEnvironment, CommitDelete, Notify, cacheVars, taskVars
<1>4. ASSUME NEW r \in Request, NEW e \in Env, Get(r, e) PROVE TypeOK'
  <2>1. CASE UNCHANGED <<cacheVars, taskVars>>
    BY <1>4, <2>1 DEF Get, cacheVars, taskVars, dbVars, netVars
  <2>2. CASE slots[e] # NoSlot /\ WaitFor(r, "get", e, slots[e])
             /\ UNCHANGED <<cacheVars, buf, todo, wrote>>
    BY <1>4, <2>2 DEF Get, WaitFor, Goto, Task, PC, cacheVars, dbVars, netVars
  <2>3. ASSUME NEW s \in Slot, slots' = [slots EXCEPT ![e] = s],
               value' = [value EXCEPT ![s] = None],
               WaitFor(r, "get", e, s), UNCHANGED <<holder, buf, todo, wrote>>
        PROVE  TypeOK'
    BY <1>4, <2>3 DEF Get, WaitFor, Goto, Task, PC, dbVars, netVars
  <2> QED BY <1>4, <2>1, <2>2, <2>3 DEF Get
<1>5. ASSUME NEW r \in Request, NEW e \in Env, NEW p \in Part, HandlerCommits(r, e, p)
      PROVE  TypeOK'
  <2>1. CommitPart(e, p)
    BY <1>5 DEF HandlerCommits
  <2>2. rev'[e][p] \in Nat
    BY <2>1, CommitType DEF Snapshot
  <2> QED BY <1>5, <2>1, <2>2, CommitType DEF HandlerCommits, Goto, Task, PC, Change, cacheVars
<1>23. ASSUME NEW r \in Request, NEW e \in Env, HandlerDeletes(r, e) PROVE TypeOK'
  BY <1>23 DEF HandlerDeletes, CommitDelete, Notify, Goto, Task, PC, Change, cacheVars
<1>6. ASSUME NEW r \in Request, HandlerRefreshes(r) PROVE TypeOK'
  BY <1>6, RefreshType DEF HandlerRefreshes, Task, dbVars, netVars, cacheVars
<1>7. ASSUME NEW r \in Request, HandlerResponds(r) PROVE TypeOK'
  BY <1>7, FinishType DEF HandlerResponds, Task, dbVars, netVars
<1>8. ASSUME NEW r \in Request, Cancel(r) PROVE TypeOK'
  BY <1>8, FinishType DEF Cancel, Task, dbVars, netVars
<1>9. ASSUME NEW t \in Task, Acquire(t) PROVE TypeOK'
  <2>1. CASE Finish(t)
    BY <1>9, <2>1, FinishType DEF Acquire, dbVars, netVars
  <2>2. CASE ~Finish(t)
    BY <1>9, <2>2 DEF Acquire, Goto, PC, Loading, dbVars, netVars
  <2> QED BY <2>1, <2>2
<1>10. ASSUME NEW t \in Task, ReadEnvironment(t) PROVE TypeOK'
  BY <1>10 DEF ReadEnvironment, Goto, PC, Loading, dbVars, netVars, cacheVars
<1>11. ASSUME NEW t \in Task, LoadFlags(t) PROVE TypeOK'
  BY <1>11 DEF LoadFlags, ReadPart, Goto, PC, Loading, Part, Snapshot, dbVars, netVars, cacheVars
<1>12. ASSUME NEW t \in Task, LoadSegments(t) PROVE TypeOK'
  BY <1>12 DEF LoadSegments, ReadPart, Goto, PC, Loading, Part, Snapshot, dbVars, netVars, cacheVars
<1>13. ASSUME NEW t \in Task, LoadExperiments(t) PROVE TypeOK'
  BY <1>13 DEF LoadExperiments, ReadPart, Goto, PC, Loading, Part, Snapshot, dbVars, netVars, cacheVars
<1>14. ASSUME NEW t \in Task, LoadFails(t) PROVE TypeOK'
  BY <1>14, FinishType DEF LoadFails, dbVars
<1>15. ASSUME NEW t \in Task, Store(t) PROVE TypeOK'
  BY <1>15, ReturnType DEF Store, dbVars, netVars
<1>16. ASSUME NEW t \in Task, EnvironmentGone(t) PROVE TypeOK'
  BY <1>16, ReturnType DEF EnvironmentGone, dbVars, netVars
<1>17. ASSUME NEW e \in Env, ListenerTakes(e) PROVE TypeOK'
  <2>1. Listener \in Task /\ inbox' \in [Env -> Nat]
    BY <1>17 DEF ListenerTakes, Task
  <2> QED BY <1>17, <2>1, RefreshType DEF ListenerTakes, dbVars, cacheVars
<1>18. ASSUME NEW e \in Env, SweepNext(e) PROVE TypeOK'
  BY <1>18, RefreshType DEF SweepNext, Task, dbVars, netVars, cacheVars
<1>19. ASSUME NEW K \in SUBSET Env, Disconnect(K) PROVE TypeOK'
  BY <1>19 DEF Disconnect, dbVars, cacheVars, taskVars
<1>20. CASE Connect
  BY <1>20 DEF Connect, dbVars, cacheVars, taskVars
<1>21. CASE SweepTick
  BY <1>21 DEF SweepTick, dbVars, netVars, cacheVars
<1>22. CASE UNCHANGED vars
  BY <1>22 DEF vars
<1> QED
  BY <1>1, <1>2, <1>3, <1>4, <1>5, <1>6, <1>7, <1>8, <1>9, <1>10, <1>11, <1>12, <1>13,
     <1>14, <1>15, <1>16, <1>17, <1>18, <1>19, <1>20, <1>21, <1>22, <1>23 DEF Next, Continue

\* Every variable of the cache model keeps its type, for any number of
\* environments, requests, slots and writes.
THEOREM TypeCorrect == Spec => []TypeOK
BY InitType, NextType, PTL DEF Spec
-----------------------------------------------------------------------------
(* Mutexes and slots. *)

\* Initially nobody holds or awaits a slot.
LEMMA InitLocking == Init => Locking
BY ConstantsAssumption DEF Init, Locking, Task, Loading

\* A task that ends leaves its slot and mutex.
LEMMA FinishLocking ==
    ASSUME TypeOK, Locking, NEW t \in Task, Finish(t), UNCHANGED <<exists, slots>>
    PROVE  Locking'
BY ConstantsAssumption DEF TypeOK, Locking, Finish, Leave, Goto, Loading

\* So does one that returns.
LEMMA ReturnLocking ==
    ASSUME TypeOK, Locking, NEW t \in Task, Return(t), UNCHANGED <<exists, slots>>
    PROVE  Locking'
<1>1. CASE Finish(t)
  BY <1>1, FinishLocking
<1>2. CASE Leave(t) /\ Goto(t, "respond") /\ UNCHANGED <<env, wrote>>
  BY <1>2, ConstantsAssumption DEF TypeOK, Locking, Leave, Goto, Loading
<1> QED BY <1>1, <1>2 DEF Return

\* Waiting for the mapped slot of e.
LEMMA WaitLocking ==
    ASSUME TypeOK, Locking, NEW t \in Task, NEW e \in Env, NEW o \in {"get", "refresh"},
           t \in {Listener, Sweeper} => o = "refresh",
           slot[t] = NoSlot, slots[e] # NoSlot,
           WaitFor(t, o, e, slots[e]), UNCHANGED <<exists, slots, holder>>
    PROVE  Locking'
BY ConstantsAssumption DEF TypeOK, Locking, WaitFor, Goto, Loading

\* A refresh waits for the mapped slot, or for none.
LEMMA RefreshLocking ==
    ASSUME TypeOK, Locking, NEW t \in Task, NEW e \in Env, slot[t] = NoSlot,
           Refresh(t, e), UNCHANGED <<exists, slots, holder>>
    PROVE  Locking'
<1>1. CASE slots[e] # NoSlot /\ WaitFor(t, "refresh", e, slots[e])
  BY <1>1, WaitLocking
<1>2. CASE Goto(t, IF t \in Request THEN "respond" ELSE "idle") /\ UNCHANGED <<op, env, slot>>
  BY <1>2, ConstantsAssumption DEF TypeOK, Locking, Goto, Loading
<1> QED BY <1>1, <1>2 DEF Refresh

\* A handler that holds no slot commits: only its own label and environment
\* change, and environments only disappear.
LEMMA CommitLocking ==
    ASSUME TypeOK, Locking, NEW r \in Request, NEW e \in Env, pc[r] = "idle",
           Goto(r, "written"), env' = [env EXCEPT ![r] = e], exists' \subseteq exists,
           UNCHANGED <<slots, holder, slot, op>>
    PROVE  Locking'
<1>1. r \in Task /\ slot[r] = NoSlot /\ slot'[r] = NoSlot /\ pc'[r] = "written"
  BY DEF TypeOK, Locking, Goto, Loading, Task
<1>2. \A t \in Task \ {r} : pc'[t] = pc[t] /\ env'[t] = env[t]
  BY DEF TypeOK, Goto
<1>3. \A t \in Task : slot[t] # NoSlot => env'[t] = env[t]
  BY <1>1, <1>2
<1>4. \A t \in Task : (slot[t] # NoSlot <=> pc[t] \in {"lock"} \cup Loading)'
  BY <1>1, <1>2 DEF Locking, Loading
<1>5. \A s \in Slot, t \in Task : (holder[s] = t <=> (pc[t] \in Loading /\ slot[t] = s))'
  BY <1>1, <1>2 DEF Locking, Loading
<1>6. \A t \in Task : (pc[t] = "gone" => env[t] \notin exists)'
  BY <1>1, <1>2 DEF Locking
<1> QED BY <1>3, <1>4, <1>5, <1>6 DEF Locking

\* Every action keeps tasks, slots and mutexes in step.
LEMMA NextLocking == TypeOK /\ Locking /\ [Next]_vars => Locking'
<1> SUFFICES ASSUME TypeOK, Locking, [Next]_vars PROVE Locking'
  OBVIOUS
<1>1. ASSUME NEW e \in Env, NEW p \in Part, Write(e, p) PROVE Locking'
  BY <1>1 DEF Locking, Write, CommitPart, cacheVars, taskVars
<1>2. CASE WriteFlag
  BY <1>2 DEF Locking, WriteFlag, cacheVars, taskVars
<1>3. ASSUME NEW e \in Env, DeleteEnvironment(e) PROVE Locking'
  BY <1>3 DEF Locking, DeleteEnvironment, CommitDelete, cacheVars, taskVars
<1>4. ASSUME NEW r \in Request, NEW e \in Env, Get(r, e) PROVE Locking'
  <2>0. slot[r] = NoSlot /\ r \in Task
    BY <1>4 DEF Get, Locking, Loading, Task
  <2>1. CASE UNCHANGED <<cacheVars, taskVars>>
    BY <1>4, <2>1 DEF Get, Locking, cacheVars, taskVars, dbVars
  <2>2. CASE slots[e] # NoSlot /\ WaitFor(r, "get", e, slots[e])
             /\ UNCHANGED <<cacheVars, buf, todo, wrote>>
    BY <1>4, <2>0, <2>2, WaitLocking, ConstantsAssumption DEF Get, cacheVars, dbVars
  <2>3. ASSUME NEW s \in Slot, Unused(s), slots[e] = NoSlot,
               slots' = [slots EXCEPT ![e] = s],
               WaitFor(r, "get", e, s), UNCHANGED holder
        PROVE  Locking'
    BY <1>4, <2>0, <2>3, ConstantsAssumption
       DEF Get, TypeOK, Locking, Unused, WaitFor, Goto, Loading, dbVars
  <2> QED BY <1>4, <2>1, <2>2, <2>3 DEF Get
<1>5. ASSUME NEW r \in Request, NEW e \in Env, NEW p \in Part, HandlerCommits(r, e, p)
      PROVE  Locking'
  BY <1>5, CommitLocking DEF HandlerCommits, CommitPart, cacheVars
<1>23. ASSUME NEW r \in Request, NEW e \in Env, HandlerDeletes(r, e) PROVE Locking'
  BY <1>23, CommitLocking DEF HandlerDeletes, CommitDelete, cacheVars
<1>6. ASSUME NEW r \in Request, HandlerRefreshes(r) PROVE Locking'
  <2>1. r \in Task /\ slot[r] = NoSlot /\ env[r] \in Env
    BY <1>6 DEF HandlerRefreshes, Locking, TypeOK, Loading, Task
  <2> QED BY <1>6, <2>1, RefreshLocking DEF HandlerRefreshes, dbVars, cacheVars
<1>7. ASSUME NEW r \in Request, HandlerResponds(r) PROVE Locking'
  BY <1>7, FinishLocking DEF HandlerResponds, Task, dbVars
<1>8. ASSUME NEW r \in Request, Cancel(r) PROVE Locking'
  BY <1>8, FinishLocking DEF Cancel, Task, dbVars
<1>9. ASSUME NEW t \in Task, Acquire(t) PROVE Locking'
  <2>1. CASE Finish(t)
    BY <1>9, <2>1, FinishLocking DEF Acquire, dbVars
  <2>2. CASE holder' = [holder EXCEPT ![slot[t]] = t] /\ Goto(t, "environment")
             /\ UNCHANGED <<op, env, slot, buf, todo, wrote>>
    BY <1>9, <2>2, ConstantsAssumption DEF Acquire, TypeOK, Locking, Goto, Loading, dbVars
  <2> QED BY <1>9, <2>1, <2>2 DEF Acquire
<1>10. ASSUME NEW t \in Task, ReadEnvironment(t) PROVE Locking'
  BY <1>10 DEF ReadEnvironment, TypeOK, Locking, Goto, Loading, dbVars, cacheVars
<1>11. ASSUME NEW t \in Task, LoadFlags(t) \/ LoadSegments(t) \/ LoadExperiments(t)
       PROVE Locking'
  <2>1. ASSUME NEW p \in Part, NEW l \in {"segments", "experiments", "store"}, ReadPart(t, p, l)
        PROVE  Locking'
    <3>1. pc[t] \in Loading /\ pc' = [pc EXCEPT ![t] = l] /\ l \in Loading /\ l # "gone"
      BY <2>1 DEF ReadPart, Goto, Loading, Part
    <3>2. UNCHANGED <<exists, slots, holder, op, env, slot>>
      BY <2>1 DEF ReadPart, dbVars, cacheVars
    <3> QED BY <3>1, <3>2 DEF TypeOK, Locking, Loading
  <2> QED BY <1>11, <2>1 DEF LoadFlags, LoadSegments, LoadExperiments, Part
<1>14. ASSUME NEW t \in Task, LoadFails(t) PROVE Locking'
  BY <1>14, FinishLocking DEF LoadFails, dbVars
<1>15. ASSUME NEW t \in Task, Store(t) PROVE Locking'
  BY <1>15, ReturnLocking DEF Store, dbVars
<1>16. ASSUME NEW t \in Task, EnvironmentGone(t) PROVE Locking'
  <2>1. env[t] \in Env /\ env[t] \notin exists /\ slot[t] # NoSlot
    BY <1>16 DEF EnvironmentGone, Locking, TypeOK, Loading
  <2>2. CASE slots' = slots
    BY <1>16, <2>2, ReturnLocking DEF EnvironmentGone, dbVars
  <2>3. CASE slots' = [slots EXCEPT ![env[t]] = NoSlot]
    <3>1. Leave(t) /\ exists' = exists
      BY <1>16 DEF EnvironmentGone, Return, Finish, dbVars
    <3>2. \/ Goto(t, "idle") /\ env' = [env EXCEPT ![t] = AnyEnv]
          \/ Goto(t, "respond") /\ env' = env
      BY <1>16 DEF EnvironmentGone, Return, Finish
    <3>3. \A u \in Task : u # t => pc'[u] = pc[u] /\ env'[u] = env[u] /\ op'[u] = op[u]
                                   /\ slot'[u] = slot[u]
      BY <3>1, <3>2 DEF Leave, Goto, TypeOK
    <3>4. slot'[t] = NoSlot /\ pc'[t] \notin {"lock"} \cup Loading
      BY <3>1, <3>2 DEF Leave, Goto, TypeOK, Loading
    <3>5. \A s \in Slot : holder'[s] = IF holder[s] = t THEN None ELSE holder[s]
      BY <3>1 DEF Leave
    <3>6. \A e \in Env : slots'[e] = IF e = env[t] THEN NoSlot ELSE slots[e]
      BY <2>3 DEF TypeOK
    <3> USE <2>1, <3>3, <3>4, <3>5, <3>6, ConstantsAssumption DEF TypeOK
    <3>7. \A u \in Task : slot'[u] # NoSlot <=> pc'[u] \in {"lock"} \cup Loading
      BY DEF Locking
    <3>8. \A s \in Slot, u \in Task :
            holder'[s] = u <=> (pc'[u] \in Loading /\ slot'[u] = s)
      BY DEF Locking
    <3>9. \A e, f \in Env : slots'[e] = slots'[f] /\ slots'[e] # NoSlot => e = f
      BY DEF Locking
    <3>10. ASSUME NEW u \in Task, slot'[u] # NoSlot
           PROVE  /\ \A e \in Env : slots'[e] = slot'[u] => e = env'[u]
                  /\ \A v \in Task : slot'[u] = slot'[v] => env'[u] = env'[v]
      <4>1. u # t /\ env'[u] = env[u] /\ slot'[u] = slot[u]
        BY <3>10
      <4>2. \A e \in Env : slots'[e] = slot'[u] => e = env'[u]
        BY <3>10, <4>1 DEF Locking
      <4>3. \A v \in Task : slot'[u] = slot'[v] => v # t
        BY <3>10
      <4>4. \A v \in Task : slot'[u] = slot'[v] => env'[u] = env'[v]
        BY <3>10, <4>1, <4>3 DEF Locking
      <4> QED BY <4>2, <4>4
    <3>11. ASSUME NEW u \in Task, slot'[u] # NoSlot, env'[u] \in exists
           PROVE  slots'[env'[u]] = slot'[u]
      <4>1. u # t /\ env'[u] = env[u] /\ slot'[u] = slot[u] /\ env[u] \in Env
        BY <3>11
      <4>2. slots[env[u]] = slot[u]
        BY <3>11, <4>1 DEF Locking
      <4> QED BY <3>11, <4>1, <4>2
    <3>12. \A u \in Task : pc'[u] = "gone" => env'[u] \notin exists
      BY DEF Locking, Loading
    <3>13. \A u \in {Listener, Sweeper} : slot'[u] # NoSlot => op'[u] = "refresh"
      BY DEF Locking, Task
    <3> QED BY <3>1, <3>7, <3>8, <3>9, <3>10, <3>11, <3>12, <3>13 DEF Locking
  <2> QED BY <1>16, <2>2, <2>3 DEF EnvironmentGone
<1>17. ASSUME NEW e \in Env, ListenerTakes(e) PROVE Locking'
  <2>1. Listener \in Task /\ slot[Listener] = NoSlot
    BY <1>17 DEF ListenerTakes, Locking, Loading, Task
  <2> QED BY <1>17, <2>1, RefreshLocking DEF ListenerTakes, dbVars, cacheVars
<1>18. ASSUME NEW e \in Env, SweepNext(e) PROVE Locking'
  <2>1. Sweeper \in Task /\ slot[Sweeper] = NoSlot
    BY <1>18 DEF SweepNext, Locking, Loading, Task
  <2> QED BY <1>18, <2>1, RefreshLocking DEF SweepNext, dbVars, cacheVars
<1>19. ASSUME NEW K \in SUBSET Env, Disconnect(K) PROVE Locking'
  BY <1>19 DEF Disconnect, Locking, dbVars, cacheVars, taskVars
<1>20. CASE Connect
  BY <1>20 DEF Connect, Locking, dbVars, cacheVars, taskVars
<1>21. CASE SweepTick
  BY <1>21 DEF SweepTick, Locking, dbVars, cacheVars
<1>22. CASE UNCHANGED vars
  BY <1>22 DEF vars, Locking
<1> QED
  BY <1>1, <1>2, <1>3, <1>4, <1>5, <1>6, <1>7, <1>8, <1>9, <1>10, <1>11,
     <1>14, <1>15, <1>16, <1>17, <1>18, <1>19, <1>20, <1>21, <1>22, <1>23
     DEF Next, Continue

\* While an environment exists, two loads of it would hold the same mutex: any
\* number of requests, sweeps and notifications share one load (cache.rs).
THEOREM SingleFlightHolds == Spec => []SingleFlight
<1>1. TypeOK /\ Locking => SingleFlight
  BY DEF TypeOK, Locking, SingleFlight, Loading
<1> QED BY <1>1, InitType, NextType, InitLocking, NextLocking, PTL DEF Spec

-----------------------------------------------------------------------------
(* The order of revisions. *)

\* A returning or failing call forgets everything and disturbs no other task.
LEMMA EndOfCall ==
    ASSUME TypeOK, NEW t \in Task, Finish(t) \/ Return(t)
    PROVE  /\ slot'[t] = NoSlot /\ pc'[t] \in {"idle", "respond"}
           /\ \A u \in Task : u # t =>
                 /\ pc'[u] = pc[u] /\ env'[u] = env[u] /\ op'[u] = op[u]
                 /\ slot'[u] = slot[u] /\ buf'[u] = buf[u]
BY DEF TypeOK, Finish, Return, Leave, Goto

\* Labels at which a load has read no part yet.
LEMMA NothingRead ==
    \A l \in {"idle", "respond", "lock", "written", "environment", "flags", "gone"} :
        HasRead(l) = {}
BY DEF HasRead

\* Initially nothing was written, read or lost.
LEMMA InitOrdered == Init => Ordered
BY ConstantsAssumption, NothingRead DEF Init, Ordered, Cached, Blank, Task

\* Ending a call without touching the cache.
LEMMA EndOrdered ==
    ASSUME TypeOK, Ordered, NEW t \in Task, Finish(t) \/ Return(t),
           UNCHANGED <<rev, slots, value>>,
           \A e \in Env : lost'[e] = lost[e] \/ lost'[e] = rev[e]
    PROVE  Ordered'
<1>1. \A e \in Env, p \in Part : lost'[e][p] <= rev'[e][p]
  <2> TAKE e \in Env, p \in Part
  <2>1. rev[e][p] \in Nat /\ lost[e][p] <= rev[e][p]
    BY DEF Ordered, TypeOK, Snapshot
  <2>2. CASE lost'[e] = lost[e]
    BY <2>1, <2>2
  <2>3. CASE lost'[e] = rev[e]
    BY <2>1, <2>3
  <2> QED BY <2>2, <2>3
<1>2. \A e \in Env, p \in Part : Cached(e)' => Served(e)'[p] <= rev'[e][p]
  BY DEF Ordered, Cached, Served
<1>3. \A u \in Task, p \in Part :
          slot'[u] # NoSlot /\ value'[slot'[u]] # None
              => value'[slot'[u]][p] <= rev'[env'[u]][p]
  BY EndOfCall DEF Ordered
<1>4. HasRead(pc'[t]) = {}
  BY EndOfCall, NothingRead
<1>5. \A u \in Task : \A p \in HasRead(pc'[u]) :
          /\ buf'[u][p] <= rev'[env'[u]][p]
          /\ value'[slot'[u]] # None => value'[slot'[u]][p] <= buf'[u][p]
  BY <1>4, EndOfCall DEF Ordered
<1> QED BY <1>1, <1>2, <1>3, <1>5 DEF Ordered
\* A commit moves revisions forward and announces them or records the loss.
LEMMA CommitMoves ==
    ASSUME TypeOK, Ordered, NEW E \in SUBSET Env, NEW p \in Part,
           rev' = Bump(E, p), Notify(E, rev')
    PROVE  \A e \in Env, q \in Part :
             /\ rev'[e][q] \in Nat /\ rev[e][q] <= rev'[e][q]
             /\ lost'[e][q] <= rev'[e][q] /\ lost[e][q] <= lost'[e][q]
             /\ inbox[e] <= inbox'[e]
             /\ rev'[e] = rev[e] \/ inbox'[e] > 0 \/ lost'[e] = rev'[e]
<1> TAKE e \in Env, q \in Part
<1>1. rev'[e] = IF e \in E THEN [rev[e] EXCEPT ![p] = @ + 1] ELSE rev[e]
  BY DEF Bump
<1>2. rev[e][q] \in Nat /\ lost[e][q] \in Nat /\ lost[e][q] <= rev[e][q] /\ inbox[e] \in Nat
  BY DEF TypeOK, Ordered, Snapshot
<1>3. rev'[e][q] \in Nat /\ rev[e][q] <= rev'[e][q]
  BY <1>1, <1>2 DEF TypeOK, Snapshot
<1>4. /\ inbox'[e] = IF e \in E /\ connected THEN inbox[e] + 1 ELSE inbox[e]
      /\ lost'[e] = IF e \in E /\ ~connected THEN rev'[e] ELSE lost[e]
  BY DEF Notify
<1>5. lost'[e][q] <= rev'[e][q] /\ lost[e][q] <= lost'[e][q]
  <2>1. CASE lost'[e] = rev'[e]
    BY <2>1, <1>2, <1>3
  <2>2. CASE lost'[e] = lost[e]
    BY <2>2, <1>2, <1>3
  <2> QED BY <2>1, <2>2, <1>4
<1>6. rev'[e] = rev[e] \/ inbox'[e] > 0 \/ lost'[e] = rev'[e]
  BY <1>1, <1>2, <1>4
<1> QED BY <1>2, <1>3, <1>4, <1>5, <1>6

\* No task changes what it is loading, though one without a slot may move.
QuietTasks ==
    \A t \in Task : \/ env'[t] = env[t] /\ pc'[t] = pc[t]
                    \/ slot[t] = NoSlot /\ HasRead(pc'[t]) = {}

\* Revisions move forward and the rest stands still.
LEMMA DatabaseOrdered ==
    ASSUME TypeOK, Ordered, UNCHANGED <<slots, value, slot, buf>>,
           QuietTasks,
           \A e \in Env, q \in Part :
             /\ rev'[e][q] \in Nat /\ rev[e][q] <= rev'[e][q]
             /\ lost'[e][q] <= rev'[e][q]
    PROVE  Ordered'
<1>1. \A e \in Env, q \in Part : Cached(e) =>
         /\ Served(e)[q] \in Nat /\ rev[e][q] \in Nat /\ Served(e)[q] <= rev[e][q]
  BY DEF TypeOK, Ordered, Snapshot, Cached, Served
<1>2. \A e \in Env, q \in Part : Cached(e)' => Served(e)'[q] <= rev'[e][q]
  BY <1>1 DEF Cached, Served
<1>3. ASSUME NEW t \in Task, NEW q \in Part, slot[t] # NoSlot, value[slot[t]] # None
      PROVE  value[slot[t]][q] <= rev'[env'[t]][q]
  <2>1. env[t] \in Env /\ env'[t] = env[t] /\ value[slot[t]][q] \in Nat /\ rev[env[t]][q] \in Nat
    BY <1>3 DEF TypeOK, Snapshot, QuietTasks
  <2>2. value[slot[t]][q] <= rev[env[t]][q]
    BY <1>3 DEF Ordered
  <2> QED BY <2>1, <2>2
<1>4. ASSUME NEW t \in Task, NEW q \in HasRead(pc'[t])
      PROVE  /\ buf[t][q] <= rev'[env'[t]][q]
             /\ value[slot[t]] # None => value[slot[t]][q] <= buf[t][q]
  <2>1. env[t] \in Env /\ env'[t] = env[t] /\ q \in Part /\ q \in HasRead(pc[t])
    BY <1>4 DEF TypeOK, HasRead, QuietTasks
  <2>2. buf[t][q] \in Nat /\ rev[env[t]][q] \in Nat /\ rev'[env[t]][q] \in Nat
    BY <2>1 DEF TypeOK, Snapshot
  <2>3. buf[t][q] <= rev[env[t]][q] /\ (value[slot[t]] # None => value[slot[t]][q] <= buf[t][q])
    BY <2>1 DEF Ordered
  <2> QED BY <2>1, <2>2, <2>3
<1> QED BY <1>2, <1>3, <1>4 DEF Ordered
\* Not even revisions move.
LEMMA StillOrdered ==
    ASSUME TypeOK, Ordered, UNCHANGED <<rev, lost, slots, value, slot, buf>>,
           QuietTasks
    PROVE  Ordered'
<1>1. \A e \in Env, q \in Part :
        /\ rev'[e][q] \in Nat /\ rev[e][q] <= rev'[e][q]
        /\ lost'[e][q] <= rev'[e][q]
  BY DEF TypeOK, Snapshot, Ordered
<1> QED BY <1>1, DatabaseOrdered

\* A task that starts waiting for the mapped slot of e.
LEMMA WaitOrdered ==
    ASSUME TypeOK, Ordered, NEW t \in Task, NEW e \in Env, NEW o, slots[e] # NoSlot,
           WaitFor(t, o, e, slots[e]), UNCHANGED <<rev, lost, slots, value, buf>>
    PROVE  Ordered'
<1>1. /\ slot'[t] = slots[e] /\ env'[t] = e /\ pc'[t] = "lock"
      /\ \A u \in Task : u # t => slot'[u] = slot[u] /\ env'[u] = env[u] /\ pc'[u] = pc[u]
  BY DEF WaitFor, Goto, TypeOK
<1>2. HasRead(pc'[t]) = {}
  BY <1>1, NothingRead
<1>3. \A f \in Env, p \in Part : Cached(f)' => Served(f)'[p] <= rev'[f][p]
  BY DEF Ordered, Cached, Served
<1>4. \A u \in Task, p \in Part :
        slot'[u] # NoSlot /\ value'[slot'[u]] # None => value'[slot'[u]][p] <= rev'[env'[u]][p]
  BY <1>1 DEF Ordered, Cached, Served
<1>5. \A u \in Task : \A p \in HasRead(pc'[u]) :
          /\ buf'[u][p] <= rev'[env'[u]][p]
          /\ value'[slot'[u]] # None => value'[slot'[u]][p] <= buf'[u][p]
  BY <1>1, <1>2 DEF Ordered
<1> QED BY <1>3, <1>4, <1>5 DEF Ordered

\* Starting a refresh reads nothing.
LEMMA RefreshOrdered ==
    ASSUME TypeOK, Ordered, NEW t \in Task, NEW e \in Env, slot[t] = NoSlot, Refresh(t, e),
           UNCHANGED <<rev, lost, slots, value, buf>>
    PROVE  Ordered'
<1>1. CASE slots[e] # NoSlot /\ WaitFor(t, "refresh", e, slots[e])
  BY <1>1, WaitOrdered
<1>2. CASE Goto(t, IF t \in Request THEN "respond" ELSE "idle") /\ UNCHANGED <<op, env, slot>>
  <2>1. QuietTasks
    BY <1>2, NothingRead DEF Goto, TypeOK, QuietTasks
  <2>2. UNCHANGED <<rev, lost, slots, value, slot, buf>>
    BY <1>2
  <2> QED BY <2>1, <2>2, StillOrdered
<1> QED BY <1>1, <1>2 DEF Refresh

\* One of the three queries that read a part.
LEMMA ReadOrdered ==
    ASSUME TypeOK, Locking, Ordered, NEW t \in Task, NEW p \in Part, NEW l \in PC,
           ReadPart(t, p, l), HasRead(l) = HasRead(p) \cup {p}
    PROVE  Ordered'
<1>1. env[t] \in Env /\ pc[t] = p /\ slot[t] \in Slot
  BY DEF ReadPart, TypeOK, Locking, Loading, Part
<1>2. /\ pc'[t] = l /\ env' = env /\ slot' = slot /\ value' = value /\ slots' = slots
      /\ rev' = rev /\ lost' = lost
      /\ buf'[t] = [buf[t] EXCEPT ![p] = rev[env[t]][p]]
      /\ \A u \in Task : u # t => buf'[u] = buf[u] /\ pc'[u] = pc[u]
  BY DEF ReadPart, Goto, TypeOK, dbVars, netVars, cacheVars
<1>3. ASSUME NEW u \in Task, NEW q \in HasRead(pc'[u])
      PROVE  /\ buf'[u][q] <= rev'[env'[u]][q]
             /\ value'[slot'[u]] # None => value'[slot'[u]][q] <= buf'[u][q]
  <2>1. CASE u # t
    BY <1>2, <1>3, <2>1 DEF Ordered
  <2>2. CASE u = t /\ q # p
    <3>1. q \in HasRead(pc[t]) /\ buf'[t][q] = buf[t][q]
      BY <1>1, <1>2, <1>3, <2>2 DEF TypeOK, Snapshot, HasRead
    <3> QED BY <1>2, <2>2, <3>1 DEF Ordered
  <2>3. CASE u = t /\ q = p
    <3>1. buf'[t][p] = rev[env[t]][p] /\ rev[env[t]][p] \in Nat
      BY <1>1, <1>2 DEF TypeOK, Snapshot
    <3>2. value[slot[t]] # None => value[slot[t]][p] <= rev[env[t]][p]
      BY <1>1, ConstantsAssumption DEF Ordered
    <3>3. buf'[t][p] <= rev'[env'[t]][p]
      BY <1>2, <3>1
    <3>4. value'[slot'[t]] # None => value'[slot'[t]][p] <= buf'[t][p]
      BY <1>2, <3>1, <3>2
    <3> QED BY <2>3, <3>3, <3>4
  <2> QED BY <2>1, <2>2, <2>3
<1>4. \A e \in Env, q \in Part : Cached(e)' => Served(e)'[q] <= rev'[e][q]
  BY <1>2 DEF Ordered, Cached, Served
<1> QED BY <1>2, <1>3, <1>4 DEF Ordered

\* Labels at which a load has read some.
LEMMA LabelsRead ==
    /\ HasRead("segments") = HasRead("flags") \cup {"flags"}
    /\ HasRead("experiments") = HasRead("segments") \cup {"segments"}
    /\ HasRead("store") = HasRead("experiments") \cup {"experiments"}
    /\ HasRead("store") = Part
BY DEF HasRead, Part

\* No action reads, stores or gives up what is newer than the database.
LEMMA NextOrdered == TypeOK /\ TypeOK' /\ Locking /\ Ordered /\ [Next]_vars => Ordered'
<1> SUFFICES ASSUME TypeOK, TypeOK', Locking, Ordered, [Next]_vars PROVE Ordered'
  OBVIOUS
<1>0. ASSUME UNCHANGED <<env, pc>> PROVE QuietTasks
  BY <1>0 DEF QuietTasks
<1>1. ASSUME NEW e \in Env, NEW p \in Part, Write(e, p) PROVE Ordered'
  BY <1>1, <1>0, CommitMoves, DatabaseOrdered DEF Write, CommitPart, cacheVars, taskVars
<1>2. CASE WriteFlag
  <2>1. "flags" \in Part /\ exists \in SUBSET Env
    BY DEF Part, TypeOK
  <2> QED BY <1>2, <2>1, <1>0, CommitMoves, DatabaseOrdered DEF WriteFlag, cacheVars, taskVars
<1>3. ASSUME UNCHANGED <<rev, slots, value, slot, buf, env, pc>>,
             \A e \in Env : lost'[e] = lost[e] \/ lost'[e] = rev[e]
      PROVE  Ordered'
  <2>1. \A e \in Env, q \in Part :
          /\ rev'[e][q] \in Nat /\ rev[e][q] <= rev'[e][q]
          /\ lost'[e][q] <= rev'[e][q]
    <3> TAKE e \in Env, q \in Part
    <3>1. rev[e][q] \in Nat /\ lost[e][q] <= rev[e][q] /\ rev' = rev
      BY <1>3 DEF TypeOK, Snapshot, Ordered
    <3>2. lost'[e] = lost[e] \/ lost'[e] = rev[e]
      BY <1>3
    <3> QED BY <3>1, <3>2
  <2> QED BY <1>3, <1>0, <2>1, DatabaseOrdered
<1>4. ASSUME NEW e \in Env, DeleteEnvironment(e) PROVE Ordered'
  BY <1>4, <1>3 DEF DeleteEnvironment, CommitDelete, Notify, cacheVars, taskVars
<1>5. ASSUME NEW K \in SUBSET Env, Disconnect(K) PROVE Ordered'
  BY <1>5, <1>3 DEF Disconnect, dbVars, cacheVars, taskVars
<1>6. CASE Connect
  BY <1>6, <1>3 DEF Connect, dbVars, cacheVars, taskVars
<1>7. CASE SweepTick
  BY <1>7, <1>3 DEF SweepTick, dbVars, netVars, cacheVars
<1>8. CASE UNCHANGED vars
  BY <1>8, <1>3 DEF vars
<1>9. ASSUME NEW r \in Request, NEW e \in Env, Get(r, e) PROVE Ordered'
  <2>0. r \in Task /\ UNCHANGED <<rev, lost>>
    BY <1>9 DEF Get, Task, dbVars, netVars
  <2>1. CASE UNCHANGED <<cacheVars, taskVars>>
    BY <1>3, <2>0, <2>1 DEF cacheVars, taskVars
  <2>2. CASE slots[e] # NoSlot /\ WaitFor(r, "get", e, slots[e])
             /\ UNCHANGED <<cacheVars, buf, todo, wrote>>
    BY <2>0, <2>2, WaitOrdered DEF cacheVars
  <2>3. ASSUME NEW s \in Slot, Unused(s), slots[e] = NoSlot,
               slots' = [slots EXCEPT ![e] = s], value' = [value EXCEPT ![s] = None],
               WaitFor(r, "get", e, s), UNCHANGED <<holder, buf, todo, wrote>>
        PROVE  Ordered'
    <3>1. /\ slot'[r] = s /\ pc'[r] = "lock" /\ value'[s] = None
          /\ \A u \in Task : u # r => slot'[u] = slot[u] /\ env'[u] = env[u] /\ pc'[u] = pc[u]
          /\ \A z \in Slot : z # s => value'[z] = value[z]
          /\ \A f \in Env : f # e => slots'[f] = slots[f]
          /\ slots'[e] = s
      BY <2>0, <2>3 DEF WaitFor, Goto, TypeOK
    <3>2. HasRead(pc'[r]) = {}
      BY <3>1, NothingRead
    <3>3. ASSUME NEW f \in Env, NEW p \in Part, Cached(f)' PROVE Served(f)'[p] <= rev'[f][p]
      <4>1. f # e
        BY <3>1, <3>3 DEF Cached
      <4>2. slots'[f] = slots[f] /\ slots[f] \in Slot /\ slots[f] # s
        BY <2>3, <3>1, <3>3, <4>1, ConstantsAssumption DEF Cached, Unused, TypeOK
      <4>3. Cached(f) /\ Served(f)' = Served(f)
        BY <3>1, <3>3, <4>2 DEF Cached, Served
      <4> QED BY <2>0, <4>3 DEF Ordered
    <3>4. ASSUME NEW u \in Task, u # r, slot[u] \in Slot PROVE value'[slot[u]] = value[slot[u]]
      BY <2>3, <3>1, <3>4 DEF Unused
    <3>5. \A u \in Task, p \in Part :
            slot'[u] # NoSlot /\ value'[slot'[u]] # None => value'[slot'[u]][p] <= rev'[env'[u]][p]
      BY <2>0, <3>1, <3>4 DEF Ordered, TypeOK
    <3>6. ASSUME NEW u \in Task, NEW p \in HasRead(pc'[u])
          PROVE  /\ buf'[u][p] <= rev'[env'[u]][p]
                 /\ value'[slot'[u]] # None => value'[slot'[u]][p] <= buf'[u][p]
      <4>1. u # r /\ p \in HasRead(pc[u])
        BY <3>1, <3>2, <3>6
      <4>2. pc[u] \in Loading
        BY <4>1 DEF HasRead, Loading
      <4>3. slot[u] \in Slot
        BY <4>2, ConstantsAssumption DEF Locking, TypeOK
      <4> QED BY <2>0, <2>3, <3>1, <3>4, <4>1, <4>3 DEF Ordered
    <3>7. \A f \in Env, p \in Part : lost'[f][p] <= rev'[f][p]
      BY <2>0 DEF Ordered
    <3> QED BY <3>3, <3>5, <3>6, <3>7 DEF Ordered
  <2> QED BY <1>9, <2>1, <2>2, <2>3 DEF Get
<1>10. ASSUME NEW r \in Request, NEW e \in Env, NEW p \in Part, HandlerCommits(r, e, p)
       PROVE  Ordered'
  <2>1. QuietTasks
    BY <1>10, NothingRead DEF HandlerCommits, Goto, QuietTasks, TypeOK, Locking, Loading, Task
  <2> QED BY <1>10, <2>1, CommitMoves, DatabaseOrdered DEF HandlerCommits, CommitPart, cacheVars
<1>22. ASSUME NEW r \in Request, NEW e \in Env, HandlerDeletes(r, e) PROVE Ordered'
  <2>1. QuietTasks
    BY <1>22, NothingRead DEF HandlerDeletes, Goto, QuietTasks, TypeOK, Locking, Loading, Task
  <2>2. \A f \in Env, q \in Part :
          /\ rev'[f][q] \in Nat /\ rev[f][q] <= rev'[f][q]
          /\ lost'[f][q] <= rev'[f][q]
    <3> TAKE f \in Env, q \in Part
    <3>1. rev[f][q] \in Nat /\ lost[f][q] <= rev[f][q] /\ rev' = rev
      BY <1>22 DEF HandlerDeletes, CommitDelete, TypeOK, Snapshot, Ordered
    <3>2. lost'[f] = lost[f] \/ lost'[f] = rev[f]
      BY <1>22 DEF HandlerDeletes, CommitDelete, Notify
    <3> QED BY <3>1, <3>2
  <2> QED BY <1>22, <2>1, <2>2, DatabaseOrdered DEF HandlerDeletes, CommitDelete, cacheVars
<1>11. ASSUME NEW r \in Request, HandlerRefreshes(r) PROVE Ordered'
  <2>1. r \in Task /\ slot[r] = NoSlot /\ env[r] \in Env
    BY <1>11 DEF HandlerRefreshes, Locking, TypeOK, Loading, Task
  <2> QED BY <1>11, <2>1, RefreshOrdered DEF HandlerRefreshes, dbVars, netVars, cacheVars
<1>12. ASSUME NEW e \in Env, ListenerTakes(e) PROVE Ordered'
  <2>1. Listener \in Task /\ slot[Listener] = NoSlot
    BY <1>12 DEF ListenerTakes, Locking, Loading, Task
  <2> QED BY <1>12, <2>1, RefreshOrdered DEF ListenerTakes, dbVars, cacheVars
<1>13. ASSUME NEW e \in Env, SweepNext(e) PROVE Ordered'
  <2>1. Sweeper \in Task /\ slot[Sweeper] = NoSlot
    BY <1>13 DEF SweepNext, Locking, Loading, Task
  <2> QED BY <1>13, <2>1, RefreshOrdered DEF SweepNext, dbVars, netVars, cacheVars
<1>14. ASSUME NEW t \in Task, Finish(t), UNCHANGED <<rev, lost, slots, value>> PROVE Ordered'
  BY <1>14, EndOrdered
<1>15. ASSUME NEW r \in Request, HandlerResponds(r) \/ Cancel(r) PROVE Ordered'
  BY <1>15, <1>14 DEF HandlerResponds, Cancel, Task, dbVars, netVars
<1>16. ASSUME NEW t \in Task, Acquire(t) PROVE Ordered'
  <2>1. CASE Finish(t)
    BY <1>16, <2>1, <1>14 DEF Acquire, dbVars, netVars
  <2>2. CASE Goto(t, "environment") /\ UNCHANGED <<op, env, slot, buf, todo, wrote>>
    <3>1. \A u \in Task : u # t => pc'[u] = pc[u]
      BY <2>2 DEF Goto, TypeOK
    <3>2. HasRead(pc'[t]) = {}
      BY <2>2, NothingRead DEF Goto, TypeOK
    <3>3. UNCHANGED <<rev, lost, slots, value, slot, env, buf>>
      BY <1>16, <2>2 DEF Acquire, dbVars, netVars
    <3> QED BY <3>1, <3>2, <3>3 DEF Ordered, Cached, Served
  <2> QED BY <1>16, <2>1, <2>2 DEF Acquire
<1>17. ASSUME NEW t \in Task, ReadEnvironment(t) PROVE Ordered'
  <2>1. \A u \in Task : u # t => pc'[u] = pc[u]
    BY <1>17 DEF ReadEnvironment, Goto, TypeOK
  <2>2. HasRead(pc'[t]) = {}
    BY <1>17, NothingRead DEF ReadEnvironment, Goto, TypeOK
  <2>3. UNCHANGED <<rev, lost, slots, value, slot, env, buf>>
    BY <1>17 DEF ReadEnvironment, dbVars, netVars, cacheVars
  <2> QED BY <2>1, <2>2, <2>3 DEF Ordered, Cached, Served
<1>18. ASSUME NEW t \in Task, LoadFlags(t) \/ LoadSegments(t) \/ LoadExperiments(t)
       PROVE  Ordered'
  <2>1. {"flags", "segments", "experiments"} \subseteq Part
        /\ {"segments", "experiments", "store"} \subseteq PC
    BY DEF Part, PC, Loading
  <2> QED BY <1>18, <2>1, ReadOrdered, LabelsRead DEF LoadFlags, LoadSegments, LoadExperiments
<1>19. ASSUME NEW t \in Task, LoadFails(t) PROVE Ordered'
  <2>1. \A e \in Env : lost'[e] = lost[e] \/ lost'[e] = rev[e]
    BY <1>19 DEF LoadFails, TypeOK
  <2> QED BY <1>19, <2>1, EndOrdered DEF LoadFails, dbVars
<1>20. ASSUME NEW t \in Task, Store(t) PROVE Ordered'
  <2>1. /\ pc[t] = "store" /\ slot[t] \in Slot /\ env[t] \in Env
        /\ HasRead(pc[t]) = Part /\ buf[t] # None
    BY <1>20, LabelsRead, ConstantsAssumption DEF Store, Locking, Loading, TypeOK, Snapshot
  <2>2. UNCHANGED <<rev, lost, slots>> /\ value'[slot[t]] = buf[t]
        /\ \A z \in Slot : z # slot[t] => value'[z] = value[z]
    BY <1>20, <2>1 DEF Store, TypeOK, dbVars, netVars
  <2>3. Return(t)
    BY <1>20 DEF Store
  <2>4. ASSUME NEW f \in Env, NEW p \in Part, Cached(f)' PROVE Served(f)'[p] <= rev'[f][p]
    <3>1. CASE slots[f] = slot[t]
      <4>1. f = env[t]
        BY <2>1, <3>1, ConstantsAssumption DEF Locking
      <4> QED BY <2>1, <2>2, <3>1, <4>1 DEF Ordered, Served
    <3>2. CASE slots[f] # slot[t]
      <4>1. slots[f] \in Slot
        BY <2>2, <2>4 DEF Cached, TypeOK
      <4>2. Cached(f) /\ Served(f)' = Served(f)
        BY <2>2, <2>4, <3>2, <4>1 DEF Cached, Served
      <4> QED BY <2>2, <4>2 DEF Ordered
    <3> QED BY <3>1, <3>2
  <2>5. ASSUME NEW u \in Task, NEW p \in Part, slot'[u] # NoSlot, value'[slot'[u]] # None
        PROVE  value'[slot'[u]][p] <= rev'[env'[u]][p]
    <3>1. u # t /\ slot'[u] = slot[u] /\ env'[u] = env[u] /\ slot[u] \in Slot
      BY <2>3, <2>5, EndOfCall DEF TypeOK
    <3>2. CASE slot[u] = slot[t]
      <4>1. env[u] = env[t]
        BY <2>5, <3>1, <3>2 DEF Locking
      <4> QED BY <2>1, <2>2, <3>1, <3>2, <4>1 DEF Ordered
    <3>3. CASE slot[u] # slot[t]
      BY <2>2, <2>5, <3>1, <3>3 DEF Ordered
    <3> QED BY <3>2, <3>3
  <2>6. ASSUME NEW u \in Task, NEW p \in HasRead(pc'[u])
        PROVE  /\ buf'[u][p] <= rev'[env'[u]][p]
               /\ value'[slot'[u]] # None => value'[slot'[u]][p] <= buf'[u][p]
    <3>1. u # t
      BY <2>3, <2>6, EndOfCall, NothingRead
    <3>2. /\ pc'[u] = pc[u] /\ slot'[u] = slot[u] /\ env'[u] = env[u] /\ buf'[u] = buf[u]
          /\ pc[u] \in Loading
      BY <2>3, <2>6, <3>1, EndOfCall DEF HasRead, Loading
    <3>3. slot[u] \in Slot /\ slot[u] # slot[t]
      BY <2>1, <3>1, <3>2, ConstantsAssumption DEF Locking, TypeOK, Loading
    <3> QED BY <2>2, <2>6, <3>2, <3>3 DEF Ordered
  <2>7. \A f \in Env, p \in Part : lost'[f][p] <= rev'[f][p]
    BY <2>2 DEF Ordered
  <2> QED BY <2>4, <2>5, <2>6, <2>7 DEF Ordered
<1>21. ASSUME NEW t \in Task, EnvironmentGone(t) PROVE Ordered'
  <2>1. UNCHANGED <<rev, lost, value>> /\ Return(t)
    BY <1>21 DEF EnvironmentGone, dbVars, netVars
  <2>2. \A f \in Env : slots'[f] = slots[f] \/ slots'[f] = NoSlot
    BY <1>21 DEF EnvironmentGone, TypeOK
  <2>3. \A f \in Env, p \in Part : Cached(f)' => Served(f)'[p] <= rev'[f][p]
    BY <2>1, <2>2 DEF Ordered, Cached, Served
  <2>4. \A u \in Task, p \in Part :
          slot'[u] # NoSlot /\ value'[slot'[u]] # None => value'[slot'[u]][p] <= rev'[env'[u]][p]
    BY <2>1, EndOfCall DEF Ordered
  <2>5. HasRead(pc'[t]) = {}
    BY <2>1, EndOfCall, NothingRead
  <2>6. \A u \in Task : \A p \in HasRead(pc'[u]) :
          /\ buf'[u][p] <= rev'[env'[u]][p]
          /\ value'[slot'[u]] # None => value'[slot'[u]][p] <= buf'[u][p]
    BY <2>1, <2>5, EndOfCall DEF Ordered
  <2>7. \A f \in Env, p \in Part : lost'[f][p] <= rev'[f][p]
    BY <2>1 DEF Ordered
  <2> QED BY <2>3, <2>4, <2>6, <2>7 DEF Ordered
<1> QED
  BY <1>1, <1>2, <1>4, <1>5, <1>6, <1>7, <1>8, <1>9, <1>10, <1>11, <1>12, <1>13,
     <1>15, <1>16, <1>17, <1>18, <1>19, <1>20, <1>21, <1>22 DEF Next, Continue
-----------------------------------------------------------------------------
(* What is served never goes back. *)

\* The step that NeverRegresses allows, for one environment.
Forward(e) ==
    Cached(e) => \/ Cached(e)' /\ \A p \in Part : Served(e)'[p] >= Served(e)[p]
                 \/ ~Cached(e)' /\ e \notin exists

\* A snapshot is a function to numbers, so leaving it alone is going forward.
LEMMA KeptForward ==
    ASSUME TypeOK, NEW e \in Env, UNCHANGED <<slots, value>>
    PROVE  Forward(e)
<1> SUFFICES ASSUME Cached(e) PROVE Cached(e)' /\ \A p \in Part : Served(e)'[p] >= Served(e)[p]
  BY DEF Forward
<1>1. Served(e) \in Snapshot
  BY ConstantsAssumption DEF TypeOK, Cached, Served
<1>2. Cached(e)' /\ Served(e)' = Served(e)
  BY DEF Cached, Served
<1> QED BY <1>1, <1>2 DEF Snapshot

\* A fresh slot is mapped for an environment that had none.
LEMMA GetForward ==
    ASSUME TypeOK, NEW r \in Request, NEW f \in Env, Get(r, f), NEW e \in Env
    PROVE  Forward(e)
<1>1. CASE UNCHANGED <<slots, value>>
  BY <1>1, KeptForward
<1>2. ASSUME NEW s \in Slot, Unused(s), slots[f] = NoSlot,
             slots' = [slots EXCEPT ![f] = s], value' = [value EXCEPT ![s] = None]
      PROVE  Forward(e)
  <2> SUFFICES ASSUME Cached(e)
               PROVE  Cached(e)' /\ \A p \in Part : Served(e)'[p] >= Served(e)[p]
    BY DEF Forward
  <2>1. e # f /\ slots'[e] = slots[e] /\ slots[e] \in Slot /\ slots[e] # s
    BY <1>2, ConstantsAssumption DEF Cached, TypeOK, Unused
  <2>2. Cached(e)' /\ Served(e)' = Served(e) /\ Served(e) \in Snapshot
    BY <1>2, <2>1, ConstantsAssumption DEF Cached, Served, TypeOK
  <2> QED BY <2>2 DEF Snapshot
<1> QED BY <1>1, <1>2 DEF Get, cacheVars

\* A finished load is at least as new as what its slot holds.
LEMMA StoreForward ==
    ASSUME TypeOK, Locking, Ordered, NEW t \in Task, Store(t), NEW e \in Env
    PROVE  Forward(e)
<1> SUFFICES ASSUME Cached(e)
             PROVE  Cached(e)' /\ \A p \in Part : Served(e)'[p] >= Served(e)[p]
  BY DEF Forward
<1>1. pc[t] = "store" /\ slot[t] \in Slot /\ HasRead(pc[t]) = Part
  BY LabelsRead, ConstantsAssumption DEF Store, Locking, Loading, TypeOK
<1>2. /\ slots' = slots /\ slots[e] \in Slot /\ Served(e) \in Snapshot
      /\ value'[slot[t]] = buf[t] /\ buf[t] \in Snapshot
      /\ \A z \in Slot : z # slot[t] => value'[z] = value[z]
  BY <1>1, ConstantsAssumption DEF Store, TypeOK, Cached, Served
<1>3. buf[t] # None
  BY <1>2, ConstantsAssumption DEF Snapshot
<1>4. CASE slots[e] # slot[t]
  BY <1>2, <1>4 DEF Cached, Served, Snapshot
<1>5. CASE slots[e] = slot[t]
  <2>1. \A p \in Part : Served(e)[p] <= buf[t][p]
    BY <1>1, <1>5 DEF Ordered, Cached, Served
  <2>2. Cached(e)' /\ Served(e)' = buf[t]
    BY <1>2, <1>3, <1>5 DEF Cached, Served
  <2> QED BY <1>2, <2>1, <2>2 DEF Snapshot
<1> QED BY <1>4, <1>5

\* Only a deleted environment loses its slot.
LEMMA GoneForward ==
    ASSUME TypeOK, Locking, NEW t \in Task, EnvironmentGone(t), NEW e \in Env
    PROVE  Forward(e)
<1>1. env[t] \in Env /\ env[t] \notin exists /\ value' = value
  BY DEF EnvironmentGone, Locking, TypeOK
<1>2. CASE slots' = slots
  BY <1>1, <1>2, KeptForward
<1>3. CASE slots' = [slots EXCEPT ![env[t]] = NoSlot] /\ e = env[t]
  BY <1>1, <1>3 DEF Forward, Cached, TypeOK
<1>4. CASE slots' = [slots EXCEPT ![env[t]] = NoSlot] /\ e # env[t]
  <2> SUFFICES ASSUME Cached(e)
               PROVE  Cached(e)' /\ \A p \in Part : Served(e)'[p] >= Served(e)[p]
    BY DEF Forward
  <2>1. slots'[e] = slots[e] /\ Served(e) \in Snapshot
    BY <1>4, ConstantsAssumption DEF TypeOK, Cached, Served
  <2>2. Cached(e)' /\ Served(e)' = Served(e)
    BY <1>1, <2>1 DEF Cached, Served
  <2> QED BY <2>1, <2>2 DEF Snapshot
<1> QED BY <1>2, <1>3, <1>4 DEF EnvironmentGone

\* Every action leaves what is served alone or moves it forward.
LEMMA NextForward ==
    ASSUME TypeOK, Locking, Ordered, [Next]_vars, NEW e \in Env
    PROVE  Forward(e)
<1>1. CASE UNCHANGED <<slots, value>>
  BY <1>1, KeptForward
<1>2. ASSUME NEW r \in Request, NEW f \in Env, Get(r, f) PROVE Forward(e)
  BY <1>2, GetForward
<1>3. ASSUME NEW t \in Task, Store(t) PROVE Forward(e)
  BY <1>3, StoreForward
<1>4. ASSUME NEW t \in Task, EnvironmentGone(t) PROVE Forward(e)
  BY <1>4, GoneForward
<1>5. CASE UNCHANGED vars
  BY <1>1, <1>5 DEF vars
<1>6. ASSUME NEW f \in Env, NEW p \in Part, Write(f, p) PROVE UNCHANGED <<slots, value>>
  BY <1>6 DEF Write, cacheVars
<1>7. ASSUME NEW f \in Env, DeleteEnvironment(f) \/ ListenerTakes(f) \/ SweepNext(f)
      PROVE  UNCHANGED <<slots, value>>
  BY <1>7 DEF DeleteEnvironment, ListenerTakes, SweepNext, cacheVars
<1>8. ASSUME NEW r \in Request, NEW f \in Env, NEW p \in Part, HandlerCommits(r, f, p)
      PROVE  UNCHANGED <<slots, value>>
  BY <1>8 DEF HandlerCommits, cacheVars
<1>9. ASSUME NEW r \in Request, NEW f \in Env, HandlerDeletes(r, f)
      PROVE  UNCHANGED <<slots, value>>
  BY <1>9 DEF HandlerDeletes, cacheVars
<1>10. ASSUME NEW r \in Request, HandlerRefreshes(r) \/ HandlerResponds(r) \/ Cancel(r)
       PROVE  UNCHANGED <<slots, value>>
  BY <1>10 DEF HandlerRefreshes, HandlerResponds, Cancel, cacheVars
<1>11. ASSUME NEW t \in Task,
              Acquire(t) \/ ReadEnvironment(t) \/ LoadFlags(t) \/ LoadSegments(t)
                  \/ LoadExperiments(t) \/ LoadFails(t)
       PROVE  UNCHANGED <<slots, value>>
  BY <1>11 DEF Acquire, ReadEnvironment, LoadFlags, LoadSegments, LoadExperiments,
               ReadPart, LoadFails, cacheVars
<1>12. ASSUME NEW K \in SUBSET Env, Disconnect(K) PROVE UNCHANGED <<slots, value>>
  BY <1>12 DEF Disconnect, cacheVars
<1>13. ASSUME WriteFlag \/ Connect \/ SweepTick PROVE UNCHANGED <<slots, value>>
  BY <1>13 DEF WriteFlag, Connect, SweepTick, cacheVars
<1> QED
  BY <1>1, <1>2, <1>3, <1>4, <1>5, <1>6, <1>7, <1>8, <1>9, <1>10, <1>11, <1>12, <1>13
     DEF Next, Continue

\* What a node serves for an environment never goes back in time in any part,
\* and is withdrawn only once the environment is deleted, for any number of
\* concurrent requests, sweeps and notifications: every store happens under the
\* slot's mutex, and what it stores was read after the mutex was taken.
THEOREM NeverRegressesHolds == Spec => NeverRegresses
<1> DEFINE Inv == TypeOK /\ Locking /\ Ordered
<1>1. Init => Inv
  BY InitType, InitLocking, InitOrdered
<1>2. Inv /\ [Next]_vars => Inv'
  BY NextType, NextLocking, NextOrdered
<1>3. ASSUME Inv, [Next]_vars
      PROVE  [\A e \in Env : Cached(e) =>
                \/ Cached(e)' /\ \A p \in Part : Served(e)'[p] >= Served(e)[p]
                \/ ~Cached(e)' /\ e \notin exists]_vars
  BY <1>3, NextForward DEF Forward
<1> QED BY <1>1, <1>2, <1>3, PTL DEF Spec, NeverRegresses

-----------------------------------------------------------------------------
(* The cache implements SnapshotRegister: every step leaves what is shown  *)
(* and the database alone, moves only the database, publishes one          *)
(* environment's snapshot or withdraws one.                                *)

\* The initial cache shows nothing.
LEMMA InitRegister == Init => Register!RegisterInit
<1> SUFFICES ASSUME Init PROVE Register!RegisterInit
  OBVIOUS
<1>1. Shown = [e \in Env |-> None]
  BY DEF Init, Shown, Cached
<1> QED BY <1>1 DEF Init, Blank, Register!RegisterInit

\* What is shown depends on the map and the slots' values alone.
LEMMA KeptShown ==
    ASSUME UNCHANGED <<slots, value>>
    PROVE  Shown' = Shown
BY DEF Shown, Cached, Served

\* A step of the tasks or the connection alone is a stutter.
LEMMA TaskStep ==
    ASSUME UNCHANGED <<exists, rev, slots, value>>
    PROVE  UNCHANGED Register!regVars
BY KeptShown DEF Register!regVars

\* A commit moves the database and nothing that is shown.
LEMMA DatabaseStep ==
    ASSUME TypeOK, UNCHANGED <<slots, value>>, exists' \subseteq exists,
           rev' = rev \/ \E E \in SUBSET Env, p \in Part : rev' = Bump(E, p)
    PROVE  Register!DatabaseMoves
<1>1. \A e \in Env, q \in Part : rev[e][q] \in Nat
  BY DEF TypeOK, Snapshot
<1>2. \A e \in Env, q \in Part : rev'[e][q] >= rev[e][q]
  <2>1. CASE rev' = rev
    BY <1>1, <2>1
  <2>2. ASSUME NEW E \in SUBSET Env, NEW p \in Part, rev' = Bump(E, p),
               NEW e \in Env, NEW q \in Part
        PROVE  rev'[e][q] >= rev[e][q]
    <3>1. rev'[e] = IF e \in E THEN [rev[e] EXCEPT ![p] = @ + 1] ELSE rev[e]
      BY <2>2 DEF Bump
    <3>2. rev[e] \in [Part -> Nat]
      BY DEF TypeOK, Snapshot
    <3> QED BY <1>1, <3>1, <3>2
  <2> QED BY <2>1, <2>2
<1> QED BY <1>2, KeptShown DEF Register!DatabaseMoves

\* A new empty slot shows nothing, as the missing one did.
LEMMA GetStep ==
    ASSUME TypeOK, NEW r \in Request, NEW f \in Env, Get(r, f)
    PROVE  UNCHANGED Register!regVars
<1>1. UNCHANGED <<exists, rev>>
  BY DEF Get, dbVars
<1>2. CASE UNCHANGED <<slots, value>>
  BY <1>1, <1>2, TaskStep
<1>3. ASSUME NEW s \in Slot, Unused(s), slots[f] = NoSlot,
             slots' = [slots EXCEPT ![f] = s], value' = [value EXCEPT ![s] = None]
      PROVE  UNCHANGED Register!regVars
  <2>1. ASSUME NEW e \in Env
        PROVE  /\ Cached(e)' <=> Cached(e)
               /\ Cached(e) => Served(e)' = Served(e)
    <3>1. CASE e = f
      <4>1. slots'[e] = s /\ value'[s] = None
        BY <1>3, <3>1 DEF TypeOK
      <4> QED BY <1>3, <3>1, <4>1 DEF Cached
    <3>2. CASE e # f /\ slots[e] # NoSlot
      <4>1. slots'[e] = slots[e] /\ slots[e] \in Slot /\ slots[e] # s
        BY <1>3, <3>2 DEF TypeOK, Unused
      <4>2. value'[slots[e]] = value[slots[e]]
        BY <1>3, <4>1 DEF TypeOK
      <4> QED BY <4>1, <4>2 DEF Cached, Served
    <3>3. CASE e # f /\ slots[e] = NoSlot
      BY <1>3, <3>3 DEF Cached, TypeOK
    <3> QED BY <3>1, <3>2, <3>3
  <2>2. Shown' = Shown
    BY <2>1 DEF Shown
  <2> QED BY <1>1, <2>2 DEF Register!regVars
<1> QED BY <1>2, <1>3 DEF Get, cacheVars

\* A finished load publishes, if the map still holds its slot.
LEMMA StoreStep ==
    ASSUME TypeOK, Locking, Ordered, NEW t \in Task, Store(t)
    PROVE  Register!RegisterNext \/ UNCHANGED Register!regVars
<1>1. /\ pc[t] = "store" /\ slot[t] \in Slot /\ env[t] \in Env
      /\ HasRead(pc[t]) = Part /\ buf[t] \in Snapshot /\ buf[t] # None
  BY LabelsRead, ConstantsAssumption DEF Store, Locking, Loading, TypeOK, Snapshot
<1>2. /\ UNCHANGED <<exists, rev, slots>>
      /\ value'[slot[t]] = buf[t]
      /\ \A z \in Slot : z # slot[t] => value'[z] = value[z]
  BY <1>1 DEF Store, TypeOK, dbVars
<1>3. ASSUME NEW e \in Env, slots[e] # slot[t]
      PROVE  Shown'[e] = Shown[e]
  <2>1. CASE slots[e] = NoSlot
    BY <1>2, <2>1 DEF Shown, Cached
  <2>2. CASE slots[e] # NoSlot
    <3>1. slots[e] \in Slot
      BY <2>2 DEF TypeOK
    <3> QED BY <1>2, <1>3, <3>1 DEF Shown, Cached, Served
  <2> QED BY <2>1, <2>2
<1>4. CASE slots[env[t]] = slot[t]
  <2> DEFINE e == env[t]
  <2>1. \A f \in Env : f # e => slots[f] # slot[t]
    BY <1>1, <1>4, ConstantsAssumption DEF Locking
  <2>2. Shown'[e] = buf[t]
    BY <1>1, <1>2, <1>4, ConstantsAssumption DEF Shown, Cached, Served
  <2>3. Shown' = [Shown EXCEPT ![e] = Shown'[e]]
    <3>1. \A f \in Env : f # e => Shown'[f] = Shown[f]
      BY <1>3, <2>1
    <3> QED BY <3>1, <1>1 DEF Shown
  <2>4. \A p \in Part : buf[t][p] <= rev[e][p]
    BY <1>1 DEF Ordered
  <2>5. \A p \in Part : Shown[e] # None => Shown[e][p] <= buf[t][p]
    BY <1>1, <1>4 DEF Ordered, Shown, Cached, Served
  <2> HIDE DEF e
  <2>6. Register!Publish(e)
    BY <1>1, <1>2, <2>2, <2>3, <2>4, <2>5 DEF Register!Publish
  <2> QED BY <1>1, <2>6 DEF Register!RegisterNext, e
<1>5. CASE slots[env[t]] # slot[t]
  <2>1. \A e \in Env : slots[e] # slot[t]
    BY <1>1, <1>5, ConstantsAssumption DEF Locking
  <2>2. Shown' = Shown
    BY <1>3, <2>1 DEF Shown
  <2> QED BY <1>2, <2>2 DEF Register!regVars
<1> QED BY <1>4, <1>5

\* A load that finds no environment withdraws what was shown for it.
LEMMA GoneStep ==
    ASSUME TypeOK, Locking, NEW t \in Task, EnvironmentGone(t)
    PROVE  Register!RegisterNext \/ UNCHANGED Register!regVars
<1>1. env[t] \in Env /\ env[t] \notin exists /\ UNCHANGED <<exists, rev, value>>
  BY DEF EnvironmentGone, Locking, TypeOK, dbVars
<1>2. CASE slots' = slots
  BY <1>1, <1>2, TaskStep
<1>3. CASE slots' = [slots EXCEPT ![env[t]] = NoSlot]
  <2>1. \A e \in Env : Shown'[e] = IF e = env[t] THEN None ELSE Shown[e]
    BY <1>1, <1>3 DEF Shown, Cached, Served, TypeOK
  <2>2. Shown' = [Shown EXCEPT ![env[t]] = None]
    BY <1>1, <2>1 DEF Shown
  <2>3. Register!Withdraw(env[t])
    BY <1>1, <2>2 DEF Register!Withdraw
  <2> QED BY <1>1, <2>3 DEF Register!RegisterNext
<1> QED BY <1>2, <1>3 DEF EnvironmentGone

\* Every step of the cache is a step of the register or a stutter.
LEMMA NextRegister ==
    ASSUME TypeOK, Locking, Ordered, [Next]_vars
    PROVE  [Register!RegisterNext]_(Register!regVars)
<1>1. ASSUME NEW e \in Env, NEW p \in Part, CommitPart(e, p), UNCHANGED <<slots, value>>
      PROVE  Register!RegisterNext
  BY <1>1, DatabaseStep DEF CommitPart, Register!RegisterNext
<1>2. ASSUME NEW e \in Env, CommitDelete(e), UNCHANGED <<slots, value>>
      PROVE  Register!RegisterNext
  BY <1>2, DatabaseStep DEF CommitDelete, Register!RegisterNext
<1>3. ASSUME NEW e \in Env, NEW p \in Part, Write(e, p) PROVE Register!RegisterNext
  BY <1>1, <1>3 DEF Write, cacheVars
<1>4. CASE WriteFlag
  <2>1. exists \in SUBSET Env /\ "flags" \in Part
    BY DEF TypeOK, Part
  <2> QED BY <1>4, <2>1, DatabaseStep DEF WriteFlag, cacheVars, Register!RegisterNext
<1>5. ASSUME NEW e \in Env, DeleteEnvironment(e) PROVE Register!RegisterNext
  BY <1>2, <1>5 DEF DeleteEnvironment, cacheVars
<1>6. ASSUME NEW r \in Request, NEW e \in Env, Get(r, e) PROVE UNCHANGED Register!regVars
  BY <1>6, GetStep
<1>7. ASSUME NEW r \in Request, NEW e \in Env, NEW p \in Part, HandlerCommits(r, e, p)
      PROVE  Register!RegisterNext
  BY <1>1, <1>7 DEF HandlerCommits, cacheVars
<1>8. ASSUME NEW r \in Request, NEW e \in Env, HandlerDeletes(r, e) PROVE Register!RegisterNext
  BY <1>2, <1>8 DEF HandlerDeletes, cacheVars
<1>9. ASSUME NEW r \in Request, HandlerRefreshes(r) \/ HandlerResponds(r) \/ Cancel(r)
      PROVE  UNCHANGED Register!regVars
  BY <1>9, TaskStep DEF HandlerRefreshes, HandlerResponds, Cancel, dbVars, cacheVars
<1>10. ASSUME NEW t \in Task, Acquire(t) \/ ReadEnvironment(t) \/ LoadFails(t)
       PROVE  UNCHANGED Register!regVars
  BY <1>10, TaskStep DEF Acquire, ReadEnvironment, LoadFails, dbVars, cacheVars
<1>11. ASSUME NEW t \in Task, LoadFlags(t) \/ LoadSegments(t) \/ LoadExperiments(t)
       PROVE  UNCHANGED Register!regVars
  BY <1>11, TaskStep DEF LoadFlags, LoadSegments, LoadExperiments, ReadPart, dbVars, cacheVars
<1>12. ASSUME NEW t \in Task, Store(t)
       PROVE  Register!RegisterNext \/ UNCHANGED Register!regVars
  BY <1>12, StoreStep
<1>13. ASSUME NEW t \in Task, EnvironmentGone(t)
       PROVE  Register!RegisterNext \/ UNCHANGED Register!regVars
  BY <1>13, GoneStep
<1>14. ASSUME NEW e \in Env, ListenerTakes(e) \/ SweepNext(e) PROVE UNCHANGED Register!regVars
  BY <1>14, TaskStep DEF ListenerTakes, SweepNext, dbVars, cacheVars
<1>15. ASSUME NEW K \in SUBSET Env, Disconnect(K) PROVE UNCHANGED Register!regVars
  BY <1>15, TaskStep DEF Disconnect, dbVars, cacheVars
<1>16. CASE Connect \/ SweepTick
  <2>1. UNCHANGED Register!regVars
    BY <1>16, TaskStep DEF Connect, SweepTick, dbVars, cacheVars
  <2> QED BY <2>1
<1>17. CASE UNCHANGED vars
  <2>1. UNCHANGED Register!regVars
    BY <1>17, TaskStep DEF vars
  <2> QED BY <2>1
<1> QED
  BY <1>3, <1>4, <1>5, <1>6, <1>7, <1>8, <1>9, <1>10, <1>11, <1>12, <1>13, <1>14, <1>15,
     <1>16, <1>17 DEF Next, Continue

\* The cache implements the register the evaluation path relies on, for any
\* number of environments, requests, slots and writes.
THEOREM ImplementsRegisterHolds == Spec => ImplementsRegister
<1> DEFINE Inv == TypeOK /\ Locking /\ Ordered
<1>1. Init => Inv
  BY InitType, InitLocking, InitOrdered
<1>2. Inv /\ [Next]_vars => Inv'
  BY NextType, NextLocking, NextOrdered
<1>3. Inv /\ [Next]_vars => [Register!RegisterNext]_(Register!regVars)
  BY NextRegister
<1> QED BY <1>1, <1>2, <1>3, InitRegister, PTL
        DEF Spec, ImplementsRegister, Register!RegisterSpec

-----------------------------------------------------------------------------
(* What a node serves is fresh: no write is forgotten (NoMissedUpdate), a  *)
(* handler that answers has made its write visible (ReadYourWrites) or its *)
(* environment disappear (DeletedIsWithdrawn). The invariant adds          *)
(* Accounting, Answering and Withdrawing to the one above, and the actions *)
(* fall into a few kinds, with a lemma for each.                           *)

Base  == TypeOK /\ Locking /\ Ordered
Fresh == Withdrawing /\ Answering /\ Accounting

\* Only task t moves.
Alone(t) ==
    /\ \A u \in Task \ {t} : /\ pc'[u] = pc[u] /\ env'[u] = env[u] /\ op'[u] = op[u]
                             /\ slot'[u] = slot[u] /\ buf'[u] = buf[u]
    /\ \A r \in Request \ {t} : wrote'[r] = wrote[r]

-----------------------------------------------------------------------------
(* Helpers *)

\* Which labels have found the environment or read something of it.
LEMMA FoundLabels ==
    /\ \A l : HasRead(l) # {} => l \in Found
    /\ Found \subseteq Loading
    /\ {"idle", "lock", "written", "respond", "environment", "gone"} \cap Found = {}
    /\ {"flags", "segments", "experiments", "store"} \subseteq Found
BY DEF HasRead, Found, Part, Loading

\* A handler writes a part or deletes the environment.
LEMMA PartsAreNoEnvironment == "environment" \notin Part
BY DEF Part

\* A task that found its environment holds a slot.
LEMMA FoundHolds ==
    ASSUME Base, NEW t \in Task, pc[t] \in Loading
    PROVE  slot[t] \in Slot /\ slot[t] # NoSlot /\ env[t] \in Env /\ holder[slot[t]] = t
<1>1. slot[t] # NoSlot
  BY DEF Base, Locking
<1>2. slot[t] \in Slot /\ env[t] \in Env
  BY <1>1 DEF Base, TypeOK
<1> QED BY <1>1, <1>2 DEF Base, Locking

\* Two loads do not share a slot.
LEMMA OneLoader ==
    ASSUME Base, NEW t \in Task, NEW u \in Task, pc[t] \in Loading, pc[u] \in Loading,
           slot[t] = slot[u]
    PROVE  t = u
BY FoundHolds

\* Nor a living environment.
LEMMA OneLoad ==
    ASSUME Base, NEW t \in Task, NEW u \in Task, pc[t] \in Loading, pc[u] \in Loading,
           env[t] = env[u], env[t] \in exists
    PROVE  t = u
<1>1. slots[env[t]] = slot[t] /\ slots[env[u]] = slot[u]
  BY FoundHolds DEF Base, Locking
<1> QED BY <1>1, OneLoader

\* The numbers the invariant speaks about are numbers.
LEMMA Numbers ==
    ASSUME TypeOK
    PROVE  /\ \A t \in Task, p \in Part : buf[t][p] \in Nat
           /\ \A e \in Env, p \in Part : rev[e][p] \in Nat /\ lost[e][p] \in Nat
           /\ \A e \in Env, p \in Part : Cached(e) => Served(e)[p] \in Nat
           /\ \A r \in Request : wrote[r].rev \in Nat
<1>1. /\ \A t \in Task, p \in Part : buf[t][p] \in Nat
      /\ \A e \in Env, p \in Part : rev[e][p] \in Nat /\ lost[e][p] \in Nat
      /\ \A r \in Request : wrote[r].rev \in Nat
  BY DEF TypeOK, Snapshot, Change
<1>2. ASSUME NEW e \in Env, NEW p \in Part, Cached(e) PROVE Served(e)[p] \in Nat
  <2>1. value[slots[e]] \in Snapshot
    BY <1>2 DEF TypeOK, Cached
  <2> QED BY <2>1 DEF Snapshot, Served
<1> QED BY <1>1, <1>2

\* An environment without a slot has no load that found it.
LEMMA Unmapped ==
    ASSUME Base, Withdrawing, NEW e \in Env, slots[e] = NoSlot
    PROVE  ~Cached(e) /\ \A t \in Task : env[t] = e => pc[t] \notin Found /\ HasRead(pc[t]) = {}
<1>1. ASSUME NEW t \in Task, env[t] = e PROVE pc[t] \notin Found
  BY <1>1, FoundHolds, FoundLabels DEF Withdrawing
<1> QED BY <1>1, FoundLabels DEF Cached

-----------------------------------------------------------------------------
(* The database and the connection move, the node does not. *)

\* Writes, deletions and the LISTEN connection.
LEMMA SurroundingsMove ==
    ASSUME Base, Fresh, UNCHANGED <<slots, value, pc, op, env, slot, buf, wrote>>,
           exists' \subseteq exists,
           \A e \in Env, p \in Part : rev'[e][p] \in Nat /\ rev[e][p] <= rev'[e][p],
           \A e \in exists', p \in Part : \A n \in Nat : Accounted(e, p, n) => Accounted(e, p, n)'
    PROVE  Fresh'
<1>c. \A e \in Env : (Cached(e)' <=> Cached(e)) /\ Served(e)' = Served(e)
  BY DEF Cached, Served
<1>e. \A t \in Task : env[t] \in Env
  BY DEF Base, TypeOK
<1>n. TypeOK /\ exists \subseteq Env
  BY DEF Base, TypeOK
<1>1. Withdrawing'
  <2>1. \A r \in Request : env[r] \in Env
    BY <1>e DEF Task
  <2> QED BY <1>c, <2>1 DEF Fresh, Withdrawing
<1>2. Answering'
  <2>1. \A r \in Request : wrote[r].rev \in Nat /\ env[r] \in Env
    BY <1>e, <1>n, Numbers DEF Task
  <2>2. \A r \in Request : (wrote[r].part \in Part /\ pc[r] # "idle")
                               => wrote[r].rev <= rev'[env[r]][wrote[r].part]
    <3> SUFFICES ASSUME NEW r \in Request, wrote[r].part \in Part, pc[r] # "idle"
                 PROVE  wrote[r].rev <= rev'[env[r]][wrote[r].part]
      OBVIOUS
    <3>1. wrote[r].rev <= rev[env[r]][wrote[r].part]
      BY DEF Fresh, Answering
    <3>2. rev[env[r]][wrote[r].part] \in Nat
      BY <1>n, <2>1, Numbers
    <3> QED BY <2>1, <3>1, <3>2
  <2> QED BY <1>c, <2>1, <2>2 DEF Fresh, Answering
<1>3. Accounting'
  <2>1. ASSUME NEW e \in exists', NEW p \in Part, ListenerCovers(e, p) PROVE ListenerCovers(e, p)'
    <3>1. buf[Listener][p] \in Nat
      BY <1>n, Numbers DEF Task
    <3> QED BY <2>1, <3>1 DEF ListenerCovers
  <2> SUFFICES ASSUME NEW e \in exists', NEW p \in Part
               PROVE  /\ Cached(e)' => Accounted(e, p, Served(e)[p])' \/ ListenerCovers(e, p)'
                      /\ \A t \in Task :
                            (env[t] = e /\ p \in HasRead(pc[t]))' =>
                               \/ Accounted(e, p, buf[t][p])'
                               \/ t # Listener /\ ListenerCovers(e, p)'
    BY DEF Accounting
  <2>2. e \in exists /\ e \in Env
    BY <1>n
  <2>3. Cached(e)' => Accounted(e, p, Served(e)[p])' \/ ListenerCovers(e, p)'
    <3> SUFFICES ASSUME Cached(e)' PROVE Accounted(e, p, Served(e)[p])' \/ ListenerCovers(e, p)'
      OBVIOUS
    <3>1. Cached(e) /\ Served(e)' = Served(e) /\ Served(e)[p] \in Nat
      BY <1>c, <1>n, <2>2, Numbers
    <3>2. Accounted(e, p, Served(e)[p]) \/ ListenerCovers(e, p)
      BY <2>2, <3>1 DEF Fresh, Accounting
    <3>3. Accounted(e, p, Served(e)[p]) => Accounted(e, p, Served(e)[p])'
      BY <3>1 DEF Accounted
    <3> QED BY <2>1, <3>2, <3>3
  <2>4. ASSUME NEW t \in Task, env[t] = e, p \in HasRead(pc[t])
        PROVE  Accounted(e, p, buf[t][p])' \/ (t # Listener /\ ListenerCovers(e, p)')
    <3>1. buf[t][p] \in Nat
      BY <1>n, Numbers
    <3>2. Accounted(e, p, buf[t][p]) \/ (t # Listener /\ ListenerCovers(e, p))
      BY <2>2, <2>4 DEF Fresh, Accounting
    <3>3. Accounted(e, p, buf[t][p]) => Accounted(e, p, buf[t][p])'
      BY <3>1 DEF Accounted
    <3> QED BY <2>1, <3>2, <3>3
  <2> QED BY <2>3, <2>4
<1> QED BY <1>1, <1>2, <1>3 DEF Fresh
-----------------------------------------------------------------------------
(* A task moves between labels that read nothing, and publishes nothing. *)

\* What a request still stands for after its step.
KeepsOrEnds(t) ==
    t \in Request =>
        \/ pc'[t] = "idle" /\ wrote'[t] = NothingWritten
        \/ /\ pc'[t] = "written" /\ slot'[t] = NoSlot
           /\ \/ wrote'[t].part = "environment" /\ env'[t] \notin exists'
              \/ /\ wrote'[t].part \in Part
                 /\ wrote'[t].rev <= rev'[env'[t]][wrote'[t].part]
        \/ /\ pc'[t] # "idle" /\ wrote'[t] = wrote[t]
           /\ env'[t] = env[t] \/ wrote[t] = NothingWritten
           /\ slot'[t] # NoSlot => \/ op'[t] = "refresh"
                                   \/ wrote[t] = NothingWritten
                                   \/ slot[t] # NoSlot /\ op'[t] = op[t]

\* An environment whose notification was taken is covered, or has nothing to
\* refresh, and one the listener leaves is known as lost.
Answered(e, p) ==
    /\ \/ slots[e] = NoSlot
       \/ \A n \in Nat : Accounted(e, p, n) => Accounted(e, p, n)' \/ ListenerCovers(e, p)'
    /\ ListenerCovers(e, p) => \/ ListenerCovers(e, p)'
                               \/ \A n \in Nat : Accounted(e, p, n)'

\* Requests, failures, and the tasks between two reads.
LEMMA QuietTask ==
    ASSUME Base, Fresh, NEW t \in Task, Alone(t), exists' \subseteq exists,
           \A e \in Env, p \in Part : rev'[e][p] \in Nat /\ rev[e][p] <= rev'[e][p],
           \A e \in Env : /\ Cached(e)' <=> Cached(e)
                          /\ Cached(e) => Served(e)' = Served(e),
           \A u \in Task : pc[u] \in Found => slots'[env[u]] = slots[env[u]],
           pc'[t] \notin Found \cup {"respond"},
           slot'[t] # NoSlot => \/ slot'[t] = slot[t] /\ env'[t] = env[t]
                                \/ slots[env'[t]] \in {slot'[t], NoSlot},
           env'[t] \in Env,
           KeepsOrEnds(t),
           \A e \in exists', p \in Part : Answered(e, p)
    PROVE  Fresh'
<1>n. TypeOK /\ exists \subseteq Env
  BY DEF Base, TypeOK
<1>e. (\A u \in Task : env[u] \in Env) /\ Request \subseteq Task
  BY <1>n DEF TypeOK, Task
<1>h. HasRead(pc'[t]) = {}
  BY FoundLabels
<1>w. NothingWritten.part = "flags" /\ NothingWritten.rev = 0 /\ "flags" \in Part /\ "flags" # "environment"
  BY DEF NothingWritten, Part
<1>1. Withdrawing'
  <2>1. \A u \in Task : pc'[u] \in Found => u # t /\ slots'[env'[u]] = slot'[u]
    BY DEF Alone, Fresh, Withdrawing
  <2>2. ASSUME NEW u \in Task, NEW v \in Task, pc'[u] \in Found, slot'[v] # NoSlot, env'[v] = env'[u]
        PROVE  slot'[v] = slot'[u]
    <3>1. u # t /\ pc[u] \in Found /\ env'[u] = env[u] /\ slot'[u] = slot[u] /\ slots[env[u]] = slot[u]
      BY <2>1, <2>2 DEF Alone, Fresh, Withdrawing
    <3>2. CASE v # t
      BY <2>2, <3>1, <3>2 DEF Alone, Fresh, Withdrawing
    <3>3. CASE v = t /\ slot'[t] = slot[t] /\ env'[t] = env[t]
      BY <2>2, <3>1, <3>3 DEF Fresh, Withdrawing
    <3>4. CASE v = t /\ slots[env'[t]] \in {slot'[t], NoSlot}
      <4>1. slot[u] # NoSlot
        BY <3>1, FoundHolds, FoundLabels
      <4> QED BY <2>2, <3>1, <3>4, <4>1
    <3> QED BY <2>2, <3>2, <3>3, <3>4
  <2>3. ASSUME NEW r \in Request, wrote'[r].part = "environment"
        PROVE  /\ pc'[r] \notin {"idle"} \cup Found /\ env'[r] \notin exists'
               /\ slot'[r] # NoSlot => op'[r] = "refresh"
               /\ pc'[r] = "respond" => /\ r # t /\ wrote[r].part = "environment"
                                        /\ pc[r] = "respond" /\ env'[r] = env[r]
    <3>1. CASE r # t
      BY <1>e, <2>3, <3>1 DEF Alone, Fresh, Withdrawing
    <3>2. CASE r = t
      <4>1. CASE pc'[t] = "written" /\ slot'[t] = NoSlot /\ env'[t] \notin exists'
        BY <3>2, <4>1, FoundLabels
      <4>2. CASE /\ pc'[t] # "idle" /\ wrote'[t] = wrote[t] /\ (env'[t] = env[t] \/ wrote[t] = NothingWritten)
                 /\ slot'[t] # NoSlot => \/ op'[t] = "refresh"
                                         \/ wrote[t] = NothingWritten
                                         \/ slot[t] # NoSlot /\ op'[t] = op[t]
        BY <1>w, <2>3, <3>2, <4>2 DEF Fresh, Withdrawing
      <4> QED BY <1>w, <2>3, <3>2, <4>1, <4>2, PartsAreNoEnvironment DEF KeepsOrEnds
    <3> QED BY <3>1, <3>2
  <2>5. ASSUME NEW r \in Request, pc'[r] = "respond", wrote'[r].part = "environment"
        PROVE  /\ ~Cached(env[r])'
               /\ \A u \in Task : env'[u] = env'[r] => pc'[u] \notin Found
    <3>1. r # t /\ pc[r] = "respond" /\ wrote[r].part = "environment" /\ env'[r] = env[r]
      BY <2>3, <2>5
    <3>2. ~Cached(env[r]) /\ \A u \in Task : env[u] = env[r] => pc[u] \notin Found
      BY <3>1 DEF Fresh, Withdrawing
    <3>3. ~Cached(env[r])'
      BY <1>e, <3>1, <3>2 DEF Cached
    <3>4. \A u \in Task : env'[u] = env'[r] => pc'[u] \notin Found
      BY <3>1, <3>2 DEF Alone
    <3> QED BY <3>3, <3>4
  <2> QED BY <2>1, <2>2, <2>3, <2>5 DEF Withdrawing
<1>2. Answering'
  <2> SUFFICES ASSUME NEW r \in Request
               PROVE  /\ pc'[r] = "idle" => wrote'[r] = NothingWritten
                      /\ (wrote'[r].part \in Part /\ pc'[r] # "idle")
                             => wrote'[r].rev <= rev'[env'[r]][wrote'[r].part]
                      /\ (op'[r] = "refresh" /\ wrote'[r].part \in HasRead(pc'[r]))
                             => buf'[r][wrote'[r].part] >= wrote'[r].rev
                      /\ (pc'[r] = "respond" /\ env'[r] \in exists') =>
                            /\ Cached(env[r])' => Served(env[r])'[wrote'[r].part] >= wrote'[r].rev
                            /\ \A u \in Task :
                                  (env'[u] = env'[r] /\ wrote'[r].part \in HasRead(pc'[u]))
                                      => buf'[u][wrote'[r].part] >= wrote'[r].rev
    BY DEF Answering
  <2>1. CASE r = t
    <3>1. CASE pc'[t] = "idle" /\ wrote'[t] = NothingWritten
      BY <1>h, <2>1, <3>1
    <3>3. CASE /\ pc'[t] = "written"
               /\ \/ wrote'[t].part = "environment"
                  \/ wrote'[t].rev <= rev'[env'[t]][wrote'[t].part]
      BY <1>h, <2>1, <3>3, PartsAreNoEnvironment
    <3>2. CASE pc'[t] # "idle" /\ wrote'[t] = wrote[t] /\ (env'[t] = env[t] \/ wrote[t] = NothingWritten)
      <4>1. wrote[t].part \in Part => wrote[t].rev <= rev'[env'[t]][wrote[t].part]
        <5>1. CASE wrote[t] = NothingWritten
          BY <1>w, <5>1
        <5>2. CASE wrote[t] # NothingWritten
          <6>1. wrote[t].part \in Part => wrote[t].rev <= rev[env[t]][wrote[t].part]
            BY <2>1, <5>2 DEF Fresh, Answering
          <6>2. /\ env'[t] = env[t]
                /\ wrote[t].rev \in Nat
                /\ \A p \in Part : rev[env[t]][p] \in Nat
            BY <1>n, <1>e, <2>1, <3>2, <5>2, Numbers
          <6> QED BY <6>1, <6>2
        <5> QED BY <5>1, <5>2
      <4> QED BY <1>h, <2>1, <3>2, <4>1
    <3> QED BY <2>1, <3>1, <3>2, <3>3 DEF KeepsOrEnds
  <2>2. CASE r # t
    <3>1. /\ r \in Task /\ pc'[r] = pc[r] /\ env'[r] = env[r] /\ op'[r] = op[r]
          /\ buf'[r] = buf[r] /\ wrote'[r] = wrote[r]
      BY <1>e, <2>2 DEF Alone
    <3>2. /\ pc[r] = "idle" => wrote[r] = NothingWritten
          /\ (wrote[r].part \in Part /\ pc[r] # "idle") => wrote[r].rev <= rev[env[r]][wrote[r].part]
          /\ (op[r] = "refresh" /\ wrote[r].part \in HasRead(pc[r]))
                 => buf[r][wrote[r].part] >= wrote[r].rev
          /\ (pc[r] = "respond" /\ env[r] \in exists) =>
                /\ Cached(env[r]) => Served(env[r])[wrote[r].part] >= wrote[r].rev
                /\ \A u \in Task : (env[u] = env[r] /\ wrote[r].part \in HasRead(pc[u]))
                                      => buf[u][wrote[r].part] >= wrote[r].rev
      BY DEF Fresh, Answering
    <3>3. Cached(env[r])' => Cached(env[r]) /\ Served(env[r])' = Served(env[r])
      BY <1>e, <3>1 DEF Cached, Served
    <3>5. (wrote[r].part \in Part /\ pc[r] # "idle") => wrote[r].rev <= rev'[env[r]][wrote[r].part]
      <4>1. /\ wrote[r].rev \in Nat
            /\ \A p \in Part : rev[env[r]][p] \in Nat
        BY <1>n, <1>e, Numbers
      <4> QED BY <1>e, <3>2, <4>1
    <3>4. \A u \in Task : HasRead(pc'[u]) # {} => u # t
      BY <1>h
    <3> QED BY <3>1, <3>2, <3>3, <3>4, <3>5 DEF Alone
  <2> QED BY <2>1, <2>2
<1>3. Accounting'
  <2> SUFFICES ASSUME NEW e \in exists', NEW p \in Part
               PROVE  /\ Cached(e)' => Accounted(e, p, Served(e)[p])' \/ ListenerCovers(e, p)'
                      /\ \A u \in Task :
                            (env'[u] = e /\ p \in HasRead(pc'[u])) =>
                               \/ Accounted(e, p, buf[u][p])'
                               \/ u # Listener /\ ListenerCovers(e, p)'
    BY DEF Accounting
  <2>0. e \in Env /\ e \in exists /\ Answered(e, p)
    BY <1>n
  <2>1. ASSUME Cached(e)' PROVE Accounted(e, p, Served(e)[p])' \/ ListenerCovers(e, p)'
    <3>1. Cached(e) /\ Served(e)' = Served(e) /\ Served(e)[p] \in Nat /\ slots[e] # NoSlot
      BY <1>n, <2>0, <2>1, Numbers DEF Cached
    <3>2. Accounted(e, p, Served(e)[p]) \/ ListenerCovers(e, p)
      BY <2>0, <3>1 DEF Fresh, Accounting
    <3>3. \A n \in Nat : n = Served(e)'[p] /\ Accounted(e, p, n)' => Accounted(e, p, Served(e)[p])'
      BY DEF Accounted
    <3> QED BY <2>0, <3>1, <3>2, <3>3 DEF Answered
  <2>2. ASSUME NEW u \in Task, env'[u] = e, p \in HasRead(pc'[u])
        PROVE  Accounted(e, p, buf[u][p])' \/ (u # Listener /\ ListenerCovers(e, p)')
    <3>1. /\ u # t /\ env[u] = e /\ pc'[u] = pc[u] /\ buf'[u] = buf[u] /\ buf[u][p] \in Nat
          /\ slot'[u] = slot[u]
      BY <1>h, <1>n, <2>2, Numbers DEF Alone
    <3>2. slots[e] # NoSlot
      BY <2>0, <2>2, <3>1, Unmapped DEF Fresh
    <3>3. Accounted(e, p, buf[u][p]) \/ (u # Listener /\ ListenerCovers(e, p))
      BY <2>0, <2>2, <3>1 DEF Fresh, Accounting
    <3>4. \A n \in Nat : n = buf'[u][p] /\ Accounted(e, p, n)' => Accounted(e, p, buf[u][p])'
      BY DEF Accounted
    <3>5. ListenerCovers(e, p)' /\ u = Listener => Accounted(e, p, buf[u][p])'
      BY <2>2 DEF ListenerCovers
    <3> QED BY <2>0, <3>1, <3>2, <3>3, <3>4, <3>5 DEF Answered
  <2> QED BY <2>1, <2>2
<1> QED BY <1>1, <1>2, <1>3 DEF Fresh
-----------------------------------------------------------------------------
(* A load proceeds. *)

\* The environment's row is there.
LEMMA FoundStep ==
    ASSUME Base, Fresh, NEW t \in Task, pc[t] = "environment", env[t] \in exists, Goto(t, "flags"),
           UNCHANGED <<dbVars, netVars, cacheVars, op, env, slot, buf, todo, wrote>>
    PROVE  Fresh'
<1>u. UNCHANGED <<exists, rev, inbox, lost, slots, value, op, env, slot, buf, wrote>>
  BY DEF dbVars, netVars, cacheVars
<1>p. pc'[t] = "flags" /\ \A u \in Task \ {t} : pc'[u] = pc[u]
  BY DEF Base, TypeOK, Goto
<1>h. \A u \in Task : HasRead(pc'[u]) = HasRead(pc[u])
  BY <1>p, NothingRead
<1>s. slot[t] # NoSlot /\ slots[env[t]] = slot[t]
  BY DEF Base, Locking, Loading
<1>c. \A e \in Env : (Cached(e)' <=> Cached(e)) /\ Served(e)' = Served(e)
  BY <1>u DEF Cached, Served
<1>e. (\A u \in Task : env[u] \in Env) /\ Request \subseteq Task
  BY DEF Base, TypeOK, Task
<1>1. Withdrawing'
  <2>1. \A u \in Task : pc'[u] \in Found => slots[env[u]] = slot[u]
    BY <1>p, <1>s DEF Fresh, Withdrawing
  <2>2. ASSUME NEW u \in Task, NEW v \in Task, pc'[u] \in Found, slot[v] # NoSlot, env[v] = env[u]
        PROVE  slot[v] = slot[u]
    <3>1. CASE u = t
      BY <1>s, <2>2, <3>1 DEF Base, Locking
    <3>2. CASE u # t
      BY <1>p, <2>2, <3>2 DEF Fresh, Withdrawing
    <3> QED BY <3>1, <3>2
  <2>3. \A r \in Request : wrote[r].part = "environment" =>
            /\ r # t /\ pc'[r] = pc[r] /\ pc'[r] \notin {"idle"} \cup Found /\ env[r] \notin exists
            /\ slot[r] # NoSlot => op[r] = "refresh"
    BY <1>e, <1>p DEF Fresh, Withdrawing
  <2>4. ASSUME NEW r \in Request, pc'[r] = "respond", wrote[r].part = "environment"
        PROVE  /\ ~Cached(env[r])
               /\ \A u \in Task : env[u] = env[r] => pc'[u] \notin Found
    <3>1. pc[r] = "respond" /\ env[t] # env[r]
      BY <2>3, <2>4
    <3> QED BY <1>p, <2>4, <3>1 DEF Fresh, Withdrawing
  <2>5. \A r \in Request : Cached(env[r])' <=> Cached(env[r])
    BY <1>c, <1>e, <1>u DEF Cached
  <2> QED BY <1>u, <2>1, <2>2, <2>3, <2>4, <2>5 DEF Withdrawing
<1>2. Answering'
  <2>1. \A r \in Request : Cached(env[r])' = Cached(env[r]) /\ Served(env[r])' = Served(env[r])
    BY <1>u DEF Cached, Served
  <2>2. \A r \in Request : pc'[r] \in {"idle", "respond"} => pc'[r] = pc[r]
    BY <1>e, <1>p
  <2>3. \A r \in Request : pc'[r] # "idle" => pc[r] # "idle"
    BY <1>e, <1>p
  <2> QED BY <1>u, <1>h, <1>e, <2>1, <2>2, <2>3 DEF Fresh, Answering
<1>3. Accounting'
  <2>1. \A e \in Env, p \in Part : ListenerCovers(e, p)' <=> ListenerCovers(e, p)
    <3>1. Listener \in Task
      BY DEF Task
    <3> QED BY <1>u, <1>h, <3>1 DEF ListenerCovers, Accounted
  <2>2. exists \subseteq Env
    BY DEF Base, TypeOK
  <2> QED BY <1>u, <1>h, <1>c, <2>1, <2>2 DEF Fresh, Accounting, Accounted
<1> QED BY <1>1, <1>2, <1>3 DEF Fresh

\* A query of a load is answered.
LEMMA ReadStep ==
    ASSUME Base, Fresh, NEW t \in Task, NEW q \in Part, NEW l \in Found, ReadPart(t, q, l),
           HasRead(l) = HasRead(q) \cup {q}
    PROVE  Fresh'
<1>u. UNCHANGED <<exists, rev, inbox, lost, slots, value, op, env, slot, wrote>> /\ pc[t] = q
  BY DEF ReadPart, dbVars, netVars, cacheVars
<1>p. pc'[t] = l /\ \A u \in Task \ {t} : pc'[u] = pc[u]
  BY DEF Base, TypeOK, ReadPart, Goto
<1>b. /\ \A u \in Task \ {t} : buf'[u] = buf[u]
      /\ buf'[t][q] = rev[env[t]][q]
      /\ \A p \in Part \ {q} : buf'[t][p] = buf[t][p]
  BY DEF Base, TypeOK, ReadPart, Snapshot
<1>f. pc[t] \in Found /\ pc[t] \in Loading
  BY <1>u, FoundLabels DEF Found
<1>g. \A u \in Task : pc'[u] \in Found <=> pc[u] \in Found
  BY <1>p, <1>f
<1>h. /\ HasRead(pc'[t]) = HasRead(pc[t]) \cup {q}
      /\ \A u \in Task \ {t} : HasRead(pc'[u]) = HasRead(pc[u])
  BY <1>u, <1>p
<1>e. (\A u \in Task : env[u] \in Env) /\ Request \subseteq Task /\ exists \subseteq Env
  BY DEF Base, TypeOK, Task
<1>c. \A e \in Env : (Cached(e)' <=> Cached(e)) /\ Served(e)' = Served(e)
  BY <1>u DEF Cached, Served
<1>i. \A r \in Request : /\ pc'[r] \in {"idle", "respond"} <=> pc[r] \in {"idle", "respond"}
                         /\ pc'[r] \in {"idle", "respond"} => pc'[r] = pc[r]
  BY <1>e, <1>p, <1>f, FoundLabels
<1>n. TypeOK
  BY DEF Base
<1>1. Withdrawing'
  <2>1. \A r \in Request : Cached(env[r])' <=> Cached(env[r])
    BY <1>u DEF Cached
  <2>2. \A r \in Request : pc[r] \notin {"idle"} \cup Found => pc'[r] \notin {"idle"} \cup Found
    BY <1>e, <1>g, <1>i
  <2>3. \A r \in Request : pc'[r] = "respond" => pc[r] = "respond"
    BY <1>i
  <2> QED BY <1>u, <1>g, <2>1, <2>2, <2>3 DEF Fresh, Withdrawing
<1>2. Answering'
  <2>1. \A r \in Request : Cached(env[r])' = Cached(env[r]) /\ Served(env[r])' = Served(env[r])
    BY <1>u DEF Cached, Served
  <2>2. ASSUME NEW r \in Request
        PROVE  /\ pc'[r] = "idle" => wrote[r] = NothingWritten
               /\ (wrote[r].part \in Part /\ pc'[r] # "idle") => wrote[r].rev <= rev[env[r]][wrote[r].part]
    BY <1>i DEF Fresh, Answering
  <2>3. ASSUME NEW r \in Request, NEW u \in Task, env[u] = env[r], wrote[r].part \in HasRead(pc'[u]),
               pc[r] # "idle", wrote[r].part \in HasRead(pc[u]) => buf[u][wrote[r].part] >= wrote[r].rev
        PROVE  buf'[u][wrote[r].part] >= wrote[r].rev
    <3>1. wrote[r].part \in Part
      BY <2>3 DEF HasRead
    <3>2. CASE u = t /\ wrote[r].part = q
      <4>1. wrote[r].rev <= rev[env[r]][q]
        BY <2>3, <3>1, <3>2 DEF Fresh, Answering
      <4>2. rev[env[r]][q] \in Nat /\ wrote[r].rev \in Nat
        BY <1>n, <1>e, Numbers
      <4> QED BY <1>b, <2>3, <3>2, <4>1, <4>2
    <3>3. CASE ~(u = t /\ wrote[r].part = q)
      <4>1. wrote[r].part \in HasRead(pc[u]) /\ buf'[u][wrote[r].part] = buf[u][wrote[r].part]
        BY <1>b, <1>h, <2>3, <3>1, <3>3
      <4> QED BY <2>3, <4>1
    <3> QED BY <3>2, <3>3
  <2>4. ASSUME NEW r \in Request, op[r] = "refresh", wrote[r].part \in HasRead(pc'[r])
        PROVE  buf'[r][wrote[r].part] >= wrote[r].rev
    <3>1. pc'[r] \in Found /\ r \in Task
      BY <1>e, <2>4, FoundLabels
    <3>2. pc[r] # "idle"
      BY <1>g, <3>1, FoundLabels
    <3>3. wrote[r].part \in HasRead(pc[r]) => buf[r][wrote[r].part] >= wrote[r].rev
      BY <2>4 DEF Fresh, Answering
    <3> QED BY <2>3, <2>4, <3>1, <3>2, <3>3
  <2>5. ASSUME NEW r \in Request, pc'[r] = "respond", env[r] \in exists,
               NEW u \in Task, env[u] = env[r], wrote[r].part \in HasRead(pc'[u])
        PROVE  buf'[u][wrote[r].part] >= wrote[r].rev
    <3>1. pc[r] = "respond"
      BY <1>i, <2>5
    <3>2. wrote[r].part \in HasRead(pc[u]) => buf[u][wrote[r].part] >= wrote[r].rev
      BY <2>5, <3>1 DEF Fresh, Answering
    <3> QED BY <2>3, <2>5, <3>1, <3>2
  <2>6. ASSUME NEW r \in Request, pc'[r] = "respond", env[r] \in exists, Cached(env[r])
        PROVE  Served(env[r])[wrote[r].part] >= wrote[r].rev
    BY <1>i, <2>6 DEF Fresh, Answering
  <2> QED BY <1>u, <2>1, <2>2, <2>4, <2>5, <2>6 DEF Answering
<1>3. Accounting'
  <2>0. Listener \in Task
    BY DEF Task
  <2>1. ASSUME NEW u \in Task, NEW p \in Part, env[u] \in exists, p \in HasRead(pc'[u]),
               u = t => p # q
        PROVE  p \in HasRead(pc[u]) /\ buf'[u][p] = buf[u][p]
    BY <1>b, <1>h, <2>1
  <2>2. Accounted(env[t], q, buf[t][q])'
    <3>1. rev[env[t]][q] \in Nat
      BY <1>n, <1>e, Numbers
    <3> QED BY <1>b, <1>u, <3>1 DEF Accounted
  <2>3. ASSUME NEW e \in exists, NEW p \in Part, ListenerCovers(e, p) PROVE ListenerCovers(e, p)'
    <3>1. slot'[Listener] # NoSlot /\ env'[Listener] = e
      BY <1>u, <2>3 DEF ListenerCovers
    <3>2. ASSUME p \in HasRead(pc'[Listener]) PROVE Accounted(e, p, buf[Listener][p])'
      <4>1. CASE Listener = t /\ p = q
        BY <1>u, <2>2, <3>1, <4>1
      <4>2. CASE ~(Listener = t /\ p = q)
        <5>1. p \in HasRead(pc[Listener]) /\ buf'[Listener][p] = buf[Listener][p]
          BY <1>u, <2>0, <2>1, <3>1, <3>2, <4>2
        <5> QED BY <1>u, <2>3, <5>1 DEF ListenerCovers, Accounted
      <4> QED BY <4>1, <4>2
    <3> QED BY <3>1, <3>2 DEF ListenerCovers
  <2>4. ASSUME NEW e \in exists, NEW p \in Part, Cached(e)'
        PROVE  Accounted(e, p, Served(e)[p])' \/ ListenerCovers(e, p)'
    <3>1. Cached(e) /\ Served(e)' = Served(e)
      BY <1>c, <1>e, <2>4
    <3>2. Accounted(e, p, Served(e)[p]) \/ ListenerCovers(e, p)
      BY <3>1 DEF Fresh, Accounting
    <3> QED BY <1>u, <2>3, <3>1, <3>2 DEF Accounted
  <2>5. ASSUME NEW e \in exists, NEW p \in Part, NEW u \in Task, env[u] = e, p \in HasRead(pc'[u])
        PROVE  Accounted(e, p, buf[u][p])' \/ (u # Listener /\ ListenerCovers(e, p)')
    <3>1. CASE u = t /\ p = q
      BY <1>u, <2>2, <2>5, <3>1
    <3>2. CASE ~(u = t /\ p = q)
      <4>1. p \in HasRead(pc[u]) /\ buf'[u][p] = buf[u][p]
        BY <2>1, <2>5, <3>2
      <4>2. Accounted(e, p, buf[u][p]) \/ (u # Listener /\ ListenerCovers(e, p))
        BY <2>5, <4>1 DEF Fresh, Accounting
      <4> QED BY <1>u, <2>3, <4>1, <4>2 DEF Accounted
    <3> QED BY <3>1, <3>2
  <2> QED BY <1>u, <2>4, <2>5 DEF Accounting
<1> QED BY <1>1, <1>2, <1>3 DEF Fresh
-----------------------------------------------------------------------------
(* A load ends. *)

\* What returning leaves behind.
LEMMA ReturnMoves ==
    ASSUME TypeOK, NEW t \in Task, Return(t)
    PROVE  /\ Alone(t) /\ slot'[t] = NoSlot
           /\ \/ /\ t \in Request /\ op[t] = "refresh"
                 /\ pc'[t] = "respond" /\ env'[t] = env[t] /\ wrote'[t] = wrote[t]
              \/ /\ pc'[t] = "idle"
                 /\ t \in Request => wrote'[t] = NothingWritten
<1>1. CASE /\ t \in Request /\ op[t] = "refresh"
           /\ Leave(t) /\ Goto(t, "respond") /\ UNCHANGED <<env, wrote>>
  BY <1>1 DEF TypeOK, Leave, Goto, Alone
<1>2. CASE Finish(t)
  BY <1>2 DEF TypeOK, Finish, Leave, Goto, Alone
<1> QED BY <1>1, <1>2 DEF Return

\* What is left of the invariant to show when the call of t for x ends.
LEMMA EndStep ==
    ASSUME Base, Fresh, NEW t \in Task, NEW x \in Env, env[t] = x, pc[t] \in {"store", "gone"},
           Return(t), UNCHANGED <<exists, rev, inbox, lost>>,
           \A e \in Env \ {x} : /\ Cached(e)' <=> Cached(e)
                                /\ Cached(e) => Served(e)' = Served(e),
           \A u \in Task \ {t} : pc[u] \in Found => slots'[env[u]] = slot[u],
           \* a deleted environment stays withdrawn,
           \A r \in Request \ {t} :
              pc[r] = "respond" /\ wrote[r].part = "environment" /\ env[r] = x => ~Cached(x)',
           (t \in Request /\ wrote[t].part = "environment") =>
              /\ ~Cached(x)'
              /\ \A u \in Task \ {t} : env[u] = x => pc[u] \notin Found,
           \* and a living one shows what t read.
           x \in exists => pc[t] = "store" /\ Cached(x)' /\ Served(x)' = buf[t]
    PROVE  Fresh'
<1>n. TypeOK /\ exists \subseteq Env /\ Request \subseteq Task /\ Listener \in Task
  BY DEF Base, TypeOK, Task
<1>e. (\A u \in Task : env[u] \in Env) /\ pc[t] \in Loading
  BY <1>n DEF TypeOK, Loading
<1>m. /\ Alone(t) /\ slot'[t] = NoSlot
      /\ \/ /\ t \in Request /\ op[t] = "refresh"
            /\ pc'[t] = "respond" /\ env'[t] = x /\ wrote'[t] = wrote[t]
         \/ /\ pc'[t] = "idle"
            /\ t \in Request => wrote'[t] = NothingWritten
  BY <1>n, ReturnMoves
<1>h. HasRead(pc'[t]) = {} /\ pc'[t] \notin Found
  BY <1>m, FoundLabels
<1>w. NothingWritten.part = "flags" /\ NothingWritten.rev = 0
  BY DEF NothingWritten
<1>p. HasRead("store") = Part
  BY LabelsRead
<1>1. Withdrawing'
  <2>1. \A u \in Task : pc'[u] \in Found =>
          u # t /\ pc[u] \in Found /\ env'[u] = env[u] /\ slot'[u] = slot[u] /\ slots'[env'[u]] = slot'[u]
    BY <1>h, <1>m DEF Alone
  <2>2. \A u, v \in Task : pc'[u] \in Found /\ slot'[v] # NoSlot /\ env'[v] = env'[u] => slot'[v] = slot'[u]
    BY <1>m, <2>1 DEF Alone, Fresh, Withdrawing
  <2>3. ASSUME NEW r \in Request, wrote'[r].part = "environment"
        PROVE  /\ wrote[r].part = "environment" /\ env'[r] = env[r] /\ env[r] \notin exists
               /\ pc'[r] \notin {"idle"} \cup Found
               /\ slot'[r] # NoSlot => op'[r] = "refresh"
               /\ r # t => pc'[r] = pc[r]
    <3>1. CASE r # t
      BY <1>m, <1>n, <2>3, <3>1 DEF Alone, Fresh, Withdrawing
    <3>2. CASE r = t
      <4>1. pc'[t] = "respond" /\ env'[t] = x /\ wrote'[t] = wrote[t]
        BY <1>m, <1>w, <2>3, <3>2
      <4> QED BY <1>h, <1>m, <2>3, <3>2, <4>1 DEF Fresh, Withdrawing
    <3> QED BY <3>1, <3>2
  <2>4. ASSUME NEW r \in Request, pc'[r] = "respond", wrote'[r].part = "environment"
        PROVE  /\ ~Cached(env[r])'
               /\ \A u \in Task : env'[u] = env'[r] => pc'[u] \notin Found
    <3>1. wrote[r].part = "environment" /\ env'[r] = env[r] /\ r \in Task /\ env[r] \in Env
      BY <1>n, <1>e, <2>3, <2>4
    <3>2. ~Cached(env[r])' <=> \A e \in Env : e = env[r] => ~Cached(e)'
      BY <3>1 DEF Cached
    <3>3. CASE r = t
      <4>1. ~Cached(x)' /\ \A u \in Task \ {t} : env[u] = x => pc[u] \notin Found
        BY <3>1, <3>3
      <4> QED BY <1>h, <1>m, <3>1, <3>2, <3>3, <4>1 DEF Alone
    <3>4. CASE r # t
      <4>1. pc[r] = "respond"
        BY <2>3, <2>4, <3>4
      <4>2. ~Cached(env[r]) /\ \A u \in Task : env[u] = env[r] => pc[u] \notin Found
        BY <3>1, <4>1 DEF Fresh, Withdrawing
      <4>3. \A e \in Env : e = env[r] => ~Cached(e)'
        BY <3>1, <3>4, <4>1, <4>2
      <4> QED BY <1>h, <1>m, <3>1, <3>2, <4>2, <4>3 DEF Alone
    <3> QED BY <3>3, <3>4
  <2> QED BY <2>1, <2>2, <2>3, <2>4 DEF Withdrawing
<1>2. Answering'
  <2> SUFFICES ASSUME NEW r \in Request
               PROVE  /\ pc'[r] = "idle" => wrote'[r] = NothingWritten
                      /\ (wrote'[r].part \in Part /\ pc'[r] # "idle")
                             => wrote'[r].rev <= rev[env'[r]][wrote'[r].part]
                      /\ (op'[r] = "refresh" /\ wrote'[r].part \in HasRead(pc'[r]))
                             => buf'[r][wrote'[r].part] >= wrote'[r].rev
                      /\ (pc'[r] = "respond" /\ env'[r] \in exists) =>
                            /\ Cached(env[r])' => Served(env[r])'[wrote'[r].part] >= wrote'[r].rev
                            /\ \A u \in Task :
                                  (env'[u] = env'[r] /\ wrote'[r].part \in HasRead(pc'[u]))
                                      => buf'[u][wrote'[r].part] >= wrote'[r].rev
    BY DEF Answering
  <2>0. /\ pc[r] = "idle" => wrote[r] = NothingWritten
        /\ (wrote[r].part \in Part /\ pc[r] # "idle") => wrote[r].rev <= rev[env[r]][wrote[r].part]
        /\ (op[r] = "refresh" /\ wrote[r].part \in HasRead(pc[r]))
               => buf[r][wrote[r].part] >= wrote[r].rev
        /\ (pc[r] = "respond" /\ env[r] \in exists) =>
              /\ Cached(env[r]) => Served(env[r])[wrote[r].part] >= wrote[r].rev
              /\ \A u \in Task : (env[u] = env[r] /\ wrote[r].part \in HasRead(pc[u]))
                                    => buf[u][wrote[r].part] >= wrote[r].rev
    BY DEF Fresh, Answering
  <2>a. env[r] \in exists => wrote[r].part \in Part
    BY <1>n DEF Fresh, Withdrawing, TypeOK, Change
  <2>b. ASSUME env'[r] = env[r]
        PROVE  /\ Cached(env[r])' <=> \A e \in Env : e = env[r] => Cached(e)'
               /\ \A e \in Env : e = env[r] => Served(env[r])' = Served(e)'
    BY <1>n, <1>e, <2>b DEF Cached, Served
  <2>1. CASE r = t /\ pc'[t] = "idle"
    BY <1>h, <1>m, <2>1
  <2>2. CASE /\ r = t /\ op[t] = "refresh" /\ pc'[t] = "respond" /\ env'[t] = x
             /\ wrote'[t] = wrote[t]
    <3>1. (wrote[r].part \in Part) => wrote[r].rev <= rev[x][wrote[r].part]
      BY <2>0, <2>2
    <3>2. ASSUME x \in exists
          PROVE  /\ Served(env[r])' = buf[t]
                 /\ buf[t][wrote[r].part] >= wrote[r].rev
                 /\ \A u \in Task : env'[u] = x => wrote[r].part \notin HasRead(pc'[u])
      <4>1. pc[t] = "store" /\ Served(x)' = buf[t] /\ wrote[r].part \in Part
        BY <2>2, <2>a, <3>2
      <4>2. buf[t][wrote[r].part] >= wrote[r].rev
        BY <1>p, <2>0, <2>2, <4>1
      <4>3. ASSUME NEW u \in Task, env'[u] = x, wrote[r].part \in HasRead(pc'[u]) PROVE FALSE
        <5>1. u # t /\ env[u] = x /\ pc[u] \in Loading
          BY <1>h, <1>m, <4>3, FoundLabels DEF Alone
        <5> QED BY <1>e, <3>2, <5>1, OneLoad
      <4> QED BY <2>2, <2>b, <4>1, <4>2, <4>3
    <3> QED BY <1>h, <2>2, <3>1, <3>2
  <2>3. CASE r # t
    <3>1. /\ r \in Task /\ pc'[r] = pc[r] /\ env'[r] = env[r] /\ op'[r] = op[r]
          /\ buf'[r] = buf[r] /\ wrote'[r] = wrote[r]
      BY <1>m, <1>n, <2>3 DEF Alone
    <3>2. \A u \in Task : HasRead(pc'[u]) # {} => u # t /\ pc'[u] = pc[u] /\ env'[u] = env[u] /\ buf'[u] = buf[u]
      BY <1>h, <1>m DEF Alone
    <3>3. ASSUME pc[r] = "respond", env[r] \in exists, Cached(env[r])'
          PROVE  Served(env[r])'[wrote[r].part] >= wrote[r].rev
      <4>1. CASE env[r] = x
        <5>1. pc[t] = "store" /\ Served(env[r])' = buf[t] /\ wrote[r].part \in Part
          BY <2>a, <2>b, <3>1, <3>3, <4>1
        <5>2. buf[t][wrote[r].part] >= wrote[r].rev
          BY <1>p, <2>0, <3>3, <4>1, <5>1
        <5> QED BY <5>1, <5>2
      <4>2. CASE env[r] # x
        <5>1. Cached(env[r]) /\ Served(env[r])' = Served(env[r])
          BY <1>e, <2>b, <3>1, <3>3, <4>2
        <5> QED BY <2>0, <3>3, <5>1
      <4> QED BY <4>1, <4>2
    <3> QED BY <2>0, <3>1, <3>2, <3>3
  <2> QED BY <1>m, <2>1, <2>2, <2>3
<1>3. Accounting'
  <2> SUFFICES ASSUME NEW e \in exists, NEW p \in Part
               PROVE  /\ Cached(e)' => Accounted(e, p, Served(e)[p])' \/ ListenerCovers(e, p)'
                      /\ \A u \in Task :
                            (env'[u] = e /\ p \in HasRead(pc'[u])) =>
                               \/ Accounted(e, p, buf[u][p])'
                               \/ u # Listener /\ ListenerCovers(e, p)'
    BY DEF Accounting
  <2>0. e \in Env
    BY <1>n
  <2>1. t # Listener /\ ListenerCovers(e, p) => ListenerCovers(e, p)'
    BY <1>m, <1>n DEF Alone, ListenerCovers, Accounted
  <2>2. \A n : Accounted(e, p, n) => Accounted(e, p, n)'
    BY DEF Accounted
  <2>3. ASSUME Cached(e)' PROVE Accounted(e, p, Served(e)[p])' \/ ListenerCovers(e, p)'
    <3>1. CASE e = x
      <4>1. pc[t] = "store" /\ Served(e)' = buf[t] /\ p \in HasRead(pc[t])
        BY <1>p, <3>1
      <4>2. Accounted(e, p, buf[t][p]) \/ (t # Listener /\ ListenerCovers(e, p))
        BY <3>1, <4>1 DEF Fresh, Accounting
      <4> QED BY <2>1, <4>1, <4>2 DEF Accounted
    <3>2. CASE e # x
      <4>1. Cached(e) /\ Served(e)' = Served(e)
        BY <2>0, <2>3, <3>2
      <4>2. Accounted(e, p, Served(e)[p]) \/ ListenerCovers(e, p)
        BY <4>1 DEF Fresh, Accounting
      <4>3. ListenerCovers(e, p) => t # Listener
        BY <3>2 DEF ListenerCovers
      <4> QED BY <2>1, <4>1, <4>2, <4>3 DEF Accounted
    <3> QED BY <3>1, <3>2
  <2>4. ASSUME NEW u \in Task, env'[u] = e, p \in HasRead(pc'[u])
        PROVE  Accounted(e, p, buf[u][p])' \/ (u # Listener /\ ListenerCovers(e, p)')
    <3>1. u # t /\ env[u] = e /\ pc'[u] = pc[u] /\ buf'[u] = buf[u] /\ pc[u] \in Loading
      BY <1>h, <1>m, <2>4, FoundLabels DEF Alone
    <3>2. Accounted(e, p, buf[u][p]) \/ (u # Listener /\ ListenerCovers(e, p))
      BY <2>4, <3>1 DEF Fresh, Accounting
    <3>3. ListenerCovers(e, p) => t # Listener
      <4> SUFFICES ASSUME ListenerCovers(e, p), t = Listener PROVE FALSE
        OBVIOUS
      <4>1. env[t] = env[u] /\ env[t] \in exists
        BY <3>1 DEF ListenerCovers
      <4> QED BY <1>e, <3>1, <4>1, OneLoad
    <3> QED BY <2>1, <3>1, <3>2, <3>3 DEF Accounted
  <2> QED BY <2>3, <2>4
<1> QED BY <1>1, <1>2, <1>3 DEF Fresh

\* slot.value.store.
LEMMA StoreFresh ==
    ASSUME Base, Fresh, NEW t \in Task, Store(t)
    PROVE  Fresh'
<1> DEFINE x == env[t]
<1>1. /\ pc[t] = "store" /\ Return(t) /\ UNCHANGED <<exists, rev, inbox, lost, slots>>
      /\ pc[t] \in Found /\ pc[t] \in Loading
  BY FoundLabels DEF Store, dbVars, netVars, Loading
<1>2. slot[t] \in Slot /\ slot[t] # NoSlot /\ x \in Env /\ slots[x] = slot[t]
  BY <1>1, FoundHolds DEF Fresh, Withdrawing
<1>3. /\ value'[slot[t]] = buf[t] /\ buf[t] # None
      /\ \A z \in Slot : z # slot[t] => value'[z] = value[z]
  BY <1>2, ConstantsAssumption DEF Base, Store, TypeOK, Snapshot
<1>4. ASSUME NEW e \in Env \ {x}
      PROVE  /\ Cached(e)' <=> Cached(e)
             /\ Cached(e) => Served(e)' = Served(e)
  <2>1. slots[e] # slot[t]
    BY <1>2, <1>4 DEF Base, Locking
  <2>2. slots[e] \in Slot \/ slots[e] = NoSlot
    BY DEF Base, TypeOK
  <2> QED BY <1>1, <1>3, <2>1, <2>2 DEF Cached, Served
<1>5. \A u \in Task : pc[u] \in Found => slots'[env[u]] = slot[u]
  BY <1>1 DEF Fresh, Withdrawing
<1>6. \A r \in Request : ~(pc[r] = "respond" /\ wrote[r].part = "environment" /\ env[r] = x)
  BY <1>1 DEF Fresh, Withdrawing
<1>7. ~(t \in Request /\ wrote[t].part = "environment")
  BY <1>1 DEF Fresh, Withdrawing
<1>8. \A e \in Env : e = x => Cached(e)' /\ Served(e)' = buf[t]
  BY <1>1, <1>2, <1>3 DEF Cached, Served
<1> HIDE DEF x
<1>9. env[t] = x
  BY DEF x
<1> QED BY <1>1, <1>2, <1>4, <1>5, <1>6, <1>7, <1>8, <1>9, EndStep

\* The environment is gone.
LEMMA GoneFresh ==
    ASSUME Base, Fresh, NEW t \in Task, EnvironmentGone(t)
    PROVE  Fresh'
<1> DEFINE x == env[t]
<1>1. /\ pc[t] = "gone" /\ Return(t) /\ UNCHANGED <<exists, rev, inbox, lost, value>>
      /\ pc[t] \in Loading /\ x \in Env /\ x \notin exists /\ slot[t] # NoSlot
  BY FoundHolds DEF EnvironmentGone, dbVars, netVars, Loading, Base, Locking, TypeOK
<1>2. \A e \in Env : slots'[e] = IF e = x /\ op[t] = "refresh" THEN NoSlot ELSE slots[e]
  BY DEF EnvironmentGone, Base, TypeOK
<1>3. ASSUME NEW e \in Env \ {x}
      PROVE  /\ Cached(e)' <=> Cached(e)
             /\ Cached(e) => Served(e)' = Served(e)
  BY <1>1, <1>2, <1>3 DEF Cached, Served
<1>4. ASSUME NEW u \in Task \ {t}, pc[u] \in Found PROVE env[u] # x
  <2> SUFFICES ASSUME env[u] = x PROVE FALSE
    OBVIOUS
  <2>1. slot[t] = slot[u]
    BY <1>1, <1>4 DEF Fresh, Withdrawing
  <2> QED BY <1>1, <1>4, <2>1, FoundLabels, OneLoader
<1>5. \A u \in Task \ {t} : pc[u] \in Found => slots'[env[u]] = slot[u]
  <2>1. \A u \in Task : env[u] \in Env
    BY DEF Base, TypeOK
  <2> QED BY <1>2, <1>4, <2>1 DEF Fresh, Withdrawing
<1>6. \A e \in Env : e = x /\ ~Cached(e) => ~Cached(e)'
  BY <1>1, <1>2 DEF Cached
<1>7. \A r \in Request : pc[r] = "respond" /\ wrote[r].part = "environment" /\ env[r] = x => ~Cached(x)
  BY DEF Fresh, Withdrawing
<1>8. t \in Request /\ wrote[t].part = "environment" => op[t] = "refresh"
  BY <1>1 DEF Fresh, Withdrawing
<1>9. \A e \in Env : e = x /\ op[t] = "refresh" => ~Cached(e)'
  BY <1>2 DEF Cached
<1> HIDE DEF x
<1>10. env[t] = x
  BY DEF x
<1> QED BY <1>1, <1>3, <1>4, <1>5, <1>6, <1>7, <1>8, <1>9, <1>10, EndStep

-----------------------------------------------------------------------------
(* What is accounted for stays so. *)

\* A commit announces what it makes old, or records the loss.
LEMMA CommitAccounts ==
    ASSUME TypeOK, Ordered, NEW E \in SUBSET Env, NEW q \in Part, rev' = Bump(E, q), Notify(E, rev')
    PROVE  \A e \in Env, p \in Part, n \in Nat : Accounted(e, p, n) => Accounted(e, p, n)'
<1> SUFFICES ASSUME NEW e \in Env, NEW p \in Part, NEW n \in Nat, Accounted(e, p, n)
             PROVE  n >= rev'[e][p] \/ inbox'[e] > 0 \/ n < lost'[e][p]
  BY DEF Accounted
<1>1. /\ rev'[e][p] \in Nat /\ lost'[e][p] <= rev'[e][p] /\ lost[e][p] <= lost'[e][p]
      /\ inbox[e] <= inbox'[e]
      /\ rev'[e] = rev[e] \/ inbox'[e] > 0 \/ lost'[e] = rev'[e]
  BY CommitMoves
<1>2. inbox[e] \in Nat /\ inbox'[e] \in Nat /\ lost[e][p] \in Nat /\ rev[e][p] \in Nat
  BY DEF TypeOK, Notify, Snapshot
<1>3. lost'[e] = rev'[e] \/ lost'[e] = lost[e]
  BY DEF Notify
<1>4. lost'[e][p] \in Nat
  BY <1>1, <1>2, <1>3
<1>5. CASE rev'[e] = rev[e]
  BY <1>1, <1>2, <1>4, <1>5 DEF Accounted
<1>6. CASE lost'[e] = rev'[e]
  BY <1>1, <1>4, <1>6
<1> QED BY <1>1, <1>5, <1>6

\* A notification that disappears is recorded as lost.
LEMMA StillAccounted ==
    ASSUME TypeOK, Ordered, NEW e \in Env, rev'[e] = rev[e],
           lost'[e] = lost[e] \/ lost'[e] = rev[e],
           inbox[e] > 0 => inbox'[e] > 0 \/ lost'[e] = rev[e]
    PROVE  \A p \in Part, n \in Nat : Accounted(e, p, n) => Accounted(e, p, n)'
<1> SUFFICES ASSUME NEW p \in Part, NEW n \in Nat, Accounted(e, p, n)
             PROVE  n >= rev[e][p] \/ inbox'[e] > 0 \/ n < lost'[e][p]
  BY DEF Accounted
<1>1. rev[e][p] \in Nat /\ lost[e][p] \in Nat /\ lost[e][p] <= rev[e][p]
  BY DEF TypeOK, Snapshot, Ordered
<1>2. CASE lost'[e] = rev[e]
  BY <1>1, <1>2
<1>3. CASE lost'[e] = lost[e] /\ (inbox[e] > 0 => inbox'[e] > 0)
  BY <1>1, <1>3 DEF Accounted
<1> QED BY <1>2, <1>3

\* A task other than the listener leaves the listener's promises alone.
LEMMA OthersAnswer ==
    ASSUME TypeOK, NEW t \in Task \ {Listener}, Alone(t), NEW e \in Env, NEW p \in Part,
           \A n \in Nat : Accounted(e, p, n) => Accounted(e, p, n)'
    PROVE  Answered(e, p)
<1>1. Listener \in Task \ {t}
  BY DEF Task
<1>2. buf[Listener][p] \in Nat /\ buf'[Listener] = buf[Listener] /\ pc'[Listener] = pc[Listener]
      /\ env'[Listener] = env[Listener] /\ slot'[Listener] = slot[Listener]
  BY <1>1, Numbers DEF Alone
<1>3. Accounted(e, p, buf[Listener][p]) => Accounted(e, p, buf[Listener][p])'
  BY <1>2 DEF Accounted
<1>4. ListenerCovers(e, p) => ListenerCovers(e, p)'
  BY <1>2, <1>3 DEF ListenerCovers
<1> QED BY <1>4 DEF Answered

\* QuietTask for a step that leaves database and cache alone.
LEMMA QuietStill ==
    ASSUME Base, Fresh, NEW t \in Task, Alone(t), UNCHANGED <<exists, rev, slots, value>>,
           pc'[t] \notin Found \cup {"respond"},
           slot'[t] # NoSlot => \/ slot'[t] = slot[t] /\ env'[t] = env[t]
                                \/ slots[env'[t]] = slot'[t],
           env'[t] \in Env,
           KeepsOrEnds(t),
           \A e \in exists, p \in Part : Answered(e, p)
    PROVE  Fresh'
<1>1. \A e \in Env : (Cached(e)' <=> Cached(e)) /\ (Cached(e) => Served(e)' = Served(e))
  BY DEF Cached, Served
<1>2. \A e \in Env, p \in Part : rev'[e][p] \in Nat /\ rev[e][p] <= rev'[e][p]
  BY Numbers DEF Base
<1>3. \A u \in Task : pc[u] \in Found => slots'[env[u]] = slots[env[u]]
  OBVIOUS
<1> QED BY <1>1, <1>2, <1>3, QuietTask

\* A call that fails, is cancelled or has nothing to do.
LEMMA FinishFresh ==
    ASSUME Base, Fresh, NEW t \in Task, Finish(t), UNCHANGED <<exists, rev, inbox, slots, value>>,
           lost' = IF t = Listener THEN [lost EXCEPT ![env[t]] = rev[env[t]]] ELSE lost
    PROVE  Fresh'
<1>1. /\ Alone(t) /\ slot'[t] = NoSlot /\ pc'[t] = "idle" /\ env'[t] = AnyEnv
      /\ t \in Request => wrote'[t] = NothingWritten
  BY DEF Base, TypeOK, Finish, Leave, Goto, Alone
<1>2. env'[t] \in Env /\ pc'[t] \notin Found \cup {"respond"} /\ KeepsOrEnds(t)
  BY <1>1, FoundLabels, ConstantsAssumption DEF KeepsOrEnds
<1>n. TypeOK /\ Ordered /\ exists \subseteq Env
  BY DEF Base, TypeOK
<1>3. ASSUME NEW e \in exists, NEW p \in Part PROVE Answered(e, p)
  <2>0. e \in Env /\ env[t] \in Env /\ rev[e][p] \in Nat
    BY <1>n, Numbers DEF TypeOK
  <2>1. lost'[e] = lost[e] \/ lost'[e] = rev[e]
    BY <1>n, <2>0 DEF TypeOK
  <2>2. \A n \in Nat : Accounted(e, p, n) => Accounted(e, p, n)'
    BY <1>n, <2>0, <2>1, StillAccounted
  <2>3. CASE t # Listener
    BY <1>n, <1>1, <2>0, <2>2, <2>3, OthersAnswer
  <2>4. CASE t = Listener
    <3>1. ListenerCovers(e, p) => lost'[e] = rev[e]
      BY <1>n, <2>0, <2>4 DEF ListenerCovers, TypeOK
    <3>2. ListenerCovers(e, p) => \A n \in Nat : Accounted(e, p, n)'
      BY <2>0, <3>1 DEF Accounted
    <3> QED BY <2>2, <3>2 DEF Answered
  <2> QED BY <2>3, <2>4
<1> QED BY <1>1, <1>2, <1>3, QuietStill

\* A call starts waiting for its slot.
LEMMA WaitFresh ==
    ASSUME Base, Fresh, NEW t \in Task, NEW e \in Env, NEW o, WaitFor(t, o, e, slots[e]),
           UNCHANGED <<exists, rev, slots, value, buf, wrote>>,
           t \in Request => pc[t] = "idle" \/ (o = "refresh" /\ env[t] = e),
           \A f \in exists, p \in Part : Answered(f, p)
    PROVE  Fresh'
<1>1. /\ Alone(t) /\ pc'[t] = "lock" /\ env'[t] = e /\ slot'[t] = slots[e] /\ op'[t] = o
  BY DEF Base, TypeOK, WaitFor, Goto, Alone
<1>2. t \in Request /\ pc[t] = "idle" => wrote[t] = NothingWritten
  BY DEF Fresh, Answering
<1>3. KeepsOrEnds(t)
  BY <1>1, <1>2 DEF KeepsOrEnds
<1>4. pc'[t] \notin Found \cup {"respond"}
  BY <1>1, FoundLabels
<1> QED BY <1>1, <1>3, <1>4, QuietStill

\* A handler whose environment is not cached has nothing to refresh.
LEMMA SkipFresh ==
    ASSUME Base, Fresh, NEW r \in Request, pc[r] = "written", slots[env[r]] = NoSlot,
           Goto(r, "respond"),
           UNCHANGED <<exists, rev, inbox, lost, slots, value, op, env, slot, buf, wrote>>
    PROVE  Fresh'
<1>e. (\A u \in Task : env[u] \in Env) /\ Request \subseteq Task
  BY DEF Base, TypeOK, Task
<1>p. pc'[r] = "respond" /\ \A u \in Task \ {r} : pc'[u] = pc[u]
  BY <1>e DEF Base, TypeOK, Goto
<1>m. ~Cached(env[r]) /\ \A t \in Task : env[t] = env[r] => pc[t] \notin Found /\ HasRead(pc[t]) = {}
  BY <1>e, Unmapped DEF Fresh
<1>h. \A u \in Task : HasRead(pc'[u]) = HasRead(pc[u]) /\ (pc'[u] \in Found <=> pc[u] \in Found)
  BY <1>p, NothingRead, FoundLabels
<1>c. \A u \in Task : Cached(env[u])' = Cached(env[u]) /\ Served(env[u])' = Served(env[u])
  BY DEF Cached, Served
<1>i. \A q \in Request : q # r => pc'[q] = pc[q]
  BY <1>e, <1>p
<1>1. Withdrawing'
  <2>1. \A q \in Request : wrote[q].part = "environment" =>
            /\ pc'[q] \notin {"idle"} \cup Found /\ env[q] \notin exists
            /\ slot[q] # NoSlot => op[q] = "refresh"
    BY <1>e, <1>h, <1>i, <1>p DEF Fresh, Withdrawing
  <2>2. ASSUME NEW q \in Request, pc'[q] = "respond", wrote[q].part = "environment"
        PROVE  ~Cached(env[q]) /\ \A t \in Task : env[t] = env[q] => pc'[t] \notin Found
    <3>1. CASE q = r
      BY <1>h, <1>m, <3>1
    <3>2. CASE q # r
      BY <1>h, <1>i, <2>2, <3>2 DEF Fresh, Withdrawing
    <3> QED BY <3>1, <3>2
  <2> QED BY <1>c, <1>e, <1>h, <2>1, <2>2 DEF Fresh, Withdrawing
<1>2. Answering'
  <2>1. ASSUME NEW q \in Request
        PROVE  /\ pc'[q] = "idle" => wrote[q] = NothingWritten
               /\ (wrote[q].part \in Part /\ pc'[q] # "idle") => wrote[q].rev <= rev[env[q]][wrote[q].part]
               /\ (op[q] = "refresh" /\ wrote[q].part \in HasRead(pc'[q]))
                      => buf[q][wrote[q].part] >= wrote[q].rev
    BY <1>e, <1>h, <1>i, <1>p DEF Fresh, Answering
  <2>2. ASSUME NEW q \in Request, pc'[q] = "respond", env[q] \in exists
        PROVE  /\ Cached(env[q]) => Served(env[q])[wrote[q].part] >= wrote[q].rev
               /\ \A t \in Task : (env[t] = env[q] /\ wrote[q].part \in HasRead(pc'[t]))
                                      => buf[t][wrote[q].part] >= wrote[q].rev
    <3>1. CASE q = r
      BY <1>h, <1>m, <3>1
    <3>2. CASE q # r
      BY <1>h, <1>i, <2>2, <3>2 DEF Fresh, Answering
    <3> QED BY <3>1, <3>2
  <2> QED BY <1>c, <1>e, <2>1, <2>2 DEF Answering
<1>3. Accounting'
  <2>1. Listener \in Task /\ exists \subseteq Env
    BY DEF Base, TypeOK, Task
  <2>2. \A e \in Env, p \in Part : ListenerCovers(e, p)' <=> ListenerCovers(e, p)
    BY <1>h, <2>1 DEF ListenerCovers, Accounted
  <2>3. \A e \in Env : (Cached(e)' <=> Cached(e)) /\ Served(e)' = Served(e)
    BY DEF Cached, Served
  <2> QED BY <1>h, <2>1, <2>2, <2>3 DEF Fresh, Accounting, Accounted
<1> QED BY <1>1, <1>2, <1>3 DEF Fresh

\* refresh up to its first await, for the listener and the sweeper.
LEMMA BackgroundFresh ==
    ASSUME Base, Fresh, NEW t \in {Listener, Sweeper}, NEW e \in Env, pc[t] = "idle", Refresh(t, e),
           UNCHANGED <<exists, rev, slots, value, buf, wrote>>,
           \A f \in exists, p \in Part : Answered(f, p)
    PROVE  Fresh'
<1>0. t \in Task /\ t \notin Request
  BY ConstantsAssumption DEF Task
<1>1. CASE WaitFor(t, "refresh", e, slots[e])
  BY <1>0, <1>1, WaitFresh
<1>2. CASE Goto(t, "idle") /\ UNCHANGED <<op, env, slot>>
  <2>1. Alone(t) /\ pc'[t] = "idle" /\ slot'[t] = slot[t] /\ env'[t] = env[t] /\ env[t] \in Env
    BY <1>0, <1>2 DEF Base, TypeOK, Goto, Alone
  <2>2. pc'[t] \notin Found \cup {"respond"} /\ KeepsOrEnds(t)
    BY <1>0, <2>1, FoundLabels DEF KeepsOrEnds
  <2> QED BY <1>0, <1>2, <2>1, <2>2, QuietStill
<1> QED BY <1>0, <1>1, <1>2 DEF Refresh

-----------------------------------------------------------------------------
(* Every action. *)

\* Initially nothing is cached and nobody is at work.
LEMMA InitFresh == Init => Fresh
<1> SUFFICES ASSUME Init PROVE Fresh
  OBVIOUS
<1>1. /\ \A t \in Task : pc[t] = "idle" /\ slot[t] = NoSlot
      /\ \A r \in Request : pc[r] = "idle" /\ wrote[r] = NothingWritten /\ env[r] \in Env
      /\ \A e \in Env : ~Cached(e)
  BY ConstantsAssumption DEF Init, Task, Cached
<1>2. NothingWritten.part # "environment" /\ HasRead("idle") = {} /\ "idle" \notin Found
  BY NothingRead, FoundLabels DEF NothingWritten
<1>3. exists \subseteq Env
  BY DEF Init
<1>4. Withdrawing
  BY <1>1, <1>2 DEF Withdrawing
<1>5. Answering
  BY <1>1, <1>2 DEF Answering
<1>6. Accounting
  BY <1>1, <1>2, <1>3 DEF Accounting
<1> QED BY <1>4, <1>5, <1>6 DEF Fresh

\* What happens outside the node's tasks.
LEMMA OutsideFresh ==
    ASSUME Base, Fresh,
           \/ \E e \in Env, p \in Part : Write(e, p)
           \/ WriteFlag
           \/ \E e \in Env : DeleteEnvironment(e)
           \/ \E K \in SUBSET Env : Disconnect(K)
           \/ Connect
           \/ SweepTick
           \/ UNCHANGED vars
    PROVE  Fresh'
<1>n. TypeOK /\ Ordered /\ exists \subseteq Env /\ "flags" \in Part
  BY DEF Base, TypeOK, Part
<1>1. ASSUME NEW E \in SUBSET Env, NEW q \in Part, rev' = Bump(E, q), Notify(E, rev'),
             UNCHANGED <<exists, cacheVars, taskVars>>
      PROVE  Fresh'
  <2>1. UNCHANGED <<slots, value, pc, op, env, slot, buf, wrote>> /\ exists' \subseteq exists
    BY <1>1 DEF cacheVars, taskVars
  <2>2. \A e \in Env, p \in Part : rev'[e][p] \in Nat /\ rev[e][p] <= rev'[e][p]
    BY <1>n, <1>1, CommitMoves
  <2>3. \A e \in exists', p \in Part : \A n \in Nat : Accounted(e, p, n) => Accounted(e, p, n)'
    BY <1>n, <1>1, CommitAccounts
  <2> QED BY <2>1, <2>2, <2>3, SurroundingsMove
<1>2. ASSUME UNCHANGED <<rev, slots, value, pc, op, env, slot, buf, wrote>>, exists' \subseteq exists,
             \A e \in Env : /\ lost'[e] = lost[e] \/ lost'[e] = rev[e]
                            /\ inbox[e] > 0 => inbox'[e] > 0 \/ lost'[e] = rev[e]
      PROVE  Fresh'
  <2>1. \A e \in Env, p \in Part : rev'[e][p] \in Nat /\ rev[e][p] <= rev'[e][p]
    BY <1>n, <1>2, Numbers
  <2>2. \A e \in exists', p \in Part : \A n \in Nat : Accounted(e, p, n) => Accounted(e, p, n)'
    BY <1>n, <1>2, StillAccounted
  <2> QED BY <1>2, <2>1, <2>2, SurroundingsMove
<1>3. ASSUME NEW e \in Env, NEW p \in Part, Write(e, p) PROVE Fresh'
  BY <1>1, <1>3 DEF Write, CommitPart
<1>4. CASE WriteFlag
  BY <1>n, <1>1, <1>4 DEF WriteFlag
<1>5. ASSUME NEW e \in Env, DeleteEnvironment(e) PROVE Fresh'
  <2>1. \A f \in Env : inbox[f] \in Nat
    BY <1>n DEF TypeOK
  <2> QED BY <1>2, <1>5, <2>1 DEF DeleteEnvironment, CommitDelete, Notify, cacheVars, taskVars
<1>6. ASSUME NEW K \in SUBSET Env, Disconnect(K) PROVE Fresh'
  BY <1>2, <1>6 DEF Disconnect, dbVars, cacheVars, taskVars
<1>7. CASE Connect
  BY <1>2, <1>7 DEF Connect, dbVars, cacheVars, taskVars
<1>8. CASE SweepTick
  BY <1>2, <1>8 DEF SweepTick, dbVars, netVars, cacheVars
<1>9. CASE UNCHANGED vars
  BY <1>2, <1>9 DEF vars
<1> QED BY <1>3, <1>4, <1>5, <1>6, <1>7, <1>8, <1>9

\* get up to its first await.
LEMMA GetFresh ==
    ASSUME Base, Fresh, NEW r \in Request, NEW e \in Env, Get(r, e)
    PROVE  Fresh'
<1>n. TypeOK /\ Ordered /\ exists \subseteq Env /\ r \in Task \ {Listener}
  BY ConstantsAssumption DEF Base, TypeOK, Task
<1>1. UNCHANGED <<exists, rev, inbox, lost, connected>> /\ pc[r] = "idle"
  BY DEF Get, dbVars, netVars
<1>2. \A f \in Env, p \in Part, n \in Nat : Accounted(f, p, n) => Accounted(f, p, n)'
  BY <1>1 DEF Accounted
<1>3. CASE UNCHANGED <<cacheVars, taskVars>>
  BY <1>1, <1>3, OutsideFresh DEF cacheVars, taskVars, vars
<1>4. CASE WaitFor(r, "get", e, slots[e]) /\ UNCHANGED <<cacheVars, buf, todo, wrote>>
  <2>1. Alone(r)
    BY <1>n, <1>4 DEF TypeOK, WaitFor, Goto, Alone
  <2>2. \A f \in exists, p \in Part : Answered(f, p)
    BY <1>n, <1>2, <2>1, OthersAnswer
  <2> QED BY <1>n, <1>1, <1>4, <2>2, WaitFresh DEF cacheVars
<1>5. ASSUME slots[e] = NoSlot, NEW s \in Slot, Unused(s),
             slots' = [slots EXCEPT ![e] = s], value' = [value EXCEPT ![s] = None],
             WaitFor(r, "get", e, s), UNCHANGED <<holder, buf, todo, wrote>>
      PROVE  Fresh'
  <2>1. Alone(r) /\ pc'[r] = "lock" /\ env'[r] = e /\ slot'[r] = s /\ wrote'[r] = wrote[r]
    BY <1>n, <1>5 DEF TypeOK, WaitFor, Goto, Alone
  <2>2. \A f \in exists', p \in Part : Answered(f, p)
    BY <1>n, <1>1, <1>2, <2>1, OthersAnswer
  <2>3. ASSUME NEW f \in Env
        PROVE  (Cached(f)' <=> Cached(f)) /\ (Cached(f) => Served(f)' = Served(f))
    <3>1. CASE f = e
      BY <1>n, <1>5, <3>1 DEF TypeOK, Cached
    <3>2. CASE f # e
      BY <1>n, <1>5, <3>2 DEF TypeOK, Cached, Served, Unused
    <3> QED BY <3>1, <3>2
  <2>4. \A u \in Task : pc[u] \in Found => slots'[env[u]] = slots[env[u]]
    BY <1>n, <1>5, Unmapped DEF Fresh, TypeOK
  <2>5. wrote[r] = NothingWritten
    BY <1>1 DEF Fresh, Answering
  <2>6. KeepsOrEnds(r) /\ pc'[r] \notin Found \cup {"respond"}
    BY <2>1, <2>5, FoundLabels DEF KeepsOrEnds
  <2>7. \A f \in Env, p \in Part : rev'[f][p] \in Nat /\ rev[f][p] <= rev'[f][p]
    BY <1>n, <1>1, Numbers
  <2>8. exists' \subseteq exists /\ slots[env'[r]] \in {slot'[r], NoSlot} /\ env'[r] \in Env
    BY <1>1, <1>5, <2>1
  <2> QED BY <1>n, <2>1, <2>2, <2>3, <2>4, <2>6, <2>7, <2>8, QuietTask
<1> QED BY <1>3, <1>4, <1>5 DEF Get

\* A handler commits.
LEMMA CommitFresh ==
    ASSUME Base, Fresh, NEW r \in Request, NEW e \in Env,
           (\E p \in Part : HandlerCommits(r, e, p)) \/ HandlerDeletes(r, e)
    PROVE  Fresh'
<1>n. TypeOK /\ Ordered /\ exists \subseteq Env /\ r \in Task \ {Listener}
  BY ConstantsAssumption DEF Base, TypeOK, Task
<1>1. /\ pc[r] = "idle" /\ Goto(r, "written") /\ env' = [env EXCEPT ![r] = e]
      /\ UNCHANGED <<slots, value, op, slot, buf>>
      /\ \A q \in Request \ {r} : wrote'[q] = wrote[q]
  BY <1>n DEF HandlerCommits, HandlerDeletes, cacheVars, TypeOK
<1>2. slot[r] = NoSlot
  BY <1>n, <1>1 DEF Base, Locking, Loading
<1>3. Alone(r) /\ pc'[r] = "written" /\ env'[r] = e /\ slot'[r] = NoSlot
  BY <1>n, <1>1, <1>2 DEF TypeOK, Goto, Alone
<1>4. /\ \A f \in Env, p \in Part : rev'[f][p] \in Nat /\ rev[f][p] <= rev'[f][p]
      /\ exists' \subseteq exists
      /\ \A f \in Env, p \in Part, n \in Nat : Accounted(f, p, n) => Accounted(f, p, n)'
      /\ KeepsOrEnds(r)
  <2>1. CASE \E q \in Part : HandlerCommits(r, e, q)
    <3>1. PICK q \in Part : HandlerCommits(r, e, q)
      BY <2>1
    <3>2. rev' = Bump({e}, q) /\ Notify({e}, rev') /\ exists' = exists
      BY <3>1 DEF HandlerCommits, CommitPart
    <3>3. \A f \in Env, p \in Part : rev'[f][p] \in Nat /\ rev[f][p] <= rev'[f][p]
      BY <1>n, <3>2, CommitMoves
    <3>4. wrote'[r] = [part |-> q, rev |-> rev'[e][q]]
      BY <1>n, <3>1 DEF HandlerCommits, TypeOK
    <3>5. KeepsOrEnds(r)
      BY <1>3, <3>3, <3>4 DEF KeepsOrEnds
    <3> QED BY <1>n, <3>2, <3>3, <3>5, CommitAccounts
  <2>2. CASE HandlerDeletes(r, e)
    <3>1. /\ rev' = rev /\ exists' = exists \ {e}
          /\ \A f \in Env : /\ lost'[f] = lost[f] \/ lost'[f] = rev[f]
                            /\ inbox[f] > 0 => inbox'[f] > 0
      <4>1. \A f \in Env : inbox[f] \in Nat
        BY <1>n DEF TypeOK
      <4> QED BY <2>2, <4>1 DEF HandlerDeletes, CommitDelete, Notify
    <3>2. wrote'[r].part = "environment"
      BY <1>n, <2>2 DEF HandlerDeletes, TypeOK
    <3>3. KeepsOrEnds(r)
      BY <1>3, <3>1, <3>2 DEF KeepsOrEnds
    <3>4. \A f \in Env, p \in Part, n \in Nat : Accounted(f, p, n) => Accounted(f, p, n)'
      BY <1>n, <3>1, StillAccounted
    <3> QED BY <1>n, <3>1, <3>3, <3>4, Numbers
  <2> QED BY <2>1, <2>2
<1>5. \A f \in exists', p \in Part : Answered(f, p)
  BY <1>n, <1>3, <1>4, OthersAnswer
<1>6. \A f \in Env : (Cached(f)' <=> Cached(f)) /\ (Cached(f) => Served(f)' = Served(f))
  BY <1>1 DEF Cached, Served
<1>7. \A u \in Task : pc[u] \in Found => slots'[env[u]] = slots[env[u]]
  BY <1>1
<1>8. pc'[r] \notin Found \cup {"respond"} /\ env'[r] \in Env
  BY <1>3, FoundLabels
<1> QED BY <1>n, <1>3, <1>4, <1>5, <1>6, <1>7, <1>8, QuietTask

\* A handler's inline refresh, up to its first await.
LEMMA HandlerFresh ==
    ASSUME Base, Fresh, NEW r \in Request, HandlerRefreshes(r)
    PROVE  Fresh'
<1>n. TypeOK /\ exists \subseteq Env /\ r \in Task \ {Listener} /\ env[r] \in Env
  BY ConstantsAssumption DEF Base, TypeOK, Task
<1>1. /\ pc[r] = "written" /\ UNCHANGED <<exists, rev, inbox, lost, slots, value, buf, wrote>>
  BY DEF HandlerRefreshes, dbVars, netVars, cacheVars
<1>2. CASE WaitFor(r, "refresh", env[r], slots[env[r]])
  <2>1. Alone(r)
    BY <1>n, <1>1, <1>2 DEF TypeOK, WaitFor, Goto, Alone
  <2>2. \A f \in exists, p \in Part : Answered(f, p)
    BY <1>n, <1>1, <2>1, OthersAnswer DEF Accounted
  <2> QED BY <1>n, <1>1, <1>2, <2>2, WaitFresh
<1>3. CASE slots[env[r]] = NoSlot /\ Goto(r, "respond") /\ UNCHANGED <<op, env, slot>>
  BY <1>1, <1>3, SkipFresh
<1> QED BY <1>2, <1>3 DEF HandlerRefreshes, Refresh

\* The listener takes a notification.
LEMMA ListenerFresh ==
    ASSUME Base, Fresh, NEW e \in Env, ListenerTakes(e)
    PROVE  Fresh'
<1>n. TypeOK /\ Ordered /\ exists \subseteq Env /\ Listener \in Task
  BY DEF Base, TypeOK, Task
<1>1. /\ pc[Listener] = "idle" /\ Refresh(Listener, e)
      /\ UNCHANGED <<exists, rev, lost, slots, value, buf, wrote>>
  BY DEF ListenerTakes, dbVars, cacheVars
<1>2. slot[Listener] = NoSlot
  BY <1>n, <1>1 DEF Base, Locking, Loading
<1>3. ASSUME NEW f \in exists, NEW p \in Part PROVE Answered(f, p)
  <2>1. ~ListenerCovers(f, p)
    BY <1>2 DEF ListenerCovers
  <2>2. CASE f # e
    <3>1. inbox'[f] = inbox[f]
      BY <1>n, <2>2 DEF ListenerTakes, TypeOK
    <3> QED BY <1>1, <2>1, <3>1 DEF Answered, Accounted
  <2>3. CASE f = e /\ slots[e] = NoSlot
    BY <2>1, <2>3 DEF Answered
  <2>4. CASE f = e /\ slots[e] # NoSlot
    <3>1. WaitFor(Listener, "refresh", e, slots[e])
      BY <1>1, <2>4 DEF Refresh
    <3>2. pc'[Listener] = "lock" /\ env'[Listener] = e /\ slot'[Listener] # NoSlot
      BY <1>n, <2>4, <3>1 DEF TypeOK, WaitFor, Goto
    <3>3. ListenerCovers(f, p)'
      BY <2>4, <3>2, NothingRead DEF ListenerCovers
    <3> QED BY <2>1, <3>3 DEF Answered
  <2> QED BY <2>2, <2>3, <2>4
<1> QED BY <1>1, <1>3, BackgroundFresh

\* The sweep goes on to its next environment.
LEMMA SweepFresh ==
    ASSUME Base, Fresh, NEW e \in Env, SweepNext(e)
    PROVE  Fresh'
<1>n. TypeOK /\ exists \subseteq Env /\ Sweeper \in Task \ {Listener} /\ Sweeper \notin Request
  BY ConstantsAssumption DEF Base, TypeOK, Task, Listener, Sweeper
<1>1. /\ pc[Sweeper] = "idle" /\ Refresh(Sweeper, e)
      /\ UNCHANGED <<exists, rev, inbox, lost, slots, value, buf, wrote>>
  BY DEF SweepNext, dbVars, netVars, cacheVars
<1>2. Alone(Sweeper)
  BY <1>n, <1>1 DEF TypeOK, Refresh, WaitFor, Goto, Alone
<1>3. \A f \in exists, p \in Part : Answered(f, p)
  BY <1>n, <1>1, <1>2, OthersAnswer DEF Accounted
<1> QED BY <1>1, <1>3, BackgroundFresh

\* The mutex is granted, and the first query finds no row.
LEMMA LockedFresh ==
    ASSUME Base, Fresh, NEW t \in Task, NEW l \in {"environment", "gone"}, Goto(t, l),
           slot[t] # NoSlot,
           UNCHANGED <<exists, rev, inbox, lost, slots, value, op, env, slot, buf, wrote>>,
           pc[t] # "idle"
    PROVE  Fresh'
<1>n. TypeOK /\ exists \subseteq Env /\ env[t] \in Env
  BY DEF Base, TypeOK
<1>1. Alone(t) /\ pc'[t] = l
  BY <1>n DEF TypeOK, Goto, Alone
<1>2. KeepsOrEnds(t) /\ pc'[t] \notin Found \cup {"respond"} /\ HasRead(pc'[t]) = {}
  BY <1>1, FoundLabels DEF KeepsOrEnds
<1>3. ASSUME NEW f \in exists, NEW p \in Part PROVE Answered(f, p)
  <2>1. CASE t # Listener
    BY <1>n, <1>1, <2>1, OthersAnswer DEF Accounted
  <2>2. CASE t = Listener
    <3>1. ListenerCovers(f, p) => ListenerCovers(f, p)'
      BY <1>2, <2>2 DEF ListenerCovers
    <3> QED BY <3>1 DEF Answered, Accounted
  <2> QED BY <2>1, <2>2
<1> QED BY <1>n, <1>1, <1>2, <1>3, QuietStill

\* The mutex is granted.
LEMMA AcquireFresh ==
    ASSUME Base, Fresh, NEW t \in Task, Acquire(t)
    PROVE  Fresh'
<1>1. pc[t] = "lock" /\ UNCHANGED <<exists, rev, inbox, lost, slots, value>>
  BY DEF Acquire, dbVars, netVars
<1>2. slot[t] # NoSlot
  BY <1>1 DEF Base, Locking
<1>3. CASE op[t] = "get" /\ Finish(t)
  <2>1. t # Listener
    BY <1>2, <1>3 DEF Base, Locking
  <2> QED BY <1>1, <1>3, <2>1, FinishFresh
<1>4. CASE Goto(t, "environment") /\ UNCHANGED <<op, env, slot, buf, todo, wrote>>
  BY <1>1, <1>2, <1>4, LockedFresh
<1> QED BY <1>3, <1>4 DEF Acquire

\* The first query of a load.
LEMMA ReadEnvironmentFresh ==
    ASSUME Base, Fresh, NEW t \in Task, ReadEnvironment(t)
    PROVE  Fresh'
<1>1. /\ pc[t] = "environment"
      /\ UNCHANGED <<dbVars, netVars, cacheVars, op, env, slot, buf, todo, wrote>>
  BY DEF ReadEnvironment
<1>2. CASE env[t] \in exists /\ Goto(t, "flags")
  BY <1>1, <1>2, FoundStep
<1>3. CASE Goto(t, "gone")
  <2>1. slot[t] # NoSlot
    BY <1>1 DEF Base, Locking, Loading
  <2> QED BY <1>1, <1>3, <2>1, LockedFresh DEF dbVars, netVars, cacheVars
<1> QED BY <1>2, <1>3 DEF ReadEnvironment

\* The call of a task goes on.
LEMMA ContinueFresh ==
    ASSUME Base, Fresh, NEW t \in Task, Continue(t)
    PROVE  Fresh'
<1>1. CASE LoadFlags(t) \/ LoadSegments(t) \/ LoadExperiments(t)
  <2>1. {"flags", "segments", "experiments"} \subseteq Part
        /\ {"segments", "experiments", "store"} \subseteq Found
    BY DEF Part, Found
  <2> QED BY <1>1, <2>1, ReadStep, LabelsRead DEF LoadFlags, LoadSegments, LoadExperiments
<1>2. CASE LoadFails(t)
  BY <1>2, FinishFresh DEF LoadFails, dbVars
<1> QED BY <1>1, <1>2, ReadEnvironmentFresh, StoreFresh, GoneFresh DEF Continue

\* A request ends.
LEMMA EndFresh ==
    ASSUME Base, Fresh, NEW r \in Request, HandlerResponds(r) \/ Cancel(r)
    PROVE  Fresh'
<1>1. r \in Task /\ r # Listener
  BY ConstantsAssumption DEF Task
<1> QED BY <1>1, FinishFresh DEF HandlerResponds, Cancel, dbVars, netVars

\* Every action keeps the invariant.
LEMMA NextFresh == Base /\ Fresh /\ [Next]_vars => Fresh'
<1> SUFFICES ASSUME Base, Fresh, [Next]_vars PROVE Fresh'
  OBVIOUS
<1> QED
  BY OutsideFresh, GetFresh, CommitFresh, HandlerFresh, EndFresh, AcquireFresh,
     ContinueFresh, ListenerFresh, SweepFresh DEF Next

-----------------------------------------------------------------------------
(* The theorems. *)

\* The inductive invariant.
LEMMA AlwaysFresh == Spec => [](Base /\ Fresh)
<1>1. Init => Base /\ Fresh
  BY InitType, InitLocking, InitOrdered, InitFresh DEF Base
<1>2. Base /\ Fresh /\ [Next]_vars => Base' /\ Fresh'
  BY NextType, NextLocking, NextOrdered, NextFresh DEF Base
<1> QED BY <1>1, <1>2, PTL DEF Spec

\* No committed write is forgotten, however requests, notifications, sweeps,
\* outages and failed reloads interleave.
THEOREM NoMissedUpdateHolds == Spec => []NoMissedUpdate
<1>1. Base /\ Fresh => NoMissedUpdate
  <2> SUFFICES ASSUME Base, Fresh, NEW e \in exists, Cached(e), inbox[e] = 0,
                      ~(pc[Listener] # "idle" /\ env[Listener] = e), NEW p \in Part
               PROVE  Served(e)[p] = rev[e][p] \/ Served(e)[p] < lost[e][p]
    BY DEF NoMissedUpdate
  <2>1. ~ListenerCovers(e, p)
    <3>1. Listener \in Task
      BY DEF Task
    <3>2. slot[Listener] # NoSlot => pc[Listener] # "idle"
      BY <3>1 DEF Base, Locking, Loading
    <3> QED BY <3>2 DEF ListenerCovers
  <2>2. Accounted(e, p, Served(e)[p])
    BY <2>1 DEF Fresh, Accounting
  <2>3. e \in Env /\ rev[e][p] \in Nat /\ lost[e][p] \in Nat /\ Served(e)[p] \in Nat
    BY Numbers DEF Base, TypeOK
  <2>4. Served(e)[p] <= rev[e][p]
    BY <2>3 DEF Base, Ordered
  <2> QED BY <2>2, <2>3, <2>4 DEF Accounted
<1> QED BY <1>1, AlwaysFresh, PTL

\* A handler answers only when its node serves the change it committed, or its
\* inline refresh failed and ended the request.
THEOREM ReadYourWritesHolds == Spec => []ReadYourWrites
<1>1. Base /\ Fresh => ReadYourWrites
  BY DEF Fresh, Answering, ReadYourWrites
<1> QED BY <1>1, AlwaysFresh, PTL

\* When delete_environment answers, its node serves nothing for the environment.
THEOREM DeletedIsWithdrawnHolds == Spec => []DeletedIsWithdrawn
<1>1. Base /\ Fresh => DeletedIsWithdrawn
  BY DEF Fresh, Withdrawing, DeletedIsWithdrawn
<1> QED BY <1>1, AlwaysFresh, PTL
=============================================================================
