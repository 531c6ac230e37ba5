---------------------------- MODULE SnapshotCache ----------------------------
(***************************************************************************)
(* The in-memory snapshot cache of one API node (crates/api/src/cache.rs), *)
(* the loader it calls (crates/storage/src/snapshot.rs), the NOTIFY        *)
(* listener and the sweep that keep it fresh, and the database they read.  *)
(*                                                                         *)
(* Nodes share nothing but the database, and the writes of this module may *)
(* come from anyone (a handler of any node, a migration, psql), so one     *)
(* node stands for every node.                                             *)
(*                                                                         *)
(* Data: what one environment serves is split into the three parts the     *)
(* loader reads with a query each.  A part is abstracted to the number of  *)
(* writes committed to it, so a snapshot is a function Part -> Nat and     *)
(* "older" and "torn" are visible.                                         *)
(***************************************************************************)
EXTENDS Naturals, FiniteSets

CONSTANTS
    Env,        \* environment ids; an id is a fresh UUID and is never reused
    Request,    \* HTTP request tasks in flight on this node
    Slot,       \* identities of the heap-allocated cache slots
    NoSlot,     \* the map holds no slot for an environment
    None,       \* an empty slot, a free lock
    AnyEnv,     \* what an idle task's unused environment variable holds
    MaxWrites   \* bound: writes per environment

Listener == "listener"
Sweeper  == "sweeper"
Task     == Request \cup {Listener, Sweeper}
Part     == {"flags", "segments", "experiments"}

ASSUME ConstantsAssumption ==
    /\ NoSlot \notin Slot
    /\ None \notin Task
    /\ None \notin [Part -> Nat]
    /\ Listener \notin Request
    /\ Sweeper \notin Request
    /\ AnyEnv \in Env
    /\ MaxWrites \in Nat

VARIABLES
    \* The database.
    exists,     \* environments that have a row
    rev,        \* for each environment and part, the committed writes
    \* The LISTEN connection.
    connected,
    inbox,      \* notifications delivered and not yet taken, per environment
    \* The cache.
    slots,      \* SnapshotCache.slots: environment -> slot or NoSlot
    value,      \* Slot.value: slot -> snapshot or None
    holder,     \* Slot.load: slot -> the task that holds the mutex, or None
    \* The tasks.
    pc, op, env, slot,
    buf,        \* what the load in progress has read so far
    todo,       \* environments the sweep still has to refresh
    wrote,      \* what a handler committed before its inline refresh
    \* History.
    lost        \* per environment and part: the newest revision whose
                \* notification this node never acted upon

dbVars    == <<exists, rev>>
netVars   == <<connected, inbox, lost>>
cacheVars == <<slots, value, holder>>
taskVars  == <<pc, op, env, slot, buf, todo, wrote>>
vars      == <<exists, rev, connected, inbox, lost, slots, value, holder,
               pc, op, env, slot, buf, todo, wrote>>

Snapshot == [Part -> Nat]

\* What a handler committed: revision rev of a part, or the environment's end.
Change == [part : Part \cup {"environment"}, rev : Nat]

(***************************************************************************)
(* Where a task can be.  "environment" .. "experiments" are the four       *)
(* queries of snapshot::load still to be answered; "store" and "gone" hold *)
(* the loader's result and have not yet applied it; "written" is a handler *)
(* between its commit and its inline refresh, "respond" after it.          *)
(***************************************************************************)
Loading == {"environment", "flags", "segments", "experiments", "store", "gone"}
PC      == {"idle", "lock", "written", "respond"} \cup Loading

TypeOK ==
    /\ exists \in SUBSET Env
    /\ rev \in [Env -> Snapshot]
    /\ connected \in BOOLEAN
    /\ inbox \in [Env -> Nat]
    /\ lost \in [Env -> Snapshot]
    /\ slots \in [Env -> Slot \cup {NoSlot}]
    /\ value \in [Slot -> Snapshot \cup {None}]
    /\ holder \in [Slot -> Task \cup {None}]
    /\ pc \in [Task -> PC]
    /\ op \in [Task -> {"get", "refresh"}]
    /\ env \in [Task -> Env]
    /\ slot \in [Task -> Slot \cup {NoSlot}]
    /\ buf \in [Task -> Snapshot]
    /\ todo \in SUBSET Env
    /\ wrote \in [Request -> Change]

Blank == [p \in Part |-> 0]

NothingWritten == [part |-> "flags", rev |-> 0]

Init ==
    /\ exists = Env
    /\ rev = [e \in Env |-> Blank]
    /\ connected = FALSE
    /\ inbox = [e \in Env |-> 0]
    /\ lost = [e \in Env |-> Blank]
    /\ slots = [e \in Env |-> NoSlot]
    /\ value = [s \in Slot |-> None]
    /\ holder = [s \in Slot |-> None]
    /\ pc = [t \in Task |-> "idle"]
    /\ op = [t \in Task |-> "get"]
    /\ env = [t \in Task |-> AnyEnv]
    /\ slot = [t \in Task |-> NoSlot]
    /\ buf = [t \in Task |-> Blank]
    /\ todo = {}
    /\ wrote = [r \in Request |-> NothingWritten]

-----------------------------------------------------------------------------
(* Writes and their notifications. *)

\* The triggers' pg_notify for the environments in E, delivered at commit to a
\* connected listener and to nobody otherwise; `now' is rev after the write.
Notify(E, now) ==
    /\ inbox' = [e \in Env |-> IF e \in E /\ connected THEN inbox[e] + 1
                                                       ELSE inbox[e]]
    /\ lost'  = [e \in Env |-> IF e \in E /\ ~connected THEN now[e] ELSE lost[e]]
    /\ UNCHANGED connected

Bump(E, p) == [e \in Env |-> IF e \in E THEN [rev[e] EXCEPT ![p] = @ + 1]
                                        ELSE rev[e]]

\* The bound on the writes of an environment.
MayWrite(e) == rev[e]["flags"] + rev[e]["segments"] + rev[e]["experiments"] < MaxWrites

\* One committed statement against flag_configs, segments or experiments of e.
CommitPart(e, p) ==
    /\ e \in exists
    /\ MayWrite(e)
    /\ rev' = Bump({e}, p)
    /\ Notify({e}, rev')
    /\ UNCHANGED exists

\* A write made anywhere else: another node, a route without an inline refresh,
\* a migration.
Write(e, p) == CommitPart(e, p) /\ UNCHANGED <<cacheVars, taskVars>>

\* A write to the flags table changes, and notifies, every environment of the
\* project.
WriteFlag ==
    /\ exists # {}
    /\ \A e \in exists : MayWrite(e)
    /\ rev' = Bump(exists, "flags")
    /\ Notify(exists, rev')
    /\ UNCHANGED <<exists, cacheVars, taskVars>>

\* Deleting an environment cascades to its rows, whose triggers notify.  The
\* environments table has no trigger of its own, so an environment without
\* rows disappears silently: E is {} for such a one.
CommitDelete(e) ==
    /\ e \in exists
    /\ exists' = exists \ {e}
    /\ \E E \in {{}, {e}} : Notify(E, rev)
    /\ UNCHANGED rev

\* Deleted by another node, or with its project.
DeleteEnvironment(e) == CommitDelete(e) /\ UNCHANGED <<cacheVars, taskVars>>

-----------------------------------------------------------------------------
(* Task plumbing. *)

Goto(t, l) == pc' = [pc EXCEPT ![t] = l]

\* Starts waiting for the mutex of slot s; the task holds its Arc from here on.
WaitFor(t, o, e, s) ==
    /\ Goto(t, "lock")
    /\ op' = [op EXCEPT ![t] = o]
    /\ env' = [env EXCEPT ![t] = e]
    /\ slot' = [slot EXCEPT ![t] = s]

\* Ends the call: the task's Arc and what it read are dropped, and its guard if
\* it holds one.
Leave(t) ==
    /\ slot' = [slot EXCEPT ![t] = NoSlot]
    /\ buf' = [buf EXCEPT ![t] = Blank]
    /\ op' = [op EXCEPT ![t] = "get"]
    /\ holder' = [s \in Slot |-> IF holder[s] = t THEN None ELSE holder[s]]
    /\ UNCHANGED todo

\* ... and the task with it: nothing it knew survives.
Finish(t) ==
    /\ Leave(t)
    /\ Goto(t, "idle")
    /\ env' = [env EXCEPT ![t] = AnyEnv]
    /\ wrote' = [r \in Request |-> IF r = t THEN NothingWritten ELSE wrote[r]]

\* get and refresh return after a successful load: a handler goes on to answer,
\* the other callers are done.
Return(t) ==
    \/ /\ t \in Request /\ op[t] = "refresh"
       /\ Leave(t)
       /\ Goto(t, "respond")
       /\ UNCHANGED <<env, wrote>>
    \/ /\ ~(t \in Request /\ op[t] = "refresh")
       /\ Finish(t)

-----------------------------------------------------------------------------
(* SnapshotCache::get *)

\* A slot nobody refers to: not in the map, no task holds its Arc.
Unused(s) == /\ \A e \in Env : slots[e] # s
             /\ \A t \in Task : slot[t] # s

\* get up to its first await: find the slot, or create it empty, and return
\* its snapshot when it has one.
Get(r, e) ==
    /\ pc[r] = "idle"
    /\ \/ /\ slots[e] # NoSlot
          /\ value[slots[e]] # None
          /\ UNCHANGED <<cacheVars, taskVars>>
       \/ /\ slots[e] # NoSlot
          /\ value[slots[e]] = None
          /\ WaitFor(r, "get", e, slots[e])
          /\ UNCHANGED <<cacheVars, buf, todo, wrote>>
       \/ /\ slots[e] = NoSlot
          /\ \E s \in Slot : Unused(s)
          /\ LET s == CHOOSE s \in Slot : Unused(s)
             IN  /\ slots' = [slots EXCEPT ![e] = s]
                 /\ value' = [value EXCEPT ![s] = None]
                 /\ WaitFor(r, "get", e, s)
          /\ UNCHANGED <<holder, buf, todo, wrote>>
    /\ UNCHANGED <<dbVars, netVars>>

\* Mutant of Acquire: the load mutex does not exclude anybody.
AcquireWithoutLock(t) ==
    /\ pc[t] = "lock"
    /\ \/ /\ op[t] = "get" /\ value[slot[t]] # None
          /\ Finish(t)
       \/ /\ op[t] = "refresh" \/ value[slot[t]] = None
          /\ holder' = [holder EXCEPT ![slot[t]] = t]
          /\ Goto(t, "environment")
          /\ UNCHANGED <<op, env, slot, buf, todo, wrote>>
    /\ UNCHANGED <<dbVars, netVars, slots, value>>

\* The mutex is granted.  get looks again and returns a snapshot loaded in the
\* meantime; refresh always loads.
Acquire(t) ==
    /\ pc[t] = "lock"
    /\ holder[slot[t]] = None
    /\ \/ /\ op[t] = "get" /\ value[slot[t]] # None
          /\ Finish(t)
       \/ /\ op[t] = "refresh" \/ value[slot[t]] = None
          /\ holder' = [holder EXCEPT ![slot[t]] = t]
          /\ Goto(t, "environment")
          /\ UNCHANGED <<op, env, slot, buf, todo, wrote>>
    /\ UNCHANGED <<dbVars, netVars, slots, value>>

-----------------------------------------------------------------------------
(* snapshot::load: four queries on the pool, each its own snapshot of the *)
(* database.                                                              *)

\* SELECT key, salt FROM environments.
ReadEnvironment(t) ==
    /\ pc[t] = "environment"
    /\ Goto(t, IF env[t] \in exists THEN "flags" ELSE "gone")
    /\ UNCHANGED <<dbVars, netVars, cacheVars, op, env, slot, buf, todo, wrote>>

\* The query for part p; the task goes on to label l.
ReadPart(t, p, l) ==
    /\ pc[t] = p
    /\ buf' = [buf EXCEPT ![t] = [@ EXCEPT ![p] = rev[env[t]][p]]]
    /\ Goto(t, l)
    /\ UNCHANGED <<dbVars, netVars, cacheVars, op, env, slot, todo, wrote>>

LoadFlags(t)       == ReadPart(t, "flags", "segments")
LoadSegments(t)    == ReadPart(t, "segments", "experiments")
LoadExperiments(t) == ReadPart(t, "experiments", "store")

\* Mutant of LoadFails: a failed refresh empties the slot.
LoadFailsEmptying(t) ==
    /\ pc[t] \in {"environment", "flags", "segments", "experiments"}
    /\ Finish(t)
    /\ value' = [value EXCEPT ![slot[t]] = None]
    /\ lost' = IF t = Listener THEN [lost EXCEPT ![env[t]] = rev[env[t]]] ELSE lost
    /\ UNCHANGED <<dbVars, connected, inbox, slots>>

\* Mutant of LoadFails: the error path keeps the guard.
LoadFailsLocked(t) ==
    /\ pc[t] \in {"environment", "flags", "segments", "experiments"}
    /\ Goto(t, "idle")
    /\ UNCHANGED <<dbVars, netVars, cacheVars, op, env, slot, buf, todo, wrote>>

\* A query fails or a stored document does not decode.  get reports the error;
\* refresh keeps the previous snapshot (a handler then answers without having
\* refreshed), and the notification the listener was acting on is used up.
LoadFails(t) ==
    /\ pc[t] \in {"environment", "flags", "segments", "experiments"}
    /\ Finish(t)
    /\ lost' = IF t = Listener THEN [lost EXCEPT ![env[t]] = rev[env[t]]] ELSE lost
    /\ UNCHANGED <<dbVars, connected, inbox, slots, value>>

\* slot.value.store: the snapshot is published and the guard dropped.
Store(t) ==
    /\ pc[t] = "store"
    /\ value' = [value EXCEPT ![slot[t]] = buf[t]]
    /\ Return(t)
    /\ UNCHANGED <<dbVars, netVars, slots>>

\* NotFound.  refresh drops the map's slot; get only reports the error and
\* leaves the empty slot in the map.
EnvironmentGone(t) ==
    /\ pc[t] = "gone"
    /\ slots' = IF op[t] = "refresh" THEN [slots EXCEPT ![env[t]] = NoSlot] ELSE slots
    /\ Return(t)
    /\ UNCHANGED <<dbVars, netVars, value>>

-----------------------------------------------------------------------------
(* SnapshotCache::refresh and its three callers. *)

\* Mutant of Refresh: a slot whose first load is still under way counts as not
\* cached.
RefreshLoadedOnly(t, e) ==
    \/ /\ slots[e] # NoSlot /\ value[slots[e]] # None
       /\ WaitFor(t, "refresh", e, slots[e])
    \/ /\ ~(slots[e] # NoSlot /\ value[slots[e]] # None)
       /\ Goto(t, IF t \in Request THEN "respond" ELSE "idle")
       /\ UNCHANGED <<op, env, slot>>

\* refresh up to its first await: an environment that is not cached is
\* skipped.
Refresh(t, e) ==
    \/ /\ slots[e] # NoSlot
       /\ WaitFor(t, "refresh", e, slots[e])
    \/ /\ slots[e] = NoSlot
       /\ Goto(t, IF t \in Request THEN "respond" ELSE "idle")
       /\ UNCHANGED <<op, env, slot>>

\* The listener task takes a notification and refreshes that environment
\* before it takes the next.
ListenerTakes(e) ==
    /\ pc[Listener] = "idle"
    /\ inbox[e] > 0
    /\ inbox' = [inbox EXCEPT ![e] = @ - 1]
    /\ Refresh(Listener, e)
    /\ UNCHANGED <<dbVars, connected, lost, cacheVars, buf, todo, wrote>>

\* The LISTEN connection breaks: the notifications of the environments in K
\* that were under way are gone, and so are those of every later write.
Disconnect(K) ==
    /\ connected
    /\ connected' = FALSE
    /\ inbox' = [e \in Env |-> IF e \in K THEN 0 ELSE inbox[e]]
    /\ lost' = [e \in Env |-> IF e \in K /\ inbox[e] > 0 THEN rev[e] ELSE lost[e]]
    /\ UNCHANGED <<dbVars, cacheVars, taskVars>>

\* ChangeListener::connect, or sqlx's transparent reconnect inside recv.  What
\* happened while the connection was down is not replayed.
Connect ==
    /\ ~connected
    /\ connected' = TRUE
    /\ UNCHANGED <<dbVars, inbox, lost, cacheVars, taskVars>>

\* Mutant of SweepTick: nothing is ever listed.
SweepTickOfNothing ==
    /\ pc[Sweeper] = "idle"
    /\ todo = {}
    /\ UNCHANGED vars

\* A tick of the sweeper: refresh_all lists what is cached now.
SweepTick ==
    /\ pc[Sweeper] = "idle"
    /\ todo = {}
    /\ todo' = {e \in Env : slots[e] # NoSlot}
    /\ UNCHANGED <<dbVars, netVars, cacheVars, pc, op, env, slot, buf, wrote>>

\* ... and refreshes the listed environments one after another.
SweepNext(e) ==
    /\ pc[Sweeper] = "idle"
    /\ e \in todo
    /\ todo' = todo \ {e}
    /\ Refresh(Sweeper, e)
    /\ UNCHANGED <<dbVars, netVars, cacheVars, buf, wrote>>

\* The write handlers (update_config, segments, experiments): commit ...
HandlerCommits(r, e, p) ==
    /\ pc[r] = "idle"
    /\ CommitPart(e, p)
    /\ Goto(r, "written")
    /\ env' = [env EXCEPT ![r] = e]
    /\ wrote' = [wrote EXCEPT ![r] = [part |-> p, rev |-> rev'[e][p]]]
    /\ UNCHANGED <<cacheVars, op, slot, buf, todo>>

\* delete_environment: the row and everything that hangs off it.
HandlerDeletes(r, e) ==
    /\ pc[r] = "idle"
    /\ CommitDelete(e)
    /\ Goto(r, "written")
    /\ env' = [env EXCEPT ![r] = e]
    /\ wrote' = [wrote EXCEPT ![r] = [part |-> "environment", rev |-> 0]]
    /\ UNCHANGED <<cacheVars, op, slot, buf, todo>>

\* Mutant of HandlerRefreshes: the handler leaves it to the listener.
HandlerSkipsRefresh(r) ==
    /\ pc[r] = "written"
    /\ Goto(r, "respond")
    /\ UNCHANGED <<dbVars, netVars, cacheVars, op, env, slot, buf, todo, wrote>>

\* ... then refresh this node's snapshot before answering ...
HandlerRefreshes(r) ==
    /\ pc[r] = "written"
    /\ Refresh(r, env[r])
    /\ UNCHANGED <<dbVars, netVars, cacheVars, buf, todo, wrote>>

\* ... and answer.
HandlerResponds(r) ==
    /\ pc[r] = "respond"
    /\ Finish(r)
    /\ UNCHANGED <<dbVars, netVars, slots, value>>

\* The client hangs up: the request's future is dropped at an await, releasing
\* the mutex if it holds it.
Cancel(r) ==
    /\ pc[r] \in {"lock", "written"} \cup Loading
    /\ Finish(r)
    /\ UNCHANGED <<dbVars, netVars, slots, value>>

-----------------------------------------------------------------------------

\* A step that continues a call of get or refresh under way.
Continue(t) ==
    \/ ReadEnvironment(t) \/ LoadFlags(t) \/ LoadSegments(t) \/ LoadExperiments(t)
    \/ LoadFails(t) \/ Store(t) \/ EnvironmentGone(t)

Next ==
    \/ \E e \in Env, p \in Part : Write(e, p)
    \/ WriteFlag
    \/ \E e \in Env : DeleteEnvironment(e)
    \/ \E r \in Request, e \in Env : Get(r, e)
    \/ \E r \in Request, e \in Env, p \in Part : HandlerCommits(r, e, p)
    \/ \E r \in Request, e \in Env : HandlerDeletes(r, e)
    \/ \E r \in Request : HandlerRefreshes(r) \/ HandlerResponds(r) \/ Cancel(r)
    \/ \E t \in Task : Acquire(t) \/ Continue(t)
    \/ \E e \in Env : ListenerTakes(e) \/ SweepNext(e)
    \/ \E K \in SUBSET Env : Disconnect(K)
    \/ Connect
    \/ SweepTick

Spec == Init /\ [][Next]_vars

(***************************************************************************)
(* Fairness, for the liveness properties only.  Tasks that hold or wait    *)
(* for a mutex are polled until they finish (tokio), the mutex is granted  *)
(* in FIFO order, hence strong fairness of Acquire, and an outage of the   *)
(* database ends, hence strong fairness of the sweep's queries.  Requests, *)
(* writes and failures are never obliged to happen.                        *)
(***************************************************************************)
Fairness ==
    /\ WF_vars(SweepTick)
    /\ \A e \in Env : WF_vars(SweepNext(e))
    /\ \A e \in Env : WF_vars(ListenerTakes(e))
    /\ \A t \in Task : SF_vars(Acquire(t)) /\ WF_vars(Continue(t))
    /\ SF_vars(ReadEnvironment(Sweeper))
    /\ SF_vars(LoadFlags(Sweeper))
    /\ SF_vars(LoadSegments(Sweeper))
    /\ SF_vars(LoadExperiments(Sweeper))
    /\ \A r \in Request : WF_vars(HandlerRefreshes(r) \/ HandlerResponds(r))

FairSpec == Spec /\ Fairness

-----------------------------------------------------------------------------
(* Properties. *)

Cached(e) == slots[e] # NoSlot /\ value[slots[e]] # None

Served(e) == value[slots[e]]

\* "Loads are single-flighted" (cache.rs): while an environment exists, at most
\* one task of the node is loading its snapshot, however many requests, sweeps
\* and notifications ask for it at once.
SingleFlight ==
    \A t, u \in Task :
        (t # u /\ pc[t] \in Loading /\ pc[u] \in Loading /\ env[t] = env[u])
            => env[t] \notin exists

\* A committed write is never forgotten: when no notification of an environment
\* is waiting and the listener is not refreshing it, the snapshot the node
\* serves (SnapshotCache::get) has that write, in every part, unless its
\* notification was lost with a connection or used up by a failed reload.
NoMissedUpdate ==
    \A e \in exists :
        (Cached(e) /\ inbox[e] = 0 /\ ~(pc[Listener] # "idle" /\ env[Listener] = e))
            => \A p \in Part : Served(e)[p] = rev[e][p] \/ Served(e)[p] < lost[e][p]

\* A handler that commits a change and whose inline cache.refresh did not fail
\* answers only when this node already serves the change.
ReadYourWrites ==
    \A r \in Request :
        (pc[r] = "respond" /\ env[r] \in exists /\ Cached(env[r]))
            => Served(env[r])[wrote[r].part] >= wrote[r].rev

\* "A cached copy cannot outlive the thing it describes" (routes/projects.rs):
\* when delete_environment answers, after an inline refresh that did not fail,
\* this node serves nothing for the environment, although gets, sweeps and the
\* listener may have been loading it when the row went.
DeletedIsWithdrawn ==
    \A r \in Request :
        (pc[r] = "respond" /\ wrote[r].part = "environment") => ~Cached(env[r])

\* What the node serves for an environment never goes back in time, in any of
\* the three parts, although gets, notifications, sweeps and handlers all load
\* and store it concurrently, and a snapshot is withdrawn only once the
\* environment is deleted.
NeverRegresses ==
    [][\A e \in Env : Cached(e) =>
          \/ Cached(e)' /\ \A p \in Part : Served(e)'[p] >= Served(e)[p]
          \/ ~Cached(e)' /\ e \notin exists]_vars

\* The sweep is the safety net: once writes stop, whatever notifications were
\* lost and however often a reload failed, the node ends up serving exactly the
\* database's state for good, and nothing for a deleted environment.
EventuallyFresh ==
    <>[](\A e \in Env : Cached(e) => e \in exists /\ Served(e) = rev[e])

\* No request waits for a slot's mutex, or for its own inline refresh, forever.
RequestsEnd == \A r \in Request : (pc[r] # "idle") ~> (pc[r] = "idle")

\* What a node shows for every environment, hiding slots and tasks.
Shown == [e \in Env |-> IF Cached(e) THEN Served(e) ELSE None]

Register == INSTANCE SnapshotRegister WITH live <- exists, shown <- Shown

\* The cache implements the register the evaluation path relies on: every get,
\* notification, sweep, inline refresh, failure and cancellation either leaves
\* what is shown alone or moves it forward to committed data.
ImplementsRegister == Register!RegisterSpec

-----------------------------------------------------------------------------
(* The inductive invariant behind the properties (see SnapshotCacheProofs). *)

\* Who holds which slot, and which slot serves which environment.
Locking ==
    /\ \A t \in Task : slot[t] # NoSlot <=> pc[t] \in {"lock"} \cup Loading
    /\ \A s \in Slot, t \in Task :
          holder[s] = t <=> (pc[t] \in Loading /\ slot[t] = s)
    /\ \A e, f \in Env : slots[e] = slots[f] /\ slots[e] # NoSlot => e = f
    /\ \A t \in Task, e \in Env :
          slot[t] # NoSlot /\ slots[e] = slot[t] => e = env[t]
    /\ \A t, u \in Task : slot[t] # NoSlot /\ slot[t] = slot[u] => env[t] = env[u]
    /\ \A t \in Task :
          slot[t] # NoSlot /\ env[t] \in exists => slots[env[t]] = slot[t]
    /\ \A t \in Task : pc[t] = "gone" => env[t] \notin exists
    /\ \A t \in {Listener, Sweeper} : slot[t] # NoSlot => op[t] = "refresh"

\* The parts a load at label l has already read.
HasRead(l) ==
    {p \in Part : \/ l = "store"
                  \/ p = "flags" /\ l \in {"segments", "experiments"}
                  \/ p = "segments" /\ l = "experiments"}

\* Nothing cached, read or given up is newer than the database, and what a load
\* has read is at least as new as what its slot holds.
Ordered ==
    /\ \A e \in Env, p \in Part : lost[e][p] <= rev[e][p]
    /\ \A e \in Env, p \in Part : Cached(e) => Served(e)[p] <= rev[e][p]
    /\ \A t \in Task, p \in Part :
          slot[t] # NoSlot /\ value[slot[t]] # None
              => value[slot[t]][p] <= rev[env[t]][p]
    /\ \A t \in Task : \A p \in HasRead(pc[t]) :
          /\ buf[t][p] <= rev[env[t]][p]
          /\ value[slot[t]] # None => value[slot[t]][p] <= buf[t][p]

\* Revision r of a part is current, or about to be replaced, or known lost.
Accounted(e, p, r) == r >= rev[e][p] \/ inbox[e] > 0 \/ r < lost[e][p]

\* The listener is refreshing e and will still read p, or has read it.
ListenerCovers(e, p) ==
    /\ slot[Listener] # NoSlot
    /\ env[Listener] = e
    /\ p \in HasRead(pc[Listener]) => Accounted(e, p, buf[Listener][p])

\* Everything that is or may become served is accounted for.
Accounting ==
    \A e \in exists, p \in Part :
        /\ Cached(e) => Accounted(e, p, Served(e)[p]) \/ ListenerCovers(e, p)
        /\ \A t \in Task :
              (env[t] = e /\ p \in HasRead(pc[t]))
                  => \/ Accounted(e, p, buf[t][p])
                     \/ t # Listener /\ ListenerCovers(e, p)

\* Labels of a load that found the environment.
Found == Part \cup {"store"}

\* A load that found the environment works on the slot the map holds, and so
\* does every task that uses that environment's slot; the handler that deleted
\* an environment does not find it, and once it answers nobody does.
Withdrawing ==
    /\ \A t \in Task : pc[t] \in Found => slots[env[t]] = slot[t]
    /\ \A t, u \in Task :
          pc[t] \in Found /\ slot[u] # NoSlot /\ env[u] = env[t] => slot[u] = slot[t]
    /\ \A r \in Request :
          wrote[r].part = "environment" =>
              /\ pc[r] \notin {"idle"} \cup Found /\ env[r] \notin exists
              /\ slot[r] # NoSlot => op[r] = "refresh"
    /\ \A r \in Request :
          (pc[r] = "respond" /\ wrote[r].part = "environment") =>
              /\ ~Cached(env[r])
              /\ \A t \in Task : env[t] = env[r] => pc[t] \notin Found

\* A handler past its refresh, or that has read its own part, has seen its
\* write; so has every load that could still replace the snapshot.
Answering ==
    \A r \in Request :
        /\ pc[r] = "idle" => wrote[r] = NothingWritten
        /\ (wrote[r].part \in Part /\ pc[r] # "idle") => wrote[r].rev <= rev[env[r]][wrote[r].part]
        /\ (op[r] = "refresh" /\ wrote[r].part \in HasRead(pc[r]))
              => buf[r][wrote[r].part] >= wrote[r].rev
        /\ (pc[r] = "respond" /\ env[r] \in exists) =>
              /\ Cached(env[r]) => Served(env[r])[wrote[r].part] >= wrote[r].rev
              /\ \A t \in Task :
                    (env[t] = env[r] /\ wrote[r].part \in HasRead(pc[t]))
                        => buf[t][wrote[r].part] >= wrote[r].rev

IInv == TypeOK /\ Locking /\ Ordered /\ Accounting /\ Withdrawing /\ Answering
=============================================================================
