----------------------------- MODULE ConfigStore -----------------------------
(***************************************************************************)
(* The configuration of one project as the management API edits it: the    *)
(* environments, a flag, how each environment configures the flag, which   *)
(* segments each environment defines and which environments measure the    *)
(* flag in an experiment (crates/storage/src/{projects,flags,segments,     *)
(* experiments}.rs, crates/api/src/routes/{projects,flags,segments}.rs).   *)
(*                                                                         *)
(* Handlers run concurrently on a READ COMMITTED database and most of them *)
(* make several statements outside a transaction, so every query is a step *)
(* of its own; a transaction's rows are private until its commit step.     *)
(* Flags interfere only through segments and environments, so one flag key *)
(* is modelled, with a new row id each time it is deleted and created      *)
(* again.  Environment ids are fresh UUIDs, never reused.                  *)
(*                                                                         *)
(* Data: a configuration is the variants its off_variant and fallthrough   *)
(* name (base), those its rules name (rules), the segments its rules       *)
(* reference (refs) and its version.  Names, descriptions, "enabled" and   *)
(* "archived" take part in no check and are left out.                      *)
(***************************************************************************)
EXTENDS Naturals, FiniteSets

CONSTANTS
    Op,          \* operators, each with at most one request in flight
    Env,         \* environment ids
    Segment,     \* segment keys
    Variant,     \* variant keys
    Off,         \* the variant key `off'
    Body,        \* the configurations operators try to write
    VariantSet,  \* the variant lists operators try to give the flag
    None,        \* no row
    MaxFlags,    \* bound: how often the flag is created
    MaxVersion   \* bound: no edit begins on a configuration with this version

Draft == [base : (SUBSET Variant) \ {{}}, rules : SUBSET Variant, refs : SUBSET Segment]

ASSUME StoreAssumption ==
    /\ Body \subseteq Draft
    /\ VariantSet \subseteq SUBSET Variant
    /\ Env # {}
    /\ Segment # {}
    /\ MaxFlags \in Nat
    /\ MaxVersion \in Nat

VARIABLES
    \* Committed rows.
    live,        \* environments
    born,        \* created_at: the begin order of the transactions, 0 if none
    flag,        \* the flag's row, or None
    ids,         \* flag ids handed out
    configs,     \* flag_configs of the flag, by environment
    segs,        \* segment keys, by environment
    measured,    \* environments with an experiment on the flag
    \* Handlers in flight.
    pc, loc,
    \* Clients: the configuration each operator last read.
    seen,
    \* History: flag ids whose creation overlapped the environment's;
    \* environments in which a write met somebody's check of what it wrote over.
    raced, torn

vars == <<live, born, flag, ids, configs, segs, measured, pc, loc, seen, raced, torn>>

FlagRow == [id : Nat, variants : SUBSET Variant]
Config  == [base : (SUBSET Variant) \ {{}}, rules : SUBSET Variant,
            refs : SUBSET Segment, version : Nat \ {0}]

\* No row is not a row.
ASSUME NoneIsNoRow == None \notin FlagRow /\ None \notin Config

\* What a handler keeps between two statements.
Local == [env : Env, flag : FlagRow, base : SUBSET Variant, rules : SUBSET Variant,
          refs : SUBSET Segment, want : Nat, todo : SUBSET Env, seg : Segment]

\* A read of a configuration: where, of which flag row, and what.
Reading == [env : Env, id : Nat, config : Config]

Editing == {"config_found", "config_ready"}
FlagTx == {"flag_inserted", "flag_seeded"}
EnvTx  == {"env_inserted", "env_seeded"}
Label  == {"idle", "config_found", "config_ready", "flag_found", "flag_checking",
           "flag_deleting", "segment_deleting"} \cup FlagTx \cup EnvTx

TypeOK ==
    /\ live \in SUBSET Env
    /\ born \in [Env -> Nat]
    /\ flag \in FlagRow \cup {None}
    /\ ids \in Nat
    /\ configs \in [Env -> Config \cup {None}]
    /\ segs \in [Env -> SUBSET Segment]
    /\ measured \in SUBSET Env
    /\ pc \in [Op -> Label]
    /\ loc \in [Op -> Local]
    /\ seen \in [Op -> Reading \cup {None}]
    /\ raced \in [Env -> SUBSET Nat]
    /\ torn \in SUBSET Env

NoFlag == [id |-> 0, variants |-> {}]

Blank == [env |-> CHOOSE e \in Env : TRUE, flag |-> NoFlag, base |-> {}, rules |-> {},
          refs |-> {}, want |-> 0, todo |-> {}, seg |-> CHOOSE s \in Segment : TRUE]

\* A project as create_project leaves it.
Init ==
    /\ live = {}
    /\ born = [e \in Env |-> 0]
    /\ flag = None
    /\ ids = 0
    /\ configs = [e \in Env |-> None]
    /\ segs = [e \in Env |-> {}]
    /\ measured = {}
    /\ pc = [c \in Op |-> "idle"]
    /\ loc = [c \in Op |-> Blank]
    /\ seen = [c \in Op |-> None]
    /\ raced = [e \in Env |-> {}]
    /\ torn = {}

-----------------------------------------------------------------------------
(* Plumbing. *)

\* The handler of c goes on to label l with locals r; it ends at "idle".
Step(c, l, r) ==
    /\ pc' = [pc EXCEPT ![c] = l]
    /\ loc' = [loc EXCEPT ![c] = r]
    /\ UNCHANGED seen

Done(c) == Step(c, "idle", Blank)

\* The flag row a handler read is still the flag's row.
Current(c) == flag # None /\ flag.id = loc[c].flag.id

\* A write to what others have checked about the environments E.
Tears(E) == torn' = torn \cup E

\* An update of the flag has looked at the configuration of e, or not seen that
\* there is one; or the deletion of a segment has found no reference in it.
Checks(d, e) ==
    \/ pc[d] = "flag_checking" /\ Current(d) /\ e \notin loc[d].todo
    \/ pc[d] = "segment_deleting" /\ e = loc[d].env

ConfigTears(e) == Tears({f \in {e} : \E d \in Op : Checks(d, f)})

\* flagforge_core::validate, as far as it depends on the flag's variants.
Valid(base, rules, V) == base \cup rules \subseteq V

\* A configuration as create_flag and create_environment insert it.
Seeded(base) == [base |-> base, rules |-> {}, refs |-> {}, version |-> 1]

-----------------------------------------------------------------------------
(* create_flag: a transaction of two statements. *)

\* INSERT INTO flags; waits for another insert of the key, fails on a
\* committed one.
CreateFlagInsert(c, V, b) ==
    /\ pc[c] = "idle"
    /\ flag = None
    /\ \A d \in Op : pc[d] \notin FlagTx
    /\ Valid(b.base, {}, V)
    /\ ids < MaxFlags
    /\ ids' = ids + 1
    /\ raced' = [e \in Env |-> IF \E d \in Op : pc[d] \in EnvTx /\ loc[d].env = e
                               THEN raced[e] \cup {ids + 1} ELSE raced[e]]
    /\ Step(c, "flag_inserted",
            [Blank EXCEPT !.flag = [id |-> ids + 1, variants |-> V], !.base = b.base])
    /\ UNCHANGED <<live, born, flag, configs, segs, measured, torn>>

\* INSERT INTO flag_configs ... SELECT FROM environments: the committed ones.
CreateFlagSeed(c) ==
    /\ pc[c] = "flag_inserted"
    /\ Step(c, "flag_seeded", [loc[c] EXCEPT !.todo = live])
    /\ UNCHANGED <<live, born, flag, ids, configs, segs, measured, raced, torn>>

CreateFlagCommit(c) ==
    /\ pc[c] = "flag_seeded"
    /\ flag' = loc[c].flag
    /\ configs' = [e \in Env |-> IF e \in loc[c].todo THEN Seeded(loc[c].base)
                                                      ELSE configs[e]]
    /\ Done(c)
    /\ UNCHANGED <<live, born, ids, segs, measured, raced, torn>>

-----------------------------------------------------------------------------
(* create_environment: likewise. *)

CreateEnvInsert(c, e) ==
    /\ pc[c] = "idle"
    /\ born[e] = 0
    /\ born' = [born EXCEPT ![e] = Cardinality({f \in Env : born[f] # 0}) + 1]
    /\ raced' = [raced EXCEPT ![e] =
                    {loc[d].flag.id : d \in {d \in Op : pc[d] \in FlagTx}}]
    /\ Step(c, "env_inserted", [Blank EXCEPT !.env = e])
    /\ UNCHANGED <<live, flag, ids, configs, segs, measured, torn>>

\* ORDER BY created_at LIMIT 1: the oldest environment of E, as a set.
Oldest(E) == {e \in E : \A f \in E : born[e] <= born[f]}

Configured == {e \in live : configs[e] # None}

\* What the new environment serves: as the oldest environment that configures
\* the flag, or else the variant `off', or else the first one.
SeedBase ==
    IF Configured # {} THEN {configs[e].base : e \in Oldest(Configured)}
                       ELSE {{v} : v \in IF Off \in flag.variants THEN {Off} ELSE flag.variants}

\* What it copies may be torn.
SeedTears(c) == Tears({e \in {loc[c].env} : Oldest(Configured) \cap torn # {}})

\* Mutant of CreateEnvSeed: only create_flag seeds.
CreateEnvSeedNothing(c) ==
    /\ pc[c] = "env_inserted"
    /\ Step(c, "env_seeded", loc[c])
    /\ UNCHANGED <<live, born, flag, ids, configs, segs, measured, raced, torn>>

\* INSERT INTO flag_configs ... SELECT FROM flags.  With no configuration to
\* copy and no variant to fall back on, off_variant is NULL: the statement and
\* with it the transaction fail.
CreateEnvSeed(c) ==
    /\ pc[c] = "env_inserted"
    /\ \/ flag = None /\ Step(c, "env_seeded", loc[c]) /\ UNCHANGED torn
       \/ /\ flag # None /\ SeedTears(c)
          /\ \E base \in SeedBase :
                Step(c, "env_seeded", [loc[c] EXCEPT !.flag = flag, !.base = base])
       \/ flag # None /\ SeedBase = {} /\ Done(c) /\ UNCHANGED torn
    /\ UNCHANGED <<live, born, flag, ids, configs, segs, measured, raced>>

CreateEnvCommit(c) ==
    /\ pc[c] = "env_seeded"
    /\ live' = live \cup {loc[c].env}
    /\ IF loc[c].flag = NoFlag THEN UNCHANGED <<configs, torn>>
       ELSE /\ configs' = [configs EXCEPT ![loc[c].env] = Seeded(loc[c].base)]
            /\ ConfigTears(loc[c].env)
    /\ Done(c)
    /\ UNCHANGED <<born, flag, ids, segs, measured, raced>>

\* Either transaction fails, or its request is dropped: nothing of it remains.
Rollback(c) ==
    /\ pc[c] \in FlagTx \cup EnvTx
    /\ Done(c)
    /\ UNCHANGED <<live, born, flag, ids, configs, segs, measured, raced, torn>>

\* DELETE FROM environments, with its configurations, segments and
\* experiments.  A transaction that inserted a row for e holds a key-share
\* lock on e's row.
DeleteEnvironment(e) ==
    /\ e \in live
    /\ ~\E c \in Op : pc[c] = "flag_seeded" /\ e \in loc[c].todo
    /\ live' = live \ {e}
    /\ configs' = [configs EXCEPT ![e] = None]
    /\ segs' = [segs EXCEPT ![e] = {}]
    /\ measured' = measured \ {e}
    /\ torn' = torn \ {e}
    /\ UNCHANGED <<born, flag, ids, pc, loc, seen, raced>>

-----------------------------------------------------------------------------
(* update_config *)

\* GET .../flags/{flag_key}: what an operator bases an edit on, or a 404.
ReadConfig(c, e) ==
    /\ pc[c] = "idle"
    /\ seen' = [seen EXCEPT ![c] =
                   IF configs[e] = None THEN @
                   ELSE [env |-> e, id |-> flag.id, config |-> configs[e]]]
    /\ UNCHANGED <<live, born, flag, ids, configs, segs, measured, pc, loc, raced, torn>>

\* The expected_version a body may carry: none (0), or the version c read.
Expected(c, e) ==
    IF seen[c] # None /\ seen[c].env = e THEN {0, seen[c].config.version} ELSE {0}

\* find_environment, find_flag, validate_evaluable.
UpdateConfigFind(c, e, b, want) ==
    /\ pc[c] = "idle"
    /\ e \in live /\ flag # None
    /\ Valid(b.base, b.rules, flag.variants)
    /\ configs[e] # None => configs[e].version < MaxVersion
    /\ Step(c, "config_found",
            [Blank EXCEPT !.env = e, !.flag = flag, !.base = b.base, !.rules = b.rules,
                          !.refs = b.refs, !.want = want])
    /\ UNCHANGED <<live, born, flag, ids, configs, segs, measured, raced, torn>>

\* segment_keys, validate_references.
UpdateConfigReferences(c) ==
    /\ pc[c] = "config_found"
    /\ IF loc[c].refs \subseteq segs[loc[c].env] THEN Step(c, "config_ready", loc[c])
                                                 ELSE Done(c)
    /\ UNCHANGED <<live, born, flag, ids, configs, segs, measured, raced, torn>>

\* The row upsert_config leaves: version 1 when inserted, bumped by the trigger
\* when updated.
Written(c) ==
    LET old == configs[loc[c].env]
    IN  [base |-> loc[c].base, rules |-> loc[c].rules, refs |-> loc[c].refs,
         version |-> IF old = None THEN 1 ELSE old.version + 1]

\* Mutant of UpsertConfig: ON CONFLICT DO UPDATE without its WHERE.
UpsertConfigAlways(c) ==
    LET e == loc[c].env
    IN  /\ pc[c] = "config_ready"
        /\ \/ /\ Current(c) /\ e \in live
              /\ configs' = [configs EXCEPT ![e] = Written(c)]
              /\ ConfigTears(e)
           \/ /\ ~(Current(c) /\ e \in live)
              /\ UNCHANGED <<configs, torn>>
        /\ Done(c)
        /\ UNCHANGED <<live, born, flag, ids, segs, measured, raced>>

\* INSERT ... ON CONFLICT DO UPDATE ... WHERE: the foreign keys must hold, and
\* an existing row must have the expected version if one was given.
UpsertConfig(c) ==
    LET e == loc[c].env
        old == configs[e]
        accepted == old # None => loc[c].want \in {0, old.version}
    IN  /\ pc[c] = "config_ready"
        /\ \/ /\ Current(c) /\ e \in live /\ accepted
              /\ configs' = [configs EXCEPT ![e] = Written(c)]
              /\ ConfigTears(e)
           \/ /\ ~(Current(c) /\ e \in live /\ accepted)
              /\ UNCHANGED <<configs, torn>>
        /\ Done(c)
        /\ UNCHANGED <<live, born, flag, ids, segs, measured, raced>>

-----------------------------------------------------------------------------
(* update: new variants for the flag *)

UpdateFlagFind(c, V) ==
    /\ pc[c] = "idle"
    /\ flag # None
    /\ Step(c, "flag_found", [Blank EXCEPT !.flag = [id |-> flag.id, variants |-> V]])
    /\ UNCHANGED <<live, born, flag, ids, configs, segs, measured, raced, torn>>

\* list_environments.
UpdateFlagList(c) ==
    /\ pc[c] = "flag_found"
    /\ Step(c, "flag_checking", [loc[c] EXCEPT !.todo = live])
    /\ UNCHANGED <<live, born, flag, ids, configs, segs, measured, raced, torn>>

\* Mutant of UpdateFlagCheck: the rules are not re-validated.
UpdateFlagCheckBase(c, e) ==
    /\ pc[c] = "flag_checking"
    /\ e \in loc[c].todo
    /\ IF Current(c) /\ configs[e] # None
          /\ Valid(configs[e].base, {}, loc[c].flag.variants)
       THEN Step(c, "flag_checking", [loc[c] EXCEPT !.todo = @ \ {e}])
       ELSE Done(c)
    /\ UNCHANGED <<live, born, flag, ids, configs, segs, measured, raced, torn>>

\* find_config and validate_evaluable for one of them: a missing configuration
\* is a 404, one that needs a removed variant a 422.
UpdateFlagCheck(c, e) ==
    /\ pc[c] = "flag_checking"
    /\ e \in loc[c].todo
    /\ IF Current(c) /\ configs[e] # None
          /\ Valid(configs[e].base, configs[e].rules, loc[c].flag.variants)
       THEN Step(c, "flag_checking", [loc[c] EXCEPT !.todo = @ \ {e}])
       ELSE Done(c)
    /\ UNCHANGED <<live, born, flag, ids, configs, segs, measured, raced, torn>>

\* Configurations on their way were checked against the old variants.
VariantsTear ==
    Tears({loc[d].env : d \in {d \in Op : pc[d] \in Editing \cup {"env_seeded"} /\ Current(d)}})

\* UPDATE flags ... WHERE id.
UpdateFlagApply(c) ==
    /\ pc[c] = "flag_checking"
    /\ loc[c].todo = {}
    /\ \/ Current(c) /\ flag' = loc[c].flag /\ VariantsTear
       \/ ~Current(c) /\ UNCHANGED <<flag, torn>>
    /\ Done(c)
    /\ UNCHANGED <<live, born, ids, configs, segs, measured, raced>>

-----------------------------------------------------------------------------
(* delete_flag, experiments *)

\* find_flag, experiments_referencing_flag.
DeleteFlagCheck(c) ==
    /\ pc[c] = "idle"
    /\ flag # None
    /\ measured = {}
    /\ Step(c, "flag_deleting", Blank)
    /\ UNCHANGED <<live, born, flag, ids, configs, segs, measured, raced, torn>>

\* DELETE FROM flags WHERE key: whatever row has the key now, unless an
\* experiment references it (RESTRICT); its configurations go with it.  Waits
\* for a create_environment that inserted a configuration of the flag.
DeleteFlag(c) ==
    /\ pc[c] = "flag_deleting"
    /\ ~\E d \in Op : pc[d] = "env_seeded" /\ loc[d].flag # NoFlag
    /\ \/ /\ flag # None /\ measured = {}
          /\ flag' = None
          /\ configs' = [e \in Env |-> None]
          /\ torn' = {}
       \/ /\ ~(flag # None /\ measured = {})
          /\ UNCHANGED <<flag, configs, torn>>
    /\ Done(c)
    /\ UNCHANGED <<live, born, ids, segs, measured, raced>>

CreateExperiment(e) ==
    /\ e \in live /\ flag # None
    /\ measured' = measured \cup {e}
    /\ UNCHANGED <<live, born, flag, ids, configs, segs, pc, loc, seen, raced, torn>>

DeleteExperiment(e) ==
    /\ e \in measured
    /\ measured' = measured \ {e}
    /\ UNCHANGED <<live, born, flag, ids, configs, segs, pc, loc, seen, raced, torn>>

-----------------------------------------------------------------------------
(* Segments, as far as configurations depend on them *)

CreateSegment(e, s) ==
    /\ e \in live /\ s \notin segs[e]
    /\ segs' = [segs EXCEPT ![e] = @ \cup {s}]
    /\ UNCHANGED <<live, born, flag, ids, configs, measured, pc, loc, seen, raced, torn>>

\* Mutant of DeleteSegmentCheck: nobody looks for references.
DeleteSegmentUnchecked(c, e, s) ==
    /\ pc[c] = "idle"
    /\ e \in live /\ s \in segs[e]
    /\ Step(c, "segment_deleting", [Blank EXCEPT !.env = e, !.seg = s])
    /\ UNCHANGED <<live, born, flag, ids, configs, segs, measured, raced, torn>>

\* find_segment, referencing_flags.
DeleteSegmentCheck(c, e, s) ==
    /\ pc[c] = "idle"
    /\ e \in live /\ s \in segs[e]
    /\ configs[e] # None => s \notin configs[e].refs
    /\ Step(c, "segment_deleting", [Blank EXCEPT !.env = e, !.seg = s])
    /\ UNCHANGED <<live, born, flag, ids, configs, segs, measured, raced, torn>>

\* A configuration on its way was found to have its segments.
SegmentTears(e) ==
    Tears({f \in {e} : \E d \in Op : pc[d] = "config_ready" /\ Current(d) /\ loc[d].env = f})

\* DELETE FROM segments.
DeleteSegment(c) ==
    /\ pc[c] = "segment_deleting"
    /\ segs' = [segs EXCEPT ![loc[c].env] = @ \ {loc[c].seg}]
    /\ SegmentTears(loc[c].env)
    /\ Done(c)
    /\ UNCHANGED <<live, born, flag, ids, configs, measured, raced>>

-----------------------------------------------------------------------------

\* A request begins.
Begin(c) ==
    \/ \E V \in VariantSet \ {{}}, b \in Body : CreateFlagInsert(c, V, b)
    \/ \E e \in Env : CreateEnvInsert(c, e) \/ ReadConfig(c, e)
    \/ \E e \in Env, b \in Body : \E want \in Expected(c, e) : UpdateConfigFind(c, e, b, want)
    \/ \E V \in VariantSet : UpdateFlagFind(c, V)
    \/ DeleteFlagCheck(c)
    \/ \E e \in Env, s \in Segment : DeleteSegmentCheck(c, e, s)

\* A request under way makes its next statement.
Proceed(c) ==
    \/ CreateFlagSeed(c) \/ CreateFlagCommit(c)
    \/ CreateEnvSeed(c) \/ CreateEnvCommit(c)
    \/ Rollback(c)
    \/ UpdateConfigReferences(c) \/ UpsertConfig(c)
    \/ UpdateFlagList(c) \/ UpdateFlagApply(c)
    \/ \E e \in Env : UpdateFlagCheck(c, e)
    \/ DeleteFlag(c)
    \/ DeleteSegment(c)

Next ==
    \/ \E c \in Op : Begin(c) \/ Proceed(c)
    \/ \E e \in Env : DeleteEnvironment(e) \/ CreateExperiment(e) \/ DeleteExperiment(e)
    \/ \E e \in Env, s \in Segment : CreateSegment(e, s)

Spec == Init /\ [][Next]_vars

-----------------------------------------------------------------------------
(* Properties. *)

\* "A flag is configured in every environment of its project"
\* (storage/projects.rs), which create_flag and create_environment each keep up
\* on their own side: it only fails for an environment whose creation overlapped
\* the flag's, however the two transactions interleave with every other handler.
ConfiguredUnlessRaced ==
    flag # None => \A e \in live : configs[e] # None \/ flag.id \in raced[e]

\* "A flag that reaches the database is guaranteed evaluable" (core/validate.rs):
\* every variant a stored configuration names is one of the flag's, whichever
\* of update_config, update and create_environment wrote last, however they
\* interleave; unless one of them wrote between another's check and its write.
EvaluableUnlessTorn ==
    \A e \in Env : configs[e] # None =>
        /\ flag # None
        /\ e \notin torn => Valid(configs[e].base, configs[e].rules, flag.variants)

\* "Validation stops dangling references from being stored" (core/matcher.rs):
\* every segment a stored rule names is defined in that environment, however
\* edits and deletions interleave; with the same exception.
ReferencesUnlessTorn ==
    \A e \in Env : configs[e] # None /\ e \notin torn => configs[e].refs \subseteq segs[e]

\* A write by c, guarded by the version c read.
GuardedWrite(c) ==
    /\ pc[c] = "config_ready" /\ loc[c].want # 0
    /\ configs'[loc[c].env] # configs[loc[c].env]
    /\ pc'[c] = "idle"

\* Optimistic concurrency (upsert_config): a write that carries the version its
\* author read replaces exactly the configuration the author read of that flag,
\* never somebody else's edit.  The versions of a flag deleted and created
\* again start over, so the guard says nothing across rows.
NoLostUpdate ==
    [][\A c \in Op : (GuardedWrite(c) /\ seen[c].id = flag.id)
                        => configs[loc[c].env] = seen[c].config]_vars
=============================================================================
