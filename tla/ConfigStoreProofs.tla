-------------------------- MODULE ConfigStoreProofs --------------------------
(***************************************************************************)
(* Proofs about ConfigStore for any operators, environments, segments and  *)
(* variants.                                                               *)
(*                                                                         *)
(* ConfiguredUnlessRaced rests on Overlap: whatever a creating transaction *)
(* did not see and so did not seed, it has met while both were under way.  *)
(* NoLostUpdate rests on Readings: what an operator read of the living     *)
(* flag in a living environment is still there, or was replaced under a    *)
(* greater version.  Both need to know who may hold an uncommitted flag or *)
(* environment (FlagCreation, EnvCreation).                                *)
(*                                                                         *)
(* EvaluableUnlessTorn and ReferencesUnlessTorn rest on Checked: what a    *)
(* request found out before it writes is still so when it writes, or a     *)
(* write that met the check has torn the environment; and on Found: a      *)
(* request that found one row of the flag never takes a later one for it.  *)
(***************************************************************************)
EXTENDS ConfigStore, FiniteSetTheorems, TLAPS

\* Only one transaction creates the flag, while there is none; it has the last
\* id, and the environments it seeds stay.
FlagCreation ==
    /\ flag # None => flag.id \in 1 .. ids
    /\ \A c \in Op : pc[c] \in FlagTx =>
          /\ flag = None
          /\ loc[c].flag.id = ids
          /\ loc[c].flag.id # 0
          /\ loc[c].base # {}
    /\ \A c, d \in Op : pc[c] \in FlagTx /\ pc[d] \in FlagTx => c = d
    /\ \A c \in Op : pc[c] = "flag_seeded" => loc[c].todo \subseteq live

\* An environment under creation has an id of its own that nobody has seen, and
\* the flag it seeds a configuration for stays.
EnvCreation ==
    /\ \A e \in live : born[e] # 0
    /\ \A c \in Op : pc[c] \in EnvTx => born[loc[c].env] # 0 /\ loc[c].env \notin live
    /\ \A c, d \in Op : pc[c] \in EnvTx /\ pc[d] \in EnvTx /\ c # d => loc[c].env # loc[d].env
    /\ \A c \in Op : pc[c] = "env_inserted" => loc[c].flag = NoFlag
    /\ \A c \in Op : pc[c] = "env_seeded" /\ loc[c].flag # NoFlag =>
          loc[c].base # {} /\ flag # None

\* Configurations belong to a living flag and a living environment.
Rows == \A e \in Env : configs[e] # None => e \in live /\ flag # None

\* A guarded write carries the version of what its author read.
Edits ==
    \A c \in Op : pc[c] \in Editing =>
        /\ loc[c].base # {}
        /\ loc[c].want # 0 => /\ seen[c] # None
                              /\ seen[c].env = loc[c].env
                              /\ seen[c].config.version = loc[c].want

\* cur is what was read as old, or a later version of it.
Follows(cur, old) ==
    /\ cur # None
    /\ old.version <= cur.version
    /\ old.version = cur.version => cur = old

Readings ==
    \A c \in Op : seen[c] # None =>
        /\ born[seen[c].env] # 0
        /\ seen[c].id <= ids
        /\ \A d \in Op : pc[d] \in FlagTx => seen[c].id # ids
        /\ \A d \in Op : pc[d] \in EnvTx => loc[d].env # seen[c].env
        /\ flag # None /\ flag.id = seen[c].id /\ seen[c].env \in live =>
              Follows(configs[seen[c].env], seen[c].config)

\* What a transaction did not seed it has overlapped.
Overlap ==
    /\ \A c, d \in Op : pc[c] \in FlagTx /\ pc[d] \in EnvTx => ids \in raced[loc[d].env]
    /\ \A c \in Op : pc[c] = "flag_seeded" => \A e \in live \ loc[c].todo : ids \in raced[e]
    /\ \A d \in Op : pc[d] = "env_seeded" /\ loc[d].flag = NoFlag /\ flag # None =>
          flag.id \in raced[loc[d].env]

Numbered == IsFiniteSet({f \in Env : born[f] # 0})

IInv ==
    /\ TypeOK /\ Numbered
    /\ FlagCreation /\ EnvCreation /\ Rows /\ Edits /\ Readings /\ Overlap
    /\ ConfiguredUnlessRaced

-----------------------------------------------------------------------------
(* Types *)

LEMMA BlankType == Blank \in Local /\ NoFlag \in FlagRow
<1>1. NoFlag \in FlagRow
  BY DEF NoFlag, FlagRow
<1>2. (CHOOSE e \in Env : TRUE) \in Env /\ (CHOOSE s \in Segment : TRUE) \in Segment
  BY StoreAssumption
<1> QED BY <1>1, <1>2 DEF Blank, Local

\* A seeded configuration is a configuration.
LEMMA SeededType ==
    ASSUME NEW base \in SUBSET Variant, base # {}
    PROVE  Seeded(base) \in Config /\ Seeded(base) # None /\ Seeded(base).version = 1
<1>1. Seeded(base) \in Config
  BY DEF Seeded, Config
<1> QED BY <1>1, NoneIsNoRow DEF Seeded

\* Going on keeps the handlers' types.
LEMMA StepType ==
    ASSUME TypeOK, NEW c \in Op, NEW l \in Label, NEW r \in Local, Step(c, l, r)
    PROVE  /\ pc' \in [Op -> Label] /\ loc' \in [Op -> Local] /\ seen' = seen
           /\ pc'[c] = l /\ loc'[c] = r
           /\ \A d \in Op \ {c} : pc'[d] = pc[d] /\ loc'[d] = loc[d]
BY DEF Step, TypeOK

\* So does ending.
LEMMA DoneType ==
    ASSUME TypeOK, NEW c \in Op, Done(c)
    PROVE  /\ pc' \in [Op -> Label] /\ loc' \in [Op -> Local] /\ seen' = seen
           /\ pc'[c] = "idle"
           /\ \A d \in Op \ {c} : pc'[d] = pc[d] /\ loc'[d] = loc[d]
<1>1. "idle" \in Label
  BY DEF Label
<1> QED BY <1>1, BlankType, StepType DEF Done

\* The bases a new environment may start with.
LEMMA SeedBaseType ==
    ASSUME TypeOK, flag # None, NEW base \in SeedBase
    PROVE  base \in SUBSET Variant /\ base # {}
<1>1. CASE Configured # {}
  <2>1. PICK e \in Configured : base = configs[e].base
    BY <1>1 DEF SeedBase, Oldest
  <2>2. configs[e] \in Config
    BY <2>1 DEF TypeOK, Configured
  <2> QED BY <2>1, <2>2 DEF Config
<1>2. CASE Configured = {}
  <2>1. flag.variants \in SUBSET Variant
    BY DEF TypeOK, FlagRow
  <2>2. PICK v \in flag.variants : base = {v}
    BY <1>2 DEF SeedBase
  <2> QED BY <2>1, <2>2
<1> QED BY <1>1, <1>2

\* The labels of the handlers' steps.
LEMMA Labels ==
    /\ {"idle", "config_found", "config_ready", "flag_found", "flag_checking",
        "flag_deleting", "segment_deleting", "flag_inserted", "flag_seeded",
        "env_inserted", "env_seeded"} \subseteq Label
    /\ FlagTx = {"flag_inserted", "flag_seeded"}
    /\ EnvTx = {"env_inserted", "env_seeded"}
    /\ Editing = {"config_found", "config_ready"}
BY DEF Label, FlagTx, EnvTx, Editing

\* An environment gets its created_at: the number is one, and only finitely
\* many environments have one.
LEMMA BornType ==
    ASSUME TypeOK, Numbered, NEW e \in Env,
           born' = [born EXCEPT ![e] = Cardinality({f \in Env : born[f] # 0}) + 1]
    PROVE  /\ born' \in [Env -> Nat]
           /\ Numbered'
           /\ born'[e] # 0
           /\ \A f \in Env \ {e} : born'[f] = born[f]
<1> DEFINE B == {f \in Env : born[f] # 0}
<1>1. Cardinality(B) \in Nat
  BY FS_CardinalityType DEF Numbered
<1> HIDE DEF B
<1>2. /\ born' \in [Env -> Nat]
      /\ born'[e] # 0
      /\ \A f \in Env \ {e} : born'[f] = born[f]
  BY <1>1 DEF TypeOK, B
<1>3. {f \in Env : born'[f] # 0} = B \cup {e}
  BY <1>2 DEF B
<1>4. IsFiniteSet(B \cup {e})
  BY FS_AddElement DEF Numbered, B
<1> QED BY <1>2, <1>3, <1>4 DEF Numbered

\* The fields of a handler's locals.
LEMMA LocalFields ==
    ASSUME NEW r \in Local
    PROVE  /\ r.env \in Env /\ r.flag \in FlagRow /\ r.base \in SUBSET Variant
           /\ r.rules \in SUBSET Variant /\ r.refs \in SUBSET Segment /\ r.want \in Nat
           /\ r.todo \in SUBSET Env /\ r.seg \in Segment
           /\ \A E \in SUBSET Env : [r EXCEPT !.todo = E] \in Local
BY DEF Local

\* The version a body carries is none or the one its author read.
LEMMA ExpectedType ==
    ASSUME TypeOK, NEW c \in Op, NEW e \in Env, NEW w \in Expected(c, e)
    PROVE  /\ w \in Nat
           /\ w # 0 => /\ seen[c] # None
                       /\ seen[c].env = e
                       /\ seen[c].config.version = w
<1>1. CASE seen[c] # None /\ seen[c].env = e
  <2>1. seen[c] \in Reading
    BY <1>1 DEF TypeOK
  <2>2. seen[c].config.version \in Nat
    BY <2>1 DEF Reading, Config
  <2> QED BY <1>1, <2>2 DEF Expected
<1>2. CASE ~(seen[c] # None /\ seen[c].env = e)
  BY <1>2 DEF Expected
<1> QED BY <1>1, <1>2

\* The row upsert_config leaves follows the one it replaces.
LEMMA WrittenType ==
    ASSUME TypeOK, NEW c \in Op, loc[c].base # {}
    PROVE  /\ Written(c) \in Config /\ Written(c) # None
           /\ configs[loc[c].env] # None =>
                 Written(c).version = configs[loc[c].env].version + 1
<1>1. loc[c] \in Local
  BY DEF TypeOK
<1>2. configs[loc[c].env] \in Config \cup {None}
  BY <1>1, LocalFields DEF TypeOK
<1>3. configs[loc[c].env] # None => configs[loc[c].env].version \in Nat
  BY <1>2 DEF Config
<1>4. Written(c) \in Config
  BY <1>1, <1>3, LocalFields DEF Written, Config
<1> QED BY <1>3, <1>4, NoneIsNoRow DEF Written
-----------------------------------------------------------------------------
(* The actions *)

\* What the actions share: only the handler of c moves.
Moves(c) ==
    /\ pc' \in [Op -> Label] /\ loc' \in [Op -> Local]
    /\ \A d \in Op \ {c} : pc'[d] = pc[d] /\ loc'[d] = loc[d]

store == <<live, born, flag, ids, configs, segs, measured, raced>>

\* A handler that reads, or that ends, and holds no transaction or validated
\* edit afterwards disturbs nothing.
LEMMA QuietStep ==
    ASSUME IInv, torn' \in SUBSET Env, NEW c \in Op, Moves(c), UNCHANGED <<store, seen>>,
           pc'[c] \notin FlagTx \cup EnvTx \cup Editing
    PROVE  IInv'
<1> USE DEF store
<1>0. "flag_seeded" \in FlagTx /\ {"env_inserted", "env_seeded"} \subseteq EnvTx
  BY Labels
<1>1. TypeOK' /\ Numbered'
  BY DEF Moves, IInv, TypeOK, Numbered
<1>2. FlagCreation'
  BY <1>0 DEF Moves, IInv, FlagCreation
<1>3. EnvCreation'
  BY <1>0 DEF Moves, IInv, EnvCreation
<1>4. Rows' /\ ConfiguredUnlessRaced'
  BY DEF IInv, Rows, ConfiguredUnlessRaced
<1>5. Edits'
  BY DEF Moves, IInv, Edits
<1>6. Readings'
  BY DEF Moves, IInv, Readings, Follows
<1>7. Overlap'
  BY <1>0 DEF Moves, IInv, Overlap
<1> QED BY <1>1, <1>2, <1>3, <1>4, <1>5, <1>6, <1>7 DEF IInv

\* Ending without an effect is quiet.
LEMMA DoneQuiet ==
    ASSUME IInv, torn' \in SUBSET Env, NEW c \in Op, Done(c), UNCHANGED store
    PROVE  IInv'
<1>1. Moves(c) /\ pc'[c] = "idle" /\ seen' = seen
  BY DoneType DEF Moves, IInv
<1>2. "idle" \notin FlagTx \cup EnvTx \cup Editing
  BY Labels
<1> QED BY <1>1, <1>2, QuietStep

\* So is going on to a label that holds nothing.
LEMMA StepQuiet ==
    ASSUME IInv, torn' \in SUBSET Env, NEW c \in Op, NEW r \in Local,
           NEW l \in {"flag_found", "flag_checking", "flag_deleting", "segment_deleting"},
           Step(c, l, r), UNCHANGED store
    PROVE  IInv'
<1>1. l \in Label /\ l \notin FlagTx \cup EnvTx \cup Editing
  BY Labels
<1>2. Moves(c) /\ pc'[c] = l /\ seen' = seen
  BY <1>1, StepType DEF Moves, IInv
<1> QED BY <1>1, <1>2, QuietStep

\* create_flag begins.
LEMMA CreateFlagInsertInv ==
    ASSUME IInv, torn' \in SUBSET Env, NEW c \in Op, NEW V \in VariantSet, NEW b \in Body, CreateFlagInsert(c, V, b)
    PROVE  IInv'
<1> DEFINE r == [Blank EXCEPT !.flag = [id |-> ids + 1, variants |-> V], !.base = b.base]
<1>t. TypeOK /\ ids \in Nat
  BY DEF IInv, TypeOK
<1>l. "flag_inserted" \in Label /\ "flag_inserted" \in FlagTx /\ "flag_inserted" \notin EnvTx \cup Editing
      /\ "flag_seeded" \in FlagTx /\ "env_seeded" \in EnvTx
  BY Labels
<1>r. /\ r \in Local
      /\ r.flag = [id |-> ids + 1, variants |-> V] /\ r.base = b.base
  <2>1. b.base \in SUBSET Variant /\ V \in SUBSET Variant
    BY StoreAssumption DEF Draft
  <2>2. [id |-> ids + 1, variants |-> V] \in FlagRow
    BY <2>1, <1>t DEF FlagRow
  <2> QED BY <2>1, <2>2, BlankType DEF Local
<1>b. b.base # {}
  BY StoreAssumption DEF Draft
<1> HIDE DEF r
<1>m. Moves(c) /\ pc'[c] = "flag_inserted" /\ loc'[c] = r /\ seen' = seen
  <2>1. Step(c, "flag_inserted", r)
    BY DEF CreateFlagInsert, r
  <2> QED BY <2>1, <1>t, <1>l, <1>r, StepType DEF Moves
<1>u. /\ UNCHANGED <<live, born, flag, configs, segs, measured>>
      /\ ids' = ids + 1 /\ flag = None
      /\ \A d \in Op : pc[d] \notin FlagTx
      /\ pc[c] = "idle"
  BY DEF CreateFlagInsert
<1>d. /\ raced' \in [Env -> SUBSET Nat]
      /\ \A e \in Env : \A d \in Op : pc[d] \in EnvTx /\ loc[d].env = e => ids + 1 \in raced'[e]
  BY <1>t DEF CreateFlagInsert, TypeOK
<1>1. TypeOK' /\ Numbered'
  BY <1>t, <1>m, <1>u, <1>d DEF Moves, IInv, TypeOK, Numbered
<1>2. FlagCreation'
  BY <1>t, <1>l, <1>m, <1>u, <1>r, <1>b DEF Moves, IInv, FlagCreation
<1>3. EnvCreation'
  BY <1>l, <1>m, <1>u DEF Moves, IInv, EnvCreation
<1>4. Rows' /\ ConfiguredUnlessRaced'
  BY <1>u DEF IInv, Rows, ConfiguredUnlessRaced
<1>5. Edits'
  BY <1>l, <1>m DEF Moves, IInv, Edits
<1>6. Readings'
  <2>1. \A d \in Op : seen[d] # None => seen[d].id \in Nat
    BY <1>t DEF TypeOK, Reading
  <2> QED BY <1>t, <1>l, <1>m, <1>u, <2>1 DEF Moves, IInv, Readings
<1>7. Overlap'
  <2>1. \A d \in Op : pc[d] \in EnvTx => loc[d].env \in Env
    BY <1>t, LocalFields DEF TypeOK
  <2> QED BY <1>l, <1>m, <1>u, <1>d, <2>1 DEF Moves, IInv, Overlap
<1> QED BY <1>1, <1>2, <1>3, <1>4, <1>5, <1>6, <1>7 DEF IInv

\* create_flag seeds the environments it sees.
LEMMA CreateFlagSeedInv ==
    ASSUME IInv, torn' \in SUBSET Env, NEW c \in Op, CreateFlagSeed(c)
    PROVE  IInv'
<1> DEFINE r == [loc[c] EXCEPT !.todo = live]
<1>t. TypeOK /\ loc[c] \in Local
  BY DEF IInv, TypeOK
<1>l. /\ {"flag_seeded", "flag_inserted"} \subseteq FlagTx /\ "env_seeded" \in EnvTx
      /\ "flag_seeded" \in Label /\ "flag_seeded" \notin EnvTx \cup Editing
  BY Labels
<1>r. r \in Local /\ r.flag = loc[c].flag /\ r.base = loc[c].base /\ r.todo = live
  BY <1>t DEF TypeOK, Local
<1> HIDE DEF r
<1>m. Moves(c) /\ pc'[c] = "flag_seeded" /\ loc'[c] = r /\ seen' = seen
  <2>1. Step(c, "flag_seeded", r)
    BY DEF CreateFlagSeed, r
  <2> QED BY <2>1, <1>t, <1>l, <1>r, StepType DEF Moves
<1>u. UNCHANGED <<live, born, flag, ids, configs, segs, measured, raced>> /\ pc[c] = "flag_inserted"
  BY DEF CreateFlagSeed
<1>1. TypeOK' /\ Numbered'
  BY <1>t, <1>m, <1>u DEF Moves, IInv, TypeOK, Numbered
<1>2. FlagCreation'
  BY <1>l, <1>m, <1>u, <1>r DEF Moves, IInv, FlagCreation
<1>3. EnvCreation'
  BY <1>l, <1>m, <1>u DEF Moves, IInv, EnvCreation
<1>4. Rows' /\ ConfiguredUnlessRaced'
  BY <1>u DEF IInv, Rows, ConfiguredUnlessRaced
<1>5. Edits'
  BY <1>l, <1>m DEF Moves, IInv, Edits
<1>6. Readings'
  BY <1>l, <1>m, <1>u DEF Moves, IInv, Readings
<1>7. Overlap'
  BY <1>l, <1>m, <1>u, <1>r DEF Moves, IInv, Overlap
<1> QED BY <1>1, <1>2, <1>3, <1>4, <1>5, <1>6, <1>7 DEF IInv

\* create_flag commits.
LEMMA CreateFlagCommitInv ==
    ASSUME IInv, torn' \in SUBSET Env, NEW c \in Op, CreateFlagCommit(c)
    PROVE  IInv'
<1>t. TypeOK /\ loc[c] \in Local
  BY DEF IInv, TypeOK
<1>l. /\ {"flag_seeded", "flag_inserted"} \subseteq FlagTx /\ "env_seeded" \in EnvTx
      /\ "idle" \notin FlagTx \cup EnvTx \cup Editing
  BY Labels
<1>m. Moves(c) /\ pc'[c] = "idle" /\ seen' = seen
  BY <1>t, DoneType DEF Moves, CreateFlagCommit
<1>u. /\ UNCHANGED <<live, born, ids, segs, measured, raced>> /\ pc[c] = "flag_seeded"
      /\ flag' = loc[c].flag
      /\ flag = None /\ loc[c].flag.id = ids /\ ids # 0 /\ loc[c].base # {}
      /\ loc[c].todo \subseteq live
  BY <1>l DEF CreateFlagCommit, IInv, FlagCreation
<1>f. flag' \in FlagRow /\ flag' # None /\ flag'.id = ids /\ ids \in Nat
  BY <1>t, <1>u, LocalFields, NoneIsNoRow DEF TypeOK
<1>o. \A d \in Op : pc'[d] \notin FlagTx
  BY <1>l, <1>m, <1>u DEF Moves, IInv, FlagCreation
<1>s. Seeded(loc[c].base) \in Config /\ Seeded(loc[c].base) # None
  BY <1>t, <1>u, LocalFields, SeededType
<1>g. /\ configs' \in [Env -> Config \cup {None}]
      /\ \A e \in Env : configs'[e] = IF e \in loc[c].todo THEN Seeded(loc[c].base) ELSE configs[e]
  BY <1>t, <1>s DEF CreateFlagCommit, TypeOK
<1>1. TypeOK' /\ Numbered'
  BY <1>t, <1>m, <1>u, <1>f, <1>g DEF Moves, IInv, TypeOK, Numbered
<1>2. FlagCreation'
  BY <1>l, <1>o, <1>u, <1>f DEF FlagCreation
<1>3. EnvCreation'
  BY <1>l, <1>m, <1>u, <1>f DEF Moves, IInv, EnvCreation
<1>4. Rows' /\ ConfiguredUnlessRaced'
  <2>1. \A e \in Env : configs'[e] # None => e \in live
    BY <1>u, <1>g DEF IInv, Rows
  <2>2. \A e \in live : configs'[e] # None \/ ids \in raced[e]
    <3>1. live \subseteq Env
      BY <1>t DEF TypeOK
    <3> QED BY <1>u, <1>g, <1>s, <3>1 DEF IInv, Overlap
  <2> QED BY <1>u, <1>f, <2>1, <2>2 DEF Rows, ConfiguredUnlessRaced
<1>5. Edits'
  BY <1>l, <1>m DEF Moves, IInv, Edits
<1>6. Readings'
  BY <1>l, <1>m, <1>o, <1>u, <1>f DEF Moves, IInv, Readings
<1>7. Overlap'
  <2>1. \A d \in Op : pc[d] = "env_seeded" => ids \in raced[loc[d].env]
    BY <1>l, <1>u DEF IInv, Overlap
  <2> QED BY <1>l, <1>m, <1>o, <1>u, <1>f, <2>1 DEF Moves, Overlap
<1> QED BY <1>1, <1>2, <1>3, <1>4, <1>5, <1>6, <1>7 DEF IInv
\* create_environment begins.
LEMMA CreateEnvInsertInv ==
    ASSUME IInv, torn' \in SUBSET Env, NEW c \in Op, NEW e \in Env, CreateEnvInsert(c, e)
    PROVE  IInv'
<1> DEFINE r == [Blank EXCEPT !.env = e]
<1>t. TypeOK /\ Numbered
  BY DEF IInv
<1>l. /\ "env_inserted" \in Label /\ "env_inserted" \in EnvTx
      /\ "env_inserted" \notin FlagTx \cup Editing
      /\ "flag_seeded" \in FlagTx
  BY Labels
<1>r. r \in Local /\ r.env = e /\ r.flag = NoFlag
  BY BlankType DEF Local, Blank
<1> HIDE DEF r
<1>m. Moves(c) /\ pc'[c] = "env_inserted" /\ loc'[c] = r /\ seen' = seen
  <2>1. Step(c, "env_inserted", r)
    BY DEF CreateEnvInsert, r
  <2> QED BY <2>1, <1>t, <1>l, <1>r, StepType DEF Moves
<1>u. /\ UNCHANGED <<live, flag, ids, configs, segs, measured>>
      /\ born[e] = 0 /\ pc[c] = "idle"
  BY DEF CreateEnvInsert
<1>b. /\ born' \in [Env -> Nat] /\ Numbered' /\ born'[e] # 0
      /\ \A f \in Env \ {e} : born'[f] = born[f]
  BY <1>t, BornType DEF CreateEnvInsert
<1>o. /\ e \notin live
      /\ live \subseteq Env
      /\ \A d \in Op : loc[d].env \in Env
      /\ \A d \in Op : pc[d] \in EnvTx => loc[d].env # e
      /\ \A d \in Op : seen[d] # None => seen[d].env \in Env /\ seen[d].env # e
  BY <1>t, <1>u, LocalFields DEF IInv, EnvCreation, Readings, TypeOK, Reading
<1>d. /\ raced' \in [Env -> SUBSET Nat]
      /\ \A f \in Env \ {e} : raced'[f] = raced[f]
      /\ \A d \in Op : pc[d] \in FlagTx => ids \in raced'[e]
  <2> DEFINE R == {loc[d].flag.id : d \in {d \in Op : pc[d] \in FlagTx}}
  <2>1. R \in SUBSET Nat
    BY <1>t, LocalFields DEF TypeOK, FlagRow
  <2>2. \A d \in Op : pc[d] \in FlagTx => ids \in R
    BY DEF IInv, FlagCreation
  <2> HIDE DEF R
  <2>3. raced' = [raced EXCEPT ![e] = R]
    BY DEF CreateEnvInsert, R
  <2> QED BY <1>t, <2>1, <2>2, <2>3 DEF TypeOK
<1>1. TypeOK'
  BY <1>t, <1>m, <1>u, <1>b, <1>d DEF Moves, TypeOK
<1>2. FlagCreation'
  BY <1>l, <1>m, <1>u DEF Moves, IInv, FlagCreation
<1>3. EnvCreation'
  <2>1. \A f \in live : born'[f] # 0
    BY <1>b, <1>o DEF IInv, EnvCreation
  <2>2. \A d \in Op : pc'[d] \in EnvTx => born'[loc'[d].env] # 0 /\ loc'[d].env \notin live
    BY <1>b, <1>o, <1>m, <1>r DEF Moves, IInv, EnvCreation
  <2>3. \A d, g \in Op : pc'[d] \in EnvTx /\ pc'[g] \in EnvTx /\ d # g => loc'[d].env # loc'[g].env
    BY <1>o, <1>m, <1>r DEF Moves, IInv, EnvCreation
  <2>4. \A d \in Op : pc'[d] = "env_seeded" /\ loc'[d].flag # NoFlag => loc'[d].base # {} /\ flag # None
    BY <1>m DEF Moves, IInv, EnvCreation
  <2>5. \A d \in Op : pc'[d] = "env_inserted" => loc'[d].flag = NoFlag
    BY <1>m, <1>r DEF Moves, IInv, EnvCreation
  <2> QED BY <1>u, <2>1, <2>2, <2>3, <2>4, <2>5 DEF EnvCreation
<1>4. Rows' /\ ConfiguredUnlessRaced'
  BY <1>u, <1>o, <1>d DEF IInv, Rows, ConfiguredUnlessRaced
<1>5. Edits'
  BY <1>l, <1>m DEF Moves, IInv, Edits
<1>6. Readings'
  BY <1>l, <1>m, <1>u, <1>r, <1>o, <1>b DEF Moves, IInv, Readings
<1>7. Overlap'
  <2>1. \A d, g \in Op : pc'[d] \in FlagTx /\ pc'[g] \in EnvTx => ids \in raced'[loc'[g].env]
    BY <1>l, <1>m, <1>r, <1>o, <1>d DEF Moves, IInv, Overlap
  <2>2. \A d \in Op : pc'[d] = "flag_seeded" => \A f \in live \ loc'[d].todo : ids \in raced'[f]
    BY <1>l, <1>m, <1>o, <1>d DEF Moves, IInv, Overlap
  <2>3. \A d \in Op : pc'[d] = "env_seeded" /\ loc'[d].flag = NoFlag /\ flag # None =>
           flag.id \in raced'[loc'[d].env]
    <3>1. "env_seeded" \in EnvTx
      BY Labels
    <3> QED BY <1>m, <1>o, <1>d, <3>1 DEF Moves, IInv, Overlap
  <2> QED BY <1>u, <2>1, <2>2, <2>3 DEF Overlap
<1> QED BY <1>1, <1>2, <1>3, <1>4, <1>5, <1>6, <1>7, <1>b DEF IInv

\* create_environment seeds a configuration of the flag it sees.
LEMMA CreateEnvSeedInv ==
    ASSUME IInv, torn' \in SUBSET Env, NEW c \in Op, CreateEnvSeed(c)
    PROVE  IInv'
<1>t. TypeOK /\ loc[c] \in Local /\ pc[c] = "env_inserted"
  BY DEF IInv, TypeOK, CreateEnvSeed
<1>l. /\ "env_seeded" \in Label /\ {"env_inserted", "env_seeded"} \subseteq EnvTx
      /\ "env_seeded" \notin FlagTx \cup Editing
      /\ "flag_seeded" \in FlagTx
  BY Labels
<1>u. UNCHANGED store
  BY DEF CreateEnvSeed, store
<1>1. ASSUME NEW r \in Local, Step(c, "env_seeded", r), r.env = loc[c].env,
             flag # None => r.flag = flag /\ r.base # {},
             flag = None => r = loc[c]
      PROVE  IInv'
  <2>m. Moves(c) /\ pc'[c] = "env_seeded" /\ loc'[c] = r /\ seen' = seen
    BY <1>1, <1>t, <1>l, StepType DEF Moves
  <2>n. flag # None => r.flag # NoFlag
    BY <1>1, <1>t DEF IInv, FlagCreation, NoFlag, TypeOK
  <2>1. TypeOK' /\ Numbered'
    BY <1>t, <1>u, <2>m DEF Moves, IInv, TypeOK, Numbered, store
  <2>2. FlagCreation'
    BY <1>l, <1>u, <2>m DEF Moves, IInv, FlagCreation, store
  <2>3. EnvCreation'
    BY <1>l, <1>t, <1>u, <1>1, <2>m DEF Moves, IInv, EnvCreation, store
  <2>4. Rows' /\ ConfiguredUnlessRaced'
    BY <1>u DEF IInv, Rows, ConfiguredUnlessRaced, store
  <2>5. Edits'
    BY <1>l, <2>m DEF Moves, IInv, Edits
  <2>6. Readings'
    BY <1>l, <1>t, <1>u, <1>1, <2>m DEF Moves, IInv, Readings, store
  <2>7. Overlap'
    BY <1>l, <1>t, <1>u, <1>1, <2>m, <2>n DEF Moves, IInv, Overlap, store
  <2> QED BY <2>1, <2>2, <2>3, <2>4, <2>5, <2>6, <2>7 DEF IInv
<1>2. CASE flag = None /\ Step(c, "env_seeded", loc[c])
  BY <1>1, <1>2, <1>t
<1>3. ASSUME flag # None, NEW base \in SeedBase,
             Step(c, "env_seeded", [loc[c] EXCEPT !.flag = flag, !.base = base])
      PROVE  IInv'
  <2> DEFINE r == [loc[c] EXCEPT !.flag = flag, !.base = base]
  <2>1. base \in SUBSET Variant /\ base # {}
    BY <1>3, <1>t, SeedBaseType
  <2>2. flag \in FlagRow
    BY <1>3, <1>t DEF TypeOK
  <2>3. r \in Local /\ r.env = loc[c].env /\ r.flag = flag /\ r.base = base
    BY <1>t, <2>1, <2>2 DEF Local
  <2> HIDE DEF r
  <2>4. Step(c, "env_seeded", r)
    BY <1>3 DEF r
  <2> QED BY <1>1, <1>3, <2>1, <2>3, <2>4
<1>4. CASE Done(c)
  BY <1>4, <1>u, DoneQuiet
<1> QED BY <1>2, <1>3, <1>4 DEF CreateEnvSeed
\* create_environment commits.
LEMMA CreateEnvCommitInv ==
    ASSUME IInv, torn' \in SUBSET Env, NEW c \in Op, CreateEnvCommit(c)
    PROVE  IInv'
<1> DEFINE e == loc[c].env
<1>t. TypeOK /\ loc[c] \in Local /\ e \in Env
  BY LocalFields DEF IInv, TypeOK
<1>l. /\ {"env_inserted", "env_seeded"} \subseteq EnvTx
      /\ "idle" \notin FlagTx \cup EnvTx \cup Editing
      /\ "flag_seeded" \in FlagTx
  BY Labels
<1>m. Moves(c) /\ pc'[c] = "idle" /\ seen' = seen
  BY <1>t, DoneType DEF Moves, CreateEnvCommit
<1>u. /\ UNCHANGED <<born, flag, ids, segs, measured, raced>> /\ pc[c] = "env_seeded"
      /\ live' = live \cup {e}
      /\ born[e] # 0 /\ e \notin live
      /\ \A d \in Op \ {c} : pc[d] \in EnvTx => loc[d].env # e
      /\ \A d \in Op : seen[d] # None => seen[d].env # e
  BY <1>l DEF CreateEnvCommit, IInv, EnvCreation, Readings
<1>g. /\ configs' \in [Env -> Config \cup {None}]
      /\ \A f \in Env \ {e} : configs'[f] = configs[f]
      /\ loc[c].flag = NoFlag => configs'[e] = configs[e]
      /\ loc[c].flag # NoFlag => configs'[e] # None /\ flag # None
  <2>1. CASE loc[c].flag = NoFlag
    BY <2>1, <1>t DEF CreateEnvCommit, TypeOK
  <2>2. CASE loc[c].flag # NoFlag
    <3>1. loc[c].base # {} /\ flag # None
      BY <2>2, <1>u DEF IInv, EnvCreation
    <3>2. Seeded(loc[c].base) \in Config /\ Seeded(loc[c].base) # None
      BY <1>t, <3>1, LocalFields, SeededType
    <3>3. configs' = [configs EXCEPT ![e] = Seeded(loc[c].base)]
      BY <2>2 DEF CreateEnvCommit
    <3> QED BY <2>2, <3>1, <3>2, <3>3, <1>t DEF TypeOK
  <2> QED BY <2>1, <2>2
<1> HIDE DEF e
<1>1. TypeOK' /\ Numbered'
  BY <1>t, <1>m, <1>u, <1>g DEF Moves, IInv, TypeOK, Numbered
<1>2. FlagCreation'
  BY <1>l, <1>m, <1>u DEF Moves, IInv, FlagCreation
<1>3. EnvCreation'
  BY <1>l, <1>m, <1>u DEF Moves, IInv, EnvCreation
<1>4. Rows'
  BY <1>u, <1>g DEF IInv, Rows
<1>5. ConfiguredUnlessRaced'
  <2>1. flag # None => configs'[e] # None \/ flag.id \in raced[e]
    BY <1>u, <1>g DEF IInv, Overlap, e
  <2>2. \A f \in live : configs'[f] = configs[f]
    BY <1>t, <1>u, <1>g DEF TypeOK
  <2> QED BY <1>u, <2>1, <2>2 DEF IInv, ConfiguredUnlessRaced
<1>6. Edits'
  BY <1>l, <1>m DEF Moves, IInv, Edits
<1>7. Readings'
  <2>1. \A d \in Op : seen[d] # None => configs'[seen[d].env] = configs[seen[d].env]
    BY <1>t, <1>u, <1>g DEF TypeOK, Reading
  <2> QED BY <1>l, <1>m, <1>u, <2>1 DEF Moves, IInv, Readings
<1>8. Overlap'
  <2>1. \A d \in Op : pc[d] \in FlagTx => ids \in raced[e]
    BY <1>l, <1>u DEF IInv, Overlap, e
  <2> QED BY <1>l, <1>m, <1>u, <2>1 DEF Moves, IInv, Overlap
<1> QED BY <1>1, <1>2, <1>3, <1>4, <1>5, <1>6, <1>7, <1>8 DEF IInv

\* delete_environment.
LEMMA DeleteEnvironmentInv ==
    ASSUME IInv, torn' \in SUBSET Env, NEW e \in Env, DeleteEnvironment(e)
    PROVE  IInv'
<1>u. /\ UNCHANGED <<born, flag, ids, pc, loc, seen, raced>>
      /\ live' = live \ {e}
      /\ \A c \in Op : pc[c] = "flag_seeded" => e \notin loc[c].todo
  BY DEF DeleteEnvironment
<1>g. /\ configs'[e] = None
      /\ \A f \in Env \ {e} : configs'[f] = configs[f]
  BY DEF DeleteEnvironment, IInv, TypeOK
<1>1. TypeOK' /\ Numbered'
  BY DEF DeleteEnvironment, IInv, TypeOK, Numbered
<1>2. FlagCreation' /\ EnvCreation'
  BY <1>u DEF IInv, FlagCreation, EnvCreation
<1>3. Rows'
  BY <1>u, <1>g DEF IInv, Rows
<1>4. ConfiguredUnlessRaced'
  BY <1>u, <1>g DEF IInv, ConfiguredUnlessRaced, TypeOK
<1>5. Edits'
  BY <1>u DEF IInv, Edits
<1>6. Readings'
  <2>1. \A c \in Op : seen[c] # None /\ seen[c].env # e => configs'[seen[c].env] = configs[seen[c].env]
    BY <1>g DEF IInv, TypeOK, Reading
  <2> QED BY <1>u, <2>1 DEF IInv, Readings
<1>7. Overlap'
  BY <1>u DEF IInv, Overlap
<1> QED BY <1>1, <1>2, <1>3, <1>4, <1>5, <1>6, <1>7 DEF IInv

\* An operator reads a configuration.
LEMMA ReadConfigInv ==
    ASSUME IInv, torn' \in SUBSET Env, NEW c \in Op, NEW e \in Env, ReadConfig(c, e)
    PROVE  IInv'
<1>l. "idle" \notin FlagTx \cup EnvTx \cup Editing
  BY Labels
<1>u. UNCHANGED <<live, born, flag, ids, configs, segs, measured, pc, loc, raced>> /\ pc[c] = "idle"
  BY DEF ReadConfig
<1>f. configs[e] # None =>
        /\ e \in live /\ flag # None
        /\ flag \in FlagRow /\ flag.id \in Nat /\ flag.id \in 1 .. ids
        /\ configs[e] \in Config /\ configs[e].version \in Nat
        /\ born[e] # 0
        /\ \A d \in Op : pc[d] \notin FlagTx
        /\ \A d \in Op : pc[d] \in EnvTx => loc[d].env # e
  <2> SUFFICES ASSUME configs[e] # None
               PROVE  /\ e \in live /\ flag # None
                      /\ flag \in FlagRow /\ flag.id \in Nat /\ flag.id \in 1 .. ids
                      /\ configs[e] \in Config /\ configs[e].version \in Nat
                      /\ born[e] # 0
                      /\ \A d \in Op : pc[d] \notin FlagTx
                      /\ \A d \in Op : pc[d] \in EnvTx => loc[d].env # e
    OBVIOUS
  <2>1. e \in live /\ flag # None
    BY DEF IInv, Rows
  <2>2. flag \in FlagRow /\ flag.id \in Nat /\ configs[e] \in Config /\ configs[e].version \in Nat
    BY <2>1 DEF IInv, TypeOK, FlagRow, Config
  <2> QED BY <2>1, <2>2 DEF IInv, FlagCreation, EnvCreation
<1>s. /\ seen' \in [Op -> Reading \cup {None}]
      /\ \A d \in Op \ {c} : seen'[d] = seen[d]
      /\ seen'[c] = seen[c]
           \/ (configs[e] # None /\ seen'[c].env = e /\ seen'[c].id = flag.id /\ seen'[c].config = configs[e])
  <2>1. CASE configs[e] = None
    BY <2>1 DEF ReadConfig, IInv, TypeOK
  <2>2. CASE configs[e] # None
    <3>1. [env |-> e, id |-> flag.id, config |-> configs[e]] \in Reading
      BY <2>2, <1>f DEF Reading
    <3>2. seen' = [seen EXCEPT ![c] = [env |-> e, id |-> flag.id, config |-> configs[e]]]
      BY <2>2 DEF ReadConfig, IInv, TypeOK
    <3> QED BY <2>2, <3>1, <3>2 DEF IInv, TypeOK
  <2> QED BY <2>1, <2>2
<1>1. TypeOK' /\ Numbered'
  BY <1>u, <1>s DEF IInv, TypeOK, Numbered
<1>2. FlagCreation' /\ EnvCreation' /\ Rows' /\ Overlap' /\ ConfiguredUnlessRaced'
  BY <1>u DEF IInv, FlagCreation, EnvCreation, Rows, Overlap, ConfiguredUnlessRaced
<1>3. Edits'
  BY <1>l, <1>u, <1>s DEF IInv, Edits
<1>4. Readings'
  <2> SUFFICES ASSUME NEW a \in Op, seen'[a] # None
               PROVE  /\ born[seen'[a].env] # 0
                      /\ seen'[a].id <= ids
                      /\ \A d \in Op : pc[d] \in FlagTx => seen'[a].id # ids
                      /\ \A d \in Op : pc[d] \in EnvTx => loc[d].env # seen'[a].env
                      /\ flag # None /\ flag.id = seen'[a].id /\ seen'[a].env \in live =>
                            Follows(configs[seen'[a].env], seen'[a].config)
    BY <1>u DEF Readings, Follows
  <2>1. CASE seen'[a] = seen[a]
    BY <2>1 DEF IInv, Readings
  <2>2. CASE a = c /\ seen'[a] # seen[a]
    <3>1. ids \in Nat
      BY DEF IInv, TypeOK
    <3> QED BY <2>2, <3>1, <1>s, <1>f DEF Follows
  <2> QED BY <2>1, <2>2, <1>s
<1> QED BY <1>1, <1>2, <1>3, <1>4 DEF IInv
\* update_config has validated a body.
LEMMA EditingStep ==
    ASSUME IInv, torn' \in SUBSET Env,
           NEW c \in Op, NEW l \in Editing, NEW r \in Local, Step(c, l, r), UNCHANGED store,
           r.base # {},
           r.want # 0 => /\ seen[c] # None
                         /\ seen[c].env = r.env
                         /\ seen[c].config.version = r.want
    PROVE  IInv'
<1> USE DEF store
<1>l. /\ l \in Label /\ l \notin FlagTx \cup EnvTx
      /\ "flag_seeded" \in FlagTx /\ {"env_inserted", "env_seeded"} \subseteq EnvTx
  BY Labels
<1>m. Moves(c) /\ pc'[c] = l /\ loc'[c] = r /\ seen' = seen
  BY <1>l, StepType DEF Moves, IInv
<1>1. TypeOK' /\ Numbered'
  BY <1>m DEF Moves, IInv, TypeOK, Numbered
<1>2. FlagCreation'
  BY <1>l, <1>m DEF Moves, IInv, FlagCreation
<1>3. EnvCreation'
  BY <1>l, <1>m DEF Moves, IInv, EnvCreation
<1>4. Rows' /\ ConfiguredUnlessRaced'
  BY DEF IInv, Rows, ConfiguredUnlessRaced
<1>5. Edits'
  BY <1>m DEF Moves, IInv, Edits
<1>6. Readings'
  BY <1>l, <1>m DEF Moves, IInv, Readings
<1>7. Overlap'
  BY <1>l, <1>m DEF Moves, IInv, Overlap
<1> QED BY <1>1, <1>2, <1>3, <1>4, <1>5, <1>6, <1>7 DEF IInv

\* update_config begins.
LEMMA UpdateConfigFindInv ==
    ASSUME IInv, torn' \in SUBSET Env, NEW c \in Op, NEW e \in Env, NEW b \in Body, NEW w \in Expected(c, e),
           UpdateConfigFind(c, e, b, w)
    PROVE  IInv'
<1> DEFINE r == [Blank EXCEPT !.env = e, !.flag = flag, !.base = b.base, !.rules = b.rules,
                              !.refs = b.refs, !.want = w]
<1>1. b.base \in SUBSET Variant /\ b.base # {} /\ b.rules \in SUBSET Variant /\ b.refs \in SUBSET Segment
  BY StoreAssumption DEF Draft
<1>2. flag \in FlagRow
  BY DEF UpdateConfigFind, IInv, TypeOK
<1>3. w \in Nat /\ (w # 0 => seen[c] # None /\ seen[c].env = e /\ seen[c].config.version = w)
  BY ExpectedType DEF IInv
<1>4. r \in Local /\ r.env = e /\ r.base = b.base /\ r.want = w
  BY <1>1, <1>2, <1>3, BlankType DEF Local
<1> HIDE DEF r
<1>5. Step(c, "config_found", r) /\ UNCHANGED store
  BY DEF UpdateConfigFind, r, store
<1>6. "config_found" \in Editing
  BY Labels
<1> QED BY <1>1, <1>3, <1>4, <1>5, <1>6, EditingStep

\* update_config checks the segments.
LEMMA UpdateConfigReferencesInv ==
    ASSUME IInv, torn' \in SUBSET Env, NEW c \in Op, UpdateConfigReferences(c)
    PROVE  IInv'
<1>1. UNCHANGED store /\ pc[c] = "config_found" /\ {"config_found", "config_ready"} \subseteq Editing
  BY Labels DEF UpdateConfigReferences, store
<1>2. CASE Step(c, "config_ready", loc[c])
  <2>1. loc[c] \in Local
    BY DEF IInv, TypeOK
  <2> QED BY <1>1, <1>2, <2>1, EditingStep DEF IInv, Edits
<1>3. CASE Done(c)
  BY <1>1, <1>3, DoneQuiet
<1> QED BY <1>2, <1>3 DEF UpdateConfigReferences

\* upsert_config.
LEMMA UpsertConfigInv ==
    ASSUME IInv, torn' \in SUBSET Env, NEW c \in Op, UpsertConfig(c)
    PROVE  IInv'
<1> DEFINE e == loc[c].env
<1>t. TypeOK /\ loc[c] \in Local /\ e \in Env
  BY LocalFields DEF IInv, TypeOK
<1>l. /\ "idle" \notin FlagTx \cup EnvTx \cup Editing /\ "config_ready" \in Editing
      /\ "flag_seeded" \in FlagTx /\ {"env_inserted", "env_seeded"} \subseteq EnvTx
  BY Labels
<1>u. UNCHANGED <<live, born, flag, ids, segs, measured, raced>> /\ pc[c] = "config_ready" /\ Done(c)
  BY DEF UpsertConfig
<1>1. CASE UNCHANGED configs
  BY <1>1, <1>u, DoneQuiet DEF store
<1>2. CASE Current(c) /\ e \in live /\ configs' = [configs EXCEPT ![e] = Written(c)]
  <2>m. Moves(c) /\ pc'[c] = "idle" /\ seen' = seen
    BY <1>t, <1>u, DoneType DEF Moves
  <2>w. /\ Written(c) \in Config /\ Written(c) # None
        /\ configs[e] # None => Written(c).version = configs[e].version + 1
    BY <1>t, <1>l, <1>u, WrittenType DEF IInv, Edits
  <2>g. /\ configs' \in [Env -> Config \cup {None}]
        /\ configs'[e] = Written(c)
        /\ \A f \in Env \ {e} : configs'[f] = configs[f]
    BY <1>t, <1>2, <2>w DEF TypeOK
  <2>c. flag # None /\ e \in live
    BY <1>2 DEF Current
  <2> HIDE DEF e
  <2>1. TypeOK' /\ Numbered'
    BY <1>t, <1>u, <2>m, <2>g DEF Moves, IInv, TypeOK, Numbered
  <2>2. FlagCreation'
    BY <1>l, <1>u, <2>m DEF Moves, IInv, FlagCreation
  <2>3. EnvCreation'
    BY <1>l, <1>u, <2>m DEF Moves, IInv, EnvCreation
  <2>4. Rows'
    BY <1>u, <2>g, <2>c DEF IInv, Rows
  <2>5. ConfiguredUnlessRaced'
    BY <1>t, <1>u, <2>g, <2>w DEF IInv, ConfiguredUnlessRaced, TypeOK
  <2>6. Edits'
    BY <1>l, <2>m DEF Moves, IInv, Edits
  <2>7. Readings'
    <3>1. \A a \in Op : seen[a] # None =>
             (flag # None /\ flag.id = seen[a].id /\ seen[a].env \in live =>
                 Follows(configs'[seen[a].env], seen[a].config))
      <4> SUFFICES ASSUME NEW a \in Op, seen[a] # None,
                          flag # None, flag.id = seen[a].id, seen[a].env \in live
                   PROVE  Follows(configs'[seen[a].env], seen[a].config)
        OBVIOUS
      <4>1. Follows(configs[seen[a].env], seen[a].config)
        BY DEF IInv, Readings
      <4>2. CASE seen[a].env # e
        <5>1. seen[a].env \in Env
          BY <1>t DEF TypeOK
        <5> QED BY <4>1, <4>2, <5>1, <2>g
      <4>3. CASE seen[a].env = e
        <5>1. configs[e] \in Config /\ seen[a] \in Reading
          BY <1>t, <4>1, <4>3 DEF TypeOK, Follows
        <5>2. configs[e].version \in Nat /\ seen[a].config.version \in Nat
          BY <5>1 DEF Config, Reading
        <5> QED BY <4>1, <4>3, <5>2, <2>g, <2>w DEF Follows
      <4> QED BY <4>2, <4>3
    <3> QED BY <1>l, <1>u, <2>m, <3>1 DEF Moves, IInv, Readings, Follows
  <2>8. Overlap'
    BY <1>l, <1>u, <2>m DEF Moves, IInv, Overlap
  <2> QED BY <2>1, <2>2, <2>3, <2>4, <2>5, <2>6, <2>7, <2>8 DEF IInv
<1> QED BY <1>1, <1>2 DEF UpsertConfig

\* update writes the flag's variants.
LEMMA UpdateFlagApplyInv ==
    ASSUME IInv, torn' \in SUBSET Env, NEW c \in Op, UpdateFlagApply(c)
    PROVE  IInv'
<1>t. TypeOK /\ loc[c] \in Local
  BY DEF IInv, TypeOK
<1>l. /\ "idle" \notin FlagTx \cup EnvTx \cup Editing
      /\ "flag_seeded" \in FlagTx /\ {"env_inserted", "env_seeded"} \subseteq EnvTx
  BY Labels
<1>u. UNCHANGED <<live, born, ids, configs, segs, measured, raced>> /\ Done(c)
  BY DEF UpdateFlagApply
<1>m. Moves(c) /\ pc'[c] = "idle" /\ seen' = seen
  BY <1>t, <1>u, DoneType DEF Moves
<1>f. /\ flag' \in FlagRow \cup {None}
      /\ flag' # None <=> flag # None
      /\ flag # None => flag'.id = flag.id
  BY <1>t, LocalFields, NoneIsNoRow DEF UpdateFlagApply, Current, TypeOK
<1>n. flag = None => flag' = None
  BY <1>f
<1>1. TypeOK' /\ Numbered'
  BY <1>t, <1>u, <1>m, <1>f DEF Moves, IInv, TypeOK, Numbered
<1>2. FlagCreation'
  BY <1>l, <1>u, <1>m, <1>f, <1>n DEF Moves, IInv, FlagCreation
<1>3. EnvCreation'
  BY <1>l, <1>u, <1>m, <1>f DEF Moves, IInv, EnvCreation
<1>4. Rows' /\ ConfiguredUnlessRaced'
  BY <1>u, <1>f DEF IInv, Rows, ConfiguredUnlessRaced
<1>5. Edits'
  BY <1>l, <1>m DEF Moves, IInv, Edits
<1>6. Readings'
  BY <1>l, <1>u, <1>m, <1>f DEF Moves, IInv, Readings
<1>7. Overlap'
  BY <1>l, <1>u, <1>m, <1>f DEF Moves, IInv, Overlap
<1> QED BY <1>1, <1>2, <1>3, <1>4, <1>5, <1>6, <1>7 DEF IInv

\* delete_flag.
LEMMA DeleteFlagInv ==
    ASSUME IInv, torn' \in SUBSET Env, NEW c \in Op, DeleteFlag(c)
    PROVE  IInv'
<1>t. TypeOK
  BY DEF IInv
<1>l. /\ "idle" \notin FlagTx \cup EnvTx \cup Editing
      /\ "flag_seeded" \in FlagTx /\ {"env_inserted", "env_seeded"} \subseteq EnvTx
  BY Labels
<1>u. /\ UNCHANGED <<live, born, ids, segs, measured, raced>> /\ Done(c)
      /\ \A d \in Op : pc[d] = "env_seeded" => loc[d].flag = NoFlag
  BY DEF DeleteFlag
<1>1. CASE UNCHANGED <<flag, configs>>
  BY <1>1, <1>u, DoneQuiet DEF store
<1>2. CASE flag' = None /\ configs' = [e \in Env |-> None]
  <2>m. Moves(c) /\ pc'[c] = "idle" /\ seen' = seen
    BY <1>t, <1>u, DoneType DEF Moves
  <2>1. TypeOK' /\ Numbered'
    BY <1>t, <1>u, <1>2, <2>m DEF Moves, IInv, TypeOK, Numbered
  <2>2. FlagCreation'
    BY <1>l, <1>u, <1>2, <2>m DEF Moves, IInv, FlagCreation
  <2>3. EnvCreation'
    BY <1>l, <1>u, <2>m DEF Moves, IInv, EnvCreation
  <2>4. Rows' /\ ConfiguredUnlessRaced'
    BY <1>2 DEF Rows, ConfiguredUnlessRaced
  <2>5. Edits'
    BY <1>l, <2>m DEF Moves, IInv, Edits
  <2>6. Readings'
    BY <1>l, <1>u, <1>2, <2>m DEF Moves, IInv, Readings
  <2>7. Overlap'
    BY <1>l, <1>u, <1>2, <2>m DEF Moves, IInv, Overlap
  <2> QED BY <2>1, <2>2, <2>3, <2>4, <2>5, <2>6, <2>7 DEF IInv
<1> QED BY <1>1, <1>2 DEF DeleteFlag

\* Segments and experiments take no part in the argument.
LEMMA ElsewhereInv ==
    ASSUME IInv, torn' \in SUBSET Env, UNCHANGED <<live, born, flag, ids, configs, pc, loc, seen, raced>>,
           segs' \in [Env -> SUBSET Segment], measured' \in SUBSET Env
    PROVE  IInv'
<1>1. TypeOK' /\ Numbered'
  BY DEF IInv, TypeOK, Numbered
<1>2. FlagCreation' /\ EnvCreation' /\ Rows' /\ ConfiguredUnlessRaced'
  BY DEF IInv, FlagCreation, EnvCreation, Rows, ConfiguredUnlessRaced
<1>3. Edits' /\ Readings' /\ Overlap'
  BY DEF IInv, Edits, Readings, Follows, Overlap
<1> QED BY <1>1, <1>2, <1>3 DEF IInv

\* DELETE FROM segments, seen from the handlers.
LEMMA DeleteSegmentInv ==
    ASSUME IInv, torn' \in SUBSET Env, NEW c \in Op, DeleteSegment(c)
    PROVE  IInv'
<1>t. TypeOK /\ loc[c] \in Local
  BY DEF IInv, TypeOK
<1>l. /\ "idle" \notin FlagTx \cup EnvTx \cup Editing
      /\ "flag_seeded" \in FlagTx /\ {"env_inserted", "env_seeded"} \subseteq EnvTx
  BY Labels
<1>u. UNCHANGED <<live, born, flag, ids, configs, measured, raced>> /\ Done(c)
  BY DEF DeleteSegment
<1>m. Moves(c) /\ pc'[c] = "idle" /\ seen' = seen
  BY <1>t, <1>u, DoneType DEF Moves
<1>s. segs' \in [Env -> SUBSET Segment]
  BY <1>t, LocalFields DEF DeleteSegment, TypeOK
<1>1. TypeOK' /\ Numbered'
  BY <1>t, <1>u, <1>m, <1>s DEF Moves, IInv, TypeOK, Numbered
<1>2. FlagCreation'
  BY <1>l, <1>u, <1>m DEF Moves, IInv, FlagCreation
<1>3. EnvCreation'
  BY <1>l, <1>u, <1>m DEF Moves, IInv, EnvCreation
<1>4. Rows' /\ ConfiguredUnlessRaced'
  BY <1>u DEF IInv, Rows, ConfiguredUnlessRaced
<1>5. Edits'
  BY <1>l, <1>m DEF Moves, IInv, Edits
<1>6. Readings'
  BY <1>l, <1>u, <1>m DEF Moves, IInv, Readings
<1>7. Overlap'
  BY <1>l, <1>u, <1>m DEF Moves, IInv, Overlap
<1> QED BY <1>1, <1>2, <1>3, <1>4, <1>5, <1>6, <1>7 DEF IInv
-----------------------------------------------------------------------------
(* The inductive invariant *)

\* Only environments are torn.
LEMMA TornType ==
    ASSUME TypeOK, [Next]_vars
    PROVE  torn' \in SUBSET Env
<1>t. torn \in SUBSET Env /\ \A c \in Op : loc[c].env \in Env
  BY LocalFields DEF TypeOK
<1>1. ASSUME NEW c \in Op, Begin(c) PROVE torn' \in SUBSET Env
  BY <1>t, <1>1 DEF Begin, CreateFlagInsert, CreateEnvInsert, ReadConfig, UpdateConfigFind,
     UpdateFlagFind, DeleteFlagCheck, DeleteSegmentCheck
<1>2. ASSUME NEW c \in Op, Proceed(c) PROVE torn' \in SUBSET Env
  <2>0. ASSUME NEW E \in SUBSET Env, Tears(E) PROVE torn' \in SUBSET Env
    BY <1>t, <2>0 DEF Tears
  <2>1. CASE CreateEnvSeed(c) \/ CreateEnvCommit(c) \/ UpsertConfig(c) \/ DeleteSegment(c)
    <3>1. SeedTears(c) \/ ConfigTears(loc[c].env) \/ SegmentTears(loc[c].env) \/ torn' = torn
      BY <2>1 DEF CreateEnvSeed, CreateEnvCommit, UpsertConfig, DeleteSegment
    <3> QED BY <1>t, <2>0, <3>1 DEF SeedTears, ConfigTears, SegmentTears
  <2>2. CASE UpdateFlagApply(c)
    BY <1>t, <2>2 DEF UpdateFlagApply, VariantsTear, Tears
  <2>3. CASE DeleteFlag(c)
    BY <1>t, <2>3 DEF DeleteFlag
  <2> QED BY <1>t, <1>2, <2>1, <2>2, <2>3 DEF Proceed, CreateFlagSeed, CreateFlagCommit, Rollback,
     UpdateConfigReferences, UpdateFlagList, UpdateFlagCheck
<1>3. ASSUME NEW e \in Env, DeleteEnvironment(e) \/ CreateExperiment(e) \/ DeleteExperiment(e)
      PROVE  torn' \in SUBSET Env
  BY <1>t, <1>3 DEF DeleteEnvironment, CreateExperiment, DeleteExperiment
<1>4. ASSUME NEW e \in Env, NEW s \in Segment, CreateSegment(e, s) PROVE torn' \in SUBSET Env
  BY <1>t, <1>4 DEF CreateSegment
<1>5. CASE UNCHANGED vars
  BY <1>t, <1>5 DEF vars
<1> QED BY <1>1, <1>2, <1>3, <1>4, <1>5 DEF Next

LEMMA InitInv == Init => IInv
<1> SUFFICES ASSUME Init PROVE IInv
  OBVIOUS
<1>l. "idle" \in Label /\ "idle" \notin FlagTx \cup EnvTx \cup Editing
      /\ "flag_seeded" \in FlagTx /\ {"env_inserted", "env_seeded"} \subseteq EnvTx
  BY Labels
<1>1. TypeOK
  BY <1>l, BlankType DEF Init, TypeOK
<1>2. Numbered
  <2>1. {f \in Env : born[f] # 0} = {}
    BY DEF Init
  <2> QED BY <2>1, FS_EmptySet DEF Numbered
<1>3. FlagCreation /\ EnvCreation /\ Rows /\ ConfiguredUnlessRaced
  BY <1>l DEF Init, FlagCreation, EnvCreation, Rows, ConfiguredUnlessRaced
<1>4. Edits /\ Readings /\ Overlap
  BY <1>l DEF Init, Edits, Readings, Overlap
<1> QED BY <1>1, <1>2, <1>3, <1>4 DEF IInv

\* A request begins.
LEMMA BeginInv ==
    ASSUME IInv, torn' \in SUBSET Env, NEW c \in Op, Begin(c)
    PROVE  IInv'
<1>1. ASSUME NEW V \in VariantSet \ {{}}, NEW b \in Body, CreateFlagInsert(c, V, b) PROVE IInv'
  BY <1>1, CreateFlagInsertInv
<1>2. ASSUME NEW e \in Env, CreateEnvInsert(c, e) PROVE IInv'
  BY <1>2, CreateEnvInsertInv
<1>3. ASSUME NEW e \in Env, ReadConfig(c, e) PROVE IInv'
  BY <1>3, ReadConfigInv
<1>4. ASSUME NEW e \in Env, NEW b \in Body, NEW w \in Expected(c, e), UpdateConfigFind(c, e, b, w)
      PROVE  IInv'
  BY <1>4, UpdateConfigFindInv
<1>5. ASSUME NEW V \in VariantSet, UpdateFlagFind(c, V) PROVE IInv'
  <2> DEFINE r == [Blank EXCEPT !.flag = [id |-> flag.id, variants |-> V]]
  <2>1. [id |-> flag.id, variants |-> V] \in FlagRow
    BY <1>5, StoreAssumption DEF UpdateFlagFind, IInv, TypeOK, FlagRow
  <2>2. r \in Local
    BY <2>1, BlankType DEF Local
  <2>3. Step(c, "flag_found", r) /\ UNCHANGED store
    BY <1>5 DEF UpdateFlagFind, store
  <2> HIDE DEF r
  <2> QED BY <2>2, <2>3, StepQuiet
<1>6. CASE DeleteFlagCheck(c)
  <2>1. Step(c, "flag_deleting", Blank) /\ UNCHANGED store
    BY <1>6 DEF DeleteFlagCheck, store
  <2> QED BY <2>1, BlankType, StepQuiet
<1>7. ASSUME NEW e \in Env, NEW s \in Segment, DeleteSegmentCheck(c, e, s) PROVE IInv'
  <2> DEFINE r == [Blank EXCEPT !.env = e, !.seg = s]
  <2>1. r \in Local
    BY BlankType DEF Local
  <2>2. Step(c, "segment_deleting", r) /\ UNCHANGED store
    BY <1>7 DEF DeleteSegmentCheck, store
  <2> HIDE DEF r
  <2> QED BY <2>1, <2>2, StepQuiet
<1> QED BY <1>1, <1>2, <1>3, <1>4, <1>5, <1>6, <1>7 DEF Begin

\* A request proceeds.
LEMMA ProceedInv ==
    ASSUME IInv, torn' \in SUBSET Env, NEW c \in Op, Proceed(c)
    PROVE  IInv'
<1>t. loc[c] \in Local /\ live \in SUBSET Env
  BY DEF IInv, TypeOK
<1>1. CASE CreateFlagSeed(c) \/ CreateFlagCommit(c)
  BY <1>1, CreateFlagSeedInv, CreateFlagCommitInv
<1>2. CASE CreateEnvSeed(c) \/ CreateEnvCommit(c)
  BY <1>2, CreateEnvSeedInv, CreateEnvCommitInv
<1>3. CASE Rollback(c)
  BY <1>3, DoneQuiet DEF Rollback, store
<1>4. CASE UpdateConfigReferences(c) \/ UpsertConfig(c)
  BY <1>4, UpdateConfigReferencesInv, UpsertConfigInv
<1>5. CASE UpdateFlagList(c)
  <2>1. [loc[c] EXCEPT !.todo = live] \in Local
    BY <1>t DEF Local
  <2>2. Step(c, "flag_checking", [loc[c] EXCEPT !.todo = live]) /\ UNCHANGED store
    BY <1>5 DEF UpdateFlagList, store
  <2> QED BY <2>1, <2>2, StepQuiet
<1>6. CASE UpdateFlagApply(c)
  BY <1>6, UpdateFlagApplyInv
<1>7. ASSUME NEW e \in Env, UpdateFlagCheck(c, e) PROVE IInv'
  <2>1. [loc[c] EXCEPT !.todo = @ \ {e}] \in Local
    BY <1>t DEF Local
  <2>2. Step(c, "flag_checking", [loc[c] EXCEPT !.todo = @ \ {e}]) \/ Done(c)
    BY <1>7 DEF UpdateFlagCheck
  <2>3. UNCHANGED store
    BY <1>7 DEF UpdateFlagCheck, store
  <2> QED BY <2>1, <2>2, <2>3, StepQuiet, DoneQuiet
<1>8. CASE DeleteFlag(c) \/ DeleteSegment(c)
  BY <1>8, DeleteFlagInv, DeleteSegmentInv
<1> QED BY <1>1, <1>2, <1>3, <1>4, <1>5, <1>6, <1>7, <1>8 DEF Proceed

\* Every step preserves the invariant.
LEMMA NextInv == IInv /\ [Next]_vars => IInv'
<1> SUFFICES ASSUME IInv, [Next]_vars PROVE IInv'
  OBVIOUS
<1>t. torn' \in SUBSET Env
  BY TornType DEF IInv
<1>1. ASSUME NEW c \in Op, Begin(c) \/ Proceed(c) PROVE IInv'
  BY <1>t, <1>1, BeginInv, ProceedInv
<1>2. ASSUME NEW e \in Env, DeleteEnvironment(e) PROVE IInv'
  BY <1>t, <1>2, DeleteEnvironmentInv
<1>3. ASSUME NEW e \in Env, CreateExperiment(e) \/ DeleteExperiment(e) PROVE IInv'
  BY <1>t, <1>3, ElsewhereInv DEF CreateExperiment, DeleteExperiment, IInv, TypeOK
<1>4. ASSUME NEW e \in Env, NEW s \in Segment, CreateSegment(e, s) PROVE IInv'
  BY <1>t, <1>4, ElsewhereInv DEF CreateSegment, IInv, TypeOK
<1>5. CASE UNCHANGED vars
  BY <1>t, <1>5, ElsewhereInv DEF vars, IInv, TypeOK
<1> QED BY <1>1, <1>2, <1>3, <1>4, <1>5 DEF Next

LEMMA Inductive == Spec => []IInv
BY InitInv, NextInv, PTL DEF Spec

\* A step moves at most the handler of its own request.
LEMMA OwnSteps ==
    ASSUME IInv, NEW c \in Op, NEW d \in Op, c # d, Begin(d) \/ Proceed(d)
    PROVE  pc'[c] = pc[c]
<1>p. pc \in [Op -> Label]
  BY DEF IInv, TypeOK
<1>1. CASE Begin(d)
  BY <1>p, <1>1 DEF Begin, CreateFlagInsert, CreateEnvInsert, ReadConfig, UpdateConfigFind,
     UpdateFlagFind, DeleteFlagCheck, DeleteSegmentCheck, Step
<1>2. CASE Proceed(d)
  BY <1>p, <1>2 DEF Proceed, CreateFlagSeed, CreateFlagCommit, CreateEnvSeed, CreateEnvCommit,
     Rollback, UpdateConfigReferences, UpsertConfig, UpdateFlagList, UpdateFlagApply,
     UpdateFlagCheck, DeleteFlag, DeleteSegment, Step, Done
<1> QED BY <1>1, <1>2

\* A validated edit ends by the statement that writes it.
LEMMA ReadyUpserts ==
    ASSUME IInv, NEW c \in Op, Next, pc[c] = "config_ready", pc'[c] = "idle"
    PROVE  UpsertConfig(c)
<1>1. PICK d \in Op : Begin(d) \/ Proceed(d)
  BY DEF Next, DeleteEnvironment, CreateExperiment, DeleteExperiment, CreateSegment
<1>2. d = c
  BY <1>1, OwnSteps
<1>3. ~Begin(c)
  BY DEF Begin, CreateFlagInsert, CreateEnvInsert, ReadConfig, UpdateConfigFind,
     UpdateFlagFind, DeleteFlagCheck, DeleteSegmentCheck
<1>4. "config_ready" \notin FlagTx \cup EnvTx
  BY Labels
<1> QED BY <1>1, <1>2, <1>3, <1>4 DEF Proceed, CreateFlagSeed, CreateFlagCommit, CreateEnvSeed,
     CreateEnvCommit, Rollback, UpdateConfigReferences, UpdateFlagList, UpdateFlagApply,
     UpdateFlagCheck, DeleteFlag, DeleteSegment

-----------------------------------------------------------------------------
(* The theorems *)

\* The rows, the handlers' locals and what the operators read stay within their
\* types, whichever statements of whichever handlers interleave.
THEOREM StoreTypeCorrect == Spec => []TypeOK
<1>1. IInv => TypeOK
  BY DEF IInv
<1> QED BY <1>1, Inductive, PTL

\* create_flag and create_environment: a configuration is missing in a living
\* environment only where the two creations overlapped, for any number of
\* environments and concurrent requests.
THEOREM ConfiguredUnlessRacedHolds == Spec => []ConfiguredUnlessRaced
<1>1. IInv => ConfiguredUnlessRaced
  BY DEF IInv
<1> QED BY <1>1, Inductive, PTL

\* upsert_config: a guarded write replaces what its author read of that flag.
THEOREM NoLostUpdateHolds == Spec => NoLostUpdate
<1> DEFINE Guard == \A c \in Op : (GuardedWrite(c) /\ seen[c].id = flag.id)
                                     => configs[loc[c].env] = seen[c].config
<1>1. ASSUME IInv, [Next]_vars PROVE [Guard]_vars
  <2>1. ASSUME NEW c \in Op, Next, GuardedWrite(c), seen[c].id = flag.id
        PROVE  configs[loc[c].env] = seen[c].config
    <3>1. UpsertConfig(c)
      BY <1>1, <2>1, ReadyUpserts DEF GuardedWrite
    <3>2. /\ Current(c) /\ loc[c].env \in live
          /\ configs[loc[c].env] # None => loc[c].want = configs[loc[c].env].version
      BY <2>1, <3>1 DEF UpsertConfig, GuardedWrite
    <3>3. pc[c] \in Editing /\ loc[c].want # 0
      BY <2>1, Labels DEF GuardedWrite
    <3>4. seen[c] # None /\ seen[c].env = loc[c].env /\ seen[c].config.version = loc[c].want
      BY <1>1, <3>3 DEF IInv, Edits
    <3>5. Follows(configs[loc[c].env], seen[c].config)
      BY <1>1, <2>1, <3>2, <3>4 DEF IInv, Readings, Current
    <3> QED BY <3>2, <3>4, <3>5 DEF Follows
  <2>2. Next => Guard
    BY <2>1
  <2> QED BY <1>1, <2>2
<1>2. [][Next]_vars /\ []IInv => [][Guard]_vars
  BY <1>1, PTL
<1> QED BY <1>2, Inductive, PTL DEF Spec, NoLostUpdate

-----------------------------------------------------------------------------
(* What has been checked *)

\* The flag a request has found is no other's, and no flag yet to be created;
\* the environment an edit is for has been created.
Found(c) ==
    /\ pc[c] \in Editing \cup {"flag_found", "flag_checking"} =>
          /\ loc[c].flag.id <= ids
          /\ \A d \in Op : pc[d] \in FlagTx => loc[c].flag.id # ids
    /\ pc[c] \in Editing =>
          /\ born[loc[c].env] # 0
          /\ \A d \in Op : pc[d] \in EnvTx => loc[d].env # loc[c].env

\* A flag is created with the variants its configurations name.
OwnBase(c) == pc[c] \in FlagTx => loc[c].base \subseteq loc[c].flag.variants

\* A new environment starts with what the flag has.
SeedValid(c) ==
    pc[c] = "env_seeded" /\ loc[c].flag # NoFlag =>
        /\ Current(c)
        /\ loc[c].base \subseteq flag.variants \/ loc[c].env \in torn

\* An edit names what the flag has ...
EditValid(c) ==
    pc[c] \in Editing /\ Current(c) /\ loc[c].env \in live =>
        Valid(loc[c].base, loc[c].rules, flag.variants) \/ loc[c].env \in torn

\* ... and what the environment defines.
EditRefers(c) ==
    pc[c] = "config_ready" /\ Current(c) /\ loc[c].env \in live =>
        loc[c].refs \subseteq segs[loc[c].env] \/ loc[c].env \in torn

\* The configurations an update has been through do with its variants.
VariantsFit(c) ==
    pc[c] = "flag_checking" /\ Current(c) =>
        \A e \in Env : configs[e] # None =>
            \/ e \in loc[c].todo \cup torn
            \/ Valid(configs[e].base, configs[e].rules, loc[c].flag.variants)

\* No rule references the segment that is about to go.
SegmentFree(c) ==
    pc[c] = "segment_deleting" /\ configs[loc[c].env] # None =>
        loc[c].seg \notin configs[loc[c].env].refs \/ loc[c].env \in torn

\* What a request has checked is still so when it writes, or known to be torn.
Checked(c) ==
    /\ OwnBase(c) /\ SeedValid(c) /\ EditValid(c)
    /\ EditRefers(c) /\ VariantsFit(c) /\ SegmentFree(c)

Kept ==
    /\ \A c \in Op : Found(c) /\ Checked(c)
    /\ EvaluableUnlessTorn
    /\ ReferencesUnlessTorn

\* c begins no transaction.
NoNewTx(c) ==
    /\ pc'[c] \in FlagTx => pc[c] \in FlagTx
    /\ pc'[c] \in EnvTx => pc[c] \in EnvTx /\ loc'[c].env = loc[c].env

\* Then what the others have found is not affected.
LEMMA FoundStays ==
    ASSUME NEW c \in Op, Moves(c), NoNewTx(c), UNCHANGED <<born, ids>>,
           NEW d \in Op \ {c}, Found(d)
    PROVE  Found(d)'
BY DEF Moves, NoNewTx, Found

\* What a flag's own row says of the flag others found.
LEMMA StillCurrent ==
    ASSUME NEW d \in Op, pc[d] \in Editing \cup {"flag_found", "flag_checking"}, Found(d),
           loc'[d] = loc[d], Current(d)',
           \/ flag' = flag
           \/ flag' # None /\ flag # None /\ flag'.id = flag.id
           \/ \E b \in Op : pc[b] \in FlagTx /\ flag'.id = ids
    PROVE  Current(d)
BY DEF Found, Current

\* The rows the checks are about.
rows == <<live, flag, configs, segs, torn>>

\* A request that only reads leaves what the others have checked.
LEMMA KeepsReading ==
    ASSUME TypeOK, Kept, NEW c \in Op, Moves(c), NoNewTx(c), UNCHANGED <<rows, born, ids>>,
           Found(c)', Checked(c)'
    PROVE  Kept'
<1>1. ASSUME NEW d \in Op \ {c} PROVE Found(d)'
  BY <1>1, FoundStays DEF Kept
<1>2. ASSUME NEW d \in Op \ {c} PROVE Checked(d)'
  <2>1. Checked(d) /\ pc'[d] = pc[d] /\ loc'[d] = loc[d]
    BY <1>2 DEF Kept, Moves
  <2> QED BY <2>1 DEF rows, Checked, OwnBase, SeedValid, EditValid, EditRefers, VariantsFit,
     SegmentFree, Current
<1>3. EvaluableUnlessTorn' /\ ReferencesUnlessTorn'
  BY DEF Kept, rows, EvaluableUnlessTorn, ReferencesUnlessTorn
<1> QED BY <1>1, <1>2, <1>3 DEF Kept

\* A request that is over, or has only begun, has nothing to keep up.
LEMMA NothingChecked ==
    ASSUME NEW c \in Op, pc'[c] \in {"idle", "env_inserted", "flag_deleting"}
    PROVE  Found(c)' /\ Checked(c)'
BY DEF Found, Checked, OwnBase, SeedValid, EditValid, EditRefers, VariantsFit, SegmentFree,
   FlagTx, EnvTx, Editing

\* A handler goes on.
LEMMA StepMoves ==
    ASSUME TypeOK, NEW c \in Op, NEW l \in Label, NEW r \in Local, Step(c, l, r)
    PROVE  Moves(c) /\ pc'[c] = l /\ loc'[c] = r
BY StepType DEF Moves

LEMMA DoneMoves ==
    ASSUME TypeOK, NEW c \in Op, Done(c)
    PROVE  /\ Moves(c) /\ pc'[c] = "idle" /\ NoNewTx(c)
           /\ Found(c)' /\ Checked(c)'
<1>1. Moves(c) /\ pc'[c] = "idle"
  BY DoneType DEF Moves
<1>2. NoNewTx(c)
  BY <1>1 DEF NoNewTx, FlagTx, EnvTx
<1> QED BY <1>1, <1>2, NothingChecked

\* A request begins.
LEMMA KeptBegins ==
    ASSUME IInv, Kept, NEW c \in Op, Begin(c)
    PROVE  Kept'
<1>t. TypeOK /\ ids \in Nat /\ \A d \in Op : loc[d] \in Local
  BY DEF IInv, TypeOK
<1>l. Editing \cup {"flag_found", "flag_deleting", "segment_deleting"} \subseteq Label \ (FlagTx \cup EnvTx)
  BY Labels
<1>1. ASSUME NEW V \in VariantSet \ {{}}, NEW b \in Body, CreateFlagInsert(c, V, b) PROVE Kept'
  <2> DEFINE r == [Blank EXCEPT !.flag = [id |-> ids + 1, variants |-> V], !.base = b.base]
  <2>1. /\ UNCHANGED <<rows, born>> /\ ids' = ids + 1 /\ flag = None /\ b.base \subseteq V
        /\ Step(c, "flag_inserted", r) /\ \A d \in Op : pc[d] \notin FlagTx
    BY <1>1 DEF CreateFlagInsert, rows, Valid
  <2>2. r \in Local /\ r.base = b.base /\ r.flag.variants = V /\ r.flag.id = ids + 1
    <3>1. b.base \in SUBSET Variant /\ V \in SUBSET Variant
      BY StoreAssumption DEF Draft
    <3>2. [id |-> ids + 1, variants |-> V] \in FlagRow
      BY <1>t, <3>1 DEF FlagRow
    <3> QED BY <3>1, <3>2, BlankType DEF Local
  <2> HIDE DEF r
  <2>3. Moves(c) /\ pc'[c] = "flag_inserted" /\ loc'[c] = r /\ "flag_inserted" \notin EnvTx \cup Editing
    BY <1>t, <2>1, <2>2, Labels, StepMoves
  <2>4. Found(c)' /\ Checked(c)'
    BY <2>1, <2>2, <2>3 DEF Found, Checked, OwnBase, SeedValid, EditValid, EditRefers, VariantsFit, SegmentFree
  <2>5. ASSUME NEW d \in Op \ {c} PROVE Found(d)'
    <3>1. Found(d) /\ loc[d].flag.id \in Nat
      BY <1>t, LocalFields DEF Kept, FlagRow
    <3>2. \A a \in Op : pc'[a] \in FlagTx => a = c
      BY <2>1, <2>3 DEF Moves
    <3>3. \A a \in Op : pc'[a] \in EnvTx => pc[a] \in EnvTx /\ loc'[a].env = loc[a].env
      BY <2>3 DEF Moves
    <3> QED BY <1>t, <2>1, <2>2, <2>3, <3>1, <3>2, <3>3 DEF Found, Moves
  <2>6. ASSUME NEW d \in Op \ {c} PROVE Checked(d)'
    <3>1. Checked(d) /\ pc'[d] = pc[d] /\ loc'[d] = loc[d]
      BY <2>3 DEF Kept, Moves
    <3> QED BY <2>1, <3>1 DEF rows, Checked, OwnBase, SeedValid, EditValid, EditRefers,
       VariantsFit, SegmentFree, Current
  <2>7. EvaluableUnlessTorn' /\ ReferencesUnlessTorn'
    BY <2>1 DEF Kept, rows, EvaluableUnlessTorn, ReferencesUnlessTorn
  <2> QED BY <2>4, <2>5, <2>6, <2>7 DEF Kept
<1>2. ASSUME NEW e \in Env, CreateEnvInsert(c, e) PROVE Kept'
  <2> DEFINE r == [Blank EXCEPT !.env = e]
  <2>1. UNCHANGED <<rows, ids>> /\ Step(c, "env_inserted", r) /\ born[e] = 0
    BY <1>2 DEF CreateEnvInsert, rows
  <2>2. r \in Local /\ r.env = e
    BY BlankType DEF Local
  <2>b. \A f \in Env \ {e} : born'[f] = born[f]
    BY <1>2, BornType DEF CreateEnvInsert, IInv
  <2> HIDE DEF r
  <2>3. /\ Moves(c) /\ pc'[c] = "env_inserted" /\ loc'[c] = r
        /\ "env_inserted" \in EnvTx /\ "env_inserted" \notin FlagTx
    BY <1>t, <2>1, <2>2, Labels, StepMoves
  <2>4. Found(c)' /\ Checked(c)'
    BY <2>3, NothingChecked
  <2>5. ASSUME NEW d \in Op \ {c} PROVE Found(d)'
    <3>1. Found(d) /\ loc[d].env \in Env
      BY <1>t, LocalFields DEF Kept
    <3>2. \A a \in Op : pc'[a] \in FlagTx => pc[a] \in FlagTx
      BY <2>3 DEF Moves
    <3>3. pc[d] \in Editing => loc[d].env # e
      BY <2>1, <3>1 DEF Found
    <3>4. \A a \in Op : pc'[a] \in EnvTx => a = c \/ (pc[a] \in EnvTx /\ loc'[a].env = loc[a].env)
      BY <2>3 DEF Moves
    <3> QED BY <2>1, <2>2, <2>3, <2>b, <3>1, <3>2, <3>3, <3>4 DEF Found, Moves
  <2>6. ASSUME NEW d \in Op \ {c} PROVE Checked(d)'
    <3>1. Checked(d) /\ pc'[d] = pc[d] /\ loc'[d] = loc[d]
      BY <2>3 DEF Kept, Moves
    <3> QED BY <2>1, <3>1 DEF rows, Checked, OwnBase, SeedValid, EditValid, EditRefers,
       VariantsFit, SegmentFree, Current
  <2>7. EvaluableUnlessTorn' /\ ReferencesUnlessTorn'
    BY <2>1 DEF Kept, rows, EvaluableUnlessTorn, ReferencesUnlessTorn
  <2> QED BY <2>4, <2>5, <2>6, <2>7 DEF Kept
<1>3. ASSUME NEW e \in Env, ReadConfig(c, e) PROVE Kept'
  <2>1. UNCHANGED <<rows, born, ids, pc, loc>>
    BY <1>3 DEF ReadConfig, rows
  <2>2. Moves(c) /\ NoNewTx(c)
    BY <1>t, <2>1 DEF Moves, NoNewTx, TypeOK
  <2>3. Found(c)' /\ Checked(c)'
    BY <2>1 DEF Kept, rows, Found, Checked, OwnBase, SeedValid, EditValid, EditRefers, VariantsFit,
       SegmentFree, Current
  <2> QED BY <1>t, <2>1, <2>2, <2>3, KeepsReading
<1>4. ASSUME NEW e \in Env, NEW b \in Body, NEW want \in Expected(c, e), UpdateConfigFind(c, e, b, want)
      PROVE  Kept'
  <2> DEFINE r == [Blank EXCEPT !.env = e, !.flag = flag, !.base = b.base, !.rules = b.rules,
                                !.refs = b.refs, !.want = want]
  <2>1. /\ Step(c, "config_found", r) /\ UNCHANGED <<rows, born, ids>>
        /\ flag # None /\ e \in live /\ Valid(b.base, b.rules, flag.variants)
    BY <1>4 DEF UpdateConfigFind, rows
  <2>2. /\ r \in Local /\ r.env = e /\ r.flag = flag
        /\ r.base = b.base /\ r.rules = b.rules
    <3>1. b.base \in SUBSET Variant /\ b.rules \in SUBSET Variant /\ b.refs \in SUBSET Segment
      BY StoreAssumption DEF Draft
    <3>2. flag \in FlagRow /\ want \in Nat
      BY <1>t, <2>1, ExpectedType DEF TypeOK
    <3> QED BY <3>1, <3>2, BlankType DEF Local
  <2> HIDE DEF r
  <2>3. Moves(c) /\ pc'[c] = "config_found" /\ loc'[c] = r /\ "config_found" \notin FlagTx \cup EnvTx
    BY <1>t, <2>1, <2>2, Labels, StepMoves
  <2>4. Found(c)'
    <3>1. flag.id <= ids /\ \A d \in Op : pc[d] \notin FlagTx
      BY <1>t, <2>1 DEF IInv, FlagCreation
    <3>2. born[e] # 0 /\ \A d \in Op : pc[d] \in EnvTx => loc[d].env # e
      BY <2>1 DEF IInv, EnvCreation
    <3> QED BY <2>1, <2>2, <2>3, <3>1, <3>2 DEF Found, Moves
  <2>5. Checked(c)'
    BY <2>1, <2>2, <2>3 DEF rows, Checked, OwnBase, SeedValid, EditValid, EditRefers, VariantsFit, SegmentFree
  <2> QED BY <1>t, <2>1, <2>3, <2>4, <2>5, KeepsReading DEF NoNewTx
<1>5. ASSUME NEW V \in VariantSet, UpdateFlagFind(c, V) PROVE Kept'
  <2> DEFINE r == [Blank EXCEPT !.flag = [id |-> flag.id, variants |-> V]]
  <2>1. Step(c, "flag_found", r) /\ UNCHANGED <<rows, born, ids>> /\ flag # None
    BY <1>5 DEF UpdateFlagFind, rows
  <2>2. r \in Local /\ r.flag.id = flag.id
    <3>1. [id |-> flag.id, variants |-> V] \in FlagRow
      BY <1>t, <2>1, StoreAssumption DEF TypeOK, FlagRow
    <3> QED BY <3>1, BlankType DEF Local
  <2> HIDE DEF r
  <2>3. /\ Moves(c) /\ pc'[c] = "flag_found" /\ loc'[c] = r
        /\ "flag_found" \notin FlagTx \cup EnvTx \cup Editing
    BY <1>t, <2>1, <2>2, Labels, StepMoves
  <2>4. Found(c)'
    <3>1. flag.id <= ids /\ \A d \in Op : pc[d] \notin FlagTx
      BY <1>t, <2>1 DEF IInv, FlagCreation
    <3> QED BY <2>1, <2>2, <2>3, <3>1 DEF Found, Moves
  <2>5. Checked(c)'
    BY <2>3 DEF Checked, OwnBase, SeedValid, EditValid, EditRefers, VariantsFit, SegmentFree
  <2> QED BY <1>t, <2>1, <2>3, <2>4, <2>5, KeepsReading DEF NoNewTx
<1>6. CASE DeleteFlagCheck(c)
  <2>1. Step(c, "flag_deleting", Blank) /\ UNCHANGED <<rows, born, ids>>
    BY <1>6 DEF DeleteFlagCheck, rows
  <2>2. Moves(c) /\ pc'[c] = "flag_deleting" /\ "flag_deleting" \notin FlagTx \cup EnvTx
    BY <1>t, <2>1, BlankType, Labels, StepMoves
  <2>3. Found(c)' /\ Checked(c)'
    BY <2>2, NothingChecked
  <2> QED BY <1>t, <2>1, <2>2, <2>3, KeepsReading DEF NoNewTx
<1>7. ASSUME NEW e \in Env, NEW s \in Segment, DeleteSegmentCheck(c, e, s) PROVE Kept'
  <2> DEFINE r == [Blank EXCEPT !.env = e, !.seg = s]
  <2>1. /\ Step(c, "segment_deleting", r) /\ UNCHANGED <<rows, born, ids>>
        /\ configs[e] # None => s \notin configs[e].refs
    BY <1>7 DEF DeleteSegmentCheck, rows
  <2>2. r \in Local /\ r.env = e /\ r.seg = s
    BY BlankType DEF Local
  <2> HIDE DEF r
  <2>3. /\ Moves(c) /\ pc'[c] = "segment_deleting" /\ loc'[c] = r
        /\ "segment_deleting" \notin FlagTx \cup EnvTx \cup Editing
    BY <1>t, <2>1, <2>2, Labels, StepMoves
  <2>4. Found(c)' /\ Checked(c)'
    BY <2>1, <2>2, <2>3 DEF rows, Found, Checked, OwnBase, SeedValid, EditValid, EditRefers,
       VariantsFit, SegmentFree
  <2> QED BY <1>t, <2>1, <2>3, <2>4, KeepsReading DEF NoNewTx
<1> QED BY <1>1, <1>2, <1>3, <1>4, <1>5, <1>6, <1>7 DEF Begin

\* More torn environments excuse more.
LEMMA TornGrows ==
    ASSUME NEW d \in Op, Checked(d), pc'[d] = pc[d], loc'[d] = loc[d],
           UNCHANGED <<live, flag, configs, segs>>, torn \subseteq torn'
    PROVE  Checked(d)'
BY DEF Checked, OwnBase, SeedValid, EditValid, EditRefers, VariantsFit, SegmentFree, Current

\* A request writes, and ends.
LEMMA KeepsWriting ==
    ASSUME TypeOK, Kept, NEW c \in Op, Done(c), UNCHANGED <<born, ids>>,
           \A d \in Op \ {c} : Checked(d)',
           EvaluableUnlessTorn', ReferencesUnlessTorn'
    PROVE  Kept'
<1>1. Moves(c) /\ NoNewTx(c) /\ Found(c)' /\ Checked(c)'
  BY DoneMoves
<1>2. ASSUME NEW d \in Op \ {c} PROVE Found(d)'
  BY <1>1, <1>2, FoundStays DEF Kept
<1> QED BY <1>1, <1>2 DEF Kept

\* Ending without an effect keeps all.
LEMMA KeepsEnding ==
    ASSUME TypeOK, Kept, NEW c \in Op, Done(c), UNCHANGED <<rows, born, ids>>
    PROVE  Kept'
BY DoneMoves, KeepsReading

\* The bases a new environment may start with are among the flag's variants,
\* unless it copies a torn configuration.
LEMMA SeedBaseValid ==
    ASSUME TypeOK, EvaluableUnlessTorn, flag # None, NEW base \in SeedBase,
           Oldest(Configured) \cap torn = {}
    PROVE  base \subseteq flag.variants
<1>1. CASE Configured # {}
  <2>1. PICK e \in Oldest(Configured) : base = configs[e].base
    BY <1>1 DEF SeedBase
  <2>2. e \in Env /\ configs[e] # None /\ e \notin torn
    BY <2>1 DEF Oldest, Configured, TypeOK
  <2> QED BY <2>1, <2>2 DEF EvaluableUnlessTorn, Valid
<1>2. CASE Configured = {}
  <2>1. PICK v \in flag.variants : base = {v}
    BY <1>2 DEF SeedBase
  <2> QED BY <2>1
<1> QED BY <1>1, <1>2

\* create_flag.
LEMMA KeptCreatesFlag ==
    ASSUME IInv, Kept, NEW c \in Op, CreateFlagSeed(c) \/ CreateFlagCommit(c)
    PROVE  Kept'
<1>t. TypeOK /\ Checked(c) /\ loc[c] \in Local
  BY DEF IInv, TypeOK, Kept
<1>1. CASE CreateFlagSeed(c)
  <2> DEFINE r == [loc[c] EXCEPT !.todo = live]
  <2>1. Step(c, "flag_seeded", r) /\ UNCHANGED <<rows, born, ids>> /\ pc[c] = "flag_inserted"
    BY <1>1 DEF CreateFlagSeed, rows
  <2>2. r \in Local /\ r.base = loc[c].base /\ r.flag = loc[c].flag
    BY <1>t DEF TypeOK, Local
  <2> HIDE DEF r
  <2>3. /\ Moves(c) /\ pc'[c] = "flag_seeded" /\ loc'[c] = r
        /\ {"flag_seeded", "flag_inserted"} \subseteq FlagTx /\ "flag_seeded" \notin EnvTx \cup Editing
    BY <1>t, <2>1, <2>2, Labels, StepMoves
  <2>4. Found(c)' /\ Checked(c)'
    BY <1>t, <2>1, <2>2, <2>3 DEF Found, Checked, OwnBase, SeedValid, EditValid, EditRefers,
       VariantsFit, SegmentFree
  <2> QED BY <1>t, <2>1, <2>3, <2>4, KeepsReading DEF NoNewTx
<1>2. CASE CreateFlagCommit(c)
  <2>1. /\ flag' = loc[c].flag /\ UNCHANGED <<live, born, ids, segs, torn>>
        /\ Done(c) /\ pc[c] \in FlagTx
        /\ configs' = [e \in Env |-> IF e \in loc[c].todo THEN Seeded(loc[c].base) ELSE configs[e]]
    BY <1>2 DEF CreateFlagCommit, FlagTx
  <2>2. flag = None /\ (\A e \in Env : configs[e] = None) /\ flag'.id = ids
    BY <2>1 DEF IInv, FlagCreation, Rows
  <2>3. \A e \in Env : configs'[e] # None => configs'[e] = Seeded(loc[c].base)
    BY <2>1, <2>2
  <2>4. flag' # None /\ loc[c].base \subseteq flag'.variants
    BY <1>t, <2>1, LocalFields, NoneIsNoRow DEF Checked, OwnBase
  <2>5. ASSUME NEW d \in Op \ {c} PROVE Checked(d)'
    <3>1. Found(d) /\ pc'[d] = pc[d] /\ loc'[d] = loc[d] /\ loc[d].env \in Env
      BY <1>t, <2>1, DoneMoves, LocalFields DEF Kept, Moves, TypeOK
    <3>2. pc[d] \notin FlagTx
      BY <2>1 DEF IInv, FlagCreation
    <3>3. pc[d] = "env_seeded" => loc[d].flag = NoFlag
      BY <2>2 DEF IInv, EnvCreation
    <3>4. pc[d] \in Editing \cup {"flag_checking"} => ~Current(d)'
      BY <2>1, <2>2, <3>1, StillCurrent DEF Current
    <3>5. OwnBase(d)' /\ SeedValid(d)'
      BY <3>1, <3>2, <3>3 DEF OwnBase, SeedValid
    <3>6. EditValid(d)' /\ EditRefers(d)' /\ VariantsFit(d)'
      BY <3>1, <3>4 DEF EditValid, EditRefers, VariantsFit, Editing
    <3>7. SegmentFree(d)'
      BY <2>3, <3>1 DEF SegmentFree, Seeded
    <3> QED BY <3>5, <3>6, <3>7 DEF Checked
  <2>6. EvaluableUnlessTorn'
    BY <2>3, <2>4 DEF EvaluableUnlessTorn, Valid, Seeded
  <2>7. ReferencesUnlessTorn'
    BY <2>3 DEF ReferencesUnlessTorn, Seeded
  <2> QED BY <1>t, <2>1, <2>5, <2>6, <2>7, KeepsWriting
<1> QED BY <1>1, <1>2

\* create_environment seeds the new environment.
LEMMA KeptSeedsEnv ==
    ASSUME IInv, Kept, NEW c \in Op, CreateEnvSeed(c)
    PROVE  Kept'
<1>t. TypeOK /\ Checked(c) /\ loc[c] \in Local /\ loc[c].env \in Env
  BY LocalFields DEF IInv, TypeOK, Kept
<1>u. UNCHANGED <<live, flag, configs, segs, born, ids>> /\ pc[c] = "env_inserted" /\ torn \subseteq torn'
  BY DEF CreateEnvSeed, SeedTears, Tears
<1>l. "env_seeded" \in EnvTx \cap Label /\ "env_seeded" \notin FlagTx \cup Editing /\ "env_inserted" \in EnvTx
  BY Labels
<1>1. ASSUME NEW r \in Local, Step(c, "env_seeded", r), r.env = loc[c].env,
             r.flag # NoFlag => /\ flag # None /\ r.flag = flag
                                /\ r.base \subseteq flag.variants \/ r.env \in torn'
      PROVE  Kept'
  <2>1. Moves(c) /\ pc'[c] = "env_seeded" /\ loc'[c] = r
    BY <1>t, <1>l, <1>1, StepMoves
  <2>2. NoNewTx(c)
    BY <1>u, <1>l, <1>1, <2>1 DEF NoNewTx
  <2>3. Found(c)' /\ Checked(c)'
    BY <1>u, <1>l, <1>1, <2>1 DEF Found, Checked, OwnBase, SeedValid, EditValid, EditRefers,
       VariantsFit, SegmentFree, Current
  <2>4. ASSUME NEW d \in Op \ {c} PROVE Found(d)' /\ Checked(d)'
    <3>1. Found(d) /\ Checked(d) /\ pc'[d] = pc[d] /\ loc'[d] = loc[d]
      BY <2>1 DEF Kept, Moves
    <3> QED BY <1>u, <2>1, <2>2, <3>1, FoundStays, TornGrows
  <2>5. EvaluableUnlessTorn' /\ ReferencesUnlessTorn'
    BY <1>u DEF Kept, EvaluableUnlessTorn, ReferencesUnlessTorn
  <2> QED BY <2>3, <2>4, <2>5 DEF Kept
<1>2. CASE flag = None /\ Step(c, "env_seeded", loc[c])
  <2>1. loc[c].flag = NoFlag
    BY <1>u DEF IInv, EnvCreation
  <2> QED BY <1>t, <1>1, <1>2, <2>1
<1>3. ASSUME flag # None, NEW base \in SeedBase, SeedTears(c),
             Step(c, "env_seeded", [loc[c] EXCEPT !.flag = flag, !.base = base])
      PROVE  Kept'
  <2> DEFINE r == [loc[c] EXCEPT !.flag = flag, !.base = base]
  <2>1. r \in Local /\ r.env = loc[c].env /\ r.flag = flag /\ r.base = base
    <3>1. flag \in FlagRow /\ base \in SUBSET Variant
      BY <1>t, <1>3, SeedBaseType DEF TypeOK
    <3> QED BY <1>t, <3>1 DEF Local
  <2>2. base \subseteq flag.variants \/ loc[c].env \in torn'
    <3>1. CASE Oldest(Configured) \cap torn = {}
      BY <1>t, <1>3, <3>1, SeedBaseValid DEF Kept
    <3>2. CASE Oldest(Configured) \cap torn # {}
      BY <1>3, <3>2 DEF SeedTears, Tears
    <3> QED BY <3>1, <3>2
  <2> HIDE DEF r
  <2>3. Step(c, "env_seeded", r)
    BY <1>3 DEF r
  <2> QED BY <1>1, <1>3, <2>1, <2>2, <2>3
<1>4. CASE Done(c) /\ UNCHANGED torn
  BY <1>t, <1>u, <1>4, KeepsEnding DEF rows
<1> QED BY <1>2, <1>3, <1>4 DEF CreateEnvSeed

\* The other requests know when a configuration they have been through changes.
LEMMA ConfigMeets ==
    ASSUME NEW d \in Op, NEW e \in Env, Checked(d), loc[d].env \in Env,
           pc'[d] = pc[d], loc'[d] = loc[d], UNCHANGED <<flag, segs>>,
           \A f \in Env \ {e} : configs'[f] = configs[f],
           pc[d] \in Editing /\ loc[d].env \in live' => loc[d].env \in live,
           ConfigTears(e)
    PROVE  Checked(d)'
<1>1. torn \subseteq torn' /\ (Checks(d, e) => e \in torn')
  BY DEF ConfigTears, Tears
<1>2. OwnBase(d)' /\ SeedValid(d)'
  BY <1>1 DEF Checked, OwnBase, SeedValid, Current
<1>3. EditValid(d)' /\ EditRefers(d)'
  BY <1>1 DEF Checked, EditValid, EditRefers, Current, Editing
<1>4. VariantsFit(d)'
  BY <1>1 DEF Checked, VariantsFit, Current, Checks
<1>5. SegmentFree(d)'
  BY <1>1 DEF Checked, SegmentFree, Checks
<1> QED BY <1>2, <1>3, <1>4, <1>5 DEF Checked

\* create_environment commits.
LEMMA KeptCommitsEnv ==
    ASSUME IInv, Kept, NEW c \in Op, CreateEnvCommit(c)
    PROVE  Kept'
<1> DEFINE e == loc[c].env
<1>t. TypeOK /\ Checked(c) /\ e \in Env
  BY LocalFields DEF IInv, TypeOK, Kept
<1>u. /\ UNCHANGED <<flag, segs, born, ids>> /\ Done(c) /\ pc[c] = "env_seeded" /\ pc[c] \in EnvTx
      /\ live' = live \cup {e}
  BY Labels DEF CreateEnvCommit
<1>o. ASSUME NEW d \in Op \ {c}
      PROVE  /\ Checked(d) /\ loc[d].env \in Env /\ pc'[d] = pc[d] /\ loc'[d] = loc[d]
             /\ pc[d] \in Editing /\ loc[d].env \in live' => loc[d].env \in live
  BY <1>t, <1>u, DoneMoves, LocalFields DEF Kept, Found, Moves, TypeOK
<1>1. CASE UNCHANGED <<configs, torn>>
  <2>1. ASSUME NEW d \in Op \ {c} PROVE Checked(d)'
    BY <1>u, <1>o, <1>1 DEF Checked, OwnBase, SeedValid, EditValid, EditRefers, VariantsFit,
       SegmentFree, Current, Editing
  <2>2. EvaluableUnlessTorn' /\ ReferencesUnlessTorn'
    BY <1>u, <1>1 DEF Kept, EvaluableUnlessTorn, ReferencesUnlessTorn
  <2> QED BY <1>t, <1>u, <2>1, <2>2, KeepsWriting
<1>2. CASE loc[c].flag # NoFlag /\ ConfigTears(e) /\ configs' = [configs EXCEPT ![e] = Seeded(loc[c].base)]
  <2>1. flag # None /\ (loc[c].base \subseteq flag.variants \/ e \in torn)
    BY <1>t, <1>u, <1>2 DEF Checked, SeedValid, Current
  <2>2. torn \subseteq torn'
    BY <1>2 DEF ConfigTears, Tears
  <2>3. (\A f \in Env \ {e} : configs'[f] = configs[f]) /\ configs'[e] = Seeded(loc[c].base)
    BY <1>t, <1>2 DEF TypeOK
  <2> HIDE DEF e
  <2>4. ASSUME NEW d \in Op \ {c} PROVE Checked(d)'
    BY <1>t, <1>u, <1>o, <1>2, <2>3, <2>4, ConfigMeets
  <2>5. EvaluableUnlessTorn'
    BY <1>t, <1>u, <2>1, <2>2, <2>3 DEF Kept, EvaluableUnlessTorn, Valid, Seeded
  <2>6. ReferencesUnlessTorn'
    BY <1>u, <2>2, <2>3 DEF Kept, ReferencesUnlessTorn, Seeded
  <2> QED BY <1>t, <1>u, <2>4, <2>5, <2>6, KeepsWriting
<1> QED BY <1>1, <1>2 DEF CreateEnvCommit

\* update_config.
LEMMA KeptConfigures ==
    ASSUME IInv, Kept, NEW c \in Op, UpdateConfigReferences(c) \/ UpsertConfig(c)
    PROVE  Kept'
<1> DEFINE e == loc[c].env
<1>t. TypeOK /\ Checked(c) /\ Found(c) /\ loc[c] \in Local /\ e \in Env
  BY LocalFields DEF IInv, TypeOK, Kept
<1>l. /\ "config_ready" \in Label \ (FlagTx \cup EnvTx)
      /\ {"config_found", "config_ready"} \subseteq Editing
  BY Labels
<1>1. CASE UpdateConfigReferences(c)
  <2>1. UNCHANGED <<rows, born, ids>> /\ pc[c] = "config_found"
    BY <1>1 DEF UpdateConfigReferences, rows
  <2>2. CASE loc[c].refs \subseteq segs[e] /\ Step(c, "config_ready", loc[c])
    <3>1. Moves(c) /\ pc'[c] = "config_ready" /\ loc'[c] = loc[c] /\ NoNewTx(c)
      BY <1>t, <1>l, <2>2, StepMoves DEF NoNewTx
    <3>2. Found(c)'
      BY <1>t, <1>l, <2>1, <3>1 DEF Found, Moves
    <3>3. Checked(c)'
      BY <1>t, <1>l, <2>1, <2>2, <3>1 DEF rows, Checked, OwnBase, SeedValid, EditValid, EditRefers,
         VariantsFit, SegmentFree, Current
    <3> QED BY <1>t, <2>1, <3>1, <3>2, <3>3, KeepsReading
  <2>3. CASE Done(c)
    BY <1>t, <2>1, <2>3, KeepsEnding
  <2> QED BY <1>1, <2>2, <2>3 DEF UpdateConfigReferences
<1>2. CASE UpsertConfig(c)
  <2>1. UNCHANGED <<live, flag, segs, born, ids>> /\ Done(c) /\ pc[c] = "config_ready"
    BY <1>2 DEF UpsertConfig
  <2>2. CASE UNCHANGED <<configs, torn>>
    BY <1>t, <2>1, <2>2, KeepsEnding DEF rows
  <2>3. CASE /\ Current(c) /\ e \in live /\ ConfigTears(e)
             /\ configs' = [configs EXCEPT ![e] = Written(c)]
    <3>1. /\ flag # None
          /\ Valid(loc[c].base, loc[c].rules, flag.variants) \/ e \in torn
          /\ loc[c].refs \subseteq segs[e] \/ e \in torn
      BY <1>t, <1>l, <2>1, <2>3 DEF Checked, EditValid, EditRefers, Current
    <3>2. torn \subseteq torn'
      BY <2>3 DEF ConfigTears, Tears
    <3>3. (\A f \in Env \ {e} : configs'[f] = configs[f]) /\ configs'[e] = Written(c)
      BY <1>t, <2>3 DEF TypeOK
    <3>4. ASSUME NEW d \in Op \ {c} PROVE Checked(d)'
      <4>1. Checked(d) /\ loc[d].env \in Env /\ pc'[d] = pc[d] /\ loc'[d] = loc[d]
        BY <1>t, <2>1, DoneMoves, LocalFields DEF Kept, Moves, TypeOK
      <4> HIDE DEF e
      <4> QED BY <1>t, <2>1, <2>3, <3>3, <4>1, ConfigMeets
    <3>5. EvaluableUnlessTorn'
      BY <1>t, <2>1, <3>1, <3>2, <3>3 DEF Kept, EvaluableUnlessTorn, Written
    <3>6. ReferencesUnlessTorn'
      BY <1>t, <2>1, <3>1, <3>2, <3>3 DEF Kept, ReferencesUnlessTorn, Written
    <3> QED BY <1>t, <2>1, <3>4, <3>5, <3>6, KeepsWriting
  <2> QED BY <1>2, <2>2, <2>3 DEF UpsertConfig
<1> QED BY <1>1, <1>2

\* update looks at every configuration.
LEMMA KeptChecksFlag ==
    ASSUME IInv, Kept, NEW c \in Op, UpdateFlagList(c) \/ \E e \in Env : UpdateFlagCheck(c, e)
    PROVE  Kept'
<1>t. TypeOK /\ Checked(c) /\ Found(c) /\ loc[c] \in Local
  BY DEF IInv, TypeOK, Kept
<1>l. "flag_checking" \in Label \ (FlagTx \cup EnvTx \cup Editing)
  BY Labels
<1>1. ASSUME NEW r \in Local, Step(c, "flag_checking", r), UNCHANGED <<rows, born, ids>>,
             pc[c] \in {"flag_found", "flag_checking"}, r.flag = loc[c].flag,
             Current(c) => \A e \in Env : configs[e] # None =>
                 \/ e \in r.todo \cup torn
                 \/ Valid(configs[e].base, configs[e].rules, loc[c].flag.variants)
      PROVE  Kept'
  <2>1. Moves(c) /\ pc'[c] = "flag_checking" /\ loc'[c] = r /\ NoNewTx(c)
    BY <1>t, <1>l, <1>1, StepMoves DEF NoNewTx
  <2>2. Found(c)'
    BY <1>t, <1>l, <1>1, <2>1 DEF Found, Moves
  <2>3. Checked(c)'
    BY <1>t, <1>l, <1>1, <2>1 DEF rows, Checked, OwnBase, SeedValid, EditValid, EditRefers,
       VariantsFit, SegmentFree, Current
  <2> QED BY <1>t, <1>1, <2>1, <2>2, <2>3, KeepsReading
<1>2. CASE UpdateFlagList(c)
  <2> DEFINE r == [loc[c] EXCEPT !.todo = live]
  <2>1. Step(c, "flag_checking", r) /\ UNCHANGED <<rows, born, ids>> /\ pc[c] = "flag_found"
    BY <1>2 DEF UpdateFlagList, rows
  <2>2. r \in Local /\ r.todo = live /\ r.flag = loc[c].flag
    BY <1>t DEF TypeOK, Local
  <2> HIDE DEF r
  <2>3. \A e \in Env : configs[e] # None => e \in r.todo
    BY <2>2 DEF IInv, Rows
  <2> QED BY <1>1, <2>1, <2>2, <2>3
<1>3. ASSUME NEW e \in Env, UpdateFlagCheck(c, e) PROVE Kept'
  <2> DEFINE r == [loc[c] EXCEPT !.todo = @ \ {e}]
  <2>1. UNCHANGED <<rows, born, ids>> /\ pc[c] = "flag_checking"
    BY <1>3 DEF UpdateFlagCheck, rows
  <2>2. r \in Local /\ r.todo = loc[c].todo \ {e} /\ r.flag = loc[c].flag
    BY <1>t DEF Local
  <2>3. CASE Step(c, "flag_checking", r) /\ Valid(configs[e].base, configs[e].rules, loc[c].flag.variants)
    <3> HIDE DEF r
    <3>1. Current(c) => \A f \in Env : configs[f] # None =>
                 \/ f \in r.todo \cup torn
                 \/ Valid(configs[f].base, configs[f].rules, loc[c].flag.variants)
      BY <1>t, <2>1, <2>2, <2>3 DEF Checked, VariantsFit
    <3> QED BY <1>1, <2>1, <2>2, <2>3, <3>1
  <2>4. CASE Done(c)
    BY <1>t, <2>1, <2>4, KeepsEnding
  <2> QED BY <1>3, <2>3, <2>4 DEF UpdateFlagCheck
<1> QED BY <1>2, <1>3

\* update writes the flag's variants.
LEMMA KeptAppliesFlag ==
    ASSUME IInv, Kept, NEW c \in Op, UpdateFlagApply(c)
    PROVE  Kept'
<1>t. TypeOK /\ Checked(c) /\ loc[c] \in Local
  BY DEF IInv, TypeOK, Kept
<1>u. UNCHANGED <<live, configs, segs, born, ids>> /\ Done(c) /\ pc[c] = "flag_checking" /\ loc[c].todo = {}
  BY DEF UpdateFlagApply
<1>1. CASE UNCHANGED <<flag, torn>>
  BY <1>t, <1>u, <1>1, KeepsEnding DEF rows
<1>2. CASE Current(c) /\ flag' = loc[c].flag /\ VariantsTear
  <2>1. flag # None /\ flag' # None /\ flag'.id = flag.id
    BY <1>t, <1>2, LocalFields, NoneIsNoRow DEF Current
  <2>2. /\ torn \subseteq torn'
        /\ \A d \in Op : pc[d] \in Editing \cup {"env_seeded"} /\ Current(d) => loc[d].env \in torn'
    BY <1>2 DEF VariantsTear, Tears
  <2>3. \A e \in Env : configs[e] # None =>
           e \in torn \/ Valid(configs[e].base, configs[e].rules, flag'.variants)
    BY <1>t, <1>u, <1>2 DEF Checked, VariantsFit
  <2>4. ASSUME NEW d \in Op \ {c} PROVE Checked(d)'
    <3>1. Checked(d) /\ pc'[d] = pc[d] /\ loc'[d] = loc[d]
      BY <1>t, <1>u, DoneMoves DEF Kept, Moves
    <3>2. Current(d)' <=> Current(d)
      BY <2>1, <3>1 DEF Current
    <3>3. OwnBase(d)' /\ SeedValid(d)'
      BY <2>2, <3>1, <3>2 DEF Checked, OwnBase, SeedValid
    <3>4. EditValid(d)'
      BY <2>2, <3>1, <3>2 DEF EditValid
    <3>5. EditRefers(d)' /\ VariantsFit(d)' /\ SegmentFree(d)'
      BY <1>u, <2>2, <3>1, <3>2 DEF Checked, EditRefers, VariantsFit, SegmentFree
    <3> QED BY <3>3, <3>4, <3>5 DEF Checked
  <2>5. EvaluableUnlessTorn'
    BY <1>u, <2>1, <2>2, <2>3 DEF EvaluableUnlessTorn
  <2>6. ReferencesUnlessTorn'
    BY <1>u, <2>2 DEF Kept, ReferencesUnlessTorn
  <2> QED BY <1>t, <1>u, <2>4, <2>5, <2>6, KeepsWriting
<1> QED BY <1>1, <1>2 DEF UpdateFlagApply

\* delete_flag.
LEMMA KeptDeletesFlag ==
    ASSUME IInv, Kept, NEW c \in Op, DeleteFlag(c)
    PROVE  Kept'
<1>t. TypeOK
  BY DEF IInv
<1>u. UNCHANGED <<live, segs, born, ids>> /\ Done(c)
  BY DEF DeleteFlag
<1>1. CASE UNCHANGED <<flag, configs, torn>>
  BY <1>t, <1>u, <1>1, KeepsEnding DEF rows
<1>2. CASE flag' = None /\ configs' = [e \in Env |-> None]
  <2>1. ASSUME NEW d \in Op \ {c} PROVE Checked(d)'
    <3>1. Checked(d) /\ pc'[d] = pc[d] /\ loc'[d] = loc[d] /\ loc[d].env \in Env
      BY <1>t, <1>u, DoneMoves, LocalFields DEF Kept, Moves, TypeOK
    <3>2. pc[d] = "env_seeded" => loc[d].flag = NoFlag
      BY DEF DeleteFlag
    <3> QED BY <1>2, <3>1, <3>2 DEF Checked, OwnBase, SeedValid, EditValid, EditRefers, VariantsFit,
       SegmentFree, Current
  <2>2. EvaluableUnlessTorn' /\ ReferencesUnlessTorn'
    BY <1>2 DEF EvaluableUnlessTorn, ReferencesUnlessTorn
  <2> QED BY <1>t, <1>u, <2>1, <2>2, KeepsWriting
<1> QED BY <1>1, <1>2 DEF DeleteFlag

\* DELETE FROM segments.
LEMMA KeptDeletesSegment ==
    ASSUME IInv, Kept, NEW c \in Op, DeleteSegment(c)
    PROVE  Kept'
<1> DEFINE e == loc[c].env
<1>t. TypeOK /\ Checked(c) /\ e \in Env
  BY LocalFields DEF IInv, TypeOK, Kept
<1>u. UNCHANGED <<live, flag, configs, born, ids>> /\ Done(c) /\ pc[c] = "segment_deleting"
  BY DEF DeleteSegment
<1>s. \A f \in Env : segs'[f] = IF f = e THEN segs[e] \ {loc[c].seg} ELSE segs[f]
  BY <1>t DEF DeleteSegment, TypeOK
<1>m. /\ torn \subseteq torn'
      /\ \A d \in Op : pc[d] = "config_ready" /\ Current(d) /\ loc[d].env = e => e \in torn'
  BY DEF DeleteSegment, SegmentTears, Tears
<1>1. ASSUME NEW d \in Op \ {c} PROVE Checked(d)'
  <2>1. Checked(d) /\ pc'[d] = pc[d] /\ loc'[d] = loc[d] /\ loc[d].env \in Env
    BY <1>t, <1>u, DoneMoves, LocalFields DEF Kept, Moves, TypeOK
  <2>2. EditRefers(d)'
    BY <1>u, <1>s, <1>m, <2>1 DEF Checked, EditRefers, Current
  <2> QED BY <1>u, <1>m, <2>1, <2>2 DEF Checked, OwnBase, SeedValid, EditValid, VariantsFit,
     SegmentFree, Current
<1>2. EvaluableUnlessTorn'
  BY <1>u, <1>m DEF Kept, EvaluableUnlessTorn
<1>3. ReferencesUnlessTorn'
  <2>1. configs[e] # None => loc[c].seg \notin configs[e].refs \/ e \in torn
    BY <1>t, <1>u DEF Checked, SegmentFree
  <2> QED BY <1>u, <1>s, <1>m, <2>1 DEF Kept, ReferencesUnlessTorn
<1> QED BY <1>t, <1>u, <1>1, <1>2, <1>3, KeepsWriting

\* What happens in one statement beside the operators' requests.
LEMMA KeptMeanwhile ==
    ASSUME IInv, Kept, NEW e \in Env,
           \/ DeleteEnvironment(e) \/ CreateExperiment(e) \/ DeleteExperiment(e)
           \/ \E s \in Segment : CreateSegment(e, s)
    PROVE  Kept'
<1>t. TypeOK /\ \A c \in Op : Found(c) /\ Checked(c) /\ loc[c].env \in Env
  BY LocalFields DEF IInv, TypeOK, Kept
<1>f. \A c \in Op : Found(c)'
  BY <1>t DEF DeleteEnvironment, CreateExperiment, DeleteExperiment, CreateSegment, Found
<1>1. CASE DeleteEnvironment(e)
  <2>1. /\ UNCHANGED <<flag, pc, loc>> /\ live' = live \ {e} /\ torn' = torn \ {e} /\ e \in live
        /\ \A f \in Env : configs'[f] = (IF f = e THEN None ELSE configs[f])
        /\ \A f \in Env : segs'[f] = (IF f = e THEN {} ELSE segs[f])
    BY <1>t, <1>1 DEF DeleteEnvironment, TypeOK
  <2>2. ASSUME NEW c \in Op PROVE Checked(c)'
    <3>1. pc[c] = "env_seeded" => loc[c].env # e
      BY <2>1, Labels DEF IInv, EnvCreation
    <3>2. OwnBase(c)' /\ SeedValid(c)'
      BY <1>t, <2>1, <3>1 DEF Checked, OwnBase, SeedValid, Current
    <3>3. EditValid(c)' /\ EditRefers(c)'
      BY <1>t, <2>1 DEF Checked, EditValid, EditRefers, Current
    <3>4. VariantsFit(c)' /\ SegmentFree(c)'
      BY <1>t, <2>1 DEF Checked, VariantsFit, SegmentFree, Current
    <3> QED BY <3>2, <3>3, <3>4 DEF Checked
  <2>3. EvaluableUnlessTorn' /\ ReferencesUnlessTorn'
    BY <2>1 DEF Kept, EvaluableUnlessTorn, ReferencesUnlessTorn
  <2> QED BY <1>f, <2>2, <2>3 DEF Kept
<1>2. CASE CreateExperiment(e) \/ DeleteExperiment(e)
  <2>1. UNCHANGED <<rows, pc, loc>>
    BY <1>2 DEF CreateExperiment, DeleteExperiment, rows
  <2>2. \A c \in Op : Checked(c)'
    BY <1>t, <2>1, TornGrows DEF rows
  <2>3. EvaluableUnlessTorn' /\ ReferencesUnlessTorn'
    BY <2>1 DEF Kept, rows, EvaluableUnlessTorn, ReferencesUnlessTorn
  <2> QED BY <1>f, <2>2, <2>3 DEF Kept
<1>3. ASSUME NEW s \in Segment, CreateSegment(e, s) PROVE Kept'
  <2>1. /\ UNCHANGED <<live, flag, configs, torn, pc, loc>>
        /\ \A f \in Env : segs[f] \subseteq segs'[f]
    BY <1>t, <1>3 DEF CreateSegment, TypeOK
  <2>2. ASSUME NEW c \in Op PROVE Checked(c)'
    <3>1. EditRefers(c)'
      BY <1>t, <2>1 DEF Checked, EditRefers, Current
    <3> QED BY <1>t, <2>1, <3>1 DEF Checked, OwnBase, SeedValid, EditValid, VariantsFit, SegmentFree, Current
  <2>3. EvaluableUnlessTorn' /\ ReferencesUnlessTorn'
    BY <2>1 DEF Kept, EvaluableUnlessTorn, ReferencesUnlessTorn
  <2> QED BY <1>f, <2>2, <2>3 DEF Kept
<1> QED BY <1>1, <1>2, <1>3

\* The invariant of what has been checked.
LEMMA KeptHolds == Spec => []Kept
<1>1. Init => Kept
  BY DEF Init, Kept, Found, Checked, OwnBase, SeedValid, EditValid, EditRefers, VariantsFit,
     SegmentFree, EvaluableUnlessTorn, ReferencesUnlessTorn, FlagTx, Editing
<1>2. IInv /\ Kept /\ [Next]_vars => Kept'
  <2> SUFFICES ASSUME IInv, Kept, [Next]_vars PROVE Kept'
    OBVIOUS
  <2>1. CASE UNCHANGED vars
    BY <2>1 DEF vars, Kept, Found, Checked, OwnBase, SeedValid, EditValid, EditRefers, VariantsFit,
       SegmentFree, Current, EvaluableUnlessTorn, ReferencesUnlessTorn
  <2>2. ASSUME NEW c \in Op, Begin(c) PROVE Kept'
    BY <2>2, KeptBegins
  <2>3. ASSUME NEW c \in Op, Proceed(c) PROVE Kept'
    <3>1. CASE Rollback(c)
      BY <3>1, KeepsEnding DEF Rollback, rows, IInv
    <3> QED BY <2>3, <3>1, KeptCreatesFlag, KeptSeedsEnv, KeptCommitsEnv, KeptConfigures,
       KeptChecksFlag, KeptAppliesFlag, KeptDeletesFlag, KeptDeletesSegment DEF Proceed
  <2>4. ASSUME NEW e \in Env, DeleteEnvironment(e) \/ CreateExperiment(e) \/ DeleteExperiment(e)
        PROVE  Kept'
    BY <2>4, KeptMeanwhile
  <2>5. ASSUME NEW e \in Env, NEW s \in Segment, CreateSegment(e, s) PROVE Kept'
    BY <2>5, KeptMeanwhile
  <2> QED BY <2>1, <2>2, <2>3, <2>4, <2>5 DEF Next
<1> QED BY <1>1, <1>2, Inductive, PTL DEF Spec

\* EvaluableUnlessTorn: every variant a stored configuration names is one of the
\* flag's (validate_evaluable in update_config and update, the seeding of
\* create_flag and create_environment), unless a write of one request fell
\* between another's check and its write, for any number of concurrent requests.
THEOREM EvaluableUnlessTornHolds == Spec => []EvaluableUnlessTorn
<1>1. Kept => EvaluableUnlessTorn
  BY DEF Kept
<1> QED BY <1>1, KeptHolds, PTL

\* ReferencesUnlessTorn: every segment a stored rule names is defined in its
\* environment (validate_references in update_config, referencing_flags in the
\* deletion of a segment), with the same exception.
THEOREM ReferencesUnlessTornHolds == Spec => []ReferencesUnlessTorn
<1>1. Kept => ReferencesUnlessTorn
  BY DEF Kept
<1> QED BY <1>1, KeptHolds, PTL
=============================================================================
