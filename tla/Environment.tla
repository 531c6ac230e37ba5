----------------------------- MODULE Environment -----------------------------
(* One environment as its writers leave it, the snapshot the API builds of   *)
(* it, and what that snapshot makes the evaluation endpoints and an SDK that *)
(* fetched it answer.  Requests are atomic here: their interleavings are     *)
(* ConfigStore's and SegmentEdit's subject, the snapshot's way to a node     *)
(* SnapshotCache's.                                                          *)
EXTENDS Engine

CONSTANTS
    Salts,          \* salts an environment may have got
    FlagKey, SegmentKey, Metric,
    VariantLists,   \* variants a request may carry
    Configs,        \* [enabled, off_variant, fallthrough, rules]
    SegmentInputs,  \* [included, excluded, rules]
    Controls,       \* control variants an experiment may be created with
    Context,        \* contexts callers evaluate
    Tallies,        \* [exposures, conversions] a counter query may return
    MaxVersion      \* bound on the versions of rows

\* What the code's types say of the inputs: a Vec is a list, a struct has its
\* fields, weights and percentages are unsigned.
IsList(s) == Len(s) \in Nat /\ DOMAIN s = 1..Len(s)

Distributions(flag) == {flag.fallthrough} \cup {r.distribution : r \in ToSet(flag.rules)}

ConfigShape(config) ==
    /\ DOMAIN config = {"enabled", "off_variant", "fallthrough", "rules"}
    /\ config.enabled \in BOOLEAN /\ IsList(config.rules)
    /\ \A r \in ToSet(config.rules) :
          \A c \in ToSet(r.conditions) : DOMAIN c = {"attribute", "operator", "values"}
    /\ \A dist \in Distributions(config) : ~Has(dist, "fixed") =>
          IsList(dist.weights) /\ \A w \in ToSet(dist.weights) : w.weight \in Nat

SegmentShape(def) ==
    /\ DOMAIN def = {"included", "excluded", "rules"} /\ IsList(def.rules)
    /\ \A r \in ToSet(def.rules) : r.rollout # None =>
          /\ DOMAIN r = {"id", "conditions", "rollout"}
          /\ DOMAIN r.rollout = {"percentage", "bucket_by"} /\ r.rollout.percentage \in Nat

\* The texts a context can be hashed by.
Subjects(ctx) == ({ctx.key} \cup {ToText(ctx.attributes[a]) : a \in DOMAIN ctx.attributes}) \ {None}

ASSUME EnvironmentAssumption ==
    /\ None \notin ValidKey
    /\ \A config \in Configs : ConfigShape(config)
    /\ \A variants \in VariantLists : IsList(variants)
    /\ \A def \in SegmentInputs : SegmentShape(def)
    /\ Tallies \subseteq [exposures : Nat, conversions : Nat]

\* A hash modulo Total is below it.
ASSUME SlotAssumption ==
    \A s \in Salts, ctx \in Context : \A subject \in Subjects(ctx) :
        /\ \A k \in FlagKey : Slot(s, <<"flag", k>>, subject) \in 0..Total - 1
        /\ \A k \in SegmentKey : Slot(s, <<"segment", k>>, subject) \in 0..Total - 1

VARIABLES salt, flags, segments, experiment

vars == <<salt, flags, segments, experiment>>

Known == {k \in FlagKey : flags[k] # None}
Defined == {s \in SegmentKey : segments[s] # None}

\* The flag as the engine sees it, or as validate_evaluable assembles it.
FlagOf(key, variants, config, version) ==
    [key |-> key, variants |-> variants, enabled |-> config.enabled, off_variant |-> config.off_variant,
     fallthrough |-> config.fallthrough, rules |-> config.rules, version |-> version]

Candidate(key, variants, config) == FlagOf(key, variants, [config EXCEPT !.enabled = TRUE], 0)

Init ==
    /\ salt \in Salts
    /\ flags = [k \in FlagKey |-> None]
    /\ segments = [s \in SegmentKey |-> None]
    /\ experiment = None

-----------------------------------------------------------------------------
(* Writes.  A version is its row's own, bumped by the row's trigger. *)

\* A new flag is disabled and has no rules; its segments need no check.
CreateFlag(k, variants, config) ==
    /\ flags[k] = None
    /\ config.rules = <<>> /\ ~config.enabled
    /\ Validate(Candidate(k, variants, config))
    /\ flags' = [flags EXCEPT ![k] = [variants |-> variants, archived |-> FALSE, config |-> config, version |-> 1]]
    /\ UNCHANGED <<salt, segments, experiment>>

UpdateConfig(k, config) ==
    /\ k \in Known /\ flags[k].version < MaxVersion
    /\ Validate(Candidate(k, flags[k].variants, config))
    /\ ValidateReferences(Candidate(k, flags[k].variants, config), Defined)
    /\ flags' = [flags EXCEPT ![k].config = config, ![k].version = @ + 1]
    /\ UNCHANGED <<salt, segments, experiment>>

\* update: variants and archiving touch the flag's row, not its configuration's.
UpdateFlag(k, variants, archived) ==
    /\ k \in Known
    /\ Validate(Candidate(k, variants, flags[k].config))
    /\ flags' = [flags EXCEPT ![k].variants = variants, ![k].archived = archived]
    /\ UNCHANGED <<salt, segments, experiment>>

\* delete_flag: refused while any experiment measures the flag.
DeleteFlag(k) ==
    /\ k \in Known
    /\ experiment # None => experiment.flag # k
    /\ flags' = [flags EXCEPT ![k] = None]
    /\ UNCHANGED <<salt, segments, experiment>>

WriteSegment(s, def) ==
    /\ ValidateSegment(s, def)
    /\ s \in Defined => segments[s].version < MaxVersion
    /\ segments' = [segments EXCEPT ![s] =
                        [def |-> def, version |-> IF s \in Defined THEN segments[s].version + 1 ELSE 1]]
    /\ UNCHANGED <<salt, flags, experiment>>

DeleteSegment(s) ==
    /\ s \in Defined
    /\ \A k \in Known : s \notin ReferencedBy(flags[k].config)
    /\ segments' = [segments EXCEPT ![s] = None]
    /\ UNCHANGED <<salt, flags, experiment>>

CreateExperiment(k, control, metric) ==
    /\ experiment = None
    /\ k \in Known /\ ~flags[k].archived
    /\ \E i \in 1..Len(flags[k].variants) : flags[k].variants[i].key = control
    /\ experiment' = [flag |-> k, control |-> control, metric |-> metric, state |-> "draft", version |-> 1]
    /\ UNCHANGED <<salt, flags, segments>>

\* Draft to running, running to stopped, and never back.
Transition(from, to) ==
    /\ experiment # None /\ experiment.state = from
    /\ experiment' = [experiment EXCEPT !.state = to, !.version = @ + 1]
    /\ UNCHANGED <<salt, flags, segments>>

DeleteExperiment ==
    /\ experiment # None /\ experiment.state # "running"
    /\ experiment' = None
    /\ UNCHANGED <<salt, flags, segments>>

Next ==
    \/ \E k \in FlagKey : \/ \E variants \in VariantLists, config \in Configs : CreateFlag(k, variants, config)
                          \/ \E config \in Configs : UpdateConfig(k, config)
                          \/ \E variants \in VariantLists, archived \in BOOLEAN : UpdateFlag(k, variants, archived)
                          \/ DeleteFlag(k)
                          \/ \E control \in Controls, metric \in Metric : CreateExperiment(k, control, metric)
    \/ \E s \in SegmentKey : DeleteSegment(s) \/ \E def \in SegmentInputs : WriteSegment(s, def)
    \/ Transition("draft", "running") \/ Transition("running", "stopped")
    \/ DeleteExperiment

Spec == Init /\ [][Next]_vars

-----------------------------------------------------------------------------
(* The snapshot, the endpoints and the SDK. *)

Running == experiment # None /\ experiment.state = "running"

Versions ==
    {flags[k].version : k \in {x \in Known : ~flags[x].archived}}
    \cup {segments[s].version : s \in Defined}
    \cup (IF Running THEN {experiment.version} ELSE {})

Snapshot ==
    [salt |-> salt,
     flags |-> [k \in {x \in Known : ~flags[x].archived} |->
                   FlagOf(k, flags[k].variants, flags[k].config, flags[k].version)],
     segments |-> [s \in Defined |-> segments[s].def],
     experiments |-> IF Running THEN {experiment} ELSE {},
     version |-> Max(Versions \cup {0})]

EvaluateKey(snapshot, k, ctx, fallback) ==
    IF Has(snapshot.flags, k) THEN Evaluate(snapshot.flags[k], ctx, snapshot) ELSE NotFound(fallback)

CheckContext(ctx) == ctx.key # ""

\* evaluate_one; evaluate_all asks the same of every flag, or of each key
\* requested.  None is a bad request.
EvaluateOne(snapshot, k, ctx, fallback) ==
    IF CheckContext(ctx) THEN EvaluateKey(snapshot, k, ctx, fallback) ELSE None

\* Mutant of SnapshotResponse: rules travel without the segments they name.
SnapshotResponseNoSegments(s) ==
    [salt |-> s.salt, flags |-> s.flags, experiments |-> s.experiments, version |-> s.version]

\* The body of GET /snapshot: field by field, the salt included.
SnapshotResponse(s) ==
    [salt |-> s.salt, flags |-> s.flags, segments |-> s.segments,
     experiments |-> s.experiments, version |-> s.version]

\* serde reads it into the SDK's snapshot; absent fields get their default.
Decode(body) ==
    [salt |-> IF Has(body, "salt") THEN body.salt ELSE None,
     flags |-> body.flags,
     segments |-> IF Has(body, "segments") THEN body.segments ELSE <<>>,
     experiments |-> IF Has(body, "experiments") THEN body.experiments ELSE {},
     version |-> body.version]

Fetched == Decode(SnapshotResponse(Snapshot))

\* Client::evaluate: the experiments that count an exposure, with the arm.
Exposures(snapshot, k, ctx) ==
    LET arm == EvaluateKey(snapshot, k, ctx, None).variant
    IN  {<<e, arm>> : e \in {x \in snapshot.experiments : x.flag = k /\ arm # None}}

\* Mutant of Credits: a context without an arm is credited to the control.
CreditsControl(snapshot, metric, ctx) ==
    {<<e, IF EvaluateKey(snapshot, e.flag, ctx, None).variant = None THEN e.control
          ELSE EvaluateKey(snapshot, e.flag, ctx, None).variant>> :
        e \in {x \in snapshot.experiments : x.metric = metric}}

\* Client::track: the experiments that count a conversion, with the arm.
Credits(snapshot, metric, ctx) ==
    LET Arm(e) == EvaluateKey(snapshot, e.flag, ctx, None).variant
    IN  {<<e, Arm(e)>> : e \in {x \in snapshot.experiments : x.metric = metric /\ Arm(x) # None}}

-----------------------------------------------------------------------------
(* Properties. *)

Unplaced(dist, ctx) == ~Has(dist, "fixed") /\ BucketingSubject(ctx, dist.bucket_by) = None

\* "A flag that reaches the database is guaranteed evaluable": whatever sequence
\* of writes led here, evaluation gives an error only to a context that lacks
\* the attribute a rollout buckets on, and then serves the off variant's value.
ErrorsOnlyWithoutSubject ==
    LET s == Snapshot
    IN  \A k \in DOMAIN s.flags, ctx \in Context :
            LET flag == s.flags[k]
                e == EvaluateKey(s, k, ctx, None)
            IN  e.reason = <<"error">> =>
                    /\ \E dist \in Distributions(flag) : Unplaced(dist, ctx)
                    /\ e.value = Serve(flag, flag.off_variant, <<"off">>).value

\* pick_weighted gives every variant of a stored rollout exactly the number of
\* slots that is its weight, zero weights included, and leaves no slot over.
SharesExact ==
    \A k \in Known : \A dist \in Distributions(flags[k].config) :
        ~Has(dist, "fixed") =>
            \A v \in {None} \cup {w.variant : w \in ToSet(dist.weights)} :
                Cardinality({s \in 0..Total - 1 : PickWeighted(dist.weights, s) = v})
                    = IF v = None THEN 0
                      ELSE (CHOOSE w \in ToSet(dist.weights) : w.variant = v).weight

\* What a step left alone of a flag, apart from its fallthrough.
SameAudience(old, new) ==
    /\ old.enabled /\ new.enabled /\ old.variants = new.variants
    /\ old.rules = new.rules /\ ReferencedBy(old) = {}

\* new moves traffic only towards the front of old's list of variants.
RampUp(old, new) ==
    /\ ~Has(old, "fixed") /\ ~Has(new, "fixed") /\ old.bucket_by = new.bucket_by
    /\ Len(old.weights) = Len(new.weights)
    /\ \A i \in 1..Len(old.weights) :
          /\ old.weights[i].variant = new.weights[i].variant
          /\ Cumulative(old.weights)[i] <= Cumulative(new.weights)[i]

Position(weights, v) == CHOOSE i \in 1..Len(weights) : weights[i].variant = v

\* No context the fallthrough placed moves backwards in a step that ramps a flag up.
FlagsStick ==
    \A k \in {x \in Known \cap Known' : flags[x] # flags'[x]} :
        LET old == FlagOf(k, flags[k].variants, flags[k].config, flags[k].version)
            new == FlagOf(k, flags'[k].variants, flags'[k].config, flags'[k].version)
            Before(ctx) == Evaluate(old, ctx, [salt |-> salt, segments |-> <<>>])
            After(ctx) == Evaluate(new, ctx, [salt |-> salt, segments |-> <<>>])
        IN  SameAudience(old, new) /\ RampUp(old.fallthrough, new.fallthrough) =>
                \A ctx \in {c \in Context : Before(c).reason = <<"fallthrough">>} :
                    Position(new.fallthrough.weights, After(ctx).variant)
                        <= Position(old.fallthrough.weights, Before(ctx).variant)

\* new is old with the percentages of some rules raised.
Widened(old, new) ==
    /\ [old EXCEPT !.rules = <<>>] = [new EXCEPT !.rules = <<>>]
    /\ Len(old.rules) = Len(new.rules)
    /\ \A i \in 1..Len(old.rules) :
          \/ old.rules[i] = new.rules[i]
          \/ /\ old.rules[i].rollout # None /\ new.rules[i].rollout # None
             /\ new.rules[i] = [old.rules[i] EXCEPT !.rollout.percentage = new.rules[i].rollout.percentage]
             /\ old.rules[i].rollout.percentage <= new.rules[i].rollout.percentage

\* No member is lost in a step that widens a segment.
MembersStick ==
    \A s \in {x \in Defined \cap Defined' : segments[x] # segments'[x]} :
        Widened(segments[s].def, segments'[s].def) =>
            \A ctx \in Context :
                SegmentContains(segments[s].def, s, ctx, salt) => SegmentContains(segments'[s].def, s, ctx, salt)

\* "Deterministic and sticky": an operator who shifts weight towards the front
\* of a rollout moves no context backwards, so raising the first variant's share
\* takes it from nobody who had it; and raising a segment rule's percentage
\* drops no member.
RampUpIsSticky == [][FlagsStick /\ MembersStick]_vars

\* A negated operator matches exactly the contexts that have the attribute and
\* that its positive twin does not match, list-valued attributes included: "a
\* missing attribute never matches - including for negated operators".
NegationIsStrict ==
    \A k \in Known : \A i \in 1..Len(flags[k].config.rules) :
        \A c \in ToSet(flags[k].config.rules[i].conditions), ctx \in Context :
            Has(Negated, c.operator) =>
                (ConditionMatches(c, ctx)
                    <=> /\ Has(ctx.attributes, c.attribute)
                        /\ ~ConditionMatches([c EXCEPT !.operator = PositiveCounterpart(@)], ctx))

\* "Local evaluation must not silently disagree with the server": for every
\* context the endpoints accept, the SDK decides over the body of /snapshot what
\* they decide over the snapshot it was made from.
LocalAgreesWithServer ==
    LET server == Snapshot
        sdk == Fetched
    IN  \A k \in FlagKey, ctx \in Context :
            EvaluateOne(server, k, ctx, None) \in {None, EvaluateKey(sdk, k, ctx, None)}

\* "Both sides of the rate land on the same arm": under one snapshot, a context's
\* conversion is credited exactly to the arm its exposure counts for, and to
\* none when its evaluation has no arm.
ConversionOnExposedArm ==
    LET sdk == Fetched
    IN  \A metric \in Metric, ctx \in Context :
            Credits(sdk, metric, ctx) =
                {c \in UNION {Exposures(sdk, k, ctx) : k \in FlagKey} : c[1].metric = metric}

\* Whatever the counters hold (a conversion without its exposure, an arm the
\* flag no longer has), every rate is a proportion, which wilson's clamps need
\* not to panic, and there is a verdict only about another arm that was
\* observed; swapping the sides changes its sign.
ResultsAreProportions ==
    Running => \A counts \in [Controls -> Tallies] :
        LET r == Results(experiment.control, counts)
        IN  \A v \in DOMAIN r :
              /\ r[v].rate # None => r[v].rate[2] > 0 /\ r[v].rate[1] \in 0..r[v].rate[2]
              /\ r[v].vs_control # None =>
                    /\ v # experiment.control /\ r[v].rate # None
                    /\ Results(v, counts)[experiment.control].vs_control = [lift |-> -r[v].vs_control.lift]
=============================================================================
