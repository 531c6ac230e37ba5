------------------------------- MODULE Engine -------------------------------
(* The pure half of the core crate: matching, bucketing, evaluation,         *)
(* validation, and which verdicts an experiment's numbers allow.             *)
(*                                                                           *)
(* A flag is [key, variants, enabled, off_variant, fallthrough, rules,       *)
(* version]; a distribution is [fixed] or [weights, bucket_by]; an attribute *)
(* is one of [text], [number], [bool], [list].  What strings contain, match  *)
(* and parse to is given as data; numbers are integers.                      *)
EXTENDS Integers, Sequences, SequencesExt, FiniteSets, FiniteSetsExt, TLC

CONSTANTS
    Total,              \* TOTAL_WEIGHT
    ValidKey,           \* the keys is_valid_key accepts
    TextFact,           \* <<operator, actual, expected>> that hold of strings
    Compiles,           \* the patterns Regex::new accepts
    Semver,             \* text -> rank of the version lenient_semver reads in it
    Slot(_, _, _),      \* SHA-256 of (salt, namespace, subject), mod Total
    None

ASSUME EngineAssumption == Total \in Nat \ {0} /\ "" \notin ValidKey

Blank == {"", " "}

-----------------------------------------------------------------------------
(* Attribute values and contexts. *)

Has(record, field) == field \in DOMAIN record

ToText(a) ==
    CASE Has(a, "text") -> a.text
      [] Has(a, "number") -> ToString(a.number)
      [] Has(a, "bool") -> IF a.bool THEN "true" ELSE "false"
      [] Has(a, "list") -> None

Scalars(a) == IF Has(a, "list") THEN ToSet(a.list) ELSE {a}

\* What a rollout hashes on: the named attribute's text, or the context's key.
BucketingSubject(ctx, bucketBy) ==
    IF bucketBy = None THEN ctx.key
    ELSE IF Has(ctx.attributes, bucketBy) THEN ToText(ctx.attributes[bucketBy]) ELSE None

-----------------------------------------------------------------------------
(* Conditions. *)

Negated == [NotIn |-> "In", NotContains |-> "Contains", NotMatches |-> "Matches"]

PositiveCounterpart(op) == IF Has(Negated, op) THEN Negated[op] ELSE op

Equals(a, e) ==
    IF Has(a, "number") /\ Has(e, "number") THEN a.number = e.number
    ELSE ToText(a) # None /\ ToText(a) = ToText(e)

NumberOrder(op, a, e) ==
    CASE op = "GreaterThan" -> a > e
      [] op = "GreaterThanOrEqual" -> a >= e
      [] op = "LessThan" -> a < e
      [] op = "LessThanOrEqual" -> a <= e

SemverOrder(op, a, e) ==
    CASE op = "SemverEqual" -> a = e
      [] op = "SemverGreaterThan" -> a > e
      [] op = "SemverLessThan" -> a < e

\* A value of the wrong kind compares as false, whatever the operator.
Compare(op, a, e) ==
    CASE op = "In" -> Equals(a, e)
      [] op \in {"Contains", "StartsWith", "EndsWith"} -> <<op, ToText(a), ToText(e)>> \in TextFact
      [] op = "Matches" -> Has(e, "text") /\ e.text \in Compiles /\ <<op, ToText(a), e.text>> \in TextFact
      [] op \in {"GreaterThan", "GreaterThanOrEqual", "LessThan", "LessThanOrEqual"} ->
            Has(a, "number") /\ Has(e, "number") /\ NumberOrder(op, a.number, e.number)
      [] op \in {"SemverEqual", "SemverGreaterThan", "SemverLessThan"} ->
            /\ {ToText(a), ToText(e)} \subseteq DOMAIN Semver
            /\ SemverOrder(op, Semver[ToText(a)], Semver[ToText(e)])

\* Mutant of ConditionMatches: each comparison is negated, not their disjunction.
ConditionMatchesEach(condition, ctx) ==
    LET present == Has(ctx.attributes, condition.attribute)
        op == condition.operator
        Some(P(_, _)) == \E a \in Scalars(ctx.attributes[condition.attribute]),
                            e \in ToSet(condition.values) : P(a, e)
    IN  CASE op = "Exists" -> present
          [] op = "NotExists" -> ~present
          [] OTHER -> present /\ Some(LAMBDA a, e : Compare(PositiveCounterpart(op), a, e) # Has(Negated, op))

\* A missing attribute matches nothing, negated operators included.
ConditionMatches(condition, ctx) ==
    LET present == Has(ctx.attributes, condition.attribute)
        op == condition.operator
        anyMatch == \E a \in Scalars(ctx.attributes[condition.attribute]), e \in ToSet(condition.values) :
                        Compare(PositiveCounterpart(op), a, e)
    IN  CASE op = "Exists" -> present
          [] op = "NotExists" -> ~present
          [] OTHER -> present /\ condition.values # <<>> /\ (anyMatch # Has(Negated, op))

AllMatch(conditions, ctx) == \A c \in ToSet(conditions) : ConditionMatches(c, ctx)

-----------------------------------------------------------------------------
(* Segments and rules.  env is [salt, segments]. *)

\* A flag and a segment of the same key hash in different namespaces.
Bucket(salt, kind, key, subject) == Slot(salt, <<kind, key>>, subject)

SegmentRuleMatches(rule, key, ctx, salt) ==
    /\ AllMatch(rule.conditions, ctx)
    /\ \/ rule.rollout = None
       \/ LET subject == BucketingSubject(ctx, rule.rollout.bucket_by)
          IN  subject # None /\ Bucket(salt, "segment", key, subject) < rule.rollout.percentage

\* Exclusion beats inclusion, and both beat the rules.
SegmentContains(segment, key, ctx, salt) ==
    /\ ctx.key \notin segment.excluded
    /\ \/ ctx.key \in segment.included
       \/ \E rule \in ToSet(segment.rules) : SegmentRuleMatches(rule, key, ctx, salt)

InSegment(key, ctx, env) ==
    Has(env.segments, key) /\ SegmentContains(env.segments[key], key, ctx, env.salt)

SegmentMatchHolds(required, ctx, env) ==
    /\ required.any_of = {} \/ \E k \in required.any_of : InSegment(k, ctx, env)
    /\ \A k \in required.none_of : ~InSegment(k, ctx, env)

RuleMatches(rule, ctx, env) ==
    /\ AllMatch(rule.conditions, ctx)
    /\ rule.segments = None \/ SegmentMatchHolds(rule.segments, ctx, env)

-----------------------------------------------------------------------------
(* Evaluation. *)

Cumulative(weights) ==
    LET upTo[i \in 0..Len(weights)] == IF i = 0 THEN 0 ELSE upTo[i - 1] + weights[i].weight
    IN  upTo

\* Mutant of PickWeighted: a slot on the boundary goes to the entry before it.
PickWeightedInclusive(weights, slot) ==
    LET owners == {i \in 1..Len(weights) : slot <= Cumulative(weights)[i]}
    IN  IF owners = {} THEN None ELSE weights[Min(owners)].variant

\* The entry whose cumulative weight is the first above the slot.
PickWeighted(weights, slot) ==
    LET owners == {i \in 1..Len(weights) : slot < Cumulative(weights)[i]}
    IN  IF owners = {} THEN None ELSE weights[Min(owners)].variant

\* Mutant of Resolve: the version salts the hash.
ResolveByVersion(flag, dist, ctx, salt) ==
    IF Has(dist, "fixed") THEN dist.fixed
    ELSE LET subject == BucketingSubject(ctx, dist.bucket_by)
         IN  IF subject = None THEN None
             ELSE PickWeighted(dist.weights, Bucket(salt + flag.version, "flag", flag.key, subject))

\* A distribution's variant key; None is an error.
Resolve(flag, dist, ctx, salt) ==
    IF Has(dist, "fixed") THEN dist.fixed
    ELSE LET subject == BucketingSubject(ctx, dist.bucket_by)
         IN  IF subject = None THEN None
             ELSE PickWeighted(dist.weights, Bucket(salt, "flag", flag.key, subject))

VariantOf(flag, key) == {i \in 1..Len(flag.variants) : flag.variants[i].key = key}

Decision(flag, variant, value, reason) ==
    [variant |-> variant, value |-> value, reason |-> reason, version |-> flag.version]

\* The off variant's value without its key, or null.
Degrade(flag) ==
    Decision(flag, None,
             IF VariantOf(flag, flag.off_variant) = {} THEN None
             ELSE flag.variants[Min(VariantOf(flag, flag.off_variant))].value,
             <<"error">>)

Serve(flag, key, reason) ==
    IF VariantOf(flag, key) = {} THEN Degrade(flag)
    ELSE Decision(flag, key, flag.variants[Min(VariantOf(flag, key))].value, reason)

ServeDistribution(flag, dist, ctx, env, reason) ==
    LET key == Resolve(flag, dist, ctx, env.salt)
    IN  IF key = None THEN Degrade(flag) ELSE Serve(flag, key, reason)

Evaluate(flag, ctx, env) ==
    LET matching == {i \in 1..Len(flag.rules) : RuleMatches(flag.rules[i], ctx, env)}
    IN  IF ~flag.enabled THEN Serve(flag, flag.off_variant, <<"off">>)
        ELSE IF matching # {}
        THEN ServeDistribution(flag, flag.rules[Min(matching)].distribution, ctx, env,
                               <<"target_match", Min(matching)>>)
        ELSE ServeDistribution(flag, flag.fallthrough, ctx, env, <<"fallthrough">>)

NotFound(fallback) == [variant |-> None, value |-> fallback, reason |-> <<"flag_not_found">>, version |-> 0]

-----------------------------------------------------------------------------
(* Validation: only whether there is an issue, not its wording. *)

Distinct(seq) == Cardinality(ToSet(seq)) = Len(seq)

Bucketable(bucketBy) == bucketBy = None \/ bucketBy \notin Blank

\* Mutant of CheckDistribution: weights need not sum up.
CheckDistributionAnySum(dist, variants) ==
    IF Has(dist, "fixed") THEN dist.fixed \in variants
    ELSE LET chosen == [i \in 1..Len(dist.weights) |-> dist.weights[i].variant]
         IN  dist.weights # <<>> /\ ToSet(chosen) \subseteq variants /\ Distinct(chosen)
             /\ Bucketable(dist.bucket_by)

CheckDistribution(dist, variants) ==
    IF Has(dist, "fixed") THEN dist.fixed \in variants
    ELSE LET chosen == [i \in 1..Len(dist.weights) |-> dist.weights[i].variant]
         IN  /\ dist.weights # <<>>
             /\ ToSet(chosen) \subseteq variants /\ Distinct(chosen)
             /\ Cumulative(dist.weights)[Len(dist.weights)] = Total
             /\ Bucketable(dist.bucket_by)

CheckConditions(conditions) ==
    \A c \in ToSet(conditions) :
        /\ c.attribute \notin Blank
        /\ c.operator \notin {"Exists", "NotExists"} => c.values # <<>>
        /\ PositiveCounterpart(c.operator) = "Matches" =>
              \A e \in ToSet(c.values) : Has(e, "text") /\ e.text \in Compiles

Referenced(required) == required.any_of \cup required.none_of

CheckSegmentMatch(required) ==
    /\ Referenced(required) # {} /\ Referenced(required) \cap Blank = {}
    /\ required.any_of \cap required.none_of = {}

DistinctIds(rules) == Distinct([i \in 1..Len(rules) |-> rules[i].id])

Validate(flag) ==
    LET keys == [i \in 1..Len(flag.variants) |-> flag.variants[i].key]
    IN  /\ flag.key \in ValidKey
        /\ keys # <<>> /\ ToSet(keys) \subseteq ValidKey /\ Distinct(keys)
        /\ flag.off_variant \in ToSet(keys)
        /\ CheckDistribution(flag.fallthrough, ToSet(keys))
        /\ DistinctIds(flag.rules)
        /\ \A rule \in ToSet(flag.rules) :
              /\ CheckConditions(rule.conditions)
              /\ rule.segments # None => CheckSegmentMatch(rule.segments)
              /\ CheckDistribution(rule.distribution, ToSet(keys))

ValidateSegment(key, segment) ==
    /\ key \in ValidKey
    /\ segment.included \cap segment.excluded = {}
    /\ DistinctIds(segment.rules)
    /\ \A rule \in ToSet(segment.rules) :
          /\ CheckConditions(rule.conditions)
          /\ rule.rollout # None => rule.rollout.percentage <= Total /\ Bucketable(rule.rollout.bucket_by)

ReferencedBy(flag) == UNION {Referenced(r.segments) : r \in {x \in ToSet(flag.rules) : x.segments # None}}

ValidateReferences(flag, known) == ReferencedBy(flag) \subseteq known

-----------------------------------------------------------------------------
(* Experiment results.  A rate x / n is kept as <<x, n>>. *)

\* Mutant of Observed: conversions are not clamped.
ObservedRaw(count) ==
    IF count.exposures = 0 THEN None ELSE <<count.conversions, count.exposures>>

Observed(count) ==
    IF count.exposures = 0 THEN None
    ELSE <<Min({count.conversions, count.exposures}), count.exposures>>

\* two_proportion_z: no verdict when the pooled variance is zero.
Verdict(own, control) ==
    LET x == own[1] + control[1]
        n == own[2] + control[2]
    IN  IF x * (n - x) <= 0 THEN None
        ELSE [lift |-> own[1] * control[2] - control[1] * own[2]]

\* counts is a function from variants to tallies.
Results(controlVariant, counts) ==
    LET control == IF Has(counts, controlVariant) THEN Observed(counts[controlVariant]) ELSE None
    IN  [v \in DOMAIN counts |->
            [rate |-> Observed(counts[v]),
             vs_control |-> IF v = controlVariant \/ control = None \/ Observed(counts[v]) = None THEN None
                            ELSE Verdict(Observed(counts[v]), control)]]
=============================================================================
