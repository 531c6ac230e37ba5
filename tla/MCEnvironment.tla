---------------------------- MODULE MCEnvironment ----------------------------
(* A flag, a segment and an experiment, four slots, and contexts that have,  *)
(* lack and multiply the attributes the rules name.                          *)
EXTENDS Environment

T(s) == [text |-> s]
N(n) == [number |-> n]
Cond(a, op, vs) == [attribute |-> a, operator |-> op, values |-> vs]
Fixed(v) == [fixed |-> v]
Split(by, a, b, c) ==
    [weights |-> <<[variant |-> "on", weight |-> a], [variant |-> "beta", weight |-> b],
                   [variant |-> "off", weight |-> c]>>, bucket_by |-> by]
Two(by, a, b) ==
    [weights |-> <<[variant |-> "on", weight |-> a], [variant |-> "off", weight |-> b]>>, bucket_by |-> by]
Rule(id, conds, segs, dist) == [id |-> id, conditions |-> conds, segments |-> segs, distribution |-> dist]
Needs(any, none) == [any_of |-> any, none_of |-> none]
Off(fall) == [enabled |-> FALSE, off_variant |-> "off", fallthrough |-> fall, rules |-> <<>>]
On(fall, rules) == [enabled |-> TRUE, off_variant |-> "off", fallthrough |-> fall, rules |-> rules]

MCValidKey == {"checkout", "beta", "on", "off"}
MCTextFact == {<<"Contains", "pro", "pro">>, <<"StartsWith", "true", "true">>, <<"StartsWith", "3", "3">>,
               <<"EndsWith", "pro", "o">>, <<"Matches", "pro", "p.*">>}
MCCompiles == {"p.*", "pro"}
MCSemver == [v \in {"1.2", "1.2.0", "3"} |-> IF v = "3" THEN 300 ELSE 120]

\* Every subject meets every slot under some salt.
Hashed == <<"", "u1", "u2", "acme", "3", "pro", "true">>
MCSlot(s, name, subject) ==
    (s + (IF name[1] = "flag" THEN 0 ELSE 1) + (CHOOSE i \in 1..7 : Hashed[i] = subject)) % Total

Values(v) == [key |-> v, value |-> v]
MCVariantLists == {<<Values("on"), Values("off")>>, <<Values("on"), Values("off"), Values("beta")>>,
                   <<Values("off")>>, <<Values("on"), Values("on"), Values("off")>>, <<>>}

MCConfigs ==
    {Off(Fixed("on")), Off(Two(None, 1, 3)),
     On(Two(None, 0, 4), <<>>), On(Two(None, 1, 3), <<>>), On(Two(None, 3, 1), <<>>), On(Split(None, 1, 2, 1), <<>>),
     On(Two(None, 1, 2), <<>>), On(Two(None, 3, 3), <<>>), On(Two("", 2, 2), <<>>), On(Two("account", 2, 2), <<>>),
     On(Fixed("off"), <<Rule(1, <<Cond("roles", "NotIn", <<T("pro"), N(3)>>)>>, None, Fixed("on")),
                        Rule(2, <<Cond("plan", "In", <<T("pro")>>), Cond("app", "SemverGreaterThan", <<T("1.2")>>)>>,
                             Needs({"beta"}, {}), Two(None, 2, 2))>>),
     On(Fixed("off"), <<Rule(1, <<Cond("plan", "Contains", <<T("pro")>>), Cond("app", "GreaterThan", <<N(2)>>)>>,
                             Needs({}, {"beta"}), Fixed("on")),
                        Rule(2, <<Cond("plan", "Exists", <<>>), Cond("plan", "NotMatches", <<T("p.*")>>)>>,
                             None, Two("account", 1, 3))>>),
     On(Fixed("off"), <<Rule(1, <<Cond("plan", "Matches", <<T("p(")>>)>>, None, Fixed("on"))>>),
     On(Fixed("off"), <<Rule(1, <<>>, Needs({"beta"}, {"beta"}), Fixed("on"))>>)}

Segment(inc, exc, rules) == [included |-> inc, excluded |-> exc, rules |-> rules]
SegRule(id, conds, roll) == [id |-> id, conditions |-> conds, rollout |-> roll]
Share(by, p) == [percentage |-> p, bucket_by |-> by]
MCSegmentInputs ==
    {Segment({"u1"}, {"u2"}, <<SegRule(1, <<>>, None)>>), Segment({"u1"}, {"u1"}, <<>>),
     Segment({}, {}, <<SegRule(1, <<Cond("plan", "EndsWith", <<T("o")>>)>>, Share(None, 1))>>),
     Segment({}, {}, <<SegRule(1, <<Cond("plan", "EndsWith", <<T("o")>>)>>, Share(None, 3))>>),
     Segment({}, {}, <<SegRule(1, <<>>, Share("account", 5))>>)}

Ctx(key, attributes) == [key |-> key, attributes |-> attributes]
MCContext ==
    {Ctx("u1", <<>>), Ctx("", [plan |-> T("pro")]),
     Ctx("u2", [plan |-> T("pro"), app |-> N(3), account |-> T("acme"), roles |-> [list |-> <<T("pro"), N(1)>>]]),
     Ctx("u1", [plan |-> [bool |-> TRUE], account |-> [list |-> <<T("acme")>>], roles |-> [list |-> <<N(1)>>]])}

MCTallies == [exposures : 0..2, conversions : {0, 3}]
=============================================================================
