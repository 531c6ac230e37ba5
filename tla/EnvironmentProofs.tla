-------------------------- MODULE EnvironmentProofs --------------------------
(***************************************************************************)
(* Proofs about Environment and the engine it evaluates with, for any      *)
(* keys, variants, rules, contexts and hash.  One invariant carries them:  *)
(* every stored flag passes Validate as it stands now, whichever of its    *)
(* parts was written last (IInv).  What follows for an evaluation is       *)
(* arithmetic over the sums of a rollout's weights: the sums never fall,   *)
(* so each slot has one owner, and the last sum is the number of slots.    *)
(* Where that takes induction over a list it is done by a least            *)
(* counterexample among the naturals.                                      *)
(***************************************************************************)
EXTENDS Environment, FiniteSetTheorems, TLAPS

-----------------------------------------------------------------------------
(* Numbers and lists. *)

\* A non-empty set of naturals has a least element.
LEMMA LeastNatural ==
    ASSUME NEW S, S \subseteq Nat, S # {}
    PROVE  \E m \in S : \A n \in S : m <= n
<1> DEFINE R == OpToRel(<, Nat)
<1>0. R = {ss \in Nat \X Nat : ss[1] < ss[2]}
  BY DEF OpToRel
<1>1. IsWellFoundedOn(R, Nat)
  BY Zenon, NatLessThanWellFounded
<1> HIDE DEF R
<1>2. PICK m \in S : \A n \in S : ~ (<<n, m>> \in R)
  BY <1>1, WFMin
<1>3. \A i, j \in Nat : j < i => <<j, i>> \in R
  BY <1>0
<1>4. ASSUME NEW n \in S PROVE m <= n
  <2>1. m \in Nat /\ n \in Nat
    OBVIOUS
  <2>2. ~(n < m)
    BY <1>2, <1>3, <2>1
  <2> QED BY <2>1, <2>2
<1> QED BY <1>4

\* Min of a non-empty set of naturals is its least element.
LEMMA MinIsLeast ==
    ASSUME NEW S, S \subseteq Nat, S # {}
    PROVE  Min(S) \in S /\ \A n \in S : Min(S) <= n
BY LeastNatural DEF Min

\* What holds of 0, and of every number up to n whose predecessor it holds of,
\* holds up to n.
LEMMA Reaches ==
    ASSUME NEW n \in Nat, NEW S, 0 \in S, \A i \in 1..n : i - 1 \in S => i \in S
    PROVE  0..n \subseteq S
<1> DEFINE Bad == {i \in 0..n : i \notin S}
<1> SUFFICES ASSUME Bad # {} PROVE FALSE
  OBVIOUS
<1>1. PICK m \in Bad : \A i \in Bad : m <= i
  <2>1. Bad \subseteq Nat
    OBVIOUS
  <2> HIDE DEF Bad
  <2> QED BY <2>1, LeastNatural
<1>2. m \in 1..n
  OBVIOUS
<1>3. m - 1 \notin Bad
  BY <1>1, <1>2
<1> QED BY <1>2, <1>3

\* The elements of a list are those at its positions.
LEMMA ListElements ==
    ASSUME NEW s, IsList(s)
    PROVE  ToSet(s) = {s[i] : i \in 1..Len(s)}
BY DEF IsList, ToSet

\* A list without duplicates has each element at one position.
LEMMA DistinctPositions ==
    ASSUME NEW n \in Nat, NEW s, DOMAIN s = 1..n, s = [i \in 1..n |-> s[i]], Len(s) = n, Distinct(s)
    PROVE  \A i, j \in 1..n : s[i] = s[j] => i = j
<1>1. s \in Surjection(1..n, ToSet(s))
  BY DEF Surjection, ToSet
<1>2. IsFiniteSet(1..n) /\ Cardinality(1..n) = n
  BY FS_Interval
<1>3. s \in Injection(1..n, ToSet(s))
  BY <1>1, <1>2, FS_SurjSameCardinalityImpliesInj DEF Distinct
<1> QED BY <1>3 DEF Injection, IsInjective

-----------------------------------------------------------------------------
(* Cumulative weights. *)

\* What PickWeighted relies on: a list of entries with weights.
Weighted(w) == IsList(w) /\ \A i \in 1..Len(w) : w[i].weight \in Nat

\* Cumulative is what its recursive definition says.
LEMMA CumulativeDef ==
    ASSUME NEW w, Weighted(w)
    PROVE  /\ Cumulative(w) \in [0..Len(w) -> Nat]
           /\ Cumulative(w)[0] = 0
           /\ \A i \in 1..Len(w) : Cumulative(w)[i] = Cumulative(w)[i - 1] + w[i].weight
<1> DEFINE n == Len(w)
           Sums(f, m) == /\ f \in [0..m -> Nat] /\ f[0] = 0
                         /\ \A i \in 1..m : f[i] = f[i - 1] + w[i].weight
           Summed(m) == \E f : Sums(f, m)
           Done == {m \in 0..n : Summed(m)}
           Body(f) == [i \in 0..n |-> IF i = 0 THEN 0 ELSE f[i - 1] + w[i].weight]
<1>1. n \in Nat /\ \A i \in 1..n : w[i].weight \in Nat
  BY DEF Weighted, IsList
<1>2. Summed(0)
  <2> DEFINE z == [i \in 0..0 |-> 0]
  <2>1. Sums(z, 0)
    OBVIOUS
  <2> HIDE DEF z, Sums
  <2> QED BY <2>1
<1>3. ASSUME NEW m \in 1..n, Summed(m - 1) PROVE Summed(m)
  <2>1. PICK f : Sums(f, m - 1)
    BY <1>3
  <2> DEFINE top == f[m - 1] + w[m].weight
             g == [i \in 0..m |-> IF i = m THEN top ELSE f[i]]
  <2>0. m \in Nat /\ m - 1 \in Nat /\ m - 1 \in 0..m - 1 /\ 0 \in 0..m - 1
    BY <1>1
  <2>2. f[m - 1] \in Nat /\ w[m].weight \in Nat /\ top \in Nat
    BY <1>1, <2>0, <2>1
  <2>3. \A i \in 0..m - 1 : f[i] \in Nat
    BY <2>1
  <2>7. f[0] = 0 /\ \A i \in 1..m - 1 : f[i] = f[i - 1] + w[i].weight
    BY <2>1
  <2>8. top = f[m - 1] + w[m].weight
    OBVIOUS
  <2> HIDE DEF top
  <2>4. g \in [0..m -> Nat] /\ g[0] = 0
    BY <2>0, <2>7, <2>2, <2>3
  <2>5. ASSUME NEW i \in 1..m PROVE g[i] = g[i - 1] + w[i].weight
    <3>1. CASE i = m
      BY <2>0, <2>8, <3>1
    <3>2. CASE i # m
      <4>1. i \in 1..m - 1 /\ i - 1 # m /\ i - 1 \in 0..m /\ i \in 0..m
        BY <2>0, <3>2
      <4> QED BY <2>7, <3>2, <4>1
    <3> QED BY <3>1, <3>2
  <2>6. Sums(g, m)
    BY <2>4, <2>5
  <2> HIDE DEF g, Sums
  <2> QED BY <2>6
<1>4. Summed(n)
  <2> HIDE DEF Summed
  <2>1. 0 \in Done /\ \A i \in 1..n : i - 1 \in Done => i \in Done
    BY <1>1, <1>2, <1>3
  <2>2. 0..n \subseteq Done
    <3> HIDE DEF Done
    <3> QED BY <1>1, <2>1, Reaches
  <2> QED BY <1>1, <2>2
<1>5. PICK f : Sums(f, n)
  BY <1>4
<1>6. f = Body(f)
  BY <1>1, <1>5
<1>7. Cumulative(w) = CHOOSE g : g = Body(g)
  BY DEF Cumulative
<1> DEFINE c == Cumulative(w)
<1>8. c = Body(c)
  BY <1>6, <1>7
<1> HIDE DEF c
<1>9. c[0] = 0 /\ DOMAIN c = 0..n /\ \A i \in 1..n : c[i] = c[i - 1] + w[i].weight
  BY <1>1, <1>8
<1> DEFINE S == {i \in 0..n : c[i] \in Nat}
<1>10. 0..n \subseteq S
  <2>1. 0 \in S
    BY <1>1, <1>9
  <2>2. \A i \in 1..n : i - 1 \in S => i \in S
    BY <1>1, <1>9
  <2> HIDE DEF S
  <2> QED BY <1>1, <2>1, <2>2, Reaches
<1>11. c \in [0..n -> Nat]
  BY <1>1, <1>8, <1>10
<1> QED BY <1>9, <1>11 DEF c

\* It never falls.
LEMMA CumulativeRises ==
    ASSUME NEW w, Weighted(w), NEW i \in 0..Len(w), NEW j \in i..Len(w)
    PROVE  Cumulative(w)[i] <= Cumulative(w)[j]
<1> DEFINE n == Len(w)
           c == Cumulative(w)
           S == {d \in 0..n : i + d <= n => c[i] <= c[i + d]}
<1>1. n \in Nat
  BY DEF Weighted, IsList
<1>2. c \in [0..n -> Nat] /\ (\A k \in 1..n : c[k] = c[k - 1] + w[k].weight)
      /\ \A k \in 1..n : w[k].weight \in Nat
  BY CumulativeDef DEF Weighted
<1> HIDE DEF c
<1>3. 0 \in S
  BY <1>1, <1>2
<1>4. ASSUME NEW d \in 1..n, d - 1 \in S PROVE d \in S
  <2> SUFFICES ASSUME i + d <= n PROVE c[i] <= c[i + d]
    BY <1>1
  <2>1. c[i] <= c[i + (d - 1)]
    BY <1>1, <1>4
  <2>2. i + d \in 1..n /\ (i + d) - 1 = i + (d - 1) /\ i + (d - 1) \in 0..n
    BY <1>1
  <2>3. c[i + d] = c[i + (d - 1)] + w[i + d].weight
    BY <1>2, <2>2
  <2>4. c[i] \in Nat /\ c[i + (d - 1)] \in Nat /\ w[i + d].weight \in Nat
    BY <1>1, <1>2, <2>2
  <2> QED BY <2>1, <2>3, <2>4
<1>5. 0..n \subseteq S
  <2> HIDE DEF S
  <2> QED BY <1>1, <1>3, <1>4, Reaches
<1>6. j - i \in 0..n /\ i + (j - i) = j
  BY <1>1
<1>7. i + (j - i) <= n => c[i] <= c[i + (j - i)]
  BY <1>5, <1>6
<1> QED BY <1>1, <1>6, <1>7 DEF c

-----------------------------------------------------------------------------
(* Who owns a slot. *)

Owners(w, slot) == {i \in 1..Len(w) : slot < Cumulative(w)[i]}
Owner(w, slot) == Min(Owners(w, slot))

\* Weights that fill the slots.
Filling(w) == Weighted(w) /\ Cumulative(w)[Len(w)] = Total

\* Every slot has an owner, and the slot lies between the sums before and after it.
LEMMA OwnerOf ==
    ASSUME NEW w, Filling(w), NEW slot \in 0..Total - 1
    PROVE  /\ Owner(w, slot) \in 1..Len(w)
           /\ PickWeighted(w, slot) = w[Owner(w, slot)].variant
           /\ Cumulative(w)[Owner(w, slot) - 1] <= slot
           /\ slot < Cumulative(w)[Owner(w, slot)]
<1> DEFINE n == Len(w)
           c == Cumulative(w)
           S == Owners(w, slot)
           o == Owner(w, slot)
<1>1. n \in Nat /\ c[n] = Total /\ Total \in Nat \ {0}
  BY EngineAssumption DEF Filling, Weighted, IsList
<1>2. c \in [0..n -> Nat] /\ c[0] = 0
  BY CumulativeDef DEF Filling
<1>3. n # 0
  BY <1>1, <1>2
<1>4. n \in S
  BY <1>1, <1>3 DEF Owners
<1>5. S \subseteq Nat /\ S \subseteq 1..n
  BY <1>1 DEF Owners
<1>6. o \in S /\ \A i \in S : o <= i
  <2> HIDE DEF S
  <2> QED BY <1>4, <1>5, MinIsLeast DEF Owner, S
<1>7. o \in 1..n /\ slot < c[o]
  BY <1>6 DEF Owners
<1>8. c[o - 1] <= slot
  <2>1. CASE o = 1
    BY <1>2, <2>1
  <2>2. CASE o # 1
    <3>1. o - 1 \in 1..n /\ o - 1 \in 0..n
      BY <1>1, <1>7, <2>2
    <3>2. o - 1 \notin S
      BY <1>6, <1>7
    <3>3. ~(slot < c[o - 1])
      BY <3>1, <3>2 DEF Owners
    <3> QED BY <1>2, <3>1, <3>3
  <2> QED BY <2>1, <2>2
<1>9. PickWeighted(w, slot) = w[o].variant
  BY <1>4 DEF PickWeighted, Owner, Owners
<1> QED BY <1>7, <1>8, <1>9

\* And only one.
LEMMA OwnerIs ==
    ASSUME NEW w, Filling(w), NEW slot \in 0..Total - 1, NEW i \in 1..Len(w),
           Cumulative(w)[i - 1] <= slot, slot < Cumulative(w)[i]
    PROVE  Owner(w, slot) = i
<1> DEFINE n == Len(w)
           c == Cumulative(w)
           o == Owner(w, slot)
<1>1. n \in Nat /\ Weighted(w)
  BY DEF Filling, Weighted, IsList
<1>2. c \in [0..n -> Nat]
  BY <1>1, CumulativeDef
<1>3. o \in 1..n /\ c[o - 1] <= slot /\ slot < c[o]
  BY OwnerOf
<1> HIDE DEF o, c
<1>4. ~(o < i)
  <2> SUFFICES ASSUME o < i PROVE FALSE
    OBVIOUS
  <2>1. o \in 0..n /\ i - 1 \in o..n /\ i - 1 \in 0..n
    BY <1>1, <1>3
  <2>2. c[o] <= c[i - 1]
    BY <1>1, <2>1, CumulativeRises DEF c
  <2>3. c[o] \in Nat /\ c[i - 1] \in Nat
    BY <1>2, <2>1
  <2> QED BY <1>3, <2>2, <2>3 DEF c
<1>5. ~(i < o)
  <2> SUFFICES ASSUME i < o PROVE FALSE
    OBVIOUS
  <2>1. i \in 0..n /\ o - 1 \in i..n /\ o - 1 \in 0..n
    BY <1>1, <1>3
  <2>2. c[i] <= c[o - 1]
    BY <1>1, <2>1, CumulativeRises DEF c
  <2>3. c[i] \in Nat /\ c[o - 1] \in Nat
    BY <1>2, <2>1
  <2> QED BY <1>3, <2>2, <2>3 DEF c
<1> QED BY <1>1, <1>3, <1>4, <1>5 DEF o

\* An entry owns as many slots as its weight says.
LEMMA OwnedSlots ==
    ASSUME NEW w, Filling(w), NEW i \in 1..Len(w)
    PROVE  Cardinality({s \in 0..Total - 1 : Owner(w, s) = i}) = w[i].weight
<1> DEFINE n == Len(w)
           c == Cumulative(w)
           Own == {s \in 0..Total - 1 : Owner(w, s) = i}
<1>1. n \in Nat /\ Weighted(w) /\ c[n] = Total /\ Total \in Nat
  BY EngineAssumption DEF Filling, Weighted, IsList
<1>2. c \in [0..n -> Nat] /\ c[i] = c[i - 1] + w[i].weight /\ w[i].weight \in Nat
  BY <1>1, CumulativeDef DEF Weighted
<1>3. c[i] <= c[n]
  BY <1>1, CumulativeRises
<1>4. ASSUME NEW s \in 0..Total - 1 PROVE Owner(w, s) = i <=> c[i - 1] <= s /\ s < c[i]
  BY OwnerOf, OwnerIs
<1> HIDE DEF c
<1>5. i - 1 \in 0..n /\ c[i - 1] \in Nat /\ c[i] \in Nat
  BY <1>1, <1>2
<1>6. Own = c[i - 1]..(c[i] - 1)
  <2>1. ASSUME NEW s \in Own PROVE s \in c[i - 1]..(c[i] - 1)
    BY <1>1, <1>4, <1>5
  <2>2. ASSUME NEW s \in c[i - 1]..(c[i] - 1) PROVE s \in Own
    <3>1. s \in 0..Total - 1
      BY <1>1, <1>3, <1>5
    <3> QED BY <1>4, <1>5, <3>1
  <2> HIDE DEF Own
  <2> QED BY <2>1, <2>2
<1>7. Cardinality(c[i - 1]..(c[i] - 1)) = IF c[i - 1] > c[i] - 1 THEN 0 ELSE c[i] - 1 - c[i - 1] + 1
  <2>1. c[i - 1] \in Int /\ c[i] - 1 \in Int
    BY <1>5
  <2> QED BY <2>1, FS_Interval, Zenon
<1>8. Cardinality(c[i - 1]..(c[i] - 1)) = w[i].weight
  BY <1>2, <1>5, <1>7
<1> QED BY <1>6, <1>8

-----------------------------------------------------------------------------
(* The invariant: every stored flag has passed validation as it stands now. *)

FlagRow == [variants : VariantLists, archived : BOOLEAN, config : Configs, version : Nat]
SegmentRow == [def : SegmentInputs, version : Nat]
Experiment == [flag : FlagKey, control : Controls, metric : Metric,
               state : {"draft", "running", "stopped"}, version : Nat]

TypeOK ==
    /\ salt \in Salts
    /\ flags \in [FlagKey -> FlagRow \cup {None}]
    /\ segments \in [SegmentKey -> SegmentRow \cup {None}]
    /\ experiment \in Experiment \cup {None}

Validated == \A k \in Known : Validate(Candidate(k, flags[k].variants, flags[k].config))

IInv == TypeOK /\ Validated

\* It holds to begin with.
LEMMA InitIInv == Init => IInv
BY DEF Init, IInv, TypeOK, Validated, Known

\* A step that leaves the flags alone leaves them valid.
LEMMA SameFlags == ASSUME Validated, UNCHANGED flags PROVE Validated'
BY DEF Validated, Known

\* So does one that replaces a row by a valid one or by nothing.
LEMMA OneFlag ==
    ASSUME TypeOK, Validated, NEW k \in FlagKey, NEW row, flags' = [flags EXCEPT ![k] = row],
           row # None => Validate(Candidate(k, row.variants, row.config))
    PROVE  Validated'
<1> SUFFICES ASSUME NEW x \in FlagKey, flags'[x] # None
             PROVE  Validate(Candidate(x, flags'[x].variants, flags'[x].config))
  BY DEF Validated, Known
<1>1. CASE x = k
  BY <1>1 DEF TypeOK
<1>2. CASE x # k
  <2>1. flags'[x] = flags[x]
    BY <1>2 DEF TypeOK
  <2> QED BY <2>1 DEF Validated, Known
<1> QED BY <1>1, <1>2

\* Every step keeps it.
LEMMA NextIInv == IInv /\ [Next]_vars => IInv'
<1> SUFFICES ASSUME TypeOK, Validated, [Next]_vars PROVE TypeOK' /\ Validated'
  BY DEF IInv
<1>1. ASSUME NEW k \in FlagKey, NEW variants \in VariantLists, NEW config \in Configs,
             CreateFlag(k, variants, config)
      PROVE  TypeOK' /\ Validated'
  <2> DEFINE row == [variants |-> variants, archived |-> FALSE, config |-> config, version |-> 1]
  <2>1. row \in FlagRow /\ row.variants = variants /\ row.config = config
    BY DEF FlagRow
  <2>2. flags' = [flags EXCEPT ![k] = row] /\ Validate(Candidate(k, variants, config))
        /\ UNCHANGED <<salt, segments, experiment>>
    BY <1>1 DEF CreateFlag
  <2> HIDE DEF row
  <2>3. TypeOK'
    BY <2>1, <2>2 DEF TypeOK
  <2> QED BY <2>1, <2>2, <2>3, OneFlag
<1>2. ASSUME NEW k \in FlagKey, NEW config \in Configs, UpdateConfig(k, config)
      PROVE  TypeOK' /\ Validated'
  <2> DEFINE row == [flags[k] EXCEPT !.config = config, !.version = @ + 1]
  <2>0. flags[k] \in FlagRow
    BY <1>2 DEF UpdateConfig, Known, TypeOK
  <2>1. row \in FlagRow /\ row.variants = flags[k].variants /\ row.config = config
    <3> DEFINE next == flags[k].version + 1
    <3>1. next \in Nat
      BY <2>0 DEF FlagRow
    <3> HIDE DEF next
    <3>2. [flags[k] EXCEPT !.config = config, !.version = next] \in FlagRow
      BY <2>0, <3>1 DEF FlagRow
    <3>3. row = [flags[k] EXCEPT !.config = config, !.version = next]
      BY DEF next
    <3>4. row.variants = flags[k].variants /\ row.config = config
      BY <2>0 DEF FlagRow
    <3> QED BY <3>2, <3>3, <3>4
  <2>2. flags' = [flags EXCEPT ![k] = row]
    BY <1>2, <2>0 DEF UpdateConfig, TypeOK
  <2>3. Validate(Candidate(k, flags[k].variants, config)) /\ UNCHANGED <<salt, segments, experiment>>
    BY <1>2 DEF UpdateConfig
  <2> HIDE DEF row
  <2>4. TypeOK'
    BY <2>1, <2>2, <2>3 DEF TypeOK
  <2> QED BY <2>1, <2>2, <2>3, <2>4, OneFlag
<1>3. ASSUME NEW k \in FlagKey, NEW variants \in VariantLists, NEW archived \in BOOLEAN,
             UpdateFlag(k, variants, archived)
      PROVE  TypeOK' /\ Validated'
  <2> DEFINE row == [flags[k] EXCEPT !.variants = variants, !.archived = archived]
  <2>0. flags[k] \in FlagRow
    BY <1>3 DEF UpdateFlag, Known, TypeOK
  <2>1. row \in FlagRow /\ row.variants = variants /\ row.config = flags[k].config
    BY <2>0 DEF FlagRow
  <2>2. flags' = [flags EXCEPT ![k] = row]
    BY <1>3, <2>0 DEF UpdateFlag, TypeOK
  <2>3. Validate(Candidate(k, variants, flags[k].config)) /\ UNCHANGED <<salt, segments, experiment>>
    BY <1>3 DEF UpdateFlag
  <2> HIDE DEF row
  <2>4. TypeOK'
    BY <2>1, <2>2, <2>3 DEF TypeOK
  <2> QED BY <2>1, <2>2, <2>3, <2>4, OneFlag
<1>4. ASSUME NEW k \in FlagKey, DeleteFlag(k) PROVE TypeOK' /\ Validated'
  <2>1. flags' = [flags EXCEPT ![k] = None] /\ UNCHANGED <<salt, segments, experiment>>
    BY <1>4 DEF DeleteFlag
  <2>2. TypeOK'
    BY <2>1 DEF TypeOK
  <2> QED BY <2>1, <2>2, OneFlag
<1>5. ASSUME NEW k \in FlagKey, NEW control \in Controls, NEW metric \in Metric,
             CreateExperiment(k, control, metric)
      PROVE  TypeOK' /\ Validated'
  BY <1>5, SameFlags DEF CreateExperiment, TypeOK, Experiment
<1>6. ASSUME NEW s \in SegmentKey, NEW def \in SegmentInputs, WriteSegment(s, def)
      PROVE  TypeOK' /\ Validated'
  <2> DEFINE row == [def |-> def, version |-> IF s \in Defined THEN segments[s].version + 1 ELSE 1]
  <2>1. s \in Defined => segments[s] \in SegmentRow
    BY DEF Defined, TypeOK
  <2>2. row \in SegmentRow
    BY <2>1 DEF SegmentRow
  <2>3. segments' = [segments EXCEPT ![s] = row] /\ UNCHANGED <<salt, flags, experiment>>
    BY <1>6 DEF WriteSegment
  <2> HIDE DEF row
  <2> QED BY <2>2, <2>3, SameFlags DEF TypeOK
<1>7. ASSUME NEW s \in SegmentKey, DeleteSegment(s) PROVE TypeOK' /\ Validated'
  BY <1>7, SameFlags DEF DeleteSegment, TypeOK
<1>8. ASSUME NEW from, NEW to \in {"running", "stopped"}, Transition(from, to)
      PROVE  TypeOK' /\ Validated'
  <2>1. experiment \in Experiment
    BY <1>8 DEF Transition, TypeOK
  <2>2. [experiment EXCEPT !.state = to, !.version = @ + 1] \in Experiment
    <3> DEFINE next == experiment.version + 1
    <3>1. next \in Nat
      BY <2>1 DEF Experiment
    <3> HIDE DEF next
    <3>2. [experiment EXCEPT !.state = to, !.version = next] \in Experiment
      BY <2>1, <3>1 DEF Experiment
    <3> QED BY <3>2 DEF next
  <2> QED BY <1>8, <2>2, SameFlags DEF Transition, TypeOK
<1>9. CASE DeleteExperiment
  BY <1>9, SameFlags DEF DeleteExperiment, TypeOK
<1>10. CASE UNCHANGED vars
  BY <1>10, SameFlags DEF vars, TypeOK
<1> QED BY <1>1, <1>2, <1>3, <1>4, <1>5, <1>6, <1>7, <1>8, <1>9, <1>10 DEF Next

\* Every flag that is stored passes validation together with its variants and
\* its configuration, whichever of them was written last.
THEOREM StaysValid == Spec => []IInv
BY InitIInv, NextIInv, PTL DEF Spec

-----------------------------------------------------------------------------
(* What validation gives the engine. *)

Keys(variants) == {variants[i].key : i \in 1..Len(variants)}

\* A flag that validates: its variants have keys, and everything it can serve
\* is one of them.
LEMMA ValidFlag ==
    ASSUME NEW k, NEW variants \in VariantLists, NEW config \in Configs,
           Validate(Candidate(k, variants, config))
    PROVE  /\ None \notin Keys(variants) /\ config.off_variant \in Keys(variants)
           /\ \A dist \in Distributions(config) : CheckDistribution(dist, Keys(variants))
           /\ \A rule \in ToSet(config.rules) : CheckConditions(rule.conditions)
<1> DEFINE flag == Candidate(k, variants, config)
           keys == [i \in 1..Len(variants) |-> variants[i].key]
<1>1. ConfigShape(config) /\ None \notin ValidKey
  BY EnvironmentAssumption
<1>2. /\ flag.variants = variants /\ flag.off_variant = config.off_variant
      /\ flag.fallthrough = config.fallthrough /\ flag.rules = config.rules
  BY <1>1 DEF Candidate, FlagOf, ConfigShape
<1>3. ToSet(keys) = Keys(variants)
  BY DEF ToSet, Keys
<1>4. [i \in 1..Len(flag.variants) |-> flag.variants[i].key] = keys
  BY <1>2
<1> HIDE DEF flag, keys
<1>5. /\ ToSet(keys) \subseteq ValidKey /\ flag.off_variant \in ToSet(keys)
      /\ CheckDistribution(flag.fallthrough, ToSet(keys))
      /\ \A rule \in ToSet(flag.rules) :
            CheckConditions(rule.conditions) /\ CheckDistribution(rule.distribution, ToSet(keys))
  BY <1>4 DEF Validate, flag
<1> QED BY <1>1, <1>2, <1>3, <1>5 DEF Distributions

\* A rollout that validates fills the slots with distinct variants of the flag.
LEMMA ValidRollout ==
    ASSUME NEW config \in Configs, NEW dist \in Distributions(config), ~Has(dist, "fixed"),
           NEW keys, CheckDistribution(dist, keys)
    PROVE  /\ Filling(dist.weights)
           /\ \A i \in 1..Len(dist.weights) : dist.weights[i].variant \in keys
           /\ \A i, j \in 1..Len(dist.weights) :
                 dist.weights[i].variant = dist.weights[j].variant => i = j
<1> DEFINE w == dist.weights
           n == Len(w)
           chosen == [i \in 1..n |-> w[i].variant]
<1>1. IsList(w) /\ \A x \in ToSet(w) : x.weight \in Nat
  BY EnvironmentAssumption DEF ConfigShape
<1>2. n \in Nat /\ Weighted(w)
  BY <1>1, ListElements DEF Weighted, IsList
<1>3. ToSet(chosen) \subseteq keys /\ Distinct(chosen) /\ Cumulative(w)[n] = Total
  BY DEF CheckDistribution
<1>4. \A i \in 1..n : w[i].variant \in keys
  BY <1>3 DEF ToSet
<1>5. Len(chosen) = n /\ DOMAIN chosen = 1..n /\ chosen = [i \in 1..n |-> chosen[i]]
  BY <1>2
<1>6. \A i, j \in 1..n : chosen[i] = chosen[j] => i = j
  <2> HIDE DEF chosen, n
  <2> QED BY <1>2, <1>3, <1>5, DistinctPositions
<1>7. \A i, j \in 1..n : w[i].variant = w[j].variant => i = j
  BY <1>6
<1> QED BY <1>2, <1>3, <1>4, <1>7 DEF Filling

\* A context that has what a rollout hashes lands in a slot.
LEMMA FlagSlot ==
    ASSUME NEW s \in Salts, NEW k \in FlagKey, NEW ctx \in Context, NEW by,
           BucketingSubject(ctx, by) # None
    PROVE  Bucket(s, "flag", k, BucketingSubject(ctx, by)) \in 0..Total - 1
<1>1. BucketingSubject(ctx, by) \in Subjects(ctx)
  BY DEF BucketingSubject, Subjects, Has
<1> QED BY <1>1, SlotAssumption DEF Bucket

\* So does one that has what a segment hashes.
LEMMA SegmentSlot ==
    ASSUME NEW s \in Salts, NEW k \in SegmentKey, NEW ctx \in Context, NEW by,
           BucketingSubject(ctx, by) # None
    PROVE  Bucket(s, "segment", k, BucketingSubject(ctx, by)) \in 0..Total - 1
<1>1. BucketingSubject(ctx, by) \in Subjects(ctx)
  BY DEF BucketingSubject, Subjects, Has
<1> QED BY <1>1, SlotAssumption DEF Bucket

\* A key of a variant can be served.
LEMMA Served ==
    ASSUME NEW flag, NEW key \in Keys(flag.variants), NEW reason
    PROVE  /\ VariantOf(flag, key) # {}
           /\ Serve(flag, key, reason).reason = reason /\ Serve(flag, key, reason).variant = key
BY DEF Keys, VariantOf, Serve, Decision

\* Where a valid distribution leads: to a variant, unless the context cannot be placed.
LEMMA Distributed ==
    ASSUME NEW k \in FlagKey, NEW variants \in VariantLists, NEW config \in Configs,
           Validate(Candidate(k, variants, config)), NEW version,
           NEW dist \in Distributions(config), NEW ctx \in Context, NEW s \in Salts
    PROVE  LET key == Resolve(FlagOf(k, variants, config, version), dist, ctx, s)
           IN  /\ key # None => key \in Keys(variants)
               /\ key = None => Unplaced(dist, ctx)
<1> DEFINE flag == FlagOf(k, variants, config, version)
<1>1. flag.key = k
  BY DEF FlagOf
<1>2. None \notin Keys(variants) /\ CheckDistribution(dist, Keys(variants))
  BY ValidFlag
<1> HIDE DEF flag
<1>3. CASE Has(dist, "fixed")
  BY <1>2, <1>3 DEF Resolve, CheckDistribution, flag
<1>4. CASE ~Has(dist, "fixed") /\ BucketingSubject(ctx, dist.bucket_by) = None
  BY <1>4 DEF Resolve, Unplaced, flag
<1>5. CASE ~Has(dist, "fixed") /\ BucketingSubject(ctx, dist.bucket_by) # None
  <2> DEFINE slot == Bucket(s, "flag", k, BucketingSubject(ctx, dist.bucket_by))
  <2>1. slot \in 0..Total - 1
    BY <1>5, FlagSlot
  <2>2. Resolve(flag, dist, ctx, s) = PickWeighted(dist.weights, slot)
    BY <1>1, <1>5 DEF Resolve
  <2> HIDE DEF slot
  <2>3. Filling(dist.weights) /\ \A i \in 1..Len(dist.weights) : dist.weights[i].variant \in Keys(variants)
    BY <1>2, <1>5, ValidRollout
  <2>4. PickWeighted(dist.weights, slot) \in Keys(variants)
    BY <2>1, <2>3, OwnerOf
  <2> QED BY <1>2, <2>2, <2>4 DEF flag
<1> QED BY <1>3, <1>4, <1>5

-----------------------------------------------------------------------------
(* Errors. *)

\* What the snapshot says of a flag it has.
LEMMA InSnapshot ==
    ASSUME TypeOK, NEW k \in DOMAIN Snapshot.flags
    PROVE  /\ k \in Known /\ k \in FlagKey /\ flags[k] \in FlagRow
           /\ Snapshot.flags[k] = FlagOf(k, flags[k].variants, flags[k].config, flags[k].version)
           /\ Snapshot.salt = salt
BY DEF Snapshot, Known, TypeOK

\* A distribution that ends in an error could not place the context, and the
\* error carries the off variant's value.
LEMMA DistributionErrors ==
    ASSUME NEW k \in FlagKey, NEW variants \in VariantLists, NEW config \in Configs,
           Validate(Candidate(k, variants, config)), NEW version,
           NEW dist \in Distributions(config), NEW ctx \in Context, NEW env, env.salt \in Salts,
           NEW reason, reason # <<"error">>
    PROVE  LET flag == FlagOf(k, variants, config, version)
               e == ServeDistribution(flag, dist, ctx, env, reason)
           IN  /\ e.reason \in {reason, <<"error">>}
               /\ e.reason = <<"error">> =>
                     Unplaced(dist, ctx) /\ e.value = Serve(flag, flag.off_variant, <<"off">>).value
               /\ e.reason = reason => e.variant = Resolve(flag, dist, ctx, env.salt) /\ e.variant # None
<1> DEFINE flag == FlagOf(k, variants, config, version)
           key == Resolve(flag, dist, ctx, env.salt)
           e == ServeDistribution(flag, dist, ctx, env, reason)
<1>1. flag.variants = variants /\ flag.off_variant = config.off_variant
  BY DEF FlagOf
<1>2. config.off_variant \in Keys(variants)
  BY ValidFlag
<1>3. (key # None => key \in Keys(variants)) /\ (key = None => Unplaced(dist, ctx))
  BY Distributed
<1> HIDE DEF flag, key
<1>4. CASE key # None
  <2>1. e = Serve(flag, key, reason)
    BY <1>4 DEF ServeDistribution, key
  <2>2. e.reason = reason /\ e.variant = key
    <3>1. key \in Keys(flag.variants)
      BY <1>1, <1>3, <1>4
    <3> HIDE DEF e
    <3> QED BY <2>1, <3>1, Served
  <2> QED BY <1>4, <2>2 DEF flag, key
<1>5. CASE key = None
  <2>1. e = Degrade(flag)
    BY <1>5 DEF ServeDistribution, key
  <2>2. VariantOf(flag, flag.off_variant) # {}
    BY <1>1, <1>2, Served
  <2>3. e.reason = <<"error">> /\ e.value = Serve(flag, flag.off_variant, <<"off">>).value
    BY <2>1, <2>2 DEF Degrade, Serve, Decision
  <2> QED BY <1>3, <1>5, <2>3 DEF flag, key
<1> QED BY <1>4, <1>5

\* Evaluation of a valid flag, by the branch it takes.
LEMMA EvaluationErrors ==
    ASSUME NEW k \in FlagKey, NEW variants \in VariantLists, NEW config \in Configs,
           Validate(Candidate(k, variants, config)), NEW version,
           NEW ctx \in Context, NEW env, env.salt \in Salts
    PROVE  LET flag == FlagOf(k, variants, config, version)
               e == Evaluate(flag, ctx, env)
           IN  e.reason = <<"error">> =>
                  /\ \E dist \in Distributions(flag) : Unplaced(dist, ctx)
                  /\ e.value = Serve(flag, flag.off_variant, <<"off">>).value
<1> DEFINE flag == FlagOf(k, variants, config, version)
           e == Evaluate(flag, ctx, env)
           matching == {i \in 1..Len(config.rules) : RuleMatches(config.rules[i], ctx, env)}
<1>1. /\ flag.variants = variants /\ flag.off_variant = config.off_variant /\ flag.enabled = config.enabled
      /\ flag.fallthrough = config.fallthrough /\ flag.rules = config.rules
  BY DEF FlagOf
<1>2. IsList(config.rules) /\ Len(config.rules) \in Nat
  BY EnvironmentAssumption DEF ConfigShape, IsList
<1>3. Distributions(flag) = Distributions(config)
  BY <1>1 DEF Distributions
<1>4. e = IF ~flag.enabled THEN Serve(flag, flag.off_variant, <<"off">>)
          ELSE IF matching # {}
          THEN ServeDistribution(flag, config.rules[Min(matching)].distribution, ctx, env,
                                 <<"target_match", Min(matching)>>)
          ELSE ServeDistribution(flag, config.fallthrough, ctx, env, <<"fallthrough">>)
  BY <1>1 DEF Evaluate
<1> SUFFICES ASSUME e.reason = <<"error">>
             PROVE  /\ \E dist \in Distributions(config) : Unplaced(dist, ctx)
                    /\ e.value = Serve(flag, flag.off_variant, <<"off">>).value
  BY <1>3
<1> HIDE DEF e
<1>5. CASE ~flag.enabled
  <2>1. config.off_variant \in Keys(variants)
    BY ValidFlag
  <2>2. e.reason = <<"off">>
    <3> HIDE DEF flag
    <3> QED BY <1>1, <1>4, <1>5, <2>1, Served
  <2> QED BY <2>2
<1>6. CASE flag.enabled /\ matching # {}
  <2> DEFINE dist == config.rules[Min(matching)].distribution
  <2>1. Min(matching) \in 1..Len(config.rules)
    <3>1. matching \subseteq Nat /\ matching \subseteq 1..Len(config.rules)
      BY <1>2
    <3> HIDE DEF matching
    <3> QED BY <1>6, <3>1, MinIsLeast
  <2>2. dist \in Distributions(config)
    BY <1>2, <2>1, ListElements DEF Distributions
  <2>3. e = ServeDistribution(flag, dist, ctx, env, <<"target_match", Min(matching)>>)
    BY <1>4, <1>6
  <2>4. <<"target_match", Min(matching)>> # <<"error">>
    OBVIOUS
  <2> HIDE DEF dist, matching
  <2> QED BY <2>2, <2>3, <2>4, DistributionErrors
<1>7. CASE flag.enabled /\ matching = {}
  <2>1. config.fallthrough \in Distributions(config)
    BY DEF Distributions
  <2>2. e = ServeDistribution(flag, config.fallthrough, ctx, env, <<"fallthrough">>)
    BY <1>4, <1>7
  <2>3. <<"fallthrough">> # <<"error">>
    OBVIOUS
  <2> HIDE DEF matching
  <2> QED BY <2>1, <2>2, <2>3, DistributionErrors
<1>8. flag.enabled \in BOOLEAN
  BY <1>1, EnvironmentAssumption DEF ConfigShape
<1> QED BY <1>5, <1>6, <1>7, <1>8

\* A valid flag errs only where the context cannot be placed.
LEMMA ErrorsInvariant == IInv => ErrorsOnlyWithoutSubject
<1> SUFFICES ASSUME IInv, NEW k \in DOMAIN Snapshot.flags, NEW ctx \in Context
             PROVE  LET flag == Snapshot.flags[k]
                        e == EvaluateKey(Snapshot, k, ctx, None)
                    IN  e.reason = <<"error">> =>
                            /\ \E dist \in Distributions(flag) : Unplaced(dist, ctx)
                            /\ e.value = Serve(flag, flag.off_variant, <<"off">>).value
  BY DEF ErrorsOnlyWithoutSubject
<1>1. /\ k \in Known /\ k \in FlagKey /\ flags[k] \in FlagRow /\ salt \in Salts
      /\ Snapshot.flags[k] = FlagOf(k, flags[k].variants, flags[k].config, flags[k].version)
      /\ Snapshot.salt = salt
  BY InSnapshot DEF IInv, TypeOK
<1>2. flags[k].variants \in VariantLists /\ flags[k].config \in Configs
  BY <1>1 DEF FlagRow
<1>3. Validate(Candidate(k, flags[k].variants, flags[k].config))
  BY <1>1 DEF IInv, Validated
<1>4. EvaluateKey(Snapshot, k, ctx, None) = Evaluate(Snapshot.flags[k], ctx, Snapshot)
  BY DEF EvaluateKey, Has
<1> QED BY <1>1, <1>2, <1>3, <1>4, EvaluationErrors

\* Whatever sequence of writes led to a flag, evaluating it ends in an error
\* only for a context that lacks what a rollout buckets on (validate.rs, evaluate.rs).
THEOREM ErrorsOnlyWithoutSubjectHolds == Spec => []ErrorsOnlyWithoutSubject
BY StaysValid, ErrorsInvariant, PTL

-----------------------------------------------------------------------------
(* Shares. *)

\* A valid rollout fills the slots, each variant as far as its weight goes.
LEMMA SharesInvariant == IInv => SharesExact
<1> SUFFICES ASSUME IInv, NEW k \in Known, NEW dist \in Distributions(flags[k].config), ~Has(dist, "fixed"),
                    NEW v \in {None} \cup {x.variant : x \in ToSet(dist.weights)}
             PROVE  Cardinality({s \in 0..Total - 1 : PickWeighted(dist.weights, s) = v})
                      = IF v = None THEN 0 ELSE (CHOOSE x \in ToSet(dist.weights) : x.variant = v).weight
  BY DEF SharesExact
<1> DEFINE w == dist.weights
           n == Len(w)
           keys == Keys(flags[k].variants)
<1>1. flags[k].variants \in VariantLists /\ flags[k].config \in Configs
  BY DEF Known, IInv, TypeOK, FlagRow
<1>2. None \notin keys /\ CheckDistribution(dist, keys)
  BY <1>1, ValidFlag DEF IInv, Validated
<1> HIDE DEF keys
<1>3. /\ Filling(w) /\ \A i \in 1..n : w[i].variant \in keys
      /\ \A i, j \in 1..n : w[i].variant = w[j].variant => i = j
  BY <1>1, <1>2, ValidRollout
<1>4. ToSet(w) = {w[i] : i \in 1..n}
  BY <1>3, ListElements DEF Filling, Weighted
<1> HIDE DEF w
<1>5. \A s \in 0..Total - 1 : Owner(w, s) \in 1..n /\ PickWeighted(w, s) = w[Owner(w, s)].variant
  BY <1>3, OwnerOf
<1>6. CASE v = None
  <2>1. {s \in 0..Total - 1 : PickWeighted(w, s) = v} = {}
    BY <1>2, <1>3, <1>5, <1>6
  <2> QED BY <1>6, <2>1, FS_EmptySet DEF w
<1>7. CASE v # None
  <2>1. PICK i \in 1..n : v = w[i].variant
    BY <1>4, <1>7 DEF w
  <2>2. \A x \in ToSet(w) : x.variant = v => x = w[i]
    BY <1>3, <1>4, <2>1
  <2>3. (CHOOSE x \in ToSet(w) : x.variant = v) = w[i]
    BY <1>4, <2>1, <2>2
  <2>4. {s \in 0..Total - 1 : PickWeighted(w, s) = v} = {s \in 0..Total - 1 : Owner(w, s) = i}
    BY <1>3, <1>5, <2>1
  <2>5. Cardinality({s \in 0..Total - 1 : Owner(w, s) = i}) = w[i].weight
    BY <1>3, OwnedSlots
  <2> QED BY <1>7, <2>3, <2>4, <2>5 DEF w
<1> QED BY <1>6, <1>7

\* Each variant of a stored rollout gets exactly the slots its weight says, and
\* no slot is left over (bucket.rs, pick_weighted).
THEOREM SharesExactHolds == Spec => []SharesExact
BY StaysValid, SharesInvariant, PTL

-----------------------------------------------------------------------------
(* Conditions. *)

\* A negated operator matches the attribute there is, and nothing else.
LEMMA NegationInvariant == IInv => NegationIsStrict
<1> SUFFICES ASSUME IInv, NEW k \in Known, NEW i \in 1..Len(flags[k].config.rules),
                    NEW c \in ToSet(flags[k].config.rules[i].conditions), NEW ctx \in Context,
                    Has(Negated, c.operator)
             PROVE  ConditionMatches(c, ctx)
                      <=> /\ Has(ctx.attributes, c.attribute)
                          /\ ~ConditionMatches([c EXCEPT !.operator = PositiveCounterpart(@)], ctx)
  BY DEF NegationIsStrict
<1> DEFINE config == flags[k].config
           d == [c EXCEPT !.operator = PositiveCounterpart(@)]
           pos == PositiveCounterpart(c.operator)
<1>1. flags[k].variants \in VariantLists /\ config \in Configs
  BY DEF Known, IInv, TypeOK, FlagRow
<1>2. ConfigShape(config) /\ \A rule \in ToSet(config.rules) : CheckConditions(rule.conditions)
  BY <1>1, ValidFlag, EnvironmentAssumption DEF IInv, Validated
<1>3. config.rules[i] \in ToSet(config.rules)
  BY <1>2, ListElements DEF ConfigShape
<1>4. DOMAIN c = {"attribute", "operator", "values"}
  BY <1>2, <1>3 DEF ConfigShape
<1>5. c.operator \in {"NotIn", "NotContains", "NotMatches"} /\ pos \in {"In", "Contains", "Matches"}
  BY DEF Has, Negated, PositiveCounterpart
<1>6. c.values # <<>>
  BY <1>2, <1>3, <1>5 DEF CheckConditions
<1>7. d.attribute = c.attribute /\ d.values = c.values /\ d.operator = pos
  BY <1>4
<1>8. ~Has(Negated, pos) /\ PositiveCounterpart(pos) = pos
  BY <1>5 DEF Has, Negated, PositiveCounterpart
<1> DEFINE present == Has(ctx.attributes, c.attribute)
           any == \E a \in Scalars(ctx.attributes[c.attribute]), e \in ToSet(c.values) : Compare(pos, a, e)
<1>9. ConditionMatches(c, ctx) <=> present /\ ~any
  BY <1>5, <1>6 DEF ConditionMatches
<1>10. ConditionMatches(d, ctx) <=> present /\ any
  <2>1. Has(Negated, pos) = FALSE
    BY <1>8 DEF Has
  <2> HIDE DEF d, pos
  <2> QED BY <1>5, <1>6, <1>7, <1>8, <2>1 DEF ConditionMatches
<1> QED BY <1>9, <1>10

\* A negated condition of a stored rule holds exactly of the contexts that have
\* the attribute and that the positive one does not match (matcher.rs).
THEOREM NegationIsStrictHolds == Spec => []NegationIsStrict
BY StaysValid, NegationInvariant, PTL

-----------------------------------------------------------------------------
(* The SDK's copy of the snapshot. *)

\* Nothing is lost on the way to the SDK.
LEMMA FetchedIsSnapshot == Fetched = Snapshot
BY DEF Fetched, Decode, SnapshotResponse, Snapshot, Has

\* The SDK evaluates the snapshot the server does.
LEMMA LocalInvariant == LocalAgreesWithServer
BY FetchedIsSnapshot DEF LocalAgreesWithServer, EvaluateOne

\* The SDK decides over the body of /snapshot what the endpoints decide
\* (routes/sdk.rs, client.rs).
THEOREM LocalAgreesWithServerHolds == Spec => []LocalAgreesWithServer
BY LocalInvariant, PTL

\* Exposure and conversion are placed by the same evaluation.
LEMMA ConversionInvariant == IInv => ConversionOnExposedArm
<1> SUFFICES ASSUME IInv, NEW metric \in Metric, NEW ctx \in Context
             PROVE  Credits(Fetched, metric, ctx) =
                      {c \in UNION {Exposures(Fetched, k, ctx) : k \in FlagKey} : c[1].metric = metric}
  BY DEF ConversionOnExposedArm
<1> DEFINE sdk == Fetched
           Arm(e) == EvaluateKey(sdk, e.flag, ctx, None).variant
<1>1. sdk.experiments \subseteq Experiment
  BY FetchedIsSnapshot DEF Snapshot, IInv, TypeOK, Running
<1>2. \A e \in sdk.experiments : e.flag \in FlagKey
  BY <1>1 DEF Experiment
<1> HIDE DEF sdk
<1>3. Credits(sdk, metric, ctx) =
        {<<e, Arm(e)>> : e \in {x \in sdk.experiments : x.metric = metric /\ Arm(x) # None}}
  BY DEF Credits
<1>4. \A k \in FlagKey : Exposures(sdk, k, ctx) =
        {<<e, Arm(e)>> : e \in {x \in sdk.experiments : x.flag = k /\ Arm(x) # None}}
  BY DEF Exposures
<1>5. UNION {Exposures(sdk, k, ctx) : k \in FlagKey} =
        {<<e, Arm(e)>> : e \in {x \in sdk.experiments : Arm(x) # None}}
  BY <1>2, <1>4
<1> QED BY <1>3, <1>5 DEF sdk

\* Under one snapshot a context's conversion counts for the arm its exposure
\* counts for (client.rs, evaluate and track).
THEOREM ConversionOnExposedArmHolds == Spec => []ConversionOnExposedArm
BY StaysValid, ConversionInvariant, PTL

-----------------------------------------------------------------------------
(* Experiment results. *)

\* An observed rate is a proportion.
LEMMA ObservedProportion ==
    ASSUME NEW count \in [exposures : Nat, conversions : Nat]
    PROVE  Observed(count) # None =>
              /\ Observed(count) = <<Observed(count)[1], Observed(count)[2]>>
              /\ Observed(count)[2] \in Nat /\ Observed(count)[2] > 0
              /\ Observed(count)[1] \in 0..Observed(count)[2]
<1> DEFINE S == {count.conversions, count.exposures}
<1>1. S \subseteq Nat /\ S # {}
  OBVIOUS
<1>2. Min(S) \in S /\ \A x \in S : Min(S) <= x
  <2> HIDE DEF S
  <2> QED BY <1>1, MinIsLeast
<1>3. Min(S) \in 0..count.exposures /\ count.exposures \in Nat
  BY <1>1, <1>2
<1> HIDE DEF S
<1> QED BY <1>3 DEF Observed, S

\* Swapping the sides of a comparison changes the sign of the lift.
LEMMA VerdictSwaps ==
    ASSUME NEW a \in Nat, NEW b \in Nat, NEW x \in Nat, NEW y \in Nat,
           Verdict(<<a, b>>, <<x, y>>) # None
    PROVE  /\ Verdict(<<a, b>>, <<x, y>>) = [lift |-> a * y - x * b]
           /\ Verdict(<<x, y>>, <<a, b>>) = [lift |-> -(a * y - x * b)]
<1>1. Verdict(<<a, b>>, <<x, y>>) = IF (a + x) * ((b + y) - (a + x)) <= 0 THEN None ELSE [lift |-> a * y - x * b]
  BY DEF Verdict
<1>2. Verdict(<<x, y>>, <<a, b>>) = IF (x + a) * ((y + b) - (x + a)) <= 0 THEN None ELSE [lift |-> x * b - a * y]
  BY DEF Verdict
<1>3. x + a = a + x /\ y + b = b + y
  OBVIOUS
<1>4. a * y \in Int /\ x * b \in Int
  OBVIOUS
<1>5. x * b - a * y = -(a * y - x * b)
  <2> DEFINE p == a * y
             q == x * b
  <2>1. p \in Int /\ q \in Int
    BY <1>4
  <2> HIDE DEF p, q
  <2>2. q - p = -(p - q)
    BY <2>1
  <2> QED BY <2>2 DEF p, q
<1> QED BY <1>1, <1>2, <1>3, <1>5

\* Each side is observed over its own exposures.
LEMMA ResultsInvariant == IInv => ResultsAreProportions
<1> SUFFICES ASSUME IInv, Running, NEW counts \in [Controls -> Tallies],
                    NEW v \in DOMAIN Results(experiment.control, counts)
             PROVE  LET r == Results(experiment.control, counts) IN
                    /\ r[v].rate # None => r[v].rate[2] > 0 /\ r[v].rate[1] \in 0..r[v].rate[2]
                    /\ r[v].vs_control # None =>
                          /\ v # experiment.control /\ r[v].rate # None
                          /\ Results(v, counts)[experiment.control].vs_control = [lift |-> -r[v].vs_control.lift]
  BY DEF ResultsAreProportions
<1> DEFINE k == experiment.control
           r == Results(k, counts)
           own == Observed(counts[v])
           ctl == Observed(counts[k])
<1>1. k \in Controls
  BY DEF IInv, TypeOK, Running, Experiment
<1>2. v \in Controls
  BY DEF Results
<1>3. /\ counts[v] \in [exposures : Nat, conversions : Nat]
      /\ counts[k] \in [exposures : Nat, conversions : Nat]
  BY <1>1, <1>2, EnvironmentAssumption
<1>4. r[v].rate = own
      /\ r[v].vs_control = IF v = k \/ ctl = None \/ own = None THEN None ELSE Verdict(own, ctl)
  BY <1>1, <1>2 DEF Results, Has
<1>5. Results(v, counts)[k].vs_control = IF k = v \/ own = None \/ ctl = None THEN None ELSE Verdict(ctl, own)
  BY <1>1, <1>2 DEF Results, Has
<1>6. own # None => /\ own = <<own[1], own[2]>> /\ own[2] \in Nat /\ own[2] > 0 /\ own[1] \in 0..own[2]
  BY <1>3, ObservedProportion
<1>7. ctl # None => /\ ctl = <<ctl[1], ctl[2]>> /\ ctl[2] \in Nat /\ ctl[2] > 0 /\ ctl[1] \in 0..ctl[2]
  BY <1>3, ObservedProportion
<1> HIDE DEF own, ctl, r, k
<1>8. ASSUME r[v].vs_control # None
      PROVE  v # k /\ own # None /\ Results(v, counts)[k].vs_control = [lift |-> -r[v].vs_control.lift]
  <2>1. v # k /\ own # None /\ ctl # None /\ Verdict(own, ctl) # None /\ r[v].vs_control = Verdict(own, ctl)
    BY <1>4, <1>8
  <2>2. Results(v, counts)[k].vs_control = Verdict(ctl, own)
    BY <1>5, <2>1
  <2>3. own[1] \in Nat /\ own[2] \in Nat /\ ctl[1] \in Nat /\ ctl[2] \in Nat
    BY <1>6, <1>7, <2>1
  <2> DEFINE a == own[1]
             b == own[2]
             x == ctl[1]
             y == ctl[2]
             lift == a * y - x * b
  <2>4. Verdict(own, ctl) = Verdict(<<a, b>>, <<x, y>>) /\ Verdict(ctl, own) = Verdict(<<x, y>>, <<a, b>>)
    BY <1>6, <1>7, <2>1
  <2>5. Verdict(own, ctl) = [lift |-> lift] /\ Verdict(ctl, own) = [lift |-> -lift]
    <3> HIDE DEF a, b, x, y
    <3>1. a \in Nat /\ b \in Nat /\ x \in Nat /\ y \in Nat
      BY <2>3 DEF a, b, x, y
    <3> QED BY <2>1, <2>4, <3>1, VerdictSwaps
  <2> HIDE DEF lift
  <2> QED BY <2>1, <2>2, <2>5
<1> QED BY <1>4, <1>6, <1>8 DEF r, k

\* Every rate is a proportion, and a verdict needs both sides and changes its
\* sign with them (experiment.rs, stats.rs).
THEOREM ResultsAreProportionsHolds == Spec => []ResultsAreProportions
BY StaysValid, ResultsInvariant, PTL

-----------------------------------------------------------------------------
(* Ramping up. *)

\* A variant's position is where it stands, when variants are distinct.
LEMMA PositionOf ==
    ASSUME NEW w, NEW i \in 1..Len(w),
           \A a, b \in 1..Len(w) : w[a].variant = w[b].variant => a = b
    PROVE  Position(w, w[i].variant) = i
BY DEF Position

\* Raising the sums moves a slot's owner towards the front.
LEMMA OwnerMovesForward ==
    ASSUME NEW v, NEW w, Filling(v), Filling(w), Len(v) = Len(w),
           \A i \in 1..Len(v) : Cumulative(v)[i] <= Cumulative(w)[i], NEW slot \in 0..Total - 1
    PROVE  Owner(w, slot) <= Owner(v, slot)
<1> DEFINE o == Owner(v, slot)
           S == Owners(w, slot)
           n == Len(w)
<1>1. n \in Nat /\ Cumulative(v) \in [0..n -> Nat] /\ Cumulative(w) \in [0..n -> Nat]
  BY CumulativeDef DEF Filling, Weighted, IsList
<1>2. o \in 1..n /\ slot < Cumulative(v)[o]
  BY OwnerOf
<1> HIDE DEF o
<1>3. o \in 0..n /\ Cumulative(v)[o] \in Nat /\ Cumulative(w)[o] \in Nat
  BY <1>1, <1>2
<1>4. slot < Cumulative(w)[o]
  <2>1. Cumulative(v)[o] <= Cumulative(w)[o]
    BY <1>2
  <2> QED BY <1>2, <1>3, <2>1
<1>5. o \in S /\ S \subseteq Nat
  BY <1>1, <1>2, <1>4 DEF Owners
<1>6. Min(S) <= o
  <2> HIDE DEF S
  <2> QED BY <1>5, MinIsLeast
<1> QED BY <1>6 DEF o, Owner

\* A context that the fallthrough of an enabled flag placed.
LEMMA PlacedByFallthrough ==
    ASSUME NEW k \in FlagKey, NEW variants \in VariantLists, NEW config \in Configs,
           Validate(Candidate(k, variants, config)), NEW version,
           NEW ctx \in Context, NEW env, env.salt \in Salts, config.enabled,
           Evaluate(FlagOf(k, variants, config, version), ctx, env).reason = <<"fallthrough">>
    PROVE  /\ {i \in 1..Len(config.rules) : RuleMatches(config.rules[i], ctx, env)} = {}
           /\ Evaluate(FlagOf(k, variants, config, version), ctx, env).variant
                 = Resolve(FlagOf(k, variants, config, version), config.fallthrough, ctx, env.salt)
           /\ Resolve(FlagOf(k, variants, config, version), config.fallthrough, ctx, env.salt) # None
<1> DEFINE flag == FlagOf(k, variants, config, version)
           e == Evaluate(flag, ctx, env)
           matching == {i \in 1..Len(config.rules) : RuleMatches(config.rules[i], ctx, env)}
<1>1. /\ flag.enabled = config.enabled /\ flag.fallthrough = config.fallthrough /\ flag.rules = config.rules
  BY DEF FlagOf
<1>2. IsList(config.rules) /\ Len(config.rules) \in Nat
  BY EnvironmentAssumption DEF ConfigShape, IsList
<1>3. e = IF matching # {}
          THEN ServeDistribution(flag, config.rules[Min(matching)].distribution, ctx, env,
                                 <<"target_match", Min(matching)>>)
          ELSE ServeDistribution(flag, config.fallthrough, ctx, env, <<"fallthrough">>)
  BY <1>1 DEF Evaluate
<1> HIDE DEF e
<1>4. matching = {}
  <2> SUFFICES ASSUME matching # {} PROVE FALSE
    OBVIOUS
  <2> DEFINE dist == config.rules[Min(matching)].distribution
             reason == <<"target_match", Min(matching)>>
  <2>1. Min(matching) \in 1..Len(config.rules)
    <3>1. matching \subseteq Nat /\ matching \subseteq 1..Len(config.rules)
      BY <1>2
    <3> HIDE DEF matching
    <3> QED BY <3>1, MinIsLeast
  <2>2. dist \in Distributions(config)
    BY <1>2, <2>1, ListElements DEF Distributions
  <2>3. e = ServeDistribution(flag, dist, ctx, env, reason)
    BY <1>3
  <2>4. reason # <<"error">> /\ reason # <<"fallthrough">> /\ <<"error">> # <<"fallthrough">>
    OBVIOUS
  <2> HIDE DEF dist, reason, matching
  <2>5. e.reason \in {reason, <<"error">>}
    BY <2>2, <2>3, <2>4, DistributionErrors
  <2> QED BY <2>4, <2>5 DEF e
<1>5. e = ServeDistribution(flag, config.fallthrough, ctx, env, <<"fallthrough">>)
  BY <1>3, <1>4
<1>6. config.fallthrough \in Distributions(config) /\ <<"fallthrough">> # <<"error">>
  BY DEF Distributions
<1> HIDE DEF matching
<1>7. e.variant = Resolve(flag, config.fallthrough, ctx, env.salt) /\ e.variant # None
  BY <1>5, <1>6, DistributionErrors DEF e
<1> QED BY <1>4, <1>7 DEF e, matching

\* Ramping up the fallthrough moves no context backwards.
LEMMA RampUpMoves ==
    ASSUME NEW k \in FlagKey, NEW variants \in VariantLists, NEW was \in Configs, NEW is \in Configs,
           Validate(Candidate(k, variants, was)), Validate(Candidate(k, variants, is)),
           NEW version, NEW version2, NEW ctx \in Context, NEW env, env.salt \in Salts,
           was.enabled, is.enabled, was.rules = is.rules, RampUp(was.fallthrough, is.fallthrough),
           Evaluate(FlagOf(k, variants, was, version), ctx, env).reason = <<"fallthrough">>
    PROVE  Position(is.fallthrough.weights, Evaluate(FlagOf(k, variants, is, version2), ctx, env).variant)
             <= Position(was.fallthrough.weights, Evaluate(FlagOf(k, variants, was, version), ctx, env).variant)
<1> DEFINE old == FlagOf(k, variants, was, version)
           new == FlagOf(k, variants, is, version2)
           v == was.fallthrough.weights
           w == is.fallthrough.weights
           subject == BucketingSubject(ctx, was.fallthrough.bucket_by)
           slot == Bucket(env.salt, "flag", k, subject)
<1>1. /\ {i \in 1..Len(was.rules) : RuleMatches(was.rules[i], ctx, env)} = {}
      /\ Evaluate(old, ctx, env).variant = Resolve(old, was.fallthrough, ctx, env.salt)
      /\ Resolve(old, was.fallthrough, ctx, env.salt) # None
  BY PlacedByFallthrough
<1>2. old.key = k /\ new.key = k /\ new.enabled = is.enabled /\ new.rules = is.rules
      /\ new.fallthrough = is.fallthrough /\ new.variants = variants
  BY DEF FlagOf
<1>3. /\ ~Has(was.fallthrough, "fixed") /\ ~Has(is.fallthrough, "fixed")
      /\ was.fallthrough.bucket_by = is.fallthrough.bucket_by /\ Len(v) = Len(w)
      /\ \A i \in 1..Len(v) : Cumulative(v)[i] <= Cumulative(w)[i]
  BY DEF RampUp
<1> HIDE DEF old, new
<1>4. subject # None /\ Resolve(old, was.fallthrough, ctx, env.salt) = PickWeighted(v, slot)
  BY <1>1, <1>2, <1>3 DEF Resolve
<1>5. Resolve(new, is.fallthrough, ctx, env.salt) = PickWeighted(w, slot)
  BY <1>2, <1>3, <1>4 DEF Resolve
<1>6. slot \in 0..Total - 1
  BY <1>4, FlagSlot
<1>7. /\ was.fallthrough \in Distributions(was) /\ is.fallthrough \in Distributions(is)
      /\ CheckDistribution(was.fallthrough, Keys(variants)) /\ CheckDistribution(is.fallthrough, Keys(variants))
      /\ None \notin Keys(variants)
  BY ValidFlag DEF Distributions
<1>8. Filling(v) /\ \A i, j \in 1..Len(v) : v[i].variant = v[j].variant => i = j
  BY <1>3, <1>7, ValidRollout
<1>9. /\ Filling(w) /\ \A i \in 1..Len(w) : w[i].variant \in Keys(variants)
      /\ \A i, j \in 1..Len(w) : w[i].variant = w[j].variant => i = j
  BY <1>3, <1>7, ValidRollout
<1> HIDE DEF v, w, slot
<1>10. Owner(v, slot) \in 1..Len(v) /\ PickWeighted(v, slot) = v[Owner(v, slot)].variant
  BY <1>6, <1>8, OwnerOf
<1>11. Owner(w, slot) \in 1..Len(w) /\ PickWeighted(w, slot) = w[Owner(w, slot)].variant
  BY <1>6, <1>9, OwnerOf
<1>12. Evaluate(new, ctx, env).variant = PickWeighted(w, slot)
  <2> DEFINE key == PickWeighted(w, slot)
  <2>1. key \in Keys(new.variants) /\ key # None
    BY <1>2, <1>7, <1>9, <1>11
  <2>2. Evaluate(new, ctx, env) = ServeDistribution(new, is.fallthrough, ctx, env, <<"fallthrough">>)
    BY <1>1, <1>2 DEF Evaluate
  <2>3. Evaluate(new, ctx, env) = Serve(new, key, <<"fallthrough">>)
    BY <1>5, <2>1, <2>2 DEF ServeDistribution
  <2> HIDE DEF key
  <2>4. Evaluate(new, ctx, env).variant = key
    BY <2>1, <2>3, Served
  <2> QED BY <2>4 DEF key
<1>13. Position(w, Evaluate(new, ctx, env).variant) = Owner(w, slot)
  BY <1>9, <1>11, <1>12, PositionOf
<1>14. Position(v, Evaluate(old, ctx, env).variant) = Owner(v, slot)
  BY <1>1, <1>4, <1>8, <1>10, PositionOf
<1>15. Owner(w, slot) <= Owner(v, slot)
  BY <1>3, <1>6, <1>8, <1>9, OwnerMovesForward DEF v, w
<1> QED BY <1>13, <1>14, <1>15 DEF old, new, v, w

\* A wider segment has every member of the narrower one.
LEMMA WiderHasMembers ==
    ASSUME NEW old \in SegmentInputs, NEW new \in SegmentInputs, NEW key \in SegmentKey,
           NEW ctx \in Context, NEW s \in Salts, Widened(old, new), SegmentContains(old, key, ctx, s)
    PROVE  SegmentContains(new, key, ctx, s)
<1>1. SegmentShape(old) /\ SegmentShape(new)
  BY EnvironmentAssumption
<1>2. old.included = new.included /\ old.excluded = new.excluded
  <2>1. DOMAIN old = {"included", "excluded", "rules"} /\ DOMAIN new = {"included", "excluded", "rules"}
    BY <1>1 DEF SegmentShape
  <2> DEFINE o == [old EXCEPT !.rules = <<>>]
             n == [new EXCEPT !.rules = <<>>]
  <2>2. /\ o.included = old.included /\ o.excluded = old.excluded
        /\ n.included = new.included /\ n.excluded = new.excluded
    BY <2>1
  <2>3. o = n
    BY DEF Widened
  <2> HIDE DEF o, n
  <2> QED BY <2>2, <2>3
<1>3. /\ ToSet(old.rules) = {old.rules[i] : i \in 1..Len(old.rules)}
      /\ ToSet(new.rules) = {new.rules[i] : i \in 1..Len(old.rules)}
  BY <1>1, ListElements DEF SegmentShape, Widened
<1>4. ctx.key \notin new.excluded
  BY <1>2 DEF SegmentContains
<1>5. CASE ctx.key \in old.included
  BY <1>2, <1>4, <1>5 DEF SegmentContains
<1>6. CASE ctx.key \notin old.included
  <2>1. PICK i \in 1..Len(old.rules) : SegmentRuleMatches(old.rules[i], key, ctx, s)
    BY <1>3, <1>6 DEF SegmentContains
  <2> DEFINE a == old.rules[i]
             b == new.rules[i]
  <2>2. a \in ToSet(old.rules) /\ b \in ToSet(new.rules)
    BY <1>3
  <2>3. CASE a = b
    BY <1>4, <2>1, <2>2, <2>3 DEF SegmentContains
  <2>4. CASE a # b
    <3>1. /\ a.rollout # None /\ b.rollout # None /\ b = [a EXCEPT !.rollout.percentage = b.rollout.percentage]
          /\ a.rollout.percentage <= b.rollout.percentage
      BY <2>4 DEF Widened
    <3>2. /\ DOMAIN a = {"id", "conditions", "rollout"} /\ DOMAIN a.rollout = {"percentage", "bucket_by"}
          /\ a.rollout.percentage \in Nat /\ b.rollout.percentage \in Nat
      BY <1>1, <2>2, <3>1 DEF SegmentShape
    <3>3. b.conditions = a.conditions /\ b.rollout.bucket_by = a.rollout.bucket_by
      <4> DEFINE p == b.rollout.percentage
                 x == [a EXCEPT !.rollout.percentage = p]
      <4> HIDE DEF a, p
      <4>1. x.conditions = a.conditions /\ x.rollout.bucket_by = a.rollout.bucket_by
        BY <3>2
      <4>2. b = x
        BY <3>1 DEF p
      <4> QED BY <4>1, <4>2
    <3> DEFINE subject == BucketingSubject(ctx, a.rollout.bucket_by)
               slot == Bucket(s, "segment", key, subject)
    <3>4. AllMatch(a.conditions, ctx) /\ subject # None /\ slot < a.rollout.percentage
      BY <2>1, <3>1 DEF SegmentRuleMatches
    <3>5. slot \in 0..Total - 1 /\ Total \in Nat
      BY <3>4, SegmentSlot, EngineAssumption
    <3>6. slot < b.rollout.percentage
      <4> HIDE DEF slot, a, b
      <4> QED BY <3>1, <3>2, <3>4, <3>5
    <3>7. SegmentRuleMatches(b, key, ctx, s)
      BY <3>3, <3>4, <3>6 DEF SegmentRuleMatches
    <3> QED BY <1>4, <2>2, <3>7 DEF SegmentContains
  <2> QED BY <2>3, <2>4
<1> QED BY <1>5, <1>6

\* Any two states with valid flags are so related.
LEMMA StickyStep == IInv /\ IInv' => FlagsStick /\ MembersStick
<1> SUFFICES ASSUME IInv, IInv' PROVE FlagsStick /\ MembersStick
  OBVIOUS
<1>1. FlagsStick
  <2> SUFFICES ASSUME NEW k \in Known \cap Known',
                      NEW ctx \in Context,
                      SameAudience(FlagOf(k, flags[k].variants, flags[k].config, flags[k].version),
                                   FlagOf(k, flags'[k].variants, flags'[k].config, flags'[k].version)),
                      RampUp(FlagOf(k, flags[k].variants, flags[k].config, flags[k].version).fallthrough,
                             FlagOf(k, flags'[k].variants, flags'[k].config, flags'[k].version).fallthrough),
                      Evaluate(FlagOf(k, flags[k].variants, flags[k].config, flags[k].version), ctx,
                               [salt |-> salt, segments |-> <<>>]).reason = <<"fallthrough">>
               PROVE  Position(FlagOf(k, flags'[k].variants, flags'[k].config, flags'[k].version).fallthrough.weights,
                               Evaluate(FlagOf(k, flags'[k].variants, flags'[k].config, flags'[k].version), ctx,
                                        [salt |-> salt, segments |-> <<>>]).variant)
                        <= Position(FlagOf(k, flags[k].variants, flags[k].config, flags[k].version).fallthrough.weights,
                                    Evaluate(FlagOf(k, flags[k].variants, flags[k].config, flags[k].version), ctx,
                                             [salt |-> salt, segments |-> <<>>]).variant)
    BY DEF FlagsStick
  <2> DEFINE was == flags[k].config
             is == flags'[k].config
             variants == flags[k].variants
             env == [salt |-> salt, segments |-> <<>>]
             old == FlagOf(k, flags[k].variants, was, flags[k].version)
             new == FlagOf(k, flags'[k].variants, is, flags'[k].version)
  <2>1. /\ k \in FlagKey /\ flags[k] # None /\ flags'[k] # None
        /\ flags[k] \in FlagRow /\ flags'[k] \in FlagRow /\ salt \in Salts
    BY DEF Known, IInv, TypeOK
  <2>2. variants \in VariantLists /\ was \in Configs /\ is \in Configs
    BY <2>1 DEF FlagRow
  <2>3. Validate(Candidate(k, variants, was)) /\ Validate(Candidate(k, flags'[k].variants, is))
    BY DEF IInv, Validated
  <2>4. /\ old.enabled = was.enabled /\ old.rules = was.rules /\ old.variants = variants
        /\ old.fallthrough = was.fallthrough
        /\ new.enabled = is.enabled /\ new.rules = is.rules /\ new.variants = flags'[k].variants
        /\ new.fallthrough = is.fallthrough
    BY DEF FlagOf
  <2>5. /\ was.enabled /\ is.enabled /\ was.rules = is.rules /\ flags'[k].variants = variants
        /\ RampUp(was.fallthrough, is.fallthrough)
    BY <2>4 DEF SameAudience
  <2>6. env.salt = salt
    OBVIOUS
  <2> HIDE DEF was, is, variants, env
  <2>7. Position(is.fallthrough.weights, Evaluate(FlagOf(k, variants, is, flags'[k].version), ctx, env).variant)
          <= Position(was.fallthrough.weights, Evaluate(FlagOf(k, variants, was, flags[k].version), ctx, env).variant)
    BY <2>1, <2>2, <2>3, <2>5, <2>6, RampUpMoves DEF env, was, variants
  <2> QED BY <2>4, <2>5, <2>7 DEF was, is, variants, env
<1>2. MembersStick
  <2> SUFFICES ASSUME NEW s \in Defined \cap Defined', NEW ctx \in Context,
                      Widened(segments[s].def, segments'[s].def),
                      SegmentContains(segments[s].def, s, ctx, salt)
               PROVE  SegmentContains(segments'[s].def, s, ctx, salt)
    BY DEF MembersStick
  <2>1. s \in SegmentKey /\ segments[s] \in SegmentRow /\ segments'[s] \in SegmentRow /\ salt \in Salts
    BY DEF Defined, IInv, TypeOK
  <2>2. segments[s].def \in SegmentInputs /\ segments'[s].def \in SegmentInputs
    BY <2>1 DEF SegmentRow
  <2> QED BY <2>1, <2>2, WiderHasMembers
<1> QED BY <1>1, <1>2

\* Shifting weight to the front of a rollout moves no context backwards, and
\* raising a segment's percentages loses no member (bucket.rs, segment.rs).
THEOREM RampUpIsStickyHolds == Spec => RampUpIsSticky
<1>1. IInv /\ IInv' => [FlagsStick /\ MembersStick]_vars
  BY StickyStep
<1> QED BY StaysValid, <1>1, PTL DEF RampUpIsSticky
=============================================================================
