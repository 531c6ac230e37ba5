-------------------------- MODULE SegmentEditProofs --------------------------
(***************************************************************************)
(* Proofs about SegmentEdit for any operators, context keys, rows and      *)
(* versions.  Two facts carry the argument: what anybody has read of the   *)
(* living row is the row itself or has a smaller version (Acquainted), and *)
(* a request's guard is the version of a row its author read no later than *)
(* the handler did (Guarded).                                              *)
(***************************************************************************)
EXTENDS SegmentEdit, TLAPS

\* r is a row of an earlier life of the segment, an earlier state of the
\* present one, or the row as it is.
Known(r) ==
    r # None =>
        /\ r.id <= ids
        /\ row # None /\ r.id = row.id =>
              /\ r.version <= row.version
              /\ r.version = row.version => r = row

\* Ids grow, so the living row has the last.
LastId == row # None => row.id = ids

Acquainted == \A c \in Op : Known(prev[c]) /\ Known(seen[c])

\* A request in flight was validated against the row in prev.
Validated ==
    \A c \in Op : pc[c] # "idle" => prev[c] # None /\ ~Contradicts(Merged(prev[c], patch[c]))

\* Its expected version is the one its author read, before the handler did.
Guarded ==
    \A c \in Op : pc[c] # "idle" /\ want[c] # 0 =>
        /\ seen[c] # None
        /\ want[c] = seen[c].version
        /\ seen[c].id <= prev[c].id
        /\ seen[c].id = prev[c].id => seen[c].version <= prev[c].version

IInv == TypeOK /\ LastId /\ Acquainted /\ Validated /\ Guarded /\ DecidableUnlessBlind

-----------------------------------------------------------------------------
(* Helpers *)

\* COALESCE of a patched and a stored list is a list, and a merge is a row.
LEMMA MergedType ==
    ASSUME NEW r \in Row, NEW p \in Patch
    PROVE  /\ Merged(r, p) \in Row
           /\ Merged(r, p).id = r.id
           /\ Merged(r, p).version = r.version + 1
<1>1. Coalesce(p.included, r.included) \in SUBSET Member
  BY DEF Coalesce, Patch, Row
<1>2. Coalesce(p.excluded, r.excluded) \in SUBSET Member
  BY DEF Coalesce, Patch, Row
<1>3. QED
  BY <1>1, <1>2 DEF Merged, Row

\* The patch of an idle operator changes nothing.
LEMMA EmptyType == Empty \in Patch
BY DEF Empty, Patch

-----------------------------------------------------------------------------
(* TypeOK *)

\* Every action keeps the types.
LEMMA NextType == TypeOK /\ [Next]_vars => TypeOK'
<1> SUFFICES ASSUME TypeOK, [Next]_vars PROVE TypeOK'
  OBVIOUS
<1> USE EmptyType
<1>1. CASE Create
  <2>1. row' \in Row
    BY <1>1 DEF Create, TypeOK, Row
  <2>2. blind' \in BOOLEAN
    BY <1>1 DEF Create
  <2> QED BY <1>1, <2>1, <2>2 DEF Create, TypeOK
<1>2. CASE Delete
  BY <1>2 DEF Delete, TypeOK
<1>3. ASSUME NEW c \in Op, Read(c) PROVE TypeOK'
  BY <1>3 DEF Read, TypeOK
<1>4. ASSUME NEW c \in Op, CheckVersion(c) PROVE TypeOK'
  BY <1>4 DEF CheckVersion, Done, TypeOK
<1>5. ASSUME NEW c \in Op, Apply(c) PROVE TypeOK'
  <2>1. row' \in Row \cup {None}
    <3>1. row # None => row \in Row /\ Merged(row, patch[c]) \in Row
      BY MergedType DEF TypeOK
    <3> QED BY <3>1, <1>5 DEF Apply, TypeOK
  <2>2. blind' \in BOOLEAN
    BY <1>5 DEF Apply, TypeOK
  <2> QED BY <1>5, <2>1, <2>2 DEF Apply, Done, TypeOK
<1>6. ASSUME NEW c \in Op, NEW p \in Patch, NEW w \in Expected(c), Validate(c, p, w) PROVE TypeOK'
  <2>1. w \in Nat
    BY DEF Expected, TypeOK, Row
  <2> QED BY <1>6, <2>1 DEF Validate, TypeOK
<1>7. CASE UNCHANGED vars
  BY <1>7 DEF vars, TypeOK
<1> QED BY <1>1, <1>2, <1>3, <1>4, <1>5, <1>6, <1>7 DEF Next

-----------------------------------------------------------------------------
(* The inductive invariant *)

\* What holds at the start.
LEMMA InitInv == Init => IInv
<1> SUFFICES ASSUME Init PROVE IInv
  OBVIOUS
<1>1. TypeOK
  BY EmptyType DEF Init, TypeOK
<1> QED
  BY <1>1 DEF Init, IInv, LastId, Acquainted, Known, Validated, Guarded, DecidableUnlessBlind

\* Every action preserves it.
LEMMA NextInv == IInv /\ [Next]_vars => IInv'
<1> SUFFICES ASSUME IInv, [Next]_vars PROVE IInv'
  OBVIOUS
<1> USE NoneIsNoRow
<1>0. TypeOK /\ TypeOK'
  BY NextType DEF IInv
<1>r. \A r \in Row : r.id \in Nat /\ r.version \in Nat \ {0}
  BY DEF Row
<1>k. /\ \A c \in Op : prev[c] # None => prev[c] \in Row
      /\ \A c \in Op : seen[c] # None => seen[c] \in Row
      /\ row # None => row \in Row
      /\ ids \in Nat
  BY <1>0 DEF TypeOK
<1>1. CASE Create
  <2>1. row' # None /\ row'.id = ids + 1 /\ row'.included = {} /\ row'.excluded = {}
    <3>1. row' \in Row
      BY <1>1, <1>k DEF Create, Row
    <3> QED BY <1>1, <3>1 DEF Create
  <2>2. Acquainted'
    BY <1>1, <1>k, <1>r, <2>1 DEF Create, IInv, Acquainted, Known
  <2>3. Validated' /\ Guarded'
    BY <1>1 DEF Create, IInv, Validated, Guarded
  <2>4. LastId' /\ DecidableUnlessBlind'
    BY <1>1, <2>1 DEF Create, LastId, DecidableUnlessBlind, Contradicts
  <2> QED BY <1>0, <2>2, <2>3, <2>4 DEF IInv
<1>2. CASE Delete
  BY <1>0, <1>2 DEF Delete, IInv, LastId, Acquainted, Known, Validated, Guarded, DecidableUnlessBlind
<1>3. ASSUME NEW c \in Op, Read(c) PROVE IInv'
  <2>1. /\ UNCHANGED <<row, ids, pc, patch, want, prev, blind>>
        /\ pc[c] = "idle"
        /\ \A d \in Op : seen'[d] = seen[d] \/ (d = c /\ seen'[d] = row)
    BY <1>0, <1>3 DEF Read, TypeOK
  <2>2. Known(row)
    BY <1>k, <1>r DEF Known, IInv, LastId
  <2>3. Acquainted'
    BY <2>1, <2>2 DEF IInv, Acquainted, Known
  <2>4. Guarded'
    BY <2>1 DEF IInv, Guarded
  <2>5. LastId' /\ Validated' /\ DecidableUnlessBlind'
    BY <2>1 DEF IInv, LastId, Validated, DecidableUnlessBlind
  <2> QED BY <1>0, <2>3, <2>4, <2>5 DEF IInv
<1>4. ASSUME NEW c \in Op, CheckVersion(c) PROVE IInv'
  <2>1. /\ UNCHANGED <<row, ids, seen, blind>>
        /\ \A d \in Op : \/ pc'[d] = "idle" /\ prev'[d] = None
                         \/ /\ pc[d] # "idle" \/ pc'[d] = "idle"
                            /\ patch'[d] = patch[d] /\ want'[d] = want[d] /\ prev'[d] = prev[d]
    BY <1>0, <1>4 DEF CheckVersion, Done, TypeOK
  <2>2. Acquainted'
    BY <2>1 DEF IInv, Acquainted, Known
  <2>3. Validated'
    BY <2>1 DEF IInv, Validated
  <2>4. Guarded'
    BY <2>1 DEF IInv, Guarded
  <2> QED BY <1>0, <2>1, <2>2, <2>3, <2>4 DEF IInv, LastId, DecidableUnlessBlind
<1>5. ASSUME NEW c \in Op, Apply(c) PROVE IInv'
  <2>1. /\ UNCHANGED <<ids, seen>>
        /\ \A d \in Op : \/ pc'[d] = "idle" /\ prev'[d] = None
                         \/ /\ pc'[d] = pc[d]
                            /\ patch'[d] = patch[d] /\ want'[d] = want[d] /\ prev'[d] = prev[d]
    BY <1>0, <1>5 DEF Apply, Done, TypeOK
  <2>2. \/ row' = row
        \/ row # None /\ row' = Merged(row, patch[c])
    BY <1>5 DEF Apply
  <2>3. row # None => /\ Merged(row, patch[c]) # None
                      /\ Merged(row, patch[c]).id = row.id
                      /\ Merged(row, patch[c]).version = row.version + 1
    BY <1>0, <1>k, MergedType DEF TypeOK
  <2>4. LastId'
    BY <2>1, <2>2, <2>3 DEF IInv, LastId
  <2>5. Acquainted'
    BY <1>k, <1>r, <2>1, <2>2, <2>3 DEF IInv, Acquainted, Known
  <2>6. Validated'
    BY <2>1 DEF IInv, Validated
  <2>7. Guarded'
    BY <2>1 DEF IInv, Guarded
  <2>8. DecidableUnlessBlind'
    <3>1. CASE row' = row
      BY <3>1, <1>5 DEF Apply, IInv, DecidableUnlessBlind
    <3>2. CASE row' # row
      <4>1. row = prev[c] \/ blind'
        BY <3>2, <1>5 DEF Apply
      <4>2. ~Contradicts(Merged(prev[c], patch[c]))
        BY <1>5 DEF Apply, IInv, Validated
      <4> QED BY <3>2, <2>2, <4>1, <4>2 DEF DecidableUnlessBlind
    <3> QED BY <3>1, <3>2
  <2> QED BY <1>0, <2>4, <2>5, <2>6, <2>7, <2>8 DEF IInv
<1>6. ASSUME NEW c \in Op, NEW p \in Patch, NEW w \in Expected(c), Validate(c, p, w) PROVE IInv'
  <2>1. /\ UNCHANGED <<row, ids, seen, blind>>
        /\ row # None
        /\ ~Contradicts(Merged(row, p))
        /\ prev'[c] = row /\ patch'[c] = p /\ want'[c] = w
        /\ \A d \in Op \ {c} : /\ pc'[d] = pc[d] /\ patch'[d] = patch[d]
                               /\ want'[d] = want[d] /\ prev'[d] = prev[d]
    BY <1>0, <1>6 DEF Validate, TypeOK
  <2>2. Known(row)
    BY <1>k, <1>r DEF Known, IInv, LastId
  <2>3. Acquainted'
    BY <2>1, <2>2 DEF IInv, Acquainted, Known
  <2>4. Validated'
    BY <2>1 DEF IInv, Validated
  <2>5. Guarded'
    <3>1. w # 0 => /\ seen[c] # None /\ w = seen[c].version
                   /\ seen[c].id <= row.id
                   /\ seen[c].id = row.id => seen[c].version <= row.version
      BY <2>1 DEF Expected, IInv, Acquainted, Known, LastId
    <3> QED BY <2>1, <3>1 DEF IInv, Guarded
  <2> QED BY <1>0, <2>1, <2>3, <2>4, <2>5 DEF IInv, LastId, DecidableUnlessBlind
<1>7. CASE UNCHANGED vars
  BY <1>0, <1>7 DEF vars, IInv, LastId, Acquainted, Known, Validated, Guarded, DecidableUnlessBlind
<1> QED BY <1>1, <1>2, <1>3, <1>4, <1>5, <1>6, <1>7 DEF Next

\* The inductive invariant holds throughout.
LEMMA InvHolds == Spec => []IInv
BY InitInv, NextInv, PTL DEF Spec

-----------------------------------------------------------------------------
(* Theorems *)

\* The row, the requests and what operators have read keep their types, for any
\* number of operators and context keys (routes/segments.rs, update).
THEOREM SegmentTypeCorrect == Spec => []TypeOK
<1>1. IInv => TypeOK
  BY DEF IInv
<1> QED BY InvHolds, <1>1, PTL

\* Only a patch merged into a row it was not validated against can make a
\* segment undecidable (routes/segments.rs, update; storage/segments.rs,
\* update_segment).
THEOREM DecidableUnlessBlindHolds == Spec => []DecidableUnlessBlind
<1>1. IInv => DecidableUnlessBlind
  BY DEF IInv
<1> QED BY InvHolds, <1>1, PTL

\* A step that writes under a version writes what was validated, over what its
\* author read, or meets a segment that was created again.
LEMMA StepWritesValidated ==
    ASSUME IInv, [Next]_vars, NEW c \in Op,
           pc[c] = "checked", want[c] # 0, row' # row, pc'[c] = "idle"
    PROVE  \/ row' = Merged(prev[c], patch[c]) /\ row = seen[c]
           \/ row.id # seen[c].id
<1>0. TypeOK
  BY DEF IInv
<1>1. Apply(c)
  <2>1. ~(Create \/ Delete \/ UNCHANGED vars)
    BY DEF Create, Delete, vars
  <2>2. ASSUME NEW d \in Op PROVE ~Read(d) /\ ~CheckVersion(d)
    BY DEF Read, CheckVersion
  <2>3. ASSUME NEW d \in Op, NEW p \in Patch, NEW w \in Expected(d) PROVE ~Validate(d, p, w)
    BY DEF Validate
  <2>4. ASSUME NEW d \in Op, d # c PROVE ~Apply(d)
    BY <2>4, <1>0 DEF Apply, Done, TypeOK
  <2> QED BY <2>1, <2>2, <2>3, <2>4 DEF Next
<1>2. row # None /\ want[c] = row.version /\ row' = Merged(row, patch[c])
  BY <1>1 DEF Apply
<1>3. /\ prev[c] # None /\ seen[c] # None /\ row.version = seen[c].version
      /\ seen[c].id <= prev[c].id
      /\ seen[c].id = prev[c].id => seen[c].version <= prev[c].version
  BY <1>2 DEF IInv, Validated, Guarded
<1>4. /\ prev[c].id \in Nat /\ seen[c].id \in Nat /\ row.id \in Nat
      /\ prev[c].version \in Nat /\ seen[c].version \in Nat /\ row.version \in Nat
  BY <1>0, <1>2, <1>3 DEF TypeOK, Row
<1>5. row.id = ids /\ Known(prev[c]) /\ Known(seen[c])
  BY <1>2 DEF IInv, LastId, Acquainted
<1>6. CASE row.id = seen[c].id
  <2>1. prev[c].id = row.id
    BY <1>3, <1>4, <1>5, <1>6 DEF Known
  <2>2. prev[c].version = row.version
    BY <1>2, <1>3, <1>4, <1>5, <1>6, <2>1 DEF Known
  <2> QED BY <1>2, <1>3, <1>5, <1>6, <2>1, <2>2 DEF Known
<1> QED BY <1>6

\* An edit that carries the version its author read writes exactly what was
\* validated over exactly what its author read, whatever others do between its
\* three statements, unless the segment was deleted and created again
\* (storage/segments.rs, update_segment).
THEOREM ValidatedIsWrittenHolds == Spec => ValidatedIsWritten
<1>1. IInv /\ [Next]_vars =>
        [\A c \in Op :
            (pc[c] = "checked" /\ want[c] # 0 /\ row' # row /\ pc'[c] = "idle")
                => \/ row' = Merged(prev[c], patch[c]) /\ row = seen[c]
                   \/ row.id # seen[c].id]_vars
  BY StepWritesValidated
<1> QED BY InvHolds, <1>1, PTL DEF Spec, ValidatedIsWritten
=============================================================================
