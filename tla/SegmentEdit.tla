----------------------------- MODULE SegmentEdit -----------------------------
(***************************************************************************)
(* Concurrent edits of one segment (crates/api/src/routes/segments.rs,     *)
(* update_segment in crates/storage/src/segments.rs).  A PUT is a partial  *)
(* update made of three statements outside a transaction: the handler      *)
(* reads the segment and validates what the patch would make of it, the    *)
(* storage layer reads it again to compare versions, and an UPDATE merges  *)
(* the patch into whatever row it finds.                                   *)
(*                                                                         *)
(* Data: a segment is its two lists of context keys and its version; a     *)
(* patch replaces either list or leaves it alone.  Rules are replaced in   *)
(* the same way and add nothing to the two lists.                          *)
(***************************************************************************)
EXTENDS Naturals

CONSTANTS
    Op,         \* operators, each with at most one request in flight
    Member,     \* context keys
    None,       \* no row; a list the patch leaves alone
    MaxRows,    \* bound: how often the segment is created
    MaxVersion  \* bound: no edit begins on a segment with this version

ASSUME SegmentAssumption ==
    /\ MaxRows \in Nat
    /\ MaxVersion \in Nat
    /\ \A S \in SUBSET Member : S # None

VARIABLES
    row,        \* the committed row, or None
    ids,        \* row ids handed out
    pc,         \* where each operator's request is
    patch,      \* the request's body
    want,       \* its expected_version, 0 when absent
    prev,       \* the row the handler validated the patch against
    seen,       \* the row the operator last read
    blind       \* history: a patch was merged into another row than the one it
                \* was validated against

vars == <<row, ids, pc, patch, want, prev, seen, blind>>

Row   == [id : Nat, included : SUBSET Member, excluded : SUBSET Member,
          version : Nat \ {0}]
Patch == [included : (SUBSET Member) \cup {None}, excluded : (SUBSET Member) \cup {None}]

Empty == [included |-> None, excluded |-> None]

ASSUME NoneIsNoRow == None \notin Row

TypeOK ==
    /\ row \in Row \cup {None}
    /\ ids \in Nat
    /\ pc \in [Op -> {"idle", "validated", "checked"}]
    /\ patch \in [Op -> Patch]
    /\ want \in [Op -> Nat]
    /\ prev \in [Op -> Row \cup {None}]
    /\ seen \in [Op -> Row \cup {None}]
    /\ blind \in BOOLEAN

Init ==
    /\ row = None
    /\ ids = 0
    /\ pc = [c \in Op |-> "idle"]
    /\ patch = [c \in Op |-> Empty]
    /\ want = [c \in Op |-> 0]
    /\ prev = [c \in Op |-> None]
    /\ seen = [c \in Op |-> None]
    /\ blind = FALSE

Done(c) ==
    /\ pc' = [pc EXCEPT ![c] = "idle"]
    /\ patch' = [patch EXCEPT ![c] = Empty]
    /\ want' = [want EXCEPT ![c] = 0]
    /\ prev' = [prev EXCEPT ![c] = None]

\* COALESCE(new, old).
Coalesce(new, old) == IF new = None THEN old ELSE new

\* The segment r patched with p, with the version the trigger gives it.
Merged(r, p) ==
    [id |-> r.id, included |-> Coalesce(p.included, r.included),
     excluded |-> Coalesce(p.excluded, r.excluded), version |-> r.version + 1]

\* flagforge_core::validate_segment, on the two lists.
Contradicts(r) == r.included \cap r.excluded # {}

\* The expected_version a body may carry: none, or the version c read.
Expected(c) == IF seen[c] = None THEN {0} ELSE {0, seen[c].version}

\* create_segment: a segment starts empty; a second one with the key is a 409.
Create ==
    /\ row = None
    /\ ids < MaxRows
    /\ ids' = ids + 1
    /\ row' = [id |-> ids + 1, included |-> {}, excluded |-> {}, version |-> 1]
    /\ blind' = FALSE
    /\ UNCHANGED <<pc, patch, want, prev, seen>>

\* delete_segment, of a segment no rule references.
Delete ==
    /\ row # None
    /\ row' = None
    /\ UNCHANGED <<ids, pc, patch, want, prev, seen, blind>>

\* GET: what an operator bases an edit on, or a 404.
Read(c) ==
    /\ pc[c] = "idle"
    /\ seen' = [seen EXCEPT ![c] = IF row = None THEN @ ELSE row]
    /\ UNCHANGED <<row, ids, pc, patch, want, prev, blind>>

\* Mutant of Validate: only the patch itself is looked at.
ValidatePatchAlone(c, p, w) ==
    /\ pc[c] = "idle"
    /\ row # None /\ row.version < MaxVersion
    /\ p.included # None /\ p.excluded # None => p.included \cap p.excluded = {}
    /\ pc' = [pc EXCEPT ![c] = "validated"]
    /\ patch' = [patch EXCEPT ![c] = p]
    /\ want' = [want EXCEPT ![c] = w]
    /\ prev' = [prev EXCEPT ![c] = row]
    /\ UNCHANGED <<row, ids, seen, blind>>

\* update: find_segment and validate_decidable; a contradiction is a 422.
Validate(c, p, w) ==
    /\ pc[c] = "idle"
    /\ row # None /\ row.version < MaxVersion
    /\ ~Contradicts(Merged(row, p))
    /\ pc' = [pc EXCEPT ![c] = "validated"]
    /\ patch' = [patch EXCEPT ![c] = p]
    /\ want' = [want EXCEPT ![c] = w]
    /\ prev' = [prev EXCEPT ![c] = row]
    /\ UNCHANGED <<row, ids, seen, blind>>

\* update_segment reads the row again: a missing one is a 404, another version
\* than the expected one a 409.
CheckVersion(c) ==
    /\ pc[c] = "validated"
    /\ \/ /\ row # None /\ want[c] \in {0, row.version}
          /\ pc' = [pc EXCEPT ![c] = "checked"]
          /\ UNCHANGED <<patch, want, prev>>
       \/ /\ ~(row # None /\ want[c] \in {0, row.version})
          /\ Done(c)
    /\ UNCHANGED <<row, ids, seen, blind>>

\* Mutant of Apply: the UPDATE trusts the check before it.
ApplyUnguarded(c) ==
    /\ pc[c] = "checked"
    /\ row' = IF row # None THEN Merged(row, patch[c]) ELSE row
    /\ blind' = (blind \/ (row' # row /\ row # prev[c]))
    /\ Done(c)
    /\ UNCHANGED <<ids, seen>>

\* UPDATE ... WHERE version: merges into the row as it is now, or reports a
\* conflict.
Apply(c) ==
    /\ pc[c] = "checked"
    /\ row' = IF row # None /\ want[c] \in {0, row.version}
              THEN Merged(row, patch[c]) ELSE row
    /\ blind' = (blind \/ (row' # row /\ row # prev[c]))
    /\ Done(c)
    /\ UNCHANGED <<ids, seen>>

Next ==
    \/ Create
    \/ Delete
    \/ \E c \in Op : Read(c) \/ CheckVersion(c) \/ Apply(c)
    \/ \E c \in Op, p \in Patch : \E w \in Expected(c) : Validate(c, p, w)

Spec == Init /\ [][Next]_vars

-----------------------------------------------------------------------------
(* Properties. *)

\* "A partial update cannot arrive at a state a full write would have been
\* refused" (routes/segments.rs): no context key is both included and excluded,
\* unless a patch met a row it was not validated against (ValidatedIsWritten
\* says when: without a version, or when the segment was created again).
DecidableUnlessBlind == row # None /\ ~blind => ~Contradicts(row)

\* An edit that carries the version its author read writes exactly what the
\* handler validated, and replaces exactly what its author read, unless the
\* segment was deleted and created again under the same key meanwhile: nobody
\* else's patch came in between the three statements.
ValidatedIsWritten ==
    [][\A c \in Op :
          (pc[c] = "checked" /\ want[c] # 0 /\ row' # row /\ pc'[c] = "idle")
              => \/ row' = Merged(prev[c], patch[c]) /\ row = seen[c]
                 \/ row.id # seen[c].id]_vars
=============================================================================
