--------------------------- MODULE DashboardProofs ---------------------------
(***************************************************************************)
(* Proofs about Dashboard for any environments, users, calls in flight and *)
(* page size.  Calls are numbered apart, so an answer takes out its own    *)
(* call and no other; a call whose page is still there belongs to it.  On  *)
(* that (Base) rest five invariants, one for each property: who is asked   *)
(* about (Session), what a skeleton waits for (Awaited), what a switch     *)
(* that moved waits for (Settling), which rows cells and writes were read  *)
(* from (ReadPage, ReadCall) and how far the audit page has come (Paging). *)
(***************************************************************************)
EXTENDS Dashboard, FiniteSetTheorems, TLAPS

Ops == {"me", "envs", "get", "put", "change", "delete", "create", "remove", "page"}
Common == {"id", "op", "sent", "onPage", "ok", "status"}

\* What a call of each kind carries besides.
Carries(op) ==
    CASE op = "me" -> {"token"}
      [] op = "get" -> {"cell", "env"}
      [] op = "put" -> {"env", "value", "version", "from", "base"}
      [] op = "page" -> {"before"}
      [] OTHER -> {}

Cells == {"list", "detail"}

IsCall(c) ==
    /\ c.op \in Ops /\ Common \cup Carries(c.op) \subseteq DOMAIN c
    /\ c.id \in Nat /\ c.sent \in BOOLEAN /\ c.onPage \in BOOLEAN /\ c.ok \in BOOLEAN
    /\ c.sent = TRUE => c.ok = FALSE
    /\ c.op = "me" => c.onPage = TRUE
    /\ c.op = "get" => c.cell \in Cells /\ c.env \in Env
    /\ c.op = "put" => c.env \in Env /\ c.from \in Env

Numbered(cs) ==
    /\ IsFiniteSet(cs)
    /\ \A c \in cs : IsCall(c)
    /\ \A c, d \in cs : c.id = d.id => c = d

PageFields == {"kind", "envs", "selected", "saving", "opened", "drafted", "list", "detail"}
AuditFields == {"kind", "state", "entries", "cursor", "more", "seen"}

\* A flag page without a draft has loaded nothing yet.
Drafted(p) == p.kind = "flag" => p.drafted \/ p.detail \in {Loading, Failed}

Shaped(p) ==
    /\ p.kind \in Kinds \cup {"closed", "audit"}
    /\ p.kind = "audit" => DOMAIN p = AuditFields
    /\ p.kind \in Kinds =>
          /\ DOMAIN p = PageFields
          /\ p.selected \in Env \cup {None}
          /\ p.opened = TRUE => p.selected \in Env
          /\ p.detail = Loading => p.kind \in {"flag", "experiments"}
          /\ Drafted(p)
          /\ \A cell \in Cells : p[cell].state = "ready" => p.selected \in Env

\* The page of a call whose answer still finds one.
BelongsTo(op, p) ==
    /\ op \in {"envs", "get", "put", "change", "delete", "create"} => p.kind \in Kinds
    /\ op \in {"get", "put", "change", "delete"} => p.selected \in Env
    /\ op \in {"change", "delete"} => p.kind # "flag"
    /\ op = "page" => p.kind = "audit"

Base(p, cs) == Numbered(cs) /\ Shaped(p) /\ \A c \in cs : c.onPage = TRUE => BelongsTo(c.op, p)

-----------------------------------------------------------------------------
(* The five invariants *)

\* One question at a time, about the token there is.
Session ==
    /\ resolving \in BOOLEAN /\ overtaken \in BOOLEAN
    /\ resolving = TRUE => \E c \in calls : c.op = "me"
    /\ overtaken = FALSE =>
          /\ identity \in {None, token}
          /\ \A c \in calls : c.op = "me" => c.token = token
          /\ \A c, d \in calls : c.op = "me" /\ d.op = "me" => c.id = d.id

\* A cell that is loading has been asked for.
Asked(cs, cell) == \E c \in cs : c.op = "get" /\ c.cell = cell /\ c.onPage = TRUE

Awaited(p, cs) ==
    p.kind \in Kinds /\ p.selected # None =>
        \A cell \in Cells : p[cell] = Loading /\ (p.kind = "flag" => cell = "detail") => Asked(cs, cell)

\* A switch that differs from what was read has a write on its way.
Written(cs) == \E c \in cs : c.op = "put" /\ c.onPage = TRUE

Settling(p, cs) ==
    p.kind = "project" /\ p.list.state = "ready" /\ p.list.shown # p.list.base.value => Written(cs)

RowsOK(rs) ==
    /\ DOMAIN rs = Env
    /\ \A e \in Env : DOMAIN rs[e] = {"life", "version", "value"} /\ rs[e].life \in Nat /\ rs[e].version \in Nat

\* A row that e had, where rs are the rows there are: of an earlier life, of an
\* older version in this one, or the very row.
Known(row, e, rs) ==
    /\ row.life \in Nat /\ row.version \in Nat /\ row.life <= rs[e].life
    /\ row.life = rs[e].life => row.version <= rs[e].version
    /\ row.life = rs[e].life /\ row.version = rs[e].version => row = rs[e]

ReadCell(x, rs) ==
    x.state = "ready" =>
        {"state", "env", "base", "shown"} \subseteq DOMAIN x /\ x.env \in Env /\ Known(x.base, x.env, rs)

\* The cell a page writes from.
Source(p) == IF p.kind = "project" THEN p.list ELSE p.detail
Writing == {"project", "flag", "segments"}

\* l: an answer was shown under another environment than its own.
ReadPage(p, rs, l) ==
    p.kind \in Writing =>
        /\ ReadCell(Source(p), rs)
        /\ l = FALSE /\ Source(p).state = "ready" => Source(p).env = p.selected

ReadPut(c, rs, l) ==
    /\ c.version = c.base.version /\ Known(c.base, c.from, rs)
    /\ l = FALSE => c.from = c.env

ReadCall(c, rs, l) ==
    /\ c.op \in {"get", "put"} /\ c.ok = TRUE => "row" \in DOMAIN c /\ Known(c.row, c.env, rs)
    /\ c.op = "put" => ReadPut(c, rs, l)

\* Everything so far that is said of a page p and calls cs.
Sound(p, cs, rs, l) ==
    /\ Base(p, cs) /\ RowsOK(rs) /\ l \in BOOLEAN
    /\ ReadPage(p, rs, l) /\ \A c \in cs : ReadCall(c, rs, l)

\* Newest first.
Descends(s) == \A i, j \in DOMAIN s : i < j => s[i] > s[j]

\* entries hold what was seen of the ids below `before`, down to the cursor.
Stretch(entries, seen, before, cursor) ==
    /\ entries \in Seq(Nat \ {0}) /\ Descends(entries)
    /\ \A i \in DOMAIN entries : /\ before # NoCursor => entries[i] < before
                                 /\ cursor # NoCursor => entries[i] >= cursor
    /\ cursor \in Nat
    /\ cursor # NoCursor /\ before # NoCursor => cursor < before
    /\ \A i \in seen : (before = NoCursor \/ i < before) /\ (cursor = NoCursor \/ i >= cursor) => i \in Range(entries)

OnAudit(cs) == {c \in cs : c.op = "page" /\ c.onPage = TRUE}

\* One page of the log at a time is asked for, from where the last one ended.
Paging ==
    /\ ids \in Nat /\ log \subseteq 1..ids
    /\ page.kind = "audit" =>
          /\ page.seen \subseteq log
          /\ page.state \in {"loading", "failed", "ready"}
          /\ page.state = "ready" => Stretch(page.entries, page.seen, NoCursor, page.cursor)
          /\ \A c, d \in OnAudit(calls) : c.id = d.id
          /\ \A c \in OnAudit(calls) :
                /\ \/ c.before = NoCursor /\ page.state = "loading"
                   \/ c.before = page.cursor /\ c.before \in Nat \ {0} /\ page.state = "ready" /\ page.more = TRUE
                /\ c.ok = TRUE => /\ {"entries", "cursor", "seen"} \subseteq DOMAIN c
                                  /\ Stretch(c.entries, c.seen, c.before, c.cursor)
                                  /\ page.seen \subseteq c.seen /\ c.seen \subseteq log

IInv ==
    /\ Sound(page, calls, rows, late)
    /\ Session /\ Awaited(page, calls) /\ Settling(page, calls) /\ Paging

-----------------------------------------------------------------------------
(* Calls *)

\* What a call is when it is issued.
IsTemplate(call) ==
    /\ call.op \in Ops /\ {"op"} \cup Carries(call.op) \subseteq DOMAIN call
    /\ DOMAIN call \cap {"id", "sent", "onPage", "ok", "status"} = {}
    /\ call.op = "get" => call.cell \in Cells /\ call.env \in Env
    /\ call.op = "put" => call.env \in Env /\ call.from \in Env

\* n is call with a number of its own.
IsNew(n, cs, call) ==
    /\ IsCall(n) /\ n.onPage = TRUE /\ n.ok = FALSE /\ n.sent = TRUE
    /\ \A f \in DOMAIN call : n[f] = call[f]
    /\ \A c \in cs : c.id # n.id

\* A function on a finite set takes finitely many values, and not more of them.
LEMMA FiniteRange ==
    ASSUME NEW S, IsFiniteSet(S), NEW T, NEW f \in [S -> T]
    PROVE  IsFiniteSet(Range(f)) /\ Cardinality(Range(f)) <= Cardinality(S)
<1>1. f \in Surjection(S, Range(f))
  BY DEF Surjection, Range
<1> QED BY <1>1, FS_Surjection

\* There is always a number left.
LEMMA FreeNumber ==
    ASSUME NEW cs, Numbered(cs)
    PROVE  \E i \in 1..(Cardinality(cs) + 1) : \A c \in cs : c.id # i
<1> DEFINE id == [c \in cs |-> c.id]
           S == Range(id)
           N == Cardinality(cs)
<1>0. id \in [cs -> Nat] /\ S = {c.id : c \in cs}
  BY DEF Range, Numbered, IsCall
<1>1. N \in Nat /\ IsFiniteSet(S) /\ Cardinality(S) <= N
  BY <1>0, FS_CardinalityType, FiniteRange DEF Numbered
<1> HIDE DEF S
<1>2. SUFFICES ASSUME 1..(N + 1) \subseteq S PROVE FALSE
  BY <1>0
<1>3. IsFiniteSet(1..(N + 1)) /\ Cardinality(1..(N + 1)) = N + 1
  BY <1>1, FS_Interval
<1>4. Cardinality(1..(N + 1)) <= Cardinality(S) /\ Cardinality(S) \in Nat
  BY <1>1, <1>2, FS_Subset, FS_CardinalityType
<1> HIDE DEF S, N
<1> QED BY <1>1, <1>3, <1>4

\* Issuing a call adds it under a number nobody has.
LEMMA IssueAdds ==
    ASSUME NEW cs, Numbered(cs), NEW call, IsTemplate(call)
    PROVE  \E n : Issue(cs, call) = cs \cup {n} /\ IsNew(n, cs, call)
<1> DEFINE i == CHOOSE j \in 1..(Cardinality(cs) + 1) : \A c \in cs : c.id # j
           rest == [id |-> i, sent |-> TRUE, onPage |-> TRUE, ok |-> FALSE, status |-> 0]
           n == Over(call, rest)
<1>1. i \in 1..(Cardinality(cs) + 1) /\ \A c \in cs : c.id # i
  BY FreeNumber
<1>2. i \in Nat
  BY <1>1, FS_CardinalityType DEF Numbered
<1>3. Issue(cs, call) = cs \cup {n}
  BY DEF Issue
<1> HIDE DEF i
<1>4. DOMAIN n = DOMAIN call \cup {"id", "sent", "onPage", "ok", "status"}
  BY DEF Over
<1>5. \A f \in DOMAIN call : n[f] = call[f]
  BY DEF Over
<1>6. n.id = i /\ n.sent = TRUE /\ n.onPage = TRUE /\ n.ok = FALSE
  BY DEF Over, IsTemplate
<1> HIDE DEF n
<1>7. n.op = call.op
  BY <1>5 DEF IsTemplate
<1>8. call.op = "get" => n.cell = call.cell /\ n.env = call.env
  BY <1>5 DEF IsTemplate, Carries
<1>9. call.op = "put" => n.env = call.env /\ n.from = call.from
  BY <1>5 DEF IsTemplate, Carries
<1>10. IsCall(n)
  BY <1>2, <1>4, <1>6, <1>7, <1>8, <1>9 DEF IsTemplate, IsCall, Common
<1> QED BY <1>1, <1>3, <1>5, <1>6, <1>10 DEF IsNew

\* One more call keeps the numbers apart.
LEMMA AddNumbered ==
    ASSUME NEW cs, Numbered(cs), NEW n, IsCall(n), \A c \in cs : c.id # n.id
    PROVE  Numbered(cs \cup {n})
BY FS_AddElement DEF Numbered

\* Fewer calls are as well.
LEMMA FewerNumbered ==
    ASSUME NEW cs, Numbered(cs), NEW ds, ds \subseteq cs
    PROVE  Numbered(ds)
BY FS_Subset DEF Numbered

\* Fewer calls are as sound.
LEMMA FewerSound ==
    ASSUME NEW p, NEW cs, NEW rs, NEW l, Sound(p, cs, rs, l), NEW ds, ds \subseteq cs
    PROVE  Sound(p, ds, rs, l)
BY FewerNumbered DEF Sound, Base

\* A call that suits the page it is issued from.
Fits(call, p, rs, l) ==
    /\ IsTemplate(call) /\ BelongsTo(call.op, p)
    /\ call.op = "put" => ReadPut(call, rs, l)

\* A call that suits its page can be issued.
LEMMA IssueSound ==
    ASSUME NEW p, NEW cs, NEW rs, NEW l, Sound(p, cs, rs, l), NEW call, Fits(call, p, rs, l)
    PROVE  /\ Sound(p, Issue(cs, call), rs, l)
           /\ \E n : Issue(cs, call) = cs \cup {n} /\ IsNew(n, cs, call)
<1>1. PICK n : Issue(cs, call) = cs \cup {n} /\ IsNew(n, cs, call)
  BY IssueAdds DEF Sound, Base, Fits
<1>2. Numbered(cs \cup {n})
  BY <1>1, AddNumbered DEF Sound, Base, IsNew
<1>3. n.op = call.op /\ n.ok = FALSE
  BY <1>1 DEF IsNew, Fits, IsTemplate
<1>4. call.op = "put" => /\ n.env = call.env /\ n.from = call.from
                         /\ n.version = call.version /\ n.base = call.base
  BY <1>1 DEF IsNew, Fits, IsTemplate, Carries
<1>5. ReadCall(n, rs, l)
  BY <1>3, <1>4 DEF ReadCall, ReadPut, Fits
<1> QED BY <1>1, <1>2, <1>3, <1>5 DEF Sound, Base, Fits

\* The calls of a page that goes suit whatever comes.
LEMMA OrphanedSound ==
    ASSUME NEW p, NEW cs, NEW rs, NEW l, Sound(p, cs, rs, l),
           NEW q, Shaped(q), ReadPage(q, rs, l)
    PROVE  Sound(q, Orphaned(cs), rs, l)
<1> DEFINE K == {d \in cs : d.op \in {"me", "remove"} \/ (d.op \in {"put", "delete", "create"} /\ d.sent)}
           O == [c \in K |-> [c EXCEPT !.onPage = c.op = "me"]]
<1>1. Orphaned(cs) = Range(O) /\ O \in [K -> Range(O)]
  BY DEF Orphaned, Range
<1>2. K \subseteq cs /\ IsFiniteSet(K)
  BY FS_Subset DEF Sound, Base, Numbered
<1>3. IsFiniteSet(Range(O))
  BY <1>1, <1>2, FiniteRange
<1>4. ASSUME NEW c \in K
      PROVE  /\ IsCall(c) /\ ReadCall(c, rs, l) /\ DOMAIN O[c] = DOMAIN c
             /\ \A f \in DOMAIN c \ {"onPage"} : O[c][f] = c[f]
             /\ O[c].onPage = (c.op = "me")
  BY <1>2 DEF Sound, Base, Numbered, IsCall, Common
<1> HIDE DEF O
<1>5. ASSUME NEW c \in K
      PROVE  /\ IsCall(O[c]) /\ O[c].id = c.id /\ ReadCall(O[c], rs, l)
             /\ O[c].onPage = TRUE => BelongsTo(O[c].op, q)
  <2>1. /\ O[c].op = c.op /\ O[c].id = c.id /\ O[c].sent = c.sent /\ O[c].ok = c.ok
    BY <1>4 DEF IsCall, Common
  <2>2. c.op \in {"get", "put"} => O[c].env = c.env
    BY <1>4 DEF IsCall, Carries
  <2>3. c.op = "get" => O[c].cell = c.cell
    BY <1>4 DEF IsCall, Carries
  <2>4. c.op = "put" => O[c].from = c.from /\ O[c].base = c.base /\ O[c].version = c.version
    BY <1>4 DEF IsCall, Carries
  <2>5. "row" \in DOMAIN c => O[c].row = c.row
    BY <1>4
  <2>6. IsCall(O[c])
    BY <1>4, <2>1, <2>2, <2>3, <2>4 DEF IsCall
  <2>7. ReadCall(O[c], rs, l)
    BY <1>4, <2>1, <2>2, <2>4, <2>5 DEF ReadCall, ReadPut
  <2>8. O[c].onPage = TRUE => BelongsTo(O[c].op, q)
    BY <1>4, <2>1 DEF BelongsTo
  <2> QED BY <2>1, <2>6, <2>7, <2>8
<1>6. \A c, d \in K : c.id = d.id => c = d
  BY <1>2 DEF Sound, Base, Numbered
<1>7. \A d \in Range(O) : \E c \in K : d = O[c]
  BY <1>1 DEF Range
<1> HIDE DEF K
<1>8. Numbered(Range(O))
  <2>1. \A d \in Range(O) : IsCall(d)
    BY <1>5, <1>7
  <2>2. \A c, d \in K : O[c].id = O[d].id => O[c] = O[d]
    BY <1>5, <1>6
  <2>3. \A c, d \in Range(O) : c.id = d.id => c = d
    BY <1>7, <2>2
  <2> QED BY <1>3, <2>1, <2>3 DEF Numbered
<1>9. \A d \in Range(O) : ReadCall(d, rs, l) /\ (d.onPage = TRUE => BelongsTo(d.op, q))
  BY <1>5, <1>7
<1> QED BY <1>1, <1>8, <1>9 DEF Sound, Base

\* An answer is its call, but for how it went.
IsAnswer(a, c) ==
    /\ a.id = c.id /\ a.op = c.op /\ a.onPage = c.onPage /\ a.ok \in BOOLEAN
    /\ a.op = "get" => a.cell = c.cell /\ a.cell \in Cells /\ a.env \in Env
    /\ a.op = "put" => a.env \in Env
    /\ a.op = "me" => a.token = c.token
    /\ a.op = "page" => a.before = c.before
    /\ a.op = "page" /\ a.ok = TRUE =>
          /\ c.ok = TRUE
          /\ {"entries", "cursor", "seen"} \subseteq DOMAIN c =>
                a.entries = c.entries /\ a.cursor = c.cursor /\ a.seen = c.seen

\* What may arrive of a call is as sound as the call.
LEMMA AnswerSound ==
    ASSUME NEW p, NEW cs, NEW rs, NEW l, Sound(p, cs, rs, l), NEW c \in cs, NEW a \in Outcomes(c)
    PROVE  /\ IsAnswer(a, c) /\ IsCall(c) /\ ReadCall(a, rs, l)
           /\ a.onPage = TRUE => BelongsTo(a.op, p)
<1>1. IsCall(c) /\ ReadCall(c, rs, l) /\ (c.onPage = TRUE => BelongsTo(c.op, p))
  BY DEF Sound, Base, Numbered
<1>2. /\ DOMAIN a = DOMAIN c /\ a.ok \in BOOLEAN
      /\ \A f \in DOMAIN c \ {"ok", "status"} : a[f] = c[f]
      /\ c.op \in {"get", "put", "page"} /\ a.ok = TRUE => c.ok = TRUE
  BY <1>1 DEF Outcomes, IsCall, Common
<1>3. a.id = c.id /\ a.op = c.op /\ a.onPage = c.onPage
  BY <1>1, <1>2 DEF IsCall, Common
<1>4. a.op = "get" => a.cell = c.cell /\ a.cell \in Cells /\ a.env = c.env /\ a.env \in Env
  BY <1>1, <1>2, <1>3 DEF IsCall, Carries
<1>5. a.op = "put" => a.env = c.env /\ a.from = c.from /\ a.base = c.base /\ a.version = c.version /\ a.env \in Env
  BY <1>1, <1>2, <1>3 DEF IsCall, Carries
<1>6. (a.op = "me" => a.token = c.token) /\ (a.op = "page" => a.before = c.before)
  BY <1>1, <1>2, <1>3 DEF IsCall, Carries
<1>7. "row" \in DOMAIN c => a.row = c.row
  BY <1>2
<1>8. ReadCall(a, rs, l)
  BY <1>1, <1>2, <1>3, <1>4, <1>5, <1>7 DEF ReadCall, ReadPut
<1>9. {"entries", "cursor", "seen"} \subseteq DOMAIN c =>
         a.entries = c.entries /\ a.cursor = c.cursor /\ a.seen = c.seen
  BY <1>2
<1>10. IsAnswer(a, c)
  BY <1>2, <1>3, <1>4, <1>5, <1>6, <1>9 DEF IsAnswer
<1> QED BY <1>1, <1>3, <1>8, <1>10

\* An answer takes out its own call and no other.
LEMMA RestIs ==
    ASSUME Numbered(calls), NEW c \in calls, NEW a, a.id = c.id
    PROVE  Rest(a) = calls \ {c}
BY DEF Rest, Numbered

\* What comes back to a page belongs there.
Returns(a, c) ==
    /\ IsAnswer(a, c) /\ IsCall(c) /\ Rest(a) = calls \ {c} /\ ReadCall(a, rows, late)
    /\ a.onPage => BelongsTo(a.op, page) /\ c.onPage = TRUE

\* So does whatever may arrive of a call under way.
LEMMA ArrivesOnPage ==
    ASSUME Sound(page, calls, rows, late), NEW c \in calls, NEW a \in Outcomes(c)
    PROVE  Returns(a, c)
<1>1. /\ IsAnswer(a, c) /\ IsCall(c) /\ ReadCall(a, rows, late)
      /\ a.onPage = TRUE => BelongsTo(a.op, page)
  BY AnswerSound
<1>2. c.onPage \in BOOLEAN /\ a.id = c.id /\ a.op = c.op /\ a.onPage = c.onPage /\ a.ok \in BOOLEAN
  BY <1>1 DEF IsCall, IsAnswer
<1>3. Rest(a) = calls \ {c}
  BY <1>2, RestIs DEF Sound, Base
<1> QED BY <1>1, <1>2, <1>3 DEF Returns

-----------------------------------------------------------------------------
(* Pages *)

Whole(p, cs, rs, l) == Sound(p, cs, rs, l) /\ Awaited(p, cs) /\ Settling(p, cs)

\* A page that changes but not in kind, and stays with an environment.
LEMMA PageSound ==
    ASSUME NEW p, NEW cs, NEW rs, NEW l, Sound(p, cs, rs, l),
           NEW q, Shaped(q), ReadPage(q, rs, l), q.kind = p.kind,
           p.kind \in Kinds /\ p.selected \in Env => q.selected \in Env
    PROVE  Sound(q, cs, rs, l)
<1>1. \A c \in cs : c.onPage = TRUE => BelongsTo(c.op, q)
  BY DEF Sound, Base, BelongsTo
<1> QED BY <1>1 DEF Sound, Base

\* Once an answer was shown out of place, less is said.
LEMMA LateSound ==
    ASSUME NEW p, NEW cs, NEW rs, NEW l, Sound(p, cs, rs, l)
    PROVE  Sound(p, cs, rs, TRUE)
BY DEF Sound, ReadPage, ReadCall, ReadPut

\* What a new page shows waits for nothing yet.
LEMMA FreshPage ==
    ASSUME NEW kind \in Kinds, NEW rs, NEW l, NEW cs
    PROVE  /\ Shaped(Fresh(kind)) /\ ReadPage(Fresh(kind), rs, l)
           /\ Awaited(Fresh(kind), cs) /\ Settling(Fresh(kind), cs)
           /\ Fresh(kind).kind = kind
BY DEF Fresh, Kinds, Shaped, Drafted, PageFields, Cells, Loading, Absent, Blank, ReadPage, ReadCell, Source, Writing, Awaited,
       Settling, None

\* Any page of a project may ask for its environments.
LEMMA EnvsFits ==
    ASSUME NEW p, p.kind \in Kinds, NEW rs, NEW l
    PROVE  Fits([op |-> "envs"], p, rs, l)
BY DEF Fits, IsTemplate, Ops, Carries, BelongsTo

\* A page with an environment may ask for an item.
LEMMA GetFits ==
    ASSUME NEW p, p.kind \in Kinds, p.selected \in Env, NEW rs, NEW l, NEW cell \in Cells, NEW e \in Env
    PROVE  Fits(Get(cell, e), p, rs, l)
BY DEF Fits, IsTemplate, Ops, Carries, BelongsTo, Get

\* A page that opens asks for the environments.
LEMMA OpensWhole ==
    ASSUME NEW p, NEW cs, NEW rs, NEW l, Sound(p, cs, rs, l), NEW kind \in Kinds
    PROVE  Whole(Fresh(kind), Issue(Orphaned(cs), [op |-> "envs"]), rs, l)
<1>1. Sound(Fresh(kind), Orphaned(cs), rs, l)
  BY FreshPage, OrphanedSound
<1>2. Fits([op |-> "envs"], Fresh(kind), rs, l)
  BY FreshPage, EnvsFits
<1>3. Sound(Fresh(kind), Issue(Orphaned(cs), [op |-> "envs"]), rs, l)
  BY <1>1, <1>2, IssueSound
<1> QED BY <1>3, FreshPage DEF Whole

\* More calls: what was waited for still is.
LEMMA MoreAwaited ==
    ASSUME NEW p, NEW cs, NEW ds, cs \subseteq ds
    PROVE  /\ Awaited(p, cs) => Awaited(p, ds)
           /\ Settling(p, cs) => Settling(p, ds)
           /\ \A cell : Asked(cs, cell) => Asked(ds, cell)
BY DEF Awaited, Settling, Asked, Written

\* Asking for a cell.
LEMMA GetAsks ==
    ASSUME NEW p, NEW cs, NEW rs, NEW l, Sound(p, cs, rs, l), p.kind \in Kinds, p.selected \in Env,
           NEW cell \in Cells, NEW e \in Env
    PROVE  /\ Sound(p, Issue(cs, Get(cell, e)), rs, l)
           /\ Asked(Issue(cs, Get(cell, e)), cell)
           /\ cs \subseteq Issue(cs, Get(cell, e))
<1>1. Fits(Get(cell, e), p, rs, l)
  BY GetFits
<1>2. /\ Sound(p, Issue(cs, Get(cell, e)), rs, l)
      /\ \E n : Issue(cs, Get(cell, e)) = cs \cup {n} /\ IsNew(n, cs, Get(cell, e))
  BY <1>1, IssueSound
<1>3. PICK n : Issue(cs, Get(cell, e)) = cs \cup {n} /\ IsNew(n, cs, Get(cell, e))
  BY <1>2
<1>4. n.op = "get" /\ n.cell = cell /\ n.onPage = TRUE
  BY <1>3 DEF IsNew, Get
<1> QED BY <1>2, <1>3, <1>4 DEF Asked

\* What is shown of another environment goes, and the new one is asked for.
LEMMA SelectsWhole ==
    ASSUME NEW p, NEW cs, NEW rs, NEW l, Sound(p, cs, rs, l), p.kind \in Kinds, NEW e \in Env,
           NEW q, q \in {Selected(p, e), [Selected(p, e) EXCEPT !.envs = "ready"]}
    PROVE  Whole(q, Issue(cs, Get(MainCell(p.kind), e)), rs, l)
<1> DEFINE ds == Issue(cs, Get(MainCell(p.kind), e))
<1>1. Shaped(p)
  BY DEF Sound, Base
<1>2. /\ DOMAIN q = PageFields /\ q.kind = p.kind /\ q.selected = e /\ q.opened = FALSE
      /\ q.list = IF p.kind = "flag" THEN p.list ELSE Loading
      /\ q.detail = CASE p.kind = "flag" -> Loading
                      [] p.kind \in {"segments", "experiments"} -> Absent
                      [] OTHER -> p.detail
  BY <1>1 DEF Shaped, Selected, PageFields
<1>3. Loading.state = "loading" /\ Absent.state = "absent" /\ Absent # Loading
  BY DEF Loading, Absent
<1>4. Shaped(q)
  BY <1>1, <1>2, <1>3 DEF Shaped, Drafted, Kinds, Cells
<1>5. l \in BOOLEAN /\ ReadPage(q, rs, l)
  BY <1>2, <1>3 DEF Sound, ReadPage, ReadCell, Source, Writing
<1>6. Sound(q, cs, rs, l)
  <2>1. q.kind = p.kind /\ (p.kind \in Kinds /\ p.selected \in Env => q.selected \in Env)
    BY <1>2
  <2> QED BY <1>4, <1>5, <2>1, PageSound
<1>7. MainCell(p.kind) \in Cells
  BY DEF MainCell, Cells
<1>8. Sound(q, ds, rs, l) /\ Asked(ds, MainCell(p.kind))
  BY <1>2, <1>6, <1>7, GetAsks
<1> HIDE DEF ds
<1>9. Awaited(q, ds)
  BY <1>1, <1>2, <1>3, <1>8 DEF Awaited, MainCell, Cells, Shaped, Kinds
<1>10. Settling(q, ds)
  BY <1>2, <1>3 DEF Settling
<1> QED BY <1>8, <1>9, <1>10 DEF Whole, ds

\* What may be put into a cell of a page on environment e.
CellOK(x, e, rs, l) ==
    x.state = "ready" => e \in Env /\ ReadCell(x, rs) /\ (l = FALSE => x.env = e)

\* A page on which cells were replaced.
Edited(q, p, rs, l) ==
    /\ DOMAIN q = PageFields /\ q.kind = p.kind /\ q.selected = p.selected
    /\ q.opened = TRUE => p.selected \in Env
    /\ q.detail = Loading => q.kind \in {"flag", "experiments"}
    /\ Drafted(q)
    /\ \A cell \in Cells : q[cell] = p[cell] \/ CellOK(q[cell], p.selected, rs, l)

\* An edited page is sound where its cells are.
LEMMA EditedSound ==
    ASSUME NEW p, NEW cs, NEW rs, NEW l, Sound(p, cs, rs, l), p.kind \in Kinds, NEW q, Edited(q, p, rs, l)
    PROVE  Sound(q, cs, rs, l)
<1>1. Shaped(p) /\ ReadPage(p, rs, l) /\ "audit" \notin Kinds /\ "list" \in Cells /\ "detail" \in Cells
  BY DEF Sound, Base, Kinds, Cells
<1>2. Shaped(q)
  BY <1>1 DEF Shaped, Edited, CellOK
<1>3. Source(q) = Source(p) \/ CellOK(Source(q), p.selected, rs, l)
  BY <1>1 DEF Source, Edited
<1>4. ReadPage(q, rs, l)
  BY <1>1, <1>3 DEF ReadPage, Edited, CellOK, Source, ReadCell
<1>5. q.kind = p.kind /\ (p.kind \in Kinds /\ p.selected \in Env => q.selected \in Env)
  BY DEF Edited
<1> QED BY <1>2, <1>4, <1>5, PageSound

\* A cell with nothing in it.
LEMMA BlankCells ==
    /\ \A e, rs, l : CellOK(Loading, e, rs, l) /\ CellOK(Absent, e, rs, l) /\ CellOK(Failed, e, rs, l)
                     /\ CellOK(Blank, e, rs, l)
    /\ Failed # Loading /\ Absent # Loading /\ Blank # Loading
    /\ Loading.state # "ready" /\ Absent.state # "ready" /\ Failed.state # "ready" /\ Blank.state # "ready"
BY DEF CellOK, Loading, Absent, Failed, Blank

\* A cell with a row that was read.
LEMMA ReadyCell ==
    ASSUME NEW e \in Env, NEW row, NEW rs, Known(row, e, rs)
    PROVE  /\ ReadCell(Ready(e, row), rs)
           /\ Ready(e, row).state = "ready" /\ Ready(e, row) # Loading /\ Ready(e, row).env = e
           /\ Ready(e, row).shown = Ready(e, row).base.value
BY DEF Ready, ReadCell, Loading

\* What a fetch puts into a cell.
LEMMA FetchedCell ==
    ASSUME NEW e \in Env, NEW row, NEW rs, Known(row, e, rs), NEW s \in Env, NEW l, l = FALSE => e = s
    PROVE  /\ CellOK(Fetched(e, row), s, rs, l) /\ Fetched(e, row) # Loading
           /\ Fetched(e, row).state = "ready" => Fetched(e, row).shown = Fetched(e, row).base.value
BY ReadyCell, BlankCells DEF Fetched, CellOK

\* The parts of a page that matter here.
LEMMA TwinWhole ==
    ASSUME NEW p, NEW cs, NEW rs, NEW l, Whole(p, cs, rs, l), p.kind \in Kinds,
           NEW q, DOMAIN q = PageFields, q.kind = p.kind, q.selected = p.selected, q.opened = p.opened,
           q.drafted = p.drafted, q.list = p.list, q.detail = p.detail
    PROVE  Whole(q, cs, rs, l)
<1>1. Shaped(p)
  BY DEF Whole, Sound, Base
<1>2. \A cell \in Cells : q[cell] = p[cell]
  BY DEF Cells
<1>3. Edited(q, p, rs, l)
  BY <1>1, <1>2 DEF Edited, Shaped, Drafted
<1>4. Sound(q, cs, rs, l)
  BY <1>3, EditedSound DEF Whole
<1> QED BY <1>2, <1>4 DEF Whole, Awaited, Settling

\* A call other than a fetch or a write comes back.
LEMMA RestWhole ==
    ASSUME NEW p, NEW cs, NEW rs, NEW l, Whole(p, cs, rs, l), NEW c \in cs,
           c.op \notin {"get", "put"} \/ c.onPage = FALSE
    PROVE  Whole(p, cs \ {c}, rs, l)
<1>1. Sound(p, cs \ {c}, rs, l)
  BY FewerSound DEF Whole
<1>2. (\A cell : Asked(cs, cell) => Asked(cs \ {c}, cell)) /\ (Written(cs) => Written(cs \ {c}))
  BY DEF Asked, Written
<1> QED BY <1>1, <1>2 DEF Whole, Awaited, Settling

\* Issuing a call from a page that stays as it is.
LEMMA IssueWhole ==
    ASSUME NEW p, NEW cs, NEW rs, NEW l, Whole(p, cs, rs, l), NEW call, Fits(call, p, rs, l)
    PROVE  Whole(p, Issue(cs, call), rs, l)
<1>1. Sound(p, Issue(cs, call), rs, l) /\ cs \subseteq Issue(cs, call)
  BY IssueSound DEF Whole
<1> QED BY <1>1, MoreAwaited DEF Whole

-----------------------------------------------------------------------------
(* Steps on a project's pages *)

\* A page opens.
LEMMA VisitWhole ==
    ASSUME Whole(page, calls, rows, late), NEW kind \in Kinds, Visit(kind)
    PROVE  Whole(page', calls', rows', late')
BY OpensWhole DEF Whole, Visit, server

\* Another tab is picked.
LEMMA SelectTabWhole ==
    ASSUME Whole(page, calls, rows, late), NEW e \in Env, SelectTab(e)
    PROVE  Whole(page', calls', rows', late')
<1>1. Sound(page, calls, rows, late) /\ page.kind \in Kinds /\ UNCHANGED <<rows, late>>
      /\ page' = Selected(page, e) /\ calls' = Issue(calls, Get(MainCell(page.kind), e))
  BY DEF Whole, SelectTab, server
<1> QED BY <1>1, SelectsWhole

\* The environments arrive.
LEMMA EnvironmentsWhole ==
    ASSUME Whole(page, calls, rows, late), NEW c \in calls, NEW a \in Outcomes(c), EnvironmentsArrive(a)
    PROVE  Whole(page', calls', rows', late')
<1>1. Sound(page, calls, rows, late) /\ UNCHANGED <<rows, late>>
  BY DEF Whole, EnvironmentsArrive, server
<1>2. Returns(a, c)
  BY <1>1, ArrivesOnPage
<1>3. c.op = "envs" /\ Rest(a) = calls \ {c} /\ page.kind \in Kinds
  BY <1>2 DEF EnvironmentsArrive, Returns, IsAnswer, BelongsTo
<1>4. Whole(page, calls \ {c}, rows, late)
  BY <1>3, RestWhole
<1>5. CASE a.ok
  <2>1. Production \in Env /\ Sound(page, calls \ {c}, rows, late)
    BY <1>4, DashboardAssumption DEF Whole
  <2>2. page' = [Selected(page, Production) EXCEPT !.envs = "ready"]
        /\ calls' = Issue(calls \ {c}, Get(MainCell(page.kind), Production))
    BY <1>3, <1>5 DEF EnvironmentsArrive
  <2> QED BY <1>1, <1>3, <2>1, <2>2, SelectsWhole
<1>6. CASE ~a.ok
  <2>1. page' = [page EXCEPT !.envs = "failed"] /\ calls' = calls \ {c}
    BY <1>3, <1>6 DEF EnvironmentsArrive
  <2>2. DOMAIN page = PageFields
    BY <1>1, <1>3 DEF Sound, Base, Shaped
  <2>3. /\ DOMAIN page' = PageFields /\ page'.kind = page.kind /\ page'.selected = page.selected
        /\ page'.opened = page.opened /\ page'.drafted = page.drafted /\ page'.list = page.list /\ page'.detail = page.detail
    BY <2>1, <2>2 DEF PageFields
  <2> QED BY <1>1, <1>3, <1>4, <2>1, <2>3, TwinWhole
<1> QED BY <1>5, <1>6

\* A fetched item replaces its cell; no other cell was waiting for that call.
LEMMA ItemWhole ==
    ASSUME Whole(page, calls, rows, late), NEW c \in calls, NEW a \in Outcomes(c), ItemArrives(a)
    PROVE  Whole(page', calls', rows', late')
<1>1. /\ Sound(page, calls, rows, late) /\ Awaited(page, calls) /\ Settling(page, calls)
      /\ UNCHANGED rows /\ late' = (late \/ (a.ok /\ a.env # page.selected)) /\ late \in BOOLEAN
      /\ Shaped(page)
  BY DEF Whole, ItemArrives, server, Sound, Base
<1>2. Returns(a, c)
  BY <1>1, ArrivesOnPage
<1>3. /\ c.op = "get" /\ a.cell = c.cell /\ a.cell \in Cells /\ a.env \in Env /\ a.ok \in BOOLEAN
      /\ calls' = calls \ {c} /\ page.kind \in Kinds /\ page.selected \in Env
      /\ a.ok = TRUE => Known(a.row, a.env, rows)
  BY <1>2 DEF ItemArrives, Returns, IsAnswer, BelongsTo, ReadCall
<1> DEFINE ds == calls \ {c}
<1>4. /\ \A cell \in Cells : cell # a.cell /\ Asked(calls, cell) => Asked(ds, cell)
      /\ Written(calls) => Written(ds)
  BY <1>3 DEF Asked, Written
<1>5. Sound(page, ds, rows, late') /\ late' \in BOOLEAN
  <2>1. Sound(page, ds, rows, late) /\ Sound(page, ds, rows, TRUE)
    BY <1>1, FewerSound, LateSound
  <2>2. late' = late \/ late' = TRUE
    BY <1>1
  <2> QED BY <1>1, <2>1, <2>2
<1>6. DOMAIN page = PageFields
  BY <1>1, <1>3 DEF Shaped
<1>7. ASSUME NEW x, NEW d, page' = [page EXCEPT ![a.cell] = x, !.drafted = d], x # Loading,
             CellOK(x, page.selected, rows, late'), x.state = "ready" => x.shown = x.base.value,
             page.kind = "flag" => d \/ (x = Failed /\ d = page.drafted)
      PROVE  Whole(page', ds, rows, late')
  <2>1. /\ DOMAIN page' = PageFields /\ page'.kind = page.kind /\ page'.selected = page.selected
        /\ page'.opened = page.opened /\ page'.drafted = d
        /\ \A cell \in Cells : page'[cell] = IF cell = a.cell THEN x ELSE page[cell]
    BY <1>3, <1>6, <1>7 DEF PageFields, Cells
  <2>2. page'.list = (IF "list" = a.cell THEN x ELSE page.list) /\ page'.detail = IF "detail" = a.cell THEN x ELSE page.detail
    BY <2>1 DEF Cells
  <2>3. Drafted(page')
    BY <1>1, <1>3, <1>7, <2>1, <2>2 DEF Shaped, Drafted
  <2>4. Edited(page', page, rows, late')
    BY <1>1, <1>3, <1>7, <2>1, <2>2, <2>3 DEF Edited, Shaped
  <2>5. Sound(page', ds, rows, late')
    BY <1>3, <1>5, <2>4, EditedSound
  <2>6. Awaited(page', ds)
    BY <1>1, <1>4, <1>7, <2>1 DEF Awaited
  <2>7. Settling(page', ds)
    BY <1>1, <1>4, <1>7, <2>1, <2>2 DEF Settling
  <2> QED BY <1>7, <2>5, <2>6, <2>7 DEF Whole
<1>8. CASE a.ok
  <2> DEFINE x == Fetched(a.env, a.row)
             d == page.drafted \/ page.kind = "flag"
  <2>1. page' = [page EXCEPT ![a.cell] = x, !.drafted = d]
    BY <1>3, <1>8 DEF ItemArrives, Cells
  <2>2. late' = FALSE => a.env = page.selected
    BY <1>1, <1>8
  <2>3. CellOK(x, page.selected, rows, late') /\ x # Loading /\ (x.state = "ready" => x.shown = x.base.value)
    BY <1>3, <1>8, <2>2, FetchedCell
  <2>4. page.kind = "flag" => d
    OBVIOUS
  <2> HIDE DEF x, d
  <2> QED BY <1>1, <1>3, <1>7, <2>1, <2>3, <2>4
<1>9. CASE ~a.ok /\ page.kind = "segments" /\ a.cell = "detail"
  <2>1. page' = page
    BY <1>9 DEF ItemArrives
  <2>2. page.detail # Loading
    BY <1>1, <1>9 DEF Shaped, Kinds
  <2>3. Awaited(page, ds) /\ Settling(page, ds)
    BY <1>1, <1>4, <1>9, <2>2 DEF Awaited, Settling, Cells
  <2> QED BY <1>1, <1>3, <1>5, <2>1, <2>3 DEF Whole
<1>10. CASE ~a.ok /\ ~(page.kind = "segments" /\ a.cell = "detail")
  <2>1. page' = [page EXCEPT ![a.cell] = Failed]
    BY <1>10 DEF ItemArrives
  <2>2. page' = [page EXCEPT ![a.cell] = Failed, !.drafted = page.drafted]
    BY <1>3, <1>6, <2>1 DEF PageFields, Cells
  <2> QED BY <1>1, <1>3, <1>7, <2>2, BlankCells
<1> QED BY <1>8, <1>9, <1>10

\* A failed cell is tried again.
LEMMA RetryWhole ==
    ASSUME Whole(page, calls, rows, late), Retry
    PROVE  Whole(page', calls', rows', late')
<1> DEFINE cell == MainCell(page.kind)
<1>1. /\ Sound(page, calls, rows, late) /\ Shaped(page) /\ UNCHANGED <<rows, late>> /\ page.kind \in Kinds
      /\ page' = [page EXCEPT ![cell] = Loading] /\ page.selected # None
      /\ calls' = Issue(calls, Get(cell, page.selected))
  BY DEF Whole, Retry, server, Sound, Base
<1>2. DOMAIN page = PageFields /\ page.selected \in Env
  BY <1>1 DEF Shaped
<1>3. cell \in Cells /\ (cell = "detail" <=> page.kind = "flag")
  BY DEF MainCell, Cells
<1>4. /\ DOMAIN page' = PageFields /\ page'.kind = page.kind /\ page'.selected = page.selected
      /\ page'.opened = page.opened /\ page'.drafted = page.drafted
      /\ \A k \in Cells : page'[k] = IF k = cell THEN Loading ELSE page[k]
  BY <1>1, <1>2, <1>3 DEF PageFields, Cells
<1> HIDE DEF cell
<1>5. page'.list = (IF cell = "list" THEN Loading ELSE page.list) /\ page'.detail = IF cell = "detail" THEN Loading ELSE page.detail
  BY <1>4 DEF Cells
<1>6. Edited(page', page, rows, late)
  BY <1>1, <1>2, <1>3, <1>4, <1>5, BlankCells DEF Edited, Shaped, Drafted
<1>7. Sound(page', calls, rows, late)
  BY <1>1, <1>6, EditedSound
<1>8. page'.kind \in Kinds /\ page'.selected \in Env
  BY <1>1, <1>2, <1>4
<1>9. Sound(page', calls', rows, late) /\ Asked(calls', cell) /\ calls \subseteq calls'
  BY <1>1, <1>2, <1>3, <1>7, <1>8, GetAsks
<1>10. Awaited(page', calls')
  BY <1>4, <1>9, MoreAwaited DEF Awaited, Whole
<1>11. Settling(page', calls')
  BY <1>4, <1>5, <1>9, BlankCells, MoreAwaited DEF Settling, Whole
<1> QED BY <1>1, <1>9, <1>10, <1>11 DEF Whole

\* Asking again for the list or the detail of what is selected: the cells that
\* are loading now and were not are asked for.
LEMMA OpensDetail ==
    ASSUME NEW p, NEW cs, NEW rs, NEW l, Whole(p, cs, rs, l), p.kind \in Kinds, p.selected \in Env
    PROVE  Whole(Opening(p), Issue(cs, Get("detail", p.selected)), rs, l)
<1> DEFINE q == Opening(p)
           ds == Issue(cs, Get("detail", p.selected))
<1>1. Sound(p, cs, rs, l) /\ Shaped(p)
  BY DEF Whole, Sound, Base
<1>2. /\ DOMAIN q = PageFields /\ q.kind = p.kind /\ q.selected = p.selected /\ q.list = p.list
      /\ (q.opened = TRUE => p.selected \in Env) /\ q.drafted = p.drafted
      /\ q.detail = p.detail \/ (q.kind = "experiments" /\ q.detail = Loading)
  BY <1>1 DEF Opening, Shaped, PageFields
<1> HIDE DEF q
<1>3. Edited(q, p, rs, l)
  BY <1>1, <1>2, BlankCells DEF Edited, Shaped, Drafted, Cells
<1>4. Sound(q, cs, rs, l) /\ q.kind \in Kinds /\ q.selected \in Env /\ "detail" \in Cells
  BY <1>1, <1>2, <1>3, EditedSound DEF Cells
<1>5. Sound(q, ds, rs, l) /\ Asked(ds, "detail") /\ cs \subseteq ds
  BY <1>4, GetAsks
<1> HIDE DEF ds
<1>6. Awaited(q, ds) /\ Settling(q, ds)
  BY <1>2, <1>5, MoreAwaited DEF Awaited, Settling, Whole, Cells
<1> QED BY <1>5, <1>6 DEF Whole, q, ds

\* A page that empties its list asks for it again.
LEMMA ReloadsList ==
    ASSUME NEW p, NEW cs, NEW rs, NEW l, Sound(p, cs, rs, l), Awaited(p, cs), p.kind \in Kinds, p.selected \in Env,
           NEW q, DOMAIN q = PageFields, q.kind = p.kind, q.selected = p.selected, q.list = Loading,
           q.opened = p.opened, q.drafted = p.drafted, q.detail = p.detail
    PROVE  Whole(q, Reload(cs, p), rs, l)
<1> DEFINE ds == Reload(cs, p)
<1>1. Shaped(p)
  BY DEF Sound, Base
<1>2. ds = Issue(cs, Get("list", p.selected))
  BY DEF Reload
<1> HIDE DEF ds
<1>3. Edited(q, p, rs, l)
  BY <1>1, BlankCells DEF Edited, Shaped, Drafted, Cells
<1>4. Sound(q, cs, rs, l) /\ q.kind \in Kinds /\ q.selected \in Env /\ "list" \in Cells
  BY <1>1, <1>3, EditedSound DEF Cells
<1>5. Sound(q, ds, rs, l) /\ Asked(ds, "list") /\ cs \subseteq ds
  BY <1>2, <1>4, GetAsks
<1>6. Awaited(q, ds)
  BY <1>5, MoreAwaited DEF Awaited, Cells
<1>7. Settling(q, ds)
  BY BlankCells DEF Settling
<1> QED BY <1>5, <1>6, <1>7 DEF Whole, ds

\* Reloaded changes nothing but the list.
LEMMA ReloadedIs ==
    ASSUME NEW p, DOMAIN p = PageFields
    PROVE  LET q == Reloaded(p) IN
           /\ DOMAIN q = PageFields /\ q.kind = p.kind /\ q.selected = p.selected /\ q.list = Loading
           /\ q.opened = p.opened /\ q.drafted = p.drafted /\ q.detail = p.detail
BY DEF Reloaded, PageFields

\* A write of what a page shows, issued from that page or from what becomes of it.
LEMMA PutFits ==
    ASSUME NEW p, NEW cs, NEW rs, NEW l, Sound(p, cs, rs, l), p.kind \in Writing, Source(p).state = "ready",
           NEW v, NEW q, q.kind = p.kind, q.selected = p.selected
    PROVE  Fits(Put(p, Source(p), v), q, rs, l) /\ p.selected \in Env
<1> DEFINE x == Source(p)
           call == Put(p, x, v)
<1>1. Writing \subseteq Kinds /\ x \in {p["list"], p["detail"]}
  BY DEF Writing, Kinds, Source
<1>2. p.selected \in Env
  BY <1>1 DEF Sound, Base, Shaped, Cells
<1>3. x.env \in Env /\ Known(x.base, x.env, rs) /\ (l = FALSE => x.env = p.selected)
  BY DEF Sound, ReadPage, ReadCell
<1> HIDE DEF x
<1>4. /\ call.op = "put" /\ call.env = p.selected /\ call.from = x.env /\ call.base = x.base
      /\ call.version = x.base.version
      /\ DOMAIN call = {"op", "env", "value", "version", "from", "base"}
  BY DEF Put
<1> HIDE DEF call
<1>5. IsTemplate(call)
  BY <1>2, <1>3, <1>4 DEF IsTemplate, Ops, Carries
<1>6. BelongsTo(call.op, q)
  BY <1>1, <1>2, <1>4 DEF BelongsTo
<1>7. ReadPut(call, rs, l)
  BY <1>3, <1>4 DEF ReadPut
<1> QED BY <1>2, <1>5, <1>6, <1>7 DEF Fits, call, x

\* A write that was issued is on its way.
LEMMA PutWritten ==
    ASSUME NEW p, NEW cs, NEW rs, NEW l, Sound(p, cs, rs, l),
           NEW call, Fits(call, p, rs, l), call.op = "put"
    PROVE  Sound(p, Issue(cs, call), rs, l) /\ Written(Issue(cs, call)) /\ cs \subseteq Issue(cs, call)
<1>1. /\ Sound(p, Issue(cs, call), rs, l)
      /\ \E n : Issue(cs, call) = cs \cup {n} /\ IsNew(n, cs, call)
  BY IssueSound
<1>2. PICK n : Issue(cs, call) = cs \cup {n} /\ IsNew(n, cs, call)
  BY <1>1
<1>3. n.op = "put" /\ n.onPage = TRUE
  BY <1>2 DEF IsNew, Fits, IsTemplate
<1> QED BY <1>1, <1>2, <1>3 DEF Written

\* A segment or an experiment is opened.
LEMMA OpenWhole ==
    ASSUME Whole(page, calls, rows, late), Open
    PROVE  Whole(page', calls', rows', late')
<1>1. /\ Shaped(page) /\ UNCHANGED <<rows, late>> /\ page.kind \in {"segments", "experiments"}
      /\ page.list.state = "ready" \/ page.opened = TRUE
      /\ page' = Opening(page) /\ calls' = Issue(calls, Get("detail", page.selected))
  BY DEF Whole, Open, server, Sound, Base
<1>2. page.kind \in Kinds /\ page.selected \in Env
  BY <1>1 DEF Shaped, Kinds, Cells
<1> QED BY <1>1, <1>2, OpensDetail

\* And closed.
LEMMA CloseDetailWhole ==
    ASSUME Whole(page, calls, rows, late), CloseDetail
    PROVE  Whole(page', calls', rows', late')
<1>1. /\ Sound(page, calls, rows, late) /\ Shaped(page) /\ UNCHANGED <<rows, late, calls>>
      /\ page.kind \in {"segments", "experiments"}
      /\ page' = [page EXCEPT !.detail = Absent, !.opened = FALSE]
  BY DEF Whole, CloseDetail, server, Sound, Base
<1>2. page.kind \in Kinds /\ page.kind # "project" /\ DOMAIN page = PageFields
  BY <1>1 DEF Shaped, Kinds
<1>3. /\ DOMAIN page' = PageFields /\ page'.kind = page.kind /\ page'.selected = page.selected
      /\ page'.list = page.list /\ page'.detail = Absent /\ page'.opened = FALSE
  BY <1>1, <1>2 DEF PageFields
<1>4. Edited(page', page, rows, late)
  BY <1>1, <1>3, BlankCells DEF Edited, Drafted, Cells
<1>5. Sound(page', calls, rows, late)
  BY <1>1, <1>2, <1>4, EditedSound
<1>6. Awaited(page', calls) /\ Settling(page', calls)
  BY <1>2, <1>3, BlankCells DEF Whole, Awaited, Settling, Cells
<1> QED BY <1>1, <1>5, <1>6 DEF Whole

\* A cell that shows something else than what was read.
LEMMA DraftCell ==
    ASSUME NEW x, NEW rs, x.state = "ready", ReadCell(x, rs), NEW v,
           NEW y, y = [x EXCEPT !.shown = v]
    PROVE  y.state = "ready" /\ y.env = x.env /\ y.base = x.base /\ ReadCell(y, rs) /\ y # Loading
BY DEF ReadCell, Loading

\* A switch moves, and its write is on the way.
LEMMA ToggleWhole ==
    ASSUME Whole(page, calls, rows, late), Toggle
    PROVE  Whole(page', calls', rows', late')
<1> DEFINE v == 1 - page.list.shown
           y == [page.list EXCEPT !.shown = v]
           call == Put(page, page.list, v)
<1>1. /\ Sound(page, calls, rows, late) /\ Shaped(page) /\ UNCHANGED <<rows, late>>
      /\ page.kind = "project" /\ page.list.state = "ready"
      /\ page' = [page EXCEPT !.list = y] /\ calls' = Issue(calls, call)
  BY DEF Whole, Toggle, server, Sound, Base
<1>2. page.kind \in Kinds /\ page.kind \in Writing /\ Source(page) = page.list /\ DOMAIN page = PageFields
  BY <1>1 DEF Shaped, Kinds, Writing, Source
<1>3. ReadCell(page.list, rows) /\ (late = FALSE => page.list.env = page.selected)
  BY <1>1, <1>2 DEF Sound, ReadPage
<1>4. y.state = "ready" /\ y.env = page.list.env /\ ReadCell(y, rows) /\ y # Loading
  BY <1>1, <1>3, DraftCell
<1>5. /\ DOMAIN page' = PageFields /\ page'.kind = page.kind /\ page'.selected = page.selected
      /\ page'.list = y /\ page'.detail = page.detail /\ page'.opened = page.opened
        /\ page'.drafted = page.drafted
  BY <1>1, <1>2 DEF PageFields
<1>6. Fits(call, page', rows, late) /\ page.selected \in Env
  BY <1>1, <1>2, <1>5, PutFits
<1>7. call.op = "put"
  BY DEF Put
<1> HIDE DEF y, call
<1>8. Edited(page', page, rows, late)
  BY <1>1, <1>2, <1>3, <1>4, <1>5, <1>6 DEF Edited, Drafted, Cells, CellOK, Shaped
<1>9. Sound(page', calls, rows, late)
  BY <1>1, <1>2, <1>8, EditedSound
<1>10. Sound(page', calls', rows, late) /\ Written(calls') /\ calls \subseteq calls'
  BY <1>1, <1>6, <1>7, <1>9, PutWritten
<1>11. Awaited(page', calls')
  BY <1>4, <1>5, <1>10, MoreAwaited DEF Whole, Awaited, Cells
<1> QED BY <1>1, <1>10, <1>11 DEF Whole, Settling

\* The draft changes.
LEMMA EditWhole ==
    ASSUME Whole(page, calls, rows, late), NEW v, Edit(v)
    PROVE  Whole(page', calls', rows', late')
<1> DEFINE y == [page.detail EXCEPT !.shown = v]
<1>1. /\ Sound(page, calls, rows, late) /\ Shaped(page) /\ UNCHANGED <<rows, late, calls>>
      /\ page.kind \in {"flag", "segments"} /\ page.detail.state = "ready"
      /\ page' = [page EXCEPT !.detail = y]
  BY DEF Whole, Edit, server, Sound, Base
<1>2. /\ page.kind \in Kinds /\ page.kind \in Writing /\ Source(page) = page.detail /\ DOMAIN page = PageFields
      /\ page.selected \in Env /\ page.kind # "project"
  BY <1>1 DEF Shaped, Kinds, Writing, Source, Cells
<1>3. ReadCell(page.detail, rows) /\ (late = FALSE => page.detail.env = page.selected)
  BY <1>1, <1>2 DEF Sound, ReadPage
<1>4. y.state = "ready" /\ y.env = page.detail.env /\ ReadCell(y, rows) /\ y # Loading
  BY <1>1, <1>3, DraftCell
<1>5. /\ DOMAIN page' = PageFields /\ page'.kind = page.kind /\ page'.selected = page.selected
      /\ page'.list = page.list /\ page'.detail = y /\ page'.opened = page.opened
  BY <1>1, <1>2 DEF PageFields
<1> HIDE DEF y
<1>6. Edited(page', page, rows, late)
  BY <1>1, <1>2, <1>3, <1>4, <1>5, BlankCells DEF Edited, Drafted, Cells, CellOK, Shaped
<1>7. Sound(page', calls, rows, late)
  BY <1>1, <1>2, <1>6, EditedSound
<1>8. Awaited(page', calls) /\ Settling(page', calls)
  BY <1>2, <1>4, <1>5 DEF Whole, Awaited, Settling, Cells
<1> QED BY <1>1, <1>7, <1>8 DEF Whole

\* The draft is written.
LEMMA SaveWhole ==
    ASSUME Whole(page, calls, rows, late), Save
    PROVE  Whole(page', calls', rows', late')
<1> DEFINE call == Put(page, page.detail, page.detail.shown)
<1>1. /\ Sound(page, calls, rows, late) /\ Shaped(page) /\ UNCHANGED <<rows, late>>
      /\ page.kind \in {"flag", "segments"} /\ page.detail.state = "ready"
      /\ page' = [page EXCEPT !.saving = TRUE] /\ calls' = Issue(calls, call)
  BY DEF Whole, Save, server, Sound, Base
<1>2. page.kind \in Kinds /\ page.kind \in Writing /\ Source(page) = page.detail /\ DOMAIN page = PageFields
  BY <1>1 DEF Shaped, Kinds, Writing, Source
<1>3. /\ DOMAIN page' = PageFields /\ page'.kind = page.kind /\ page'.selected = page.selected
      /\ page'.list = page.list /\ page'.detail = page.detail /\ page'.opened = page.opened
        /\ page'.drafted = page.drafted
  BY <1>1, <1>2 DEF PageFields
<1>4. Whole(page', calls, rows, late)
  BY <1>2, <1>3, TwinWhole
<1>5. Fits(call, page', rows, late)
  BY <1>1, <1>2, <1>3, PutFits
<1> QED BY <1>1, <1>4, <1>5, IssueWhole

\* A write that carries no version.
LEMMA ActWhole ==
    ASSUME Whole(page, calls, rows, late), NEW verb \in {"change", "delete"}, Act(verb)
    PROVE  Whole(page', calls', rows', late')
<1>1. /\ Shaped(page) /\ UNCHANGED <<rows, late, page>> /\ page.kind \in {"segments", "experiments", "keys"}
      /\ page.kind # "flag" /\ (page.list.state = "ready" \/ page.detail.state = "ready")
  BY DEF Whole, Act, server, Sound, Base
<1>2. page.kind \in Kinds /\ page.selected \in Env
  BY <1>1 DEF Shaped, Kinds, Cells
<1>3. PICK from : calls' = Issue(calls, [op |-> verb, env |-> page.selected, from |-> from])
  BY DEF Act
<1>4. Fits([op |-> verb, env |-> page.selected, from |-> from], page, rows, late)
  BY <1>1, <1>2 DEF Fits, IsTemplate, Ops, Carries, BelongsTo
<1> QED BY <1>1, <1>3, <1>4, IssueWhole

\* A form, and the danger zone.
LEMMA CreateWhole ==
    ASSUME Whole(page, calls, rows, late), (\E what : Create(what)) \/ DeleteFlag
    PROVE  Whole(page', calls', rows', late')
<1>1. UNCHANGED <<rows, late, page>>
  BY DEF Create, DeleteFlag, server
<1>2. CASE DeleteFlag
  <2>1. Fits([op |-> "remove"], page, rows, late)
    BY DEF Fits, IsTemplate, Ops, Carries, BelongsTo
  <2> QED BY <1>1, <1>2, <2>1, IssueWhole DEF DeleteFlag
<1>3. CASE \E what : Create(what)
  <2>1. PICK what : Create(what)
    BY <1>3
  <2>2. page.kind \in Kinds /\ \E at : calls' = Issue(calls, [op |-> "create", what |-> what, at |-> at])
    BY <2>1 DEF Create
  <2>3. \A at : Fits([op |-> "create", what |-> what, at |-> at], page, rows, late)
    BY <2>2 DEF Fits, IsTemplate, Ops, Carries, BelongsTo
  <2> QED BY <1>1, <2>2, <2>3, IssueWhole
<1> QED BY <1>2, <1>3

\* The answer to a versioned write settles the switch, is shown, or has the
\* list fetched again.
LEMMA PutArrivesWhole ==
    ASSUME Whole(page, calls, rows, late), NEW c \in calls, NEW a \in Outcomes(c), PutArrives(a)
    PROVE  Whole(page', calls', rows', late')
<1> DEFINE saved == Ready(a.env, a.row)
           shown == a.ok /\ (page.kind = "project" => page.list.state = "ready")
           ds == calls \ {c}
<1>1. /\ Sound(page, calls, rows, late) /\ Awaited(page, calls) /\ UNCHANGED rows /\ late \in BOOLEAN
      /\ Shaped(page) /\ late' = (late \/ (shown /\ a.env # page.selected))
  BY DEF Whole, PutArrives, server, Sound, Base
<1>2. Returns(a, c)
  BY <1>1, ArrivesOnPage
<1>3. /\ c.op = "put" /\ a.env \in Env /\ a.ok \in BOOLEAN /\ Rest(a) = ds
      /\ page.kind \in Kinds /\ page.selected \in Env
      /\ a.ok = TRUE => Known(a.row, a.env, rows)
  BY <1>2 DEF PutArrives, Returns, IsAnswer, BelongsTo, ReadCall
<1>4. Awaited(page, ds) /\ DOMAIN page = PageFields
  BY <1>1, <1>3 DEF Awaited, Asked, Shaped
<1>5. Sound(page, ds, rows, late') /\ (~shown => late' = late)
  <2>1. Sound(page, ds, rows, late) /\ Sound(page, ds, rows, TRUE)
    BY <1>1, FewerSound, LateSound
  <2>2. late' = late \/ late' = TRUE
    BY <1>1
  <2> QED BY <1>1, <2>1, <2>2
<1>6. shown => /\ CellOK(saved, page.selected, rows, late') /\ saved # Loading
               /\ saved.shown = saved.base.value
  <2> SUFFICES ASSUME shown PROVE CellOK(saved, page.selected, rows, late') /\ saved # Loading
                                  /\ saved.shown = saved.base.value
    OBVIOUS
  <2>1. ReadCell(saved, rows) /\ saved # Loading /\ saved.env = a.env /\ saved.shown = saved.base.value
    BY <1>3, ReadyCell
  <2>2. late' = FALSE => a.env = page.selected
    BY <1>1
  <2> HIDE DEF saved
  <2> QED BY <1>3, <2>1, <2>2 DEF CellOK
<1> HIDE DEF saved, ds
<1>7. CASE page.kind = "project" /\ shown
  <2>1. page' = [page EXCEPT !.list = saved] /\ calls' = ds
    BY <1>3, <1>7 DEF PutArrives, saved
  <2>2. /\ DOMAIN page' = PageFields /\ page'.kind = page.kind /\ page'.selected = page.selected
        /\ page'.list = saved /\ page'.detail = page.detail /\ page'.opened = page.opened
        /\ page'.drafted = page.drafted
    BY <1>4, <2>1 DEF PageFields
  <2>3. Edited(page', page, rows, late')
    BY <1>1, <1>3, <1>6, <1>7, <2>2 DEF Edited, Drafted, Shaped, Cells
  <2>4. Sound(page', ds, rows, late')
    BY <1>3, <1>5, <2>3, EditedSound
  <2>5. Awaited(page', ds)
    BY <1>4, <1>6, <1>7, <2>2 DEF Awaited, Cells
  <2>6. Settling(page', ds)
    BY <1>6, <1>7, <2>2 DEF Settling
  <2> QED BY <1>1, <2>1, <2>4, <2>5, <2>6 DEF Whole
<1>8. CASE page.kind = "project" /\ a.ok /\ ~shown
  <2>1. page' = page /\ calls' = ds
    BY <1>3, <1>8 DEF PutArrives
  <2>2. Settling(page, ds)
    BY <1>8 DEF Settling
  <2> QED BY <1>1, <1>4, <1>5, <2>1, <2>2 DEF Whole
<1>9. CASE page.kind = "project" /\ ~a.ok
  <2>1. page' = Reloaded(page) /\ calls' = Reload(ds, page)
    BY <1>3, <1>9 DEF PutArrives
  <2>2. Sound(page, ds, rows, late) /\ late' = late
    BY <1>5, <1>9
  <2> QED BY <1>1, <1>3, <1>4, <2>1, <2>2, ReloadedIs, ReloadsList
<1>10. CASE page.kind \in {"flag", "segments"} /\ ~a.ok
  <2>1. page' = [page EXCEPT !.saving = FALSE] /\ calls' \in {ds, Issue(ds, Get("detail", page.selected))}
    BY <1>3, <1>10 DEF PutArrives
  <2>2. /\ DOMAIN page' = PageFields /\ page'.kind = page.kind /\ page'.selected = page.selected
        /\ page'.list = page.list /\ page'.detail = page.detail /\ page'.opened = page.opened
        /\ page'.drafted = page.drafted
    BY <1>4, <2>1 DEF PageFields
  <2>3. Settling(page, ds) /\ late' = late
    BY <1>5, <1>10 DEF Settling
  <2>4. Whole(page, ds, rows, late)
    BY <1>4, <1>5, <2>3 DEF Whole
  <2>5. Whole(page', ds, rows, late)
    BY <1>3, <2>2, <2>4, TwinWhole
  <2>6. Fits(Get("detail", page.selected), page', rows, late)
    <3>1. page'.kind \in Kinds /\ page'.selected \in Env /\ "detail" \in Cells
      BY <1>3, <2>2 DEF Cells
    <3> QED BY <1>3, <3>1, GetFits
  <2> QED BY <1>1, <2>1, <2>3, <2>5, <2>6, IssueWhole
<1>11. CASE page.kind \in {"flag", "segments"} /\ a.ok
  <2> DEFINE q == [page EXCEPT !.saving = FALSE, !.detail = saved,
                               !.drafted = IF page.kind = "flag" THEN TRUE ELSE page.drafted]
  <2>1. shown /\ page.kind # "project"
    BY <1>11
  <2>2. /\ DOMAIN q = PageFields /\ q.kind = page.kind /\ q.selected = page.selected
        /\ q.list = page.list /\ q.detail = saved /\ q.opened = page.opened
        /\ q.drafted = IF page.kind = "flag" THEN TRUE ELSE page.drafted
    BY <1>4 DEF PageFields
  <2>3. page.kind = "flag" => page' = q /\ calls' = ds
    BY <1>3, <1>4, <1>11 DEF PutArrives, saved, PageFields
  <2>4. page.kind = "segments" =>
           /\ page' = [Reloaded(page) EXCEPT !.saving = FALSE, !.detail = saved]
           /\ calls' = Reload(ds, page)
    <3>1. page.kind = "segments" => page' = [Reloaded(page) EXCEPT !.saving = FALSE, !.detail = saved]
      BY <1>11 DEF PutArrives, saved
    <3>2. page.kind = "segments" => calls' = Reload(Rest(a), page)
      BY <1>11 DEF PutArrives
    <3> QED BY <1>3, <3>1, <3>2
  <2>5. page.kind = "segments" =>
           /\ DOMAIN page' = PageFields /\ page'.kind = q.kind /\ page'.selected = q.selected
           /\ page'.list = Loading /\ page'.detail = q.detail /\ page'.opened = q.opened
           /\ page'.drafted = q.drafted
    BY <1>4, <2>2, <2>4 DEF Reloaded, PageFields
  <2>6. Reload(ds, page) = Reload(ds, q)
    BY <2>2 DEF Reload
  <2> HIDE DEF q
  <2>7. Edited(q, page, rows, late')
    BY <1>1, <1>3, <1>6, <2>1, <2>2 DEF Edited, Drafted, Shaped, Cells
  <2>8. Sound(q, ds, rows, late') /\ q.kind \in Kinds /\ q.selected \in Env
    BY <1>3, <1>5, <2>2, <2>7, EditedSound
  <2>9. Awaited(q, ds) /\ Settling(q, ds)
    BY <1>4, <1>6, <2>1, <2>2 DEF Awaited, Cells, Settling
  <2>10. CASE page.kind = "flag"
    BY <1>1, <2>3, <2>8, <2>9, <2>10 DEF Whole
  <2>11. CASE page.kind = "segments"
    <3>1. Whole(page', Reload(ds, q), rows, late')
      BY <2>5, <2>8, <2>9, <2>11, ReloadsList
    <3> QED BY <1>1, <2>4, <2>6, <2>11, <3>1
  <2> QED BY <1>11, <2>10, <2>11
<1>12. page.kind \in {"project", "flag", "segments"}
  BY DEF PutArrives
<1> QED BY <1>7, <1>8, <1>9, <1>10, <1>11, <1>12

\* The answer to a write without a version.
LEMMA ActArrivesWhole ==
    ASSUME Whole(page, calls, rows, late), NEW c \in calls, NEW a \in Outcomes(c), ActArrives(a)
    PROVE  Whole(page', calls', rows', late')
<1> DEFINE ds == calls \ {c}
           again == a.op = "change" /\ page.opened
<1>1. Sound(page, calls, rows, late) /\ UNCHANGED <<rows, late>> /\ Shaped(page)
  BY DEF Whole, ActArrives, server, Sound, Base
<1>2. Returns(a, c)
  BY <1>1, ArrivesOnPage
<1>3. /\ c.op = a.op /\ c.op \in {"change", "delete"} /\ Rest(a) = ds
      /\ page.kind \in Kinds /\ page.selected \in Env /\ page.kind # "flag"
  BY <1>2 DEF ActArrives, Returns, IsAnswer, BelongsTo
<1>4. Whole(page, ds, rows, late)
  BY <1>3, RestWhole
<1>5. DOMAIN page = PageFields
  BY <1>1, <1>3 DEF Shaped
<1> HIDE DEF ds
<1>6. Sound(page, ds, rows, late) /\ Awaited(page, ds)
  BY <1>4 DEF Whole
<1>7. Whole(Reloaded(page), Reload(ds, page), rows, late)
  BY <1>3, <1>5, <1>6, ReloadedIs, ReloadsList
<1>8. CASE ~a.ok
  BY <1>1, <1>3, <1>4, <1>8 DEF ActArrives
<1>9. CASE a.ok /\ a.op = "delete"
  <2> DEFINE q == [page EXCEPT !.detail = Absent, !.opened = FALSE]
  <2>1. page' = [Reloaded(page) EXCEPT !.detail = Absent, !.opened = FALSE] /\ calls' = Reload(ds, page)
    BY <1>3, <1>9 DEF ActArrives
  <2>2. /\ DOMAIN q = PageFields /\ q.kind = page.kind /\ q.selected = page.selected
        /\ q.list = page.list /\ q.detail = Absent /\ q.opened = FALSE /\ q.drafted = page.drafted
    BY <1>5 DEF PageFields
  <2>3. /\ DOMAIN page' = PageFields /\ page'.kind = q.kind /\ page'.selected = q.selected
        /\ page'.list = Loading /\ page'.detail = q.detail /\ page'.opened = q.opened
        /\ page'.drafted = q.drafted
    BY <1>5, <2>1, <2>2 DEF Reloaded, PageFields
  <2> HIDE DEF q
  <2>4. Edited(q, page, rows, late)
    BY <1>3, <2>2, BlankCells DEF Edited, Drafted, Cells
  <2>5. Sound(q, ds, rows, late) /\ q.kind \in Kinds /\ q.selected \in Env
    BY <1>3, <1>6, <2>2, <2>4, EditedSound
  <2>6. Awaited(q, ds)
    BY <1>6, <2>2, BlankCells DEF Awaited, Cells
  <2>7. Reload(ds, page) = Reload(ds, q)
    BY <2>2 DEF Reload
  <2>8. Whole(page', Reload(ds, q), rows, late)
    BY <2>3, <2>5, <2>6, ReloadsList
  <2> QED BY <1>1, <2>1, <2>7, <2>8
<1>10. CASE a.ok /\ a.op = "change" /\ again
  <2> DEFINE q == Reloaded(page)
  <2>1. page' = Opening(q) /\ calls' = Issue(Reload(ds, page), Get("detail", page.selected))
    BY <1>3, <1>10 DEF ActArrives
  <2>2. q.kind = page.kind /\ q.selected = page.selected
    BY <1>5, ReloadedIs
  <2> HIDE DEF q
  <2>3. Whole(q, Reload(ds, page), rows, late)
    BY <1>7 DEF q
  <2>4. calls' = Issue(Reload(ds, page), Get("detail", q.selected)) /\ q.kind \in Kinds /\ q.selected \in Env
    BY <1>3, <2>1, <2>2
  <2> QED BY <1>1, <2>1, <2>3, <2>4, OpensDetail
<1>11. CASE a.ok /\ a.op = "change" /\ ~again
  <2>1. page' = Reloaded(page) /\ calls' = Reload(ds, page)
    BY <1>3, <1>11 DEF ActArrives
  <2> QED BY <1>1, <1>7, <2>1
<1> QED BY <1>3, <1>8, <1>9, <1>10, <1>11

\* The answer to a form.
LEMMA CreateArrivesWhole ==
    ASSUME Whole(page, calls, rows, late), NEW c \in calls, NEW a \in Outcomes(c), CreateArrives(a)
    PROVE  Whole(page', calls', rows', late')
<1> DEFINE ds == calls \ {c}
<1>1. Sound(page, calls, rows, late) /\ UNCHANGED <<rows, late>> /\ Shaped(page)
  BY DEF Whole, CreateArrives, server, Sound, Base
<1>2. Returns(a, c)
  BY <1>1, ArrivesOnPage
<1>3. c.op = "create" /\ Rest(a) = ds /\ page.kind \in Kinds
  BY <1>2 DEF CreateArrives, Returns, IsAnswer, BelongsTo
<1>4. Whole(page, ds, rows, late)
  BY <1>3, RestWhole
<1>5. DOMAIN page = PageFields
  BY <1>1, <1>3 DEF Shaped
<1> HIDE DEF ds
<1>6. Sound(page, ds, rows, late) /\ Awaited(page, ds)
  BY <1>4 DEF Whole
<1>7. CASE page' = page /\ calls' = Rest(a)
  BY <1>1, <1>3, <1>4, <1>7
<1>8. CASE page' = [page EXCEPT !.envs = "loading"] /\ calls' = Issue(Rest(a), [op |-> "envs"])
  <2>1. /\ DOMAIN page' = PageFields /\ page'.kind = page.kind /\ page'.selected = page.selected
        /\ page'.opened = page.opened /\ page'.drafted = page.drafted /\ page'.list = page.list /\ page'.detail = page.detail
    BY <1>5, <1>8 DEF PageFields
  <2>2. Whole(page', ds, rows, late)
    BY <1>3, <1>4, <2>1, TwinWhole
  <2>3. Fits([op |-> "envs"], page', rows, late)
    <3>1. page'.kind \in Kinds
      BY <1>3, <2>1
    <3> QED BY <3>1, EnvsFits
  <2> QED BY <1>1, <1>3, <1>8, <2>2, <2>3, IssueWhole
<1>9. CASE page' = [page EXCEPT !.list = Blank] /\ calls' = Rest(a)
  <2>1. /\ DOMAIN page' = PageFields /\ page'.kind = page.kind /\ page'.selected = page.selected
        /\ page'.opened = page.opened /\ page'.drafted = page.drafted
        /\ page'.list = Blank /\ page'.detail = page.detail
    BY <1>5, <1>9 DEF PageFields
  <2>2. Edited(page', page, rows, late)
    BY <1>1, <1>3, <2>1, BlankCells DEF Edited, Drafted, Cells, Shaped
  <2>3. Sound(page', ds, rows, late)
    BY <1>3, <1>6, <2>2, EditedSound
  <2>4. Awaited(page', ds) /\ Settling(page', ds)
    BY <1>6, <2>1, BlankCells DEF Awaited, Settling, Cells
  <2> QED BY <1>1, <1>3, <1>9, <2>3, <2>4 DEF Whole
<1>10. CASE /\ page.selected # None /\ page' = Opening(Reloaded(page))
            /\ calls' = IF page.kind \in {"segments", "experiments"}
                        THEN Issue(Reload(Rest(a), page), Get("detail", page.selected))
                        ELSE Reload(Rest(a), page)
  <2> DEFINE q == Reloaded(page)
  <2>1. page.selected \in Env
    BY <1>1, <1>3, <1>10 DEF Shaped
  <2>2. Whole(q, Reload(ds, page), rows, late)
    BY <1>3, <1>5, <1>6, <2>1, ReloadedIs, ReloadsList
  <2>3. q.kind = page.kind /\ q.selected = page.selected
    BY <1>5, ReloadedIs
  <2> HIDE DEF q
  <2>4. CASE page.kind \in {"segments", "experiments"}
    <3>1. page' = Opening(q) /\ calls' = Issue(Reload(ds, page), Get("detail", q.selected))
      BY <1>3, <1>10, <2>3, <2>4 DEF q
    <3>2. q.kind \in Kinds /\ q.selected \in Env
      BY <1>3, <2>1, <2>3
    <3> QED BY <1>1, <2>2, <3>1, <3>2, OpensDetail
  <2>5. CASE page.kind \notin {"segments", "experiments"}
    <3>1. page' = q /\ calls' = Reload(ds, page)
      BY <1>3, <1>10, <2>3, <2>5 DEF Opening, q
    <3> QED BY <1>1, <2>2, <3>1
  <2> QED BY <2>4, <2>5
<1> QED BY <1>7, <1>8, <1>9, <1>10 DEF CreateArrives

\* The answer to a deleted flag.
LEMMA RemoveArrivesWhole ==
    ASSUME Whole(page, calls, rows, late), NEW c \in calls, NEW a \in Outcomes(c), RemoveArrives(a)
    PROVE  Whole(page', calls', rows', late')
<1>1. Sound(page, calls, rows, late) /\ UNCHANGED <<rows, late>>
  BY DEF Whole, RemoveArrives, server
<1>2. Returns(a, c)
  BY <1>1, ArrivesOnPage
<1>3. c.op = "remove" /\ Rest(a) = calls \ {c}
  BY <1>2 DEF RemoveArrives, Returns, IsAnswer
<1>4. Whole(page, calls \ {c}, rows, late)
  BY <1>3, RestWhole
<1>5. CASE page' = page /\ calls' = Rest(a)
  BY <1>1, <1>3, <1>4, <1>5
<1>6. CASE page' = Fresh("project") /\ calls' = Issue(Orphaned(Rest(a)), [op |-> "envs"])
  <2>1. "project" \in Kinds /\ Sound(page, calls \ {c}, rows, late)
    BY <1>4 DEF Kinds, Whole
  <2> QED BY <1>1, <1>3, <1>6, <2>1, OpensWhole
<1> QED BY <1>5, <1>6 DEF RemoveArrives

\* An answer that finds nobody.
LEMMA DropAnswerWhole ==
    ASSUME Whole(page, calls, rows, late), NEW c \in calls, NEW a \in Outcomes(c), DropAnswer(a)
    PROVE  Whole(page', calls', rows', late')
<1>1. Sound(page, calls, rows, late) /\ UNCHANGED <<rows, late, page>>
  BY DEF Whole, DropAnswer, server
<1>2. Returns(a, c)
  BY <1>1, ArrivesOnPage
<1>3. c.onPage = FALSE /\ calls' = calls \ {c}
  BY <1>2 DEF DropAnswer, Returns, IsAnswer, IsCall
<1> QED BY <1>1, <1>3, RestWhole

-----------------------------------------------------------------------------
(* The server *)

\* What a served call keeps.
Serves(n, c) ==
    /\ n.id = c.id /\ n.op = c.op /\ n.onPage = c.onPage
    /\ c.op = "get" => n.cell = c.cell /\ n.env = c.env
    /\ c.op = "put" => n.env = c.env /\ n.from = c.from /\ n.base = c.base /\ n.version = c.version
    /\ c.op = "me" => n.token = c.token
    /\ c.op = "page" => n.before = c.before

Replies == {"ok", "status", "row", "entries", "cursor", "seen"}

\* Serving a call fills in the reply and keeps the rest.
Served(fields, c) == Over(fields, [c EXCEPT !.sent = FALSE])

\* A served call is a call, and says what it was asked.
LEMMA ServedCall ==
    ASSUME NEW c, IsCall(c), c.sent = TRUE, NEW fields, DOMAIN fields \subseteq Replies,
           "ok" \in DOMAIN fields => fields.ok \in BOOLEAN
    PROVE  LET n == Served(fields, c) IN
           /\ IsCall(n) /\ Serves(n, c)
           /\ \A f \in DOMAIN fields : f \in DOMAIN n /\ n[f] = fields[f]
           /\ "ok" \notin DOMAIN fields => n.ok = FALSE
<1> DEFINE n == Served(fields, c)
<1>1. /\ DOMAIN n = DOMAIN fields \cup DOMAIN c
      /\ \A f \in DOMAIN fields : n[f] = fields[f]
      /\ \A f \in DOMAIN c : f \notin DOMAIN fields /\ f # "sent" => n[f] = c[f]
      /\ "sent" \in DOMAIN c => n.sent = FALSE
  BY DEF Served, Over, Replies
<1> HIDE DEF n
<1>2. /\ n.id = c.id /\ n.op = c.op /\ n.onPage = c.onPage /\ n.sent = FALSE
      /\ IF "ok" \in DOMAIN fields THEN n.ok = fields.ok ELSE n.ok = FALSE
  BY <1>1 DEF IsCall, Common, Replies
<1>3. c.op = "get" => n.cell = c.cell /\ n.env = c.env
  BY <1>1 DEF IsCall, Carries, Replies
<1>4. c.op = "put" => n.env = c.env /\ n.from = c.from /\ n.base = c.base /\ n.version = c.version
  BY <1>1 DEF IsCall, Carries, Replies
<1>5. (c.op = "me" => n.token = c.token) /\ (c.op = "page" => n.before = c.before)
  BY <1>1 DEF IsCall, Carries, Replies
<1>6. IsCall(n)
  BY <1>1, <1>2, <1>3, <1>4 DEF IsCall
<1>7. Serves(n, c)
  BY <1>2, <1>3, <1>4, <1>5 DEF Serves
<1> QED BY <1>1, <1>2, <1>6, <1>7 DEF n

\* A served call takes the place of the call.
LEMMA ServedWhole ==
    ASSUME NEW p, NEW cs, NEW rs, NEW l, Whole(p, cs, rs, l), NEW c \in cs, NEW n, IsCall(n), Serves(n, c),
           ReadCall(n, rs, l)
    PROVE  Whole(p, (cs \ {c}) \cup {n}, rs, l)
<1> DEFINE ds == (cs \ {c}) \cup {n}
<1>1. Sound(p, cs \ {c}, rs, l) /\ Numbered(cs) /\ (c.onPage = TRUE => BelongsTo(c.op, p))
  <2>1. Sound(p, cs, rs, l)
    BY DEF Whole
  <2>2. Sound(p, cs \ {c}, rs, l)
    BY <2>1, FewerSound
  <2> QED BY <2>1, <2>2 DEF Sound, Base
<1>2. \A d \in cs \ {c} : d.id # n.id
  BY <1>1 DEF Numbered, Serves
<1>3. Numbered(ds)
  BY <1>1, <1>2, AddNumbered DEF Sound, Base
<1>4. Sound(p, ds, rs, l)
  BY <1>1, <1>3 DEF Sound, Base, Serves
<1>5. (\A cell : Asked(cs, cell) => Asked(ds, cell)) /\ (Written(cs) => Written(ds))
  BY DEF Asked, Written, Serves
<1> QED BY <1>4, <1>5 DEF Whole, Awaited, Settling

\* An item moves on: what was read of it is older now.
LEMMA RowsWhole ==
    ASSUME NEW p, NEW cs, NEW rs, NEW l, Whole(p, cs, rs, l), NEW ss, RowsOK(ss),
           \A e \in Env : \/ ss[e] = rs[e] \/ ss[e].life > rs[e].life
                          \/ ss[e].life = rs[e].life /\ ss[e].version > rs[e].version
    PROVE  Whole(p, cs, ss, l)
<1>1. RowsOK(rs)
  BY DEF Whole, Sound
<1>2. ASSUME NEW row, NEW e \in Env, Known(row, e, rs) PROVE Known(row, e, ss)
  <2>1. {rs[e].version, ss[e].version, rs[e].life, ss[e].life} \subseteq Nat
    BY <1>1 DEF RowsOK
  <2> QED BY <1>2, <2>1 DEF Known
<1>3. ReadPage(p, ss, l)
  BY <1>2 DEF Whole, Sound, ReadPage, ReadCell
<1>4. \A c \in cs : IsCall(c) /\ ReadCall(c, rs, l)
  BY DEF Whole, Sound, Base, Numbered
<1>5. ASSUME NEW c \in cs PROVE ReadCall(c, ss, l)
  <2>1. c.op \in {"get", "put"} => c.env \in Env
    BY <1>4 DEF IsCall
  <2>2. c.op = "put" => c.from \in Env
    BY <1>4 DEF IsCall
  <2> QED BY <1>2, <1>4, <2>1, <2>2 DEF ReadCall, ReadPut
<1> QED BY <1>3, <1>5 DEF Whole, Sound

\* Rows that are dropped or come into being.
LEMMA RowsComeAndGo ==
    ASSUME NEW p, NEW cs, NEW l, Whole(p, cs, rows, l), NEW E, Drops(E) \/ Begins(E)
    PROVE  Whole(p, cs, rows', l) /\ RowsOK(rows')
<1>1. RowsOK(rows)
  BY DEF Whole, Sound
<1>2. CASE Drops(E)
  <2>1. DOMAIN rows' = Env
    BY <1>2 DEF Drops
  <2>2. ASSUME NEW e \in Env
        PROVE  /\ DOMAIN rows'[e] = {"life", "version", "value"} /\ rows'[e].life \in Nat /\ rows'[e].version \in Nat
               /\ rows'[e] = rows[e] \/ rows'[e].life > rows[e].life
    BY <1>1, <1>2 DEF Drops, RowsOK
  <2> QED BY <2>1, <2>2, RowsWhole DEF RowsOK
<1>3. CASE Begins(E)
  <2>1. DOMAIN rows' = Env
    BY <1>3 DEF Begins
  <2>2. ASSUME NEW e \in Env
        PROVE  /\ DOMAIN rows'[e] = {"life", "version", "value"} /\ rows'[e].life \in Nat /\ rows'[e].version \in Nat
               /\ rows'[e] = rows[e] \/ (rows'[e].life = rows[e].life /\ rows'[e].version > rows[e].version)
    BY <1>1, <1>3 DEF Begins, RowsOK, Exists
  <2> QED BY <2>1, <2>2, RowsWhole DEF RowsOK
<1> QED BY <1>2, <1>3

\* Another operator writes, deletes or creates: what was read is older now.
LEMMA OtherWritesWhole ==
    ASSUME Whole(page, calls, rows, late), NEW e \in Env, OtherWrites(e)
    PROVE  Whole(page', calls', rows', late')
<1>1. RowsOK(rows) /\ UNCHANGED <<page, calls, late>>
  BY DEF Whole, Sound, OtherWrites
<1>2. CASE Drops({e}) \/ Begins({e})
  BY <1>1, <1>2, RowsComeAndGo
<1>3. CASE rows' = [rows EXCEPT ![e].version = rows[e].version + 1, ![e].value = 1 - rows[e].value]
  <2>1. /\ DOMAIN rows' = Env /\ \A x \in Env : x # e => rows'[x] = rows[x]
        /\ DOMAIN rows'[e] = {"life", "version", "value"}
        /\ rows'[e].life = rows[e].life /\ rows'[e].version = rows[e].version + 1
    BY <1>1, <1>3 DEF RowsOK
  <2>2. RowsOK(rows') /\ rows'[e].version > rows[e].version
    BY <1>1, <2>1 DEF RowsOK
  <2> QED BY <1>1, <2>1, <2>2, RowsWhole
<1> QED BY <1>2, <1>3 DEF OtherWrites

\* The server accepts a write, which carries the new row back.
LEMMA AcceptWhole ==
    ASSUME Whole(page, calls, rows, late), NEW c \in calls, Accept(c)
    PROVE  Whole(page', calls', rows', late')
<1> DEFINE row == [rows[c.env] EXCEPT !.version = c.version + 1, !.value = c.value]
           n == Served([ok |-> TRUE, row |-> row], c)
<1>1. RowsOK(rows) /\ UNCHANGED <<page, late>> /\ IsCall(c) /\ ReadCall(c, rows, late) /\ Numbered(calls)
  BY DEF Whole, Sound, Base, Numbered, Accept
<1>2. /\ c.op = "put" /\ c.sent = TRUE /\ rows[c.env].version = c.version /\ c.env \in Env
      /\ rows' = [rows EXCEPT ![c.env] = row]
  BY <1>1 DEF Accept, IsCall
<1>3. calls' = (calls \ {c}) \cup {n}
  BY <1>1, RestIs DEF Accept, Answered, Served
<1>4. /\ c.version \in Nat /\ row.version = c.version + 1 /\ row.life = rows[c.env].life /\ row.life \in Nat
      /\ DOMAIN row = {"life", "version", "value"}
  BY <1>1, <1>2 DEF RowsOK
<1> HIDE DEF row
<1>5. rows'[c.env] = row /\ \A x \in Env : x # c.env => rows'[x] = rows[x]
  BY <1>1, <1>2 DEF RowsOK
<1>6. RowsOK(rows') /\ rows'[c.env].version > rows[c.env].version /\ rows'[c.env].life = rows[c.env].life
  BY <1>1, <1>2, <1>4, <1>5 DEF RowsOK
<1>7. Whole(page, calls, rows', late)
  BY <1>5, <1>6, RowsWhole
<1>8. /\ IsCall(n) /\ Serves(n, c)
      /\ "ok" \in DOMAIN n /\ n.ok = TRUE /\ "row" \in DOMAIN n /\ n.row = row
  <2> DEFINE fields == [ok |-> TRUE, row |-> row]
  <2>1. DOMAIN fields = {"ok", "row"} /\ fields.ok = TRUE /\ fields.row = row
    OBVIOUS
  <2>2. n = Served(fields, c)
    OBVIOUS
  <2> HIDE DEF fields, n
  <2>3. DOMAIN fields \subseteq Replies /\ ("ok" \in DOMAIN fields => fields.ok \in BOOLEAN)
    BY <2>1 DEF Replies
  <2>4. IsCall(Served(fields, c)) /\ Serves(Served(fields, c), c)
        /\ \A f \in DOMAIN fields : f \in DOMAIN Served(fields, c) /\ Served(fields, c)[f] = fields[f]
    BY <1>1, <1>2, <2>3, ServedCall
  <2> QED BY <2>1, <2>2, <2>4
<1> HIDE DEF n
<1>9. ReadCall(c, rows', late)
  BY <1>7 DEF Whole, Sound
<1>10. ReadCall(n, rows', late)
  <2>1. n.op = "put" /\ n.env = c.env /\ n.from = c.from /\ n.base = c.base /\ n.version = c.version
    BY <1>2, <1>8 DEF Serves
  <2>2. Known(n.row, n.env, rows')
    BY <1>2, <1>4, <1>5, <1>8, <2>1 DEF Known
  <2> QED BY <1>2, <1>8, <1>9, <2>1, <2>2 DEF ReadCall, ReadPut
<1> QED BY <1>1, <1>3, <1>7, <1>8, <1>10, ServedWhole

\* The server answers from what it holds.
LEMMA RespondWhole ==
    ASSUME Whole(page, calls, rows, late), NEW c \in calls, Respond(c)
    PROVE  Whole(page', calls', rows', late')
<1>1. /\ RowsOK(rows) /\ UNCHANGED <<page, rows, late>> /\ IsCall(c) /\ ReadCall(c, rows, late) /\ Numbered(calls)
      /\ c.sent = TRUE
  BY DEF Whole, Sound, Base, Numbered, Respond, server, IsCall
<1>2. ASSUME NEW fields, DOMAIN fields \subseteq Replies, Answered(c, fields),
             "ok" \in DOMAIN fields => fields.ok \in BOOLEAN,
             "ok" \in DOMAIN fields /\ c.op \in {"get", "put"} =>
                "row" \in DOMAIN fields /\ Known(fields.row, c.env, rows)
      PROVE  Whole(page', calls', rows', late')
  <2> DEFINE n == Served(fields, c)
  <2>1. calls' = (calls \ {c}) \cup {n}
    BY <1>1, <1>2, RestIs DEF Answered, Served
  <2>2. /\ IsCall(n) /\ Serves(n, c)
        /\ \A f \in DOMAIN fields : f \in DOMAIN n /\ n[f] = fields[f]
        /\ "ok" \notin DOMAIN fields => n.ok = FALSE
    BY <1>1, <1>2, ServedCall
  <2> HIDE DEF n
  <2>3. n.op = c.op /\ (c.op \in {"get", "put"} => n.env = c.env)
        /\ (c.op = "put" => n.from = c.from /\ n.base = c.base /\ n.version = c.version)
    BY <2>2 DEF Serves
  <2>4. "row" \in DOMAIN fields => "row" \in DOMAIN n /\ n.row = fields.row
    BY <2>2
  <2>5. ReadCall(n, rows, late)
    BY <1>1, <1>2, <2>2, <2>3, <2>4 DEF ReadCall, ReadPut
  <2> QED BY <1>1, <2>1, <2>2, <2>5, ServedWhole
<1>3. ASSUME NEW status, Answered(c, [status |-> status])
      PROVE  Whole(page', calls', rows', late')
  <2> DEFINE fields == [status |-> status]
  <2>1. DOMAIN fields = {"status"} /\ Answered(c, fields)
    BY <1>3
  <2> HIDE DEF fields
  <2> QED BY <1>2, <2>1 DEF Replies
<1>4. CASE c.op = "get" /\ Answered(c, [ok |-> TRUE, row |-> rows[c.env]])
  <2> DEFINE fields == [ok |-> TRUE, row |-> rows[c.env]]
  <2>1. DOMAIN fields = {"ok", "row"} /\ Answered(c, fields) /\ fields.row = rows[c.env] /\ fields.ok = TRUE
    BY <1>4
  <2>2. Known(rows[c.env], c.env, rows)
    BY <1>1, <1>4 DEF IsCall, Known, RowsOK
  <2> HIDE DEF fields
  <2> QED BY <1>2, <2>1, <2>2 DEF Replies
<1>5. ASSUME NEW entries, NEW cursor, c.op = "page",
             Answered(c, [ok |-> TRUE, entries |-> entries, cursor |-> cursor, seen |-> log])
      PROVE  Whole(page', calls', rows', late')
  <2> DEFINE fields == [ok |-> TRUE, entries |-> entries, cursor |-> cursor, seen |-> log]
  <2>1. DOMAIN fields = {"ok", "entries", "cursor", "seen"} /\ Answered(c, fields) /\ fields.ok = TRUE
    BY <1>5
  <2> HIDE DEF fields
  <2> QED BY <1>2, <1>5, <2>1 DEF Replies
<1> QED BY <1>3, <1>4, <1>5 DEF Respond

\* A deletion or a creation is carried out.
LEMMA CarryOutWhole ==
    ASSUME Whole(page, calls, rows, late), NEW c \in calls, CarryOut(c)
    PROVE  Whole(page', calls', rows', late')
<1> DEFINE fields == [ok |-> TRUE]
           n == Served(fields, c)
<1>1. UNCHANGED <<page, late>> /\ IsCall(c) /\ Numbered(calls) /\ c.op \notin {"get", "put"} /\ c.sent = TRUE
  BY DEF Whole, Sound, Base, Numbered, CarryOut, IsCall
<1>2. Whole(page, calls, rows', late)
  <2>1. UNCHANGED rows \/ \E E : Drops(E) \/ Begins(E)
    BY DEF CarryOut
  <2> QED BY <2>1, RowsComeAndGo
<1>3. calls' = (calls \ {c}) \cup {n}
  BY <1>1, RestIs DEF CarryOut, Answered, Served
<1>4. IsCall(n) /\ Serves(n, c)
  BY <1>1, ServedCall DEF Replies
<1> HIDE DEF n
<1>5. ReadCall(n, rows', late)
  BY <1>1, <1>4 DEF ReadCall, Serves
<1> QED BY <1>1, <1>2, <1>3, <1>4, <1>5, ServedWhole

-----------------------------------------------------------------------------
(* The session and the audit page *)

\* On the other pages nothing is awaited and nothing settles.
LEMMA ElsewhereWhole ==
    ASSUME NEW p, NEW cs, NEW rs, NEW l, Sound(p, cs, rs, l), p.kind \notin Kinds
    PROVE  Whole(p, cs, rs, l)
BY DEF Whole, Awaited, Settling, Kinds

\* Without a page there is nothing to show.
LEMMA ClosedPage ==
    ASSUME NEW rs, NEW l
    PROVE  Shaped(Closed) /\ ReadPage(Closed, rs, l) /\ Closed.kind \notin Kinds
BY DEF Shaped, Closed, ReadPage, Writing, Kinds

\* Signing in and out, and the identity that arrives.
LEMMA SessionWhole ==
    ASSUME Whole(page, calls, rows, late),
           \/ \E u : SignIn(u)
           \/ SignOut
           \/ \E c \in calls : \E a \in Outcomes(c) : IdentityArrives(a)
    PROVE  Whole(page', calls', rows', late')
<1>1. Sound(page, calls, rows, late) /\ UNCHANGED <<rows, late>>
  BY DEF Whole, SignIn, SignOut, IdentityArrives, server
<1>2. ASSUME NEW u, SignIn(u) PROVE Whole(page', calls', rows', late')
  <2>1. Fits([op |-> "me", token |-> u], page, rows, late)
    BY DEF Fits, IsTemplate, Ops, Carries, BelongsTo
  <2> QED BY <1>1, <1>2, <2>1, IssueWhole DEF SignIn, AskIdentity
<1>3. ASSUME NEW ds, ds \subseteq calls, page' = Closed, calls' = Orphaned(ds)
      PROVE  Whole(page', calls', rows', late')
  <2>1. Sound(page, ds, rows, late)
    BY <1>1, <1>3, FewerSound
  <2>2. Sound(Closed, Orphaned(ds), rows, late)
    BY <2>1, ClosedPage, OrphanedSound
  <2> QED BY <1>1, <1>3, <2>2, ClosedPage, ElsewhereWhole
<1>4. ASSUME NEW c \in calls, NEW a \in Outcomes(c), IdentityArrives(a)
      PROVE  Whole(page', calls', rows', late')
  <2>1. Returns(a, c)
    BY <1>1, ArrivesOnPage
  <2>2. c.op = "me" /\ Rest(a) = calls \ {c}
    BY <1>4, <2>1 DEF IdentityArrives, Returns, IsAnswer
  <2>3. CASE page' = page
    <3>1. calls' = Rest(a)
      BY <1>4, <2>3 DEF IdentityArrives
    <3>2. Whole(page, calls \ {c}, rows, late)
      BY <2>2, RestWhole
    <3> QED BY <1>1, <2>2, <2>3, <3>1, <3>2
  <2>4. CASE page' # page
    <3>1. page' = Closed /\ calls' = Orphaned(Rest(a)) /\ Rest(a) \subseteq calls
      BY <1>4, <2>2, <2>4 DEF IdentityArrives
    <3> QED BY <1>3, <3>1
  <2> QED BY <2>3, <2>4
<1> QED BY <1>2, <1>3, <1>4 DEF SignOut

\* A change of the audit page is none for what this part is about.
LEMMA AuditSound ==
    ASSUME NEW p, NEW cs, NEW rs, NEW l, Sound(p, cs, rs, l), p.kind = "audit",
           NEW q, q.kind = "audit", DOMAIN q = AuditFields
    PROVE  Sound(q, cs, rs, l)
<1>1. "audit" \notin Kinds /\ "audit" \notin Writing
  BY DEF Kinds, Writing
<1>2. Shaped(q) /\ ReadPage(q, rs, l)
  BY <1>1 DEF Shaped, ReadPage
<1> QED BY <1>1, <1>2, PageSound

\* The audit page may ask for a page of the log.
LEMMA PageFits ==
    ASSUME NEW p, p.kind = "audit", NEW before, NEW rs, NEW l
    PROVE  Fits([op |-> "page", before |-> before], p, rs, l)
BY DEF Fits, IsTemplate, Ops, Carries, BelongsTo

\* The audit page and the log.
LEMMA AuditWhole ==
    ASSUME Whole(page, calls, rows, late),
           \/ LoadFirst \/ LoadMore \/ LogGrows
           \/ \E c \in calls : \E a \in Outcomes(c) : PageArrives(a)
    PROVE  Whole(page', calls', rows', late')
<1>1. Sound(page, calls, rows, late) /\ UNCHANGED <<rows, late>> /\ "audit" \notin Kinds
  BY DEF Whole, LoadFirst, LoadMore, LogGrows, PageArrives, server, Kinds
<1>2. CASE LoadFirst
  <2>1. /\ page'.kind = "audit" /\ DOMAIN page' = AuditFields
        /\ calls' = Issue(Orphaned(calls), [op |-> "page", before |-> NoCursor])
    BY <1>2 DEF LoadFirst, AuditFields
  <2>2. Shaped(page') /\ ReadPage(page', rows, late)
    BY <1>1, <2>1 DEF Shaped, ReadPage, Writing
  <2>3. Sound(page', Orphaned(calls), rows, late)
    BY <1>1, <2>2, OrphanedSound
  <2>4. Sound(page', calls', rows, late)
    BY <2>1, <2>3, PageFits, IssueSound
  <2> QED BY <1>1, <2>1, <2>4, ElsewhereWhole
<1>3. CASE LoadMore
  <2>1. /\ page.kind = "audit" /\ page' = [page EXCEPT !.more = TRUE]
        /\ calls' = Issue(calls, [op |-> "page", before |-> page.cursor])
    BY <1>3 DEF LoadMore
  <2>2. page'.kind = "audit" /\ DOMAIN page' = AuditFields
    BY <1>1, <2>1 DEF Sound, Base, Shaped, AuditFields
  <2>3. Sound(page', calls, rows, late)
    BY <1>1, <2>1, <2>2, AuditSound
  <2>4. Sound(page', calls', rows, late)
    BY <2>1, <2>2, <2>3, PageFits, IssueSound
  <2> QED BY <1>1, <2>2, <2>4, ElsewhereWhole
<1>4. CASE LogGrows
  <2>1. UNCHANGED <<page, calls>>
    BY <1>4 DEF LogGrows
  <2> QED BY <1>1, <2>1
<1>5. ASSUME NEW c \in calls, NEW a \in Outcomes(c), PageArrives(a)
      PROVE  Whole(page', calls', rows', late')
  <2>1. Returns(a, c)
    BY <1>1, ArrivesOnPage
  <2>2. Rest(a) = calls \ {c} /\ page.kind = "audit"
    BY <1>5, <2>1 DEF PageArrives, Returns, BelongsTo
  <2>3. DOMAIN page = AuditFields
    BY <1>1, <2>2 DEF Sound, Base, Shaped
  <2>4. page'.kind = "audit" /\ DOMAIN page' = AuditFields /\ calls' = calls \ {c}
    BY <1>5, <2>2, <2>3 DEF PageArrives, AuditFields
  <2>5. Sound(page, calls \ {c}, rows, late)
    BY <1>1, FewerSound
  <2>6. Sound(page', calls', rows, late)
    BY <2>2, <2>4, <2>5, AuditSound
  <2> QED BY <1>1, <2>4, <2>6, ElsewhereWhole
<1> QED BY <1>2, <1>3, <1>4, <1>5

\* Every step of Next.
LEMMA NextWhole ==
    Whole(page, calls, rows, late) /\ [Next]_vars => Whole(page', calls', rows', late')
<1> SUFFICES ASSUME Whole(page, calls, rows, late), [Next]_vars PROVE Whole(page', calls', rows', late')
  OBVIOUS
<1>1. CASE UNCHANGED vars
  BY <1>1 DEF vars, server
<1>2. ASSUME NEW c \in calls, NEW a \in Outcomes(c), Arrives(a)
      PROVE  Whole(page', calls', rows', late')
  BY <1>2, SessionWhole, EnvironmentsWhole, ItemWhole, PutArrivesWhole, ActArrivesWhole, CreateArrivesWhole,
     RemoveArrivesWhole, AuditWhole, DropAnswerWhole DEF Arrives
<1>3. CASE \/ \E u \in User : SignIn(u)
           \/ SignOut \/ LoadFirst \/ LoadMore \/ LogGrows
  BY <1>3, SessionWhole, AuditWhole
<1>4. CASE \/ \E kind \in Kinds : Visit(kind)
           \/ \E e \in Env : SelectTab(e) \/ OtherWrites(e)
           \/ Retry \/ Open \/ CloseDetail
  BY <1>4, VisitWhole, SelectTabWhole, OtherWritesWhole, RetryWhole, OpenWhole, CloseDetailWhole
<1>5. CASE \/ Toggle \/ Save \/ DeleteFlag
           \/ \E v \in Values : Edit(v)
           \/ \E verb \in {"change", "delete"} : Act(verb)
           \/ \E what \in {"item", "environment"} : Create(what)
  BY <1>5, ToggleWhole, SaveWhole, EditWhole, ActWhole, CreateWhole
<1>6. CASE \E c \in calls : Accept(c) \/ Respond(c) \/ CarryOut(c)
  BY <1>6, AcceptWhole, RespondWhole, CarryOutWhole
<1> QED BY <1>1, <1>2, <1>3, <1>4, <1>5, <1>6 DEF Next

\* The tab as it is loaded.
LEMMA InitWhole == Init => Whole(page, calls, rows, late)
<1> SUFFICES ASSUME Init PROVE Whole(page, calls, rows, late)
  OBVIOUS
<1>1. Numbered({})
  BY FS_EmptySet DEF Numbered
<1>2. RowsOK(rows) /\ late \in BOOLEAN /\ page = Closed
  BY DEF Init, RowsOK
<1>3. Sound(Closed, {}, rows, late)
  BY <1>1, <1>2, ClosedPage DEF Sound, Base
<1>4. Fits([op |-> "me", token |-> token], Closed, rows, late)
  BY DEF Fits, IsTemplate, Ops, Carries, BelongsTo
<1>5. Sound(Closed, Issue({}, [op |-> "me", token |-> token]), rows, late)
  BY <1>3, <1>4, IssueSound
<1> QED BY <1>2, <1>3, <1>5, ClosedPage, ElsewhereWhole DEF Init, AskIdentity

-----------------------------------------------------------------------------
(* Who is asked about *)

\* The questions under way in ds are those of cs.
SameQuestions(cs, ds) ==
    /\ \A d \in ds : d.op = "me" => \E c \in cs : c.op = "me" /\ c.id = d.id /\ c.token = d.token
    /\ (\E c \in cs : c.op = "me") => \E d \in ds : d.op = "me"

\* Step after step.
LEMMA QuestionsChain ==
    ASSUME NEW cs, NEW ds, NEW es, SameQuestions(cs, ds), SameQuestions(ds, es)
    PROVE  SameQuestions(cs, es)
BY DEF SameQuestions

\* Another call is no question.
LEMMA IssueQuestions ==
    ASSUME NEW cs, NEW call, "op" \in DOMAIN call, call.op # "me"
    PROVE  SameQuestions(cs, Issue(cs, call))
<1>1. PICK rest : Issue(cs, call) = cs \cup {Over(call, rest)}
  BY DEF Issue
<1>2. Over(call, rest).op = call.op
  BY DEF Over
<1> HIDE DEF Over
<1> QED BY <1>1, <1>2 DEF SameQuestions

\* None of the calls a page makes is a question.
LEMMA IssuedQuestions ==
    ASSUME NEW cs
    PROVE  /\ SameQuestions(cs, Issue(cs, [op |-> "envs"]))
           /\ SameQuestions(cs, Issue(cs, [op |-> "remove"]))
           /\ \A cell, e : SameQuestions(cs, Issue(cs, Get(cell, e)))
           /\ \A p : SameQuestions(cs, Reload(cs, p))
           /\ \A what, at : SameQuestions(cs, Issue(cs, [op |-> "create", what |-> what, at |-> at]))
           /\ \A before : SameQuestions(cs, Issue(cs, [op |-> "page", before |-> before]))
           /\ \A p, x, v : SameQuestions(cs, Issue(cs, Put(p, x, v)))
           /\ \A e, from : \A verb \in {"change", "delete"} :
                 SameQuestions(cs, Issue(cs, [op |-> verb, env |-> e, from |-> from]))
<1>1. ASSUME NEW call, "op" \in DOMAIN call, call.op # "me" PROVE SameQuestions(cs, Issue(cs, call))
  BY <1>1, IssueQuestions
<1>2. \A cell, e : SameQuestions(cs, Issue(cs, Get(cell, e)))
  <2> TAKE cell, e
  <2>1. "op" \in DOMAIN Get(cell, e) /\ Get(cell, e).op # "me"
    BY DEF Get
  <2> QED BY <1>1, <2>1
<1>3. \A p : SameQuestions(cs, Reload(cs, p))
  BY <1>2 DEF Reload
<1>4. \A p, x, v : SameQuestions(cs, Issue(cs, Put(p, x, v)))
  <2> TAKE p, x, v
  <2>1. "op" \in DOMAIN Put(p, x, v) /\ Put(p, x, v).op # "me"
    BY DEF Put
  <2> QED BY <1>1, <2>1
<1>5. SameQuestions(cs, Issue(cs, [op |-> "envs"])) /\ SameQuestions(cs, Issue(cs, [op |-> "remove"]))
  BY <1>1
<1>6. \A what, at : SameQuestions(cs, Issue(cs, [op |-> "create", what |-> what, at |-> at]))
  BY <1>1
<1>7. \A before : SameQuestions(cs, Issue(cs, [op |-> "page", before |-> before]))
  BY <1>1
<1>8. \A e, from : \A verb \in {"change", "delete"} :
         SameQuestions(cs, Issue(cs, [op |-> verb, env |-> e, from |-> from]))
  BY <1>1
<1> QED BY <1>2, <1>3, <1>4, <1>5, <1>6, <1>7, <1>8

\* A question outlives its page.
LEMMA OrphanedQuestions ==
    ASSUME NEW cs, \A c \in cs : IsCall(c)
    PROVE  SameQuestions(cs, Orphaned(cs))
<1> DEFINE o(c) == [c EXCEPT !.onPage = c.op = "me"]
           K == {d \in cs : d.op \in {"me", "remove"} \/ (d.op \in {"put", "delete", "create"} /\ d.sent)}
<1>1. ASSUME NEW c \in cs
      PROVE  o(c).op = c.op /\ o(c).id = c.id /\ (c.op = "me" => o(c).token = c.token)
  BY DEF IsCall, Common, Carries
<1>2. Orphaned(cs) = {o(c) : c \in K}
  BY DEF Orphaned
<1> HIDE DEF o
<1>3. ASSUME NEW d \in Orphaned(cs), d.op = "me"
      PROVE  \E c \in cs : c.op = "me" /\ c.id = d.id /\ c.token = d.token
  BY <1>1, <1>2, <1>3
<1>4. ASSUME NEW c \in cs, c.op = "me"
      PROVE  \E d \in Orphaned(cs) : d.op = "me"
  <2>1. o(c) \in Orphaned(cs)
    BY <1>2, <1>4
  <2> QED BY <1>1, <1>4, <2>1
<1> QED BY <1>3, <1>4 DEF SameQuestions

\* Another call that is answered takes no question out.
LEMMA FewerQuestions ==
    ASSUME NEW cs, NEW c \in cs, c.op # "me"
    PROVE  SameQuestions(cs, cs \ {c})
BY DEF SameQuestions

\* Steps with which the session has nothing to do.
LEMMA OtherQuestions ==
    ASSUME Whole(page, calls, rows, late), [Next]_vars, ~SignOut, \A u \in User : ~SignIn(u),
           \A c \in calls : \A a \in Outcomes(c) : ~IdentityArrives(a)
    PROVE  SameQuestions(calls, calls') /\ UNCHANGED <<session, overtaken>>
<1>1. /\ Sound(page, calls, rows, late) /\ Numbered(calls) /\ \A c \in calls : IsCall(c)
  BY DEF Whole, Sound, Base, Numbered
<1>2. SameQuestions(calls, calls)
  BY DEF SameQuestions
<1>3. \A ds : ds \subseteq calls => \A c \in ds : IsCall(c)
  BY <1>1
<1>4. SameQuestions(calls, Orphaned(calls))
  BY <1>1, OrphanedQuestions
<1>5. ASSUME NEW c \in calls, NEW a \in Outcomes(c), Arrives(a)
      PROVE  SameQuestions(calls, calls') /\ UNCHANGED <<session, overtaken>>
  <2>1. Returns(a, c) /\ ~IdentityArrives(a)
    BY <1>1, ArrivesOnPage
  <2> DEFINE ds == calls \ {c}
  <2>2. Rest(a) = ds /\ c.op = a.op /\ IsCall(c) /\ (c.onPage = FALSE <=> ~a.onPage)
    BY <2>1 DEF Returns, IsAnswer, IsCall
  <2>3. UNCHANGED <<session, overtaken>>
    BY <1>5, <2>1 DEF Arrives, EnvironmentsArrive, ItemArrives, PutArrives, ActArrives, CreateArrives,
                      RemoveArrives, PageArrives, DropAnswer
  <2>4. CASE c.op # "me"
    <3>1. SameQuestions(calls, ds)
      BY <2>4, FewerQuestions
    <3>2. SameQuestions(ds, Orphaned(ds))
      BY <1>3, OrphanedQuestions
    <3> HIDE DEF ds
    <3>3. \/ calls' = ds
          \/ calls' = Issue(ds, [op |-> "envs"]) \/ calls' = Issue(Orphaned(ds), [op |-> "envs"])
          \/ calls' = Reload(ds, page)
          \/ (\E cell, e : calls' = Issue(ds, Get(cell, e)) \/ calls' = Issue(Reload(ds, page), Get(cell, e)))
      <4>1. CASE EnvironmentsArrive(a) \/ ItemArrives(a) \/ PageArrives(a) \/ DropAnswer(a) \/ RemoveArrives(a)
        BY <2>2, <4>1 DEF EnvironmentsArrive, ItemArrives, PageArrives, DropAnswer, RemoveArrives
      <4>2. CASE PutArrives(a)
        BY <2>2, <4>2 DEF PutArrives
      <4>3. CASE ActArrives(a) \/ CreateArrives(a)
        BY <2>2, <4>3 DEF ActArrives, CreateArrives
      <4> QED BY <1>5, <2>1, <4>1, <4>2, <4>3 DEF Arrives
    <3>4. SameQuestions(ds, ds)
      BY DEF SameQuestions
    <3>5. SameQuestions(ds, calls')
      BY <3>2, <3>3, <3>4, IssuedQuestions, QuestionsChain
    <3> QED BY <2>3, <3>1, <3>5, QuestionsChain
  <2>5. CASE c.op = "me"
    <3>1. ~EnvironmentsArrive(a) /\ ~ItemArrives(a) /\ ~PutArrives(a) /\ ~ActArrives(a) /\ ~CreateArrives(a)
          /\ ~RemoveArrives(a) /\ ~PageArrives(a)
      BY <2>2, <2>5 DEF EnvironmentsArrive, ItemArrives, PutArrives, ActArrives, CreateArrives, RemoveArrives,
                        PageArrives
    <3>2. DropAnswer(a) /\ c.onPage = FALSE
      BY <1>5, <2>1, <2>2, <3>1 DEF Arrives, DropAnswer
    <3> QED BY <2>2, <2>5, <3>2 DEF IsCall
  <2> QED BY <2>4, <2>5
<1>6. ASSUME NEW c \in calls, Accept(c) \/ Respond(c) \/ CarryOut(c)
      PROVE  SameQuestions(calls, calls') /\ UNCHANGED <<session, overtaken>>
  <2>1. Rest(c) = calls \ {c} /\ IsCall(c) /\ c.op # "me"
    BY <1>1, <1>6, RestIs DEF Accept, Respond, CarryOut
  <2>2. PICK fields : Answered(c, fields) /\ "op" \notin DOMAIN fields
    BY <1>6 DEF Accept, Respond, CarryOut
  <2>3. calls' = (calls \ {c}) \cup {Served(fields, c)}
    BY <2>1, <2>2 DEF Answered, Served
  <2>4. Served(fields, c).op = c.op
    BY <2>1, <2>2 DEF Served, Over, IsCall, Common
  <2>5. UNCHANGED <<session, overtaken>>
    BY <1>6 DEF Accept, Respond, CarryOut
  <2> QED BY <2>1, <2>3, <2>4, <2>5 DEF SameQuestions
<1>7. CASE \E kind \in Kinds : Visit(kind)
  BY <1>4, <1>7, IssuedQuestions, QuestionsChain DEF Visit
<1>8. CASE LoadFirst
  BY <1>4, <1>8, IssuedQuestions, QuestionsChain DEF LoadFirst
<1>9. CASE \/ \E e \in Env : SelectTab(e) \/ OtherWrites(e)
           \/ Retry \/ Open \/ CloseDetail \/ LogGrows \/ LoadMore
  <2>1. UNCHANGED <<session, overtaken>>
    BY <1>9 DEF SelectTab, OtherWrites, Retry, Open, CloseDetail, LogGrows, LoadMore
  <2>2. CASE \E e \in Env : SelectTab(e)
    BY <2>1, <2>2, IssuedQuestions DEF SelectTab
  <2>3. CASE CloseDetail \/ LogGrows \/ \E e \in Env : OtherWrites(e)
    BY <1>2, <2>1, <2>3 DEF CloseDetail, LogGrows, OtherWrites
  <2>4. CASE Retry
    BY <2>1, <2>4, IssuedQuestions DEF Retry
  <2>5. CASE Open
    BY <2>1, <2>5, IssuedQuestions DEF Open
  <2>6. CASE LoadMore
    BY <2>1, <2>6, IssuedQuestions DEF LoadMore
  <2> QED BY <1>9, <2>2, <2>3, <2>4, <2>5, <2>6
<1>10. CASE \/ Toggle \/ Save \/ DeleteFlag
            \/ \E v \in Values : Edit(v)
            \/ \E verb \in {"change", "delete"} : Act(verb)
            \/ \E what \in {"item", "environment"} : Create(what)
  <2>1. UNCHANGED <<session, overtaken>>
    BY <1>10 DEF Toggle, Save, DeleteFlag, Edit, Act, Create
  <2>2. CASE Toggle
    BY <2>1, <2>2, IssuedQuestions DEF Toggle
  <2>3. CASE Save
    BY <2>1, <2>3, IssuedQuestions DEF Save
  <2>4. CASE DeleteFlag
    BY <2>1, <2>4, IssuedQuestions DEF DeleteFlag
  <2>5. CASE \E v \in Values : Edit(v)
    BY <1>2, <2>1, <2>5 DEF Edit
  <2>6. CASE \E verb \in {"change", "delete"} : Act(verb)
    <3>1. PICK verb \in {"change", "delete"} : Act(verb)
      BY <2>6
    <3>2. \E e, from : calls' = Issue(calls, [op |-> verb, env |-> e, from |-> from])
      BY <3>1 DEF Act
    <3> QED BY <2>1, <3>2, IssuedQuestions
  <2>7. CASE \E what \in {"item", "environment"} : Create(what)
    BY <2>1, <2>7, IssuedQuestions DEF Create
  <2> QED BY <1>10, <2>2, <2>3, <2>4, <2>5, <2>6, <2>7
<1>11. CASE UNCHANGED vars
  BY <1>2, <1>11 DEF vars
<1> QED BY <1>5, <1>6, <1>7, <1>8, <1>9, <1>10, <1>11 DEF Next

\* Asking adds one question, about the given token.
LEMMA AskIs ==
    ASSUME NEW cs, Numbered(cs), NEW t
    PROVE  \E n : AskIdentity(cs, t) = cs \cup {n} /\ n.op = "me" /\ n.token = t
<1> DEFINE call == [op |-> "me", token |-> t]
<1>1. IsTemplate(call)
  BY DEF IsTemplate, Ops, Carries
<1>2. PICK n : Issue(cs, call) = cs \cup {n} /\ IsNew(n, cs, call)
  BY <1>1, IssueAdds
<1>3. \A f \in DOMAIN call : n[f] = call[f]
  BY <1>2 DEF IsNew
<1>4. n.op = "me" /\ n.token = t
  BY <1>3
<1> QED BY <1>2, <1>4 DEF AskIdentity

\* The first question is about the stored token.
LEMMA InitSession == Init => Session
<1> SUFFICES ASSUME Init PROVE Session
  OBVIOUS
<1>1. Numbered({})
  BY FS_EmptySet DEF Numbered
<1>2. CASE token = None
  BY <1>2 DEF Init, Session
<1>3. CASE token # None
  <2>1. PICK n : AskIdentity({}, token) = {n} /\ n.op = "me" /\ n.token = token
    BY <1>1, AskIs
  <2>2. calls = {n} /\ resolving = TRUE /\ overtaken = FALSE /\ identity = None
    BY <1>3, <2>1 DEF Init
  <2> QED BY <2>1, <2>2 DEF Session
<1> QED BY <1>2, <1>3

\* Where nothing is under way, nothing is afterwards.
LEMMA NoQuestions ==
    ASSUME NEW cs, NEW ds, SameQuestions(cs, ds), \A c \in cs : c.op # "me"
    PROVE  \A d \in ds : d.op # "me"
BY DEF SameQuestions

\* Signing in without overtaking a question: nobody was signed in.
LEMMA SignInSession ==
    ASSUME Numbered(calls), Session, NEW u, SignIn(u)
    PROVE  Session'
<1>1. PICK n : calls' = calls \cup {n} /\ n.op = "me" /\ n.token = u
  BY AskIs DEF SignIn
<1>2. /\ token' = u /\ resolving' = TRUE /\ identity' = identity /\ (token = None \/ resolving)
      /\ overtaken' = (overtaken \/ \E c \in calls : c.op = "me")
  BY DEF SignIn
<1>3. ASSUME overtaken' = FALSE
      PROVE  overtaken = FALSE /\ (\A c \in calls : c.op # "me") /\ identity = None
  BY <1>2, <1>3 DEF Session
<1> QED BY <1>1, <1>2, <1>3 DEF Session

\* Signing out without overtaking one: none is left.
LEMMA SignOutSession ==
    ASSUME Numbered(calls), Session, SignOut
    PROVE  Session'
<1>1. SameQuestions(calls, Orphaned(calls))
  BY OrphanedQuestions DEF Numbered
<1>2. /\ calls' = Orphaned(calls) /\ token' = None /\ identity' = None /\ resolving' = FALSE
      /\ overtaken' = (overtaken \/ \E c \in calls : c.op = "me")
  BY DEF SignOut, SignedOut
<1>3. overtaken' = FALSE => \A d \in calls' : d.op # "me"
  BY <1>1, <1>2, NoQuestions
<1> QED BY <1>2, <1>3 DEF Session

\* The answer is about the token there is, and no other is to come.
LEMMA IdentitySession ==
    ASSUME Sound(page, calls, rows, late), Session,
           NEW c \in calls, NEW a \in Outcomes(c), IdentityArrives(a)
    PROVE  Session'
<1> DEFINE ds == calls \ {c}
<1>1. Numbered(calls) /\ Numbered(ds)
  BY FewerNumbered DEF Sound, Base
<1>2. Returns(a, c)
  BY ArrivesOnPage
<1>3. Rest(a) = ds /\ c.op = "me" /\ a.token = c.token
  BY <1>2 DEF Returns, IsAnswer, IdentityArrives
<1>4. SameQuestions(ds, Orphaned(ds)) /\ SameQuestions(ds, ds)
  BY <1>1, OrphanedQuestions DEF Numbered, SameQuestions
<1>5. overtaken = FALSE => \A d \in ds : d.op # "me"
  BY <1>1, <1>3 DEF Session, Numbered
<1> HIDE DEF ds
<1>6. calls' = ds \/ calls' = Orphaned(ds)
  BY <1>3 DEF IdentityArrives
<1>7. overtaken = FALSE => \A d \in calls' : d.op # "me"
  BY <1>4, <1>5, <1>6, NoQuestions
<1>8. /\ resolving' = FALSE /\ overtaken' = overtaken
      /\ \/ token' = None /\ identity' = None
         \/ token' = token /\ identity' \in {identity, a.token}
  BY DEF IdentityArrives, SignedOut
<1>9. overtaken = FALSE => a.token = token
  BY <1>3 DEF Session
<1> QED BY <1>7, <1>8, <1>9 DEF Session

\* Every step of Next.
LEMMA NextSession ==
    ASSUME Whole(page, calls, rows, late), Session, [Next]_vars
    PROVE  Session'
<1>1. Sound(page, calls, rows, late) /\ Numbered(calls)
  BY DEF Whole, Sound, Base
<1>2. CASE SignOut \/ \E u \in User : SignIn(u)
  BY <1>1, <1>2, SignInSession, SignOutSession
<1>3. CASE \E c \in calls : \E a \in Outcomes(c) : IdentityArrives(a)
  BY <1>1, <1>3, IdentitySession
<1>4. CASE ~SignOut /\ (\A u \in User : ~SignIn(u)) /\ \A c \in calls : \A a \in Outcomes(c) : ~IdentityArrives(a)
  <2>1. SameQuestions(calls, calls') /\ UNCHANGED <<session, overtaken>>
    BY <1>4, OtherQuestions
  <2> QED BY <2>1 DEF session, Session, SameQuestions
<1> QED BY <1>2, <1>3, <1>4

-----------------------------------------------------------------------------
(* Pages of the audit log *)

\* A set of naturals has a least element.
LEMMA LeastNatural ==
    ASSUME NEW S, S \subseteq Nat, S # {}
    PROVE  \E m \in S : \A n \in S : m <= n
<1> DEFINE R == OpToRel(<, Nat)
<1>1. R = {ss \in Nat \X Nat : ss[1] < ss[2]}
  BY DEF OpToRel
<1>2. IsWellFoundedOn(R, Nat)
  BY Zenon, NatLessThanWellFounded
<1> HIDE DEF R
<1>3. PICK m \in S : \A n \in S : ~ (<<n, m>> \in R)
  BY <1>2, WFMin
<1>4. ASSUME NEW n \in S PROVE m <= n
  <2>1. m \in Nat /\ n \in Nat
    OBVIOUS
  <2>2. ~(n < m)
    BY <1>1, <1>3, <2>1
  <2> QED BY <2>1, <2>2
<1> QED BY <1>4

\* A bounded set of naturals is finite.
LEMMA BoundedFinite ==
    ASSUME NEW n \in Nat, NEW S, S \subseteq 1..n
    PROVE  IsFiniteSet(S) /\ Cardinality(S) \in Nat
<1>1. IsFiniteSet(1..n)
  BY FS_Interval
<1>2. IsFiniteSet(S)
  BY <1>1, FS_Subset
<1> QED BY <1>2, FS_CardinalityType

\* A bounded one has a greatest.
LEMMA GreatestNatural ==
    ASSUME NEW n \in Nat, NEW T, T \subseteq 1..n, T # {}
    PROVE  \E m \in T : \A x \in T : x <= m
<1> DEFINE B == {k \in Nat : \A x \in T : x <= k}
<1>1. n \in B
  OBVIOUS
<1>2. PICK k \in B : \A j \in B : k <= j
  <2>1. B # {} /\ B \subseteq Nat
    BY <1>1
  <2> HIDE DEF B
  <2> QED BY <2>1, LeastNatural
<1>3. k \in T
  <2> SUFFICES ASSUME k \notin T PROVE FALSE
    OBVIOUS
  <2>1. \A x \in T : x <= k - 1 /\ x >= 1
    BY <1>2
  <2>2. k - 1 \in Nat
    <3>1. PICK x : x \in T
      OBVIOUS
    <3>2. k \in Nat /\ x \in Nat /\ x <= k - 1
      BY <2>1, <3>1
    <3> QED BY <3>2
  <2>3. k - 1 \in B
    BY <2>1, <2>2
  <2> QED BY <1>2, <2>3
<1> QED BY <1>2, <1>3

\* s lists n of the elements of S, newest first, and leaves the older ones.
Lists(s, n, S) ==
    /\ s \in [1..n -> S]
    /\ \A i, j \in 1..n : i < j => s[i] > s[j]
    /\ \A x \in S \ Range(s), i \in 1..n : x < s[i]

\* The newest of what is left goes last.
LEMMA ListsOneMore ==
    ASSUME NEW m \in Nat, NEW S, S \subseteq 1..m, NEW n \in Nat, n < Cardinality(S), NEW s, Lists(s, n, S)
    PROVE  \E t : Lists(t, n + 1, S)
<1> DEFINE T == S \ Range(s)
<1>1. IsFiniteSet(S) /\ Cardinality(S) \in Nat
  BY BoundedFinite
<1>2. T # {}
  <2> SUFFICES ASSUME S \subseteq Range(s) PROVE FALSE
    OBVIOUS
  <2>1. IsFiniteSet(1..n) /\ Cardinality(1..n) = n
    BY FS_Interval
  <2>2. Range(s) = S
    BY DEF Lists, Range
  <2>3. Cardinality(Range(s)) <= n
    BY <2>1, FiniteRange DEF Lists
  <2> QED BY <1>1, <2>2, <2>3
<1>3. PICK g \in T : \A x \in T : x <= g
  BY <1>2, GreatestNatural
<1> DEFINE t == [i \in 1..(n + 1) |-> IF i = n + 1 THEN g ELSE s[i]]
<1>4. t \in [1..(n + 1) -> S]
  BY <1>3 DEF Lists
<1>5. \A i \in 1..n : t[i] = s[i] /\ s[i] \in S
  BY DEF Lists
<1>6. t[n + 1] = g
  OBVIOUS
<1>7. \A x \in S \ Range(t) : x \in T /\ x # g
  <2> TAKE x \in S \ Range(t)
  <2>1. \A i \in 1..(n + 1) : t[i] # x
    BY DEF Range
  <2> HIDE DEF t
  <2>2. \A i \in 1..n : s[i] # x
    BY <1>5, <2>1
  <2> QED BY <1>6, <2>1, <2>2 DEF Lists, Range
<1> HIDE DEF t
<1>8. \A i \in 1..n : g < s[i]
  BY <1>3 DEF Lists
<1>9. \A i, j \in 1..(n + 1) : i < j => t[i] > t[j]
  BY <1>3, <1>5, <1>6, <1>8 DEF Lists
<1>10. \A x \in S \ Range(t), i \in 1..(n + 1) : x < t[i]
  <2> TAKE x \in S \ Range(t), i \in 1..(n + 1)
  <2>1. x \in T /\ x < g
    BY <1>3, <1>7
  <2> QED BY <1>5, <1>6, <2>1 DEF Lists
<1> QED BY <1>4, <1>9, <1>10 DEF Lists

\* There are such lists up to the size of the set.
LEMMA ListsExist ==
    ASSUME NEW m \in Nat, NEW S, S \subseteq 1..m, NEW n \in Nat, n <= Cardinality(S)
    PROVE  \E s : Lists(s, n, S)
<1> DEFINE Bad == {k \in 0..n : \A s : ~Lists(s, k, S)}
<1>1. SUFFICES ASSUME Bad # {} PROVE FALSE
  OBVIOUS
<1>2. PICK k \in Bad : \A j \in Bad : k <= j
  <2>1. Bad \subseteq Nat
    OBVIOUS
  <2> HIDE DEF Bad
  <2> QED BY <1>1, <2>1, LeastNatural
<1>3. Cardinality(S) \in Nat
  BY BoundedFinite
<1>4. k # 0
  <2>1. Lists(<<>>, 0, S)
    BY DEF Lists
  <2> QED BY <2>1
<1>5. k - 1 \in 0..n /\ k - 1 \notin Bad
  BY <1>2, <1>4
<1>6. PICK s : Lists(s, k - 1, S)
  BY <1>5
<1> DEFINE j == k - 1
<1>7. j \in Nat /\ j < Cardinality(S) /\ Lists(s, j, S) /\ j + 1 = k
  BY <1>2, <1>3, <1>4, <1>6
<1> HIDE DEF j
<1>8. \E t : Lists(t, j + 1, S)
  BY <1>7, ListsOneMore
<1> QED BY <1>2, <1>7, <1>8

\* A list of the size of the set has all of it.
LEMMA ListsAll ==
    ASSUME NEW m \in Nat, NEW S, S \subseteq 1..m, NEW s, Lists(s, Cardinality(S), S)
    PROVE  S \subseteq Range(s)
<1>1. IsFiniteSet(S) /\ Cardinality(S) \in Nat
  BY BoundedFinite
<1> DEFINE n == Cardinality(S)
<1>2. IsFiniteSet(1..n) /\ Cardinality(1..n) = n
  BY <1>1, FS_Interval
<1> HIDE DEF n
<1>3. \A i, j \in 1..n : i # j => s[i] # s[j]
  <2> TAKE i, j \in 1..n
  <2> HAVE i # j
  <2>1. n \in Nat
    BY <1>1 DEF n
  <2>2. \A k \in 1..n : s[k] \in S /\ s[k] \in Int
    <3>1. \A x \in S : x \in Int
      OBVIOUS
    <3> QED BY <3>1 DEF Lists, n
  <2>3. i < j \/ j < i
    BY <2>1
  <2>4. s[i] > s[j] \/ s[j] > s[i]
    BY <2>3 DEF Lists, n
  <2> QED BY <2>2, <2>4
<1>4. s \in Injection(1..n, S)
  BY <1>3 DEF Lists, Injection, IsInjective, n
<1>5. s \in Surjection(1..n, S)
  BY <1>1, <1>2, <1>4, FS_Injection DEF n
<1> QED BY <1>5 DEF Surjection, Range, Lists, n

\* What the query returns.
LEMMA NewestLists ==
    ASSUME NEW m \in Nat, NEW S, S \subseteq 1..m
    PROVE  LET n == IF Cardinality(S) < PageSize THEN Cardinality(S) ELSE PageSize
           IN n \in Nat /\ n <= PageSize /\ Lists(NewestFirst(S), n, S)
<1> DEFINE n == IF Cardinality(S) < PageSize THEN Cardinality(S) ELSE PageSize
<1>1. Cardinality(S) \in Nat
  BY BoundedFinite
<1>2. n \in Nat /\ n <= PageSize /\ n <= Cardinality(S)
  BY <1>1, DashboardAssumption
<1>3. NewestFirst(S) = CHOOSE s \in [1..n -> S] :
          /\ \A i, j \in 1..n : i < j => s[i] > s[j]
          /\ \A x \in S \ Range(s), i \in 1..n : x < s[i]
  BY DEF NewestFirst
<1> HIDE DEF n
<1>4. PICK s : Lists(s, n, S)
  BY <1>2, ListsExist
<1>5. Lists(NewestFirst(S), n, S)
  BY <1>3, <1>4 DEF Lists
<1> QED BY <1>2, <1>5 DEF n

\* A page of the log, and the cursor that comes with it.
LEMMA PageIs ==
    ASSUME ids \in Nat, log \subseteq 1..ids, NEW before \in Nat
    PROVE  Stretch(PageOf(before), log, before, CursorOf(PageOf(before)))
<1> DEFINE S == {i \in log : before = NoCursor \/ i < before}
           n == IF Cardinality(S) < PageSize THEN Cardinality(S) ELSE PageSize
           s == NewestFirst(S)
           cursor == CursorOf(s)
<1>1. S \subseteq 1..ids /\ PageOf(before) = s
  BY DEF PageOf
<1>2. n \in Nat /\ n <= PageSize /\ Lists(s, n, S)
  BY <1>1, NewestLists
<1>3. \A x \in S : x \in Nat \ {0} /\ x \in log /\ (before # NoCursor => x < before)
  BY <1>1
<1>4. n = PageSize \/ S \subseteq Range(s)
  BY <1>1, <1>2, ListsAll
<1>5. \A x \in log : before = NoCursor \/ x < before => x \in S
  OBVIOUS
<1> HIDE DEF S, n, s
<1>6. s \in Seq(Nat \ {0}) /\ Len(s) = n /\ DOMAIN s = 1..n /\ \A i \in 1..n : s[i] \in S
  BY <1>2, <1>3 DEF Lists
<1>7. Descends(s)
  BY <1>2, <1>6 DEF Lists, Descends
<1>8. CASE n = PageSize
  <2>1. cursor = s[n] /\ n \in 1..n /\ cursor \in S /\ cursor \in Nat \ {0}
    BY <1>3, <1>6, <1>8, DashboardAssumption DEF CursorOf
  <2>2. \A i \in DOMAIN s : s[i] >= cursor
    BY <1>2, <1>3, <1>6, <2>1 DEF Lists
  <2>3. ASSUME NEW x \in log, before = NoCursor \/ x < before, cursor = NoCursor \/ x >= cursor
        PROVE  x \in Range(s)
    <3>1. x \in S /\ x >= cursor /\ x \in Nat
      BY <1>3, <1>5, <2>1, <2>3 DEF NoCursor
    <3>2. x \notin Range(s) => x < s[n]
      BY <1>2, <2>1, <3>1 DEF Lists
    <3> QED BY <2>1, <3>1, <3>2
  <2>4. before # NoCursor => cursor < before
    BY <1>3, <2>1
  <2> HIDE DEF cursor
  <2>5. \A i \in DOMAIN s : before # NoCursor => s[i] < before
    BY <1>3, <1>6
  <2>6. Stretch(s, log, before, cursor)
    BY <1>6, <1>7, <2>1, <2>2, <2>3, <2>4, <2>5 DEF Stretch
  <2> QED BY <1>1, <2>6 DEF cursor
<1>9. CASE n # PageSize
  <2>1. cursor = NoCursor
    BY <1>6, <1>9 DEF CursorOf
  <2>2. \A x \in log : before = NoCursor \/ x < before => x \in Range(s)
    BY <1>4, <1>5, <1>9
  <2> HIDE DEF cursor
  <2>3. \A i \in DOMAIN s : before # NoCursor => s[i] < before
    BY <1>3, <1>6
  <2>4. Stretch(s, log, before, cursor)
    BY <1>6, <1>7, <2>1, <2>2, <2>3 DEF Stretch, NoCursor
  <2> QED BY <1>1, <2>4 DEF cursor
<1> QED BY <1>8, <1>9

\* The next page goes on where the last one ended.
LEMMA StretchOn ==
    ASSUME NEW e, NEW f, NEW seen, NEW more, NEW c \in Nat \ {0}, NEW d,
           Stretch(e, seen, NoCursor, c), Stretch(f, more, c, d), seen \subseteq more, more \subseteq Nat
    PROVE  Stretch(e \o f, seen, NoCursor, d)
<1> DEFINE g == e \o f
<1>1. e \in Seq(Nat \ {0}) /\ f \in Seq(Nat \ {0}) /\ d \in Nat /\ (d # NoCursor => d < c)
  BY DEF Stretch, NoCursor
<1>2. /\ g \in Seq(Nat \ {0}) /\ Len(g) = Len(e) + Len(f) /\ Len(e) \in Nat /\ Len(f) \in Nat
      /\ DOMAIN g = 1..Len(g) /\ DOMAIN e = 1..Len(e) /\ DOMAIN f = 1..Len(f)
      /\ \A i \in 1..Len(g) : g[i] = IF i <= Len(e) THEN e[i] ELSE f[i - Len(e)]
  BY <1>1
<1> HIDE DEF g
<1>3. \A i \in DOMAIN e : e[i] \in Nat /\ e[i] >= c
  BY <1>1, <1>2 DEF Stretch, NoCursor
<1>4. \A i \in DOMAIN f : f[i] \in Nat /\ f[i] < c /\ (d # NoCursor => f[i] >= d)
  BY <1>1, <1>2 DEF Stretch, NoCursor
<1>5. \A i \in 1..Len(g) : i <= Len(e) => i \in DOMAIN e /\ g[i] = e[i]
  BY <1>2
<1>6. \A i \in 1..Len(g) : ~(i <= Len(e)) => i - Len(e) \in DOMAIN f /\ g[i] = f[i - Len(e)]
  BY <1>2
<1>7. ASSUME NEW i \in 1..Len(g), NEW j \in 1..Len(g), i < j
      PROVE  g[i] > g[j]
  <2>1. CASE j <= Len(e)
    <3>1. i <= Len(e)
      BY <1>2, <1>7, <2>1
    <3>2. e[i] > e[j]
      BY <1>5, <1>7, <2>1, <3>1 DEF Stretch, Descends
    <3> QED BY <1>5, <2>1, <3>1, <3>2
  <2>2. CASE i <= Len(e) /\ ~(j <= Len(e))
    BY <1>3, <1>4, <1>5, <1>6, <2>2
  <2>3. CASE ~(i <= Len(e)) /\ ~(j <= Len(e))
    <3>1. i - Len(e) < j - Len(e)
      BY <1>2, <1>7
    <3>2. f[i - Len(e)] > f[j - Len(e)]
      BY <1>6, <2>3, <3>1 DEF Stretch, Descends
    <3> QED BY <1>6, <2>3, <3>2
  <2>4. i <= Len(e) \/ ~(j <= Len(e))
    BY <1>2, <1>7
  <2> QED BY <2>1, <2>2, <2>3, <2>4
<1>8. \A i \in 1..Len(g) : d # NoCursor => g[i] >= d
  BY <1>1, <1>3, <1>4, <1>5, <1>6
<1>9. \A x \in Range(e) : x \in Range(g)
  <2> TAKE x \in Range(e)
  <2>1. PICK i \in DOMAIN e : e[i] = x
    BY DEF Range
  <2>2. i \in 1..Len(g) /\ g[i] = e[i]
    BY <1>2
  <2> QED BY <1>2, <2>1, <2>2 DEF Range
<1>10. \A x \in Range(f) : x \in Range(g)
  <2> TAKE x \in Range(f)
  <2>1. PICK i \in DOMAIN f : f[i] = x
    BY DEF Range
  <2>2. i + Len(e) \in 1..Len(g) /\ ~(i + Len(e) <= Len(e)) /\ (i + Len(e)) - Len(e) = i
    BY <1>2
  <2>3. g[i + Len(e)] = x
    BY <1>6, <2>1, <2>2
  <2> QED BY <1>2, <2>2, <2>3 DEF Range
<1>11. ASSUME NEW x \in seen, d = NoCursor \/ x >= d PROVE x \in Range(g)
  <2>1. CASE x >= c
    <3>1. x \in Range(e)
      BY <2>1 DEF Stretch
    <3> QED BY <1>9, <3>1
  <2>2. CASE x < c
    <3>1. x \in Range(f)
      BY <1>11, <2>2 DEF Stretch
    <3> QED BY <1>10, <3>1
  <2> QED BY <2>1, <2>2
<1>12. Descends(g)
  BY <1>2, <1>7 DEF Descends
<1>13. Stretch(g, seen, NoCursor, d)
  BY <1>1, <1>2, <1>8, <1>11, <1>12 DEF Stretch, NoCursor
<1> QED BY <1>13 DEF g

\* No question about the audit page is added.
LEMMA FewerPaging ==
    ASSUME Paging, UNCHANGED <<page, ids, log>>, OnAudit(calls') \subseteq OnAudit(calls)
    PROVE  Paging'
BY DEF Paging

\* On another page nothing is said of the log.
LEMMA ElsewherePaging ==
    ASSUME Paging, page'.kind # "audit", UNCHANGED <<ids, log>>
    PROVE  Paging'
BY DEF Paging

\* The calls of a page that goes ask for nothing more of the log.
LEMMA OrphanedPaging ==
    ASSUME NEW cs, \A c \in cs : IsCall(c)
    PROVE  OnAudit(Orphaned(cs)) = {}
<1> DEFINE o(c) == [c EXCEPT !.onPage = c.op = "me"]
           K == {d \in cs : d.op \in {"me", "remove"} \/ (d.op \in {"put", "delete", "create"} /\ d.sent)}
<1>1. ASSUME NEW c \in K
      PROVE  o(c).op # "page"
  BY <1>1 DEF IsCall, Common
<1>2. Orphaned(cs) = {o(c) : c \in K}
  BY DEF Orphaned
<1> HIDE DEF o, K
<1> QED BY <1>1, <1>2 DEF OnAudit

\* A page of the log is asked for.
AsksBelow(n, before) == n.before = before /\ n.ok = FALSE

\* It is the only one asked for.
LEMMA PageIssued ==
    ASSUME NEW cs, Numbered(cs), OnAudit(cs) = {}, NEW before
    PROVE  \E n : OnAudit(Issue(cs, [op |-> "page", before |-> before])) = {n} /\ AsksBelow(n, before)
<1> DEFINE call == [op |-> "page", before |-> before]
<1>1. IsTemplate(call)
  BY DEF IsTemplate, Ops, Carries
<1>2. PICK n : Issue(cs, call) = cs \cup {n} /\ IsNew(n, cs, call)
  BY <1>1, IssueAdds
<1>3. n.op = "page" /\ n.before = before /\ n.ok = FALSE /\ n.onPage = TRUE
  BY <1>2 DEF IsNew
<1> QED BY <1>2, <1>3 DEF OnAudit, AsksBelow

\* The first page is asked for.
LEMMA LoadFirstPaging ==
    ASSUME Sound(page, calls, rows, late), Paging, LoadFirst
    PROVE  Paging'
<1>1. /\ calls' = Issue(Orphaned(calls), [op |-> "page", before |-> NoCursor])
      /\ page'.state = "loading" /\ page'.seen = {}
      /\ UNCHANGED <<ids, log>>
  BY DEF LoadFirst, server
<1>2. OnAudit(Orphaned(calls)) = {}
  BY OrphanedPaging DEF Sound, Base, Numbered
<1>3. Numbered(Orphaned(calls))
  <2>1. Sound(Closed, Orphaned(calls), rows, late)
    BY ClosedPage, OrphanedSound
  <2> QED BY <2>1 DEF Sound, Base
<1>4. PICK n : OnAudit(calls') = {n} /\ AsksBelow(n, NoCursor)
  BY <1>1, <1>2, <1>3, PageIssued
<1> QED BY <1>1, <1>4 DEF Paging, AsksBelow

\* The next page is asked for: none was under way.
LEMMA LoadMorePaging ==
    ASSUME Sound(page, calls, rows, late), Paging, LoadMore
    PROVE  Paging'
<1>1. /\ page.kind = "audit" /\ page.state = "ready" /\ page.cursor # NoCursor /\ page.more # TRUE
      /\ page' = [page EXCEPT !.more = TRUE] /\ UNCHANGED <<ids, log>>
      /\ calls' = Issue(calls, [op |-> "page", before |-> page.cursor])
  BY DEF LoadMore, server
<1>2. OnAudit(calls) = {}
  BY <1>1 DEF Paging
<1>3. DOMAIN page = AuditFields /\ Numbered(calls)
  BY <1>1 DEF Sound, Base, Shaped
<1>4. PICK n : OnAudit(calls') = {n} /\ AsksBelow(n, page.cursor)
  BY <1>1, <1>2, <1>3, PageIssued
<1>5. /\ page'.state = page.state /\ page'.entries = page.entries /\ page'.seen = page.seen
      /\ page'.cursor = page.cursor /\ page'.more = TRUE
  BY <1>1, <1>3 DEF AuditFields
<1>6. page.cursor \in Nat \ {0}
  BY <1>1 DEF Paging, Stretch, NoCursor
<1> QED BY <1>1, <1>4, <1>5, <1>6 DEF Paging, AsksBelow

\* What was seen of the log stays in it.
LEMMA LogGrowsPaging ==
    ASSUME Paging, LogGrows
    PROVE  Paging'
<1>1. UNCHANGED <<page, calls>> /\ log \subseteq log'
  BY DEF LogGrows
<1>2. ids' \in Nat /\ log' \subseteq 1..ids'
  <2>1. ids \in Nat /\ log \subseteq 1..ids
    BY DEF Paging
  <2>2. CASE ids' = ids + 1 /\ log' = log
    BY <2>1, <2>2
  <2>3. CASE \E i \in 1..ids \ log : log' = log \cup {i} /\ ids' = ids
    BY <2>1, <2>3
  <2> QED BY <2>2, <2>3 DEF LogGrows
<1> QED BY <1>1, <1>2 DEF Paging

\* A page of the log arrives, or fails to.
LEMMA PageArrivesPaging ==
    ASSUME Sound(page, calls, rows, late), Paging, NEW c \in calls, NEW a \in Outcomes(c), PageArrives(a)
    PROVE  Paging'
<1>1. Returns(a, c)
  BY ArrivesOnPage
<1>2. /\ c \in OnAudit(calls) /\ page.kind = "audit" /\ calls' = calls \ {c} /\ a.before = c.before
      /\ a.ok \in BOOLEAN /\ (a.ok = TRUE => c.ok = TRUE)
      /\ a.ok = TRUE /\ {"entries", "cursor", "seen"} \subseteq DOMAIN c =>
            a.entries = c.entries /\ a.cursor = c.cursor /\ a.seen = c.seen
      /\ UNCHANGED <<ids, log>>
  BY <1>1 DEF PageArrives, Returns, IsAnswer, BelongsTo, OnAudit, server
<1>3. DOMAIN page = AuditFields /\ Numbered(calls)
  BY <1>2 DEF Sound, Base, Shaped
<1>4. OnAudit(calls') = {}
  BY <1>2, <1>3 DEF Paging, OnAudit, Numbered
<1>5. /\ \/ c.before = NoCursor /\ page.state = "loading"
         \/ c.before = page.cursor /\ c.before \in Nat \ {0} /\ page.state = "ready"
      /\ c.ok = TRUE => /\ {"entries", "cursor", "seen"} \subseteq DOMAIN c
                        /\ Stretch(c.entries, c.seen, c.before, c.cursor)
                        /\ page.seen \subseteq c.seen /\ c.seen \subseteq log
  BY <1>2 DEF Paging
<1>6. page.seen \subseteq log /\ log \subseteq Nat
  BY <1>2 DEF Paging
<1>7. CASE a.ok = TRUE /\ c.before = NoCursor
  <2>1. page' = [page EXCEPT !.state = "ready", !.entries = c.entries, !.cursor = c.cursor, !.seen = c.seen]
    BY <1>2, <1>5, <1>7 DEF PageArrives
  <2>2. page'.state = "ready" /\ page'.entries = c.entries /\ page'.cursor = c.cursor /\ page'.seen = c.seen
    BY <1>3, <2>1 DEF AuditFields
  <2> QED BY <1>2, <1>4, <1>5, <1>7, <2>2 DEF Paging
<1>8. CASE a.ok = TRUE /\ c.before # NoCursor
  <2>1. page' = [page EXCEPT !.entries = page.entries \o c.entries, !.cursor = c.cursor, !.more = FALSE]
    BY <1>2, <1>5, <1>8 DEF PageArrives
  <2>2. /\ page'.state = page.state /\ page'.entries = page.entries \o c.entries
        /\ page'.cursor = c.cursor /\ page'.seen = page.seen
    BY <1>3, <2>1 DEF AuditFields
  <2>3. /\ page.state = "ready" /\ c.before = page.cursor /\ c.before \in Nat \ {0}
        /\ Stretch(c.entries, c.seen, c.before, c.cursor)
    BY <1>2, <1>5, <1>8
  <2>4. Stretch(page.entries, page.seen, NoCursor, c.before)
    BY <1>2, <2>3 DEF Paging
  <2>5. page.seen \subseteq c.seen /\ c.seen \subseteq Nat
    BY <1>2, <1>5, <1>6, <1>8
  <2>6. Stretch(page.entries \o c.entries, page.seen, NoCursor, c.cursor)
    BY <2>3, <2>4, <2>5, StretchOn
  <2> QED BY <1>2, <1>4, <2>2, <2>3, <2>6 DEF Paging
<1>9. CASE a.ok # TRUE /\ c.before = NoCursor
  <2>1. page' = [page EXCEPT !.state = "failed"]
    BY <1>2, <1>9 DEF PageArrives
  <2>2. page'.state = "failed" /\ page'.seen = page.seen
    BY <1>3, <2>1 DEF AuditFields
  <2> QED BY <1>2, <1>4, <2>2 DEF Paging
<1>10. CASE a.ok # TRUE /\ c.before # NoCursor
  <2>1. page' = [page EXCEPT !.more = FALSE]
    BY <1>2, <1>10 DEF PageArrives
  <2>2. /\ page'.state = page.state /\ page'.entries = page.entries
        /\ page'.cursor = page.cursor /\ page'.seen = page.seen
    BY <1>3, <2>1 DEF AuditFields
  <2> QED BY <1>2, <1>4, <2>2 DEF Paging
<1> QED BY <1>7, <1>8, <1>9, <1>10

\* A call that is served takes the place of the call.
LEMMA AnsweredCall ==
    ASSUME Numbered(calls), NEW c \in calls, c.sent = TRUE, NEW fields, DOMAIN fields \subseteq Replies,
           "ok" \in DOMAIN fields => fields.ok \in BOOLEAN, Answered(c, fields)
    PROVE  \E n : /\ calls' = (calls \ {c}) \cup {n} /\ IsCall(n) /\ Serves(n, c)
                  /\ \A f \in DOMAIN fields : f \in DOMAIN n /\ n[f] = fields[f]
<1> DEFINE n == Served(fields, c)
<1>1. IsCall(c)
  BY DEF Numbered
<1>2. calls' = (calls \ {c}) \cup {n}
  BY RestIs DEF Answered, Served
<1>3. IsCall(n) /\ Serves(n, c) /\ \A f \in DOMAIN fields : f \in DOMAIN n /\ n[f] = fields[f]
  BY <1>1, ServedCall
<1> HIDE DEF n
<1> QED BY <1>2, <1>3

\* An answer about an item is none about the log.
LEMMA ItemPaging ==
    ASSUME Numbered(calls), Paging, UNCHANGED <<page, ids, log>>, NEW c \in calls, c.op # "page", NEW n, Serves(n, c),
           calls' = (calls \ {c}) \cup {n}
    PROVE  Paging'
<1>1. OnAudit(calls') \subseteq OnAudit(calls)
  BY DEF OnAudit, Serves
<1> QED BY <1>1, FewerPaging

\* A page is read from the log as it is then.
LEMMA RespondPaging ==
    ASSUME Sound(page, calls, rows, late), Paging, NEW c \in calls, Accept(c) \/ Respond(c) \/ CarryOut(c)
    PROVE  Paging'
<1>1. Numbered(calls) /\ IsCall(c) /\ c.sent = TRUE /\ UNCHANGED <<page, ids, log>>
  BY DEF Sound, Base, Numbered, Accept, Respond, CarryOut, server, IsCall
<1>2. ASSUME NEW fields, DOMAIN fields \subseteq Replies \ {"ok"} \/ fields.ok = TRUE, DOMAIN fields \subseteq Replies,
             Answered(c, fields), c.op # "page"
      PROVE  Paging'
  <2>1. \E n : calls' = (calls \ {c}) \cup {n} /\ IsCall(n) /\ Serves(n, c)
               /\ \A f \in DOMAIN fields : f \in DOMAIN n /\ n[f] = fields[f]
    <3>1. "ok" \in DOMAIN fields => fields.ok \in BOOLEAN
      BY <1>2
    <3> QED BY <1>1, <1>2, <3>1, AnsweredCall
  <2> QED BY <1>1, <1>2, <2>1, ItemPaging
<1>3. CASE Accept(c)
  <2> DEFINE row == [rows[c.env] EXCEPT !.version = c.version + 1, !.value = c.value]
             fields == [ok |-> TRUE, row |-> row]
  <2>1. DOMAIN fields \subseteq Replies /\ fields.ok = TRUE
    BY DEF Replies
  <2>2. Answered(c, fields) /\ c.op # "page"
    BY <1>3 DEF Accept
  <2> HIDE DEF fields
  <2> QED BY <1>2, <2>1, <2>2
<1>4. ASSUME NEW status, c.op \in {"get", "put"}, Answered(c, [status |-> status])
      PROVE  Paging'
  <2> DEFINE fields == [status |-> status]
  <2>1. DOMAIN fields \subseteq Replies \ {"ok"} /\ DOMAIN fields \subseteq Replies /\ Answered(c, fields)
    BY <1>4 DEF Replies
  <2> HIDE DEF fields
  <2> QED BY <1>2, <1>4, <2>1
<1>5. CASE c.op = "get" /\ Answered(c, [ok |-> TRUE, row |-> rows[c.env]])
  <2> DEFINE fields == [ok |-> TRUE, row |-> rows[c.env]]
  <2>1. DOMAIN fields \subseteq Replies /\ fields.ok = TRUE /\ Answered(c, fields)
    BY <1>5 DEF Replies
  <2> HIDE DEF fields
  <2> QED BY <1>2, <1>5, <2>1
<1>6. ASSUME c.op = "page",
             Answered(c, [ok |-> TRUE, entries |-> PageOf(c.before), cursor |-> CursorOf(PageOf(c.before)), seen |-> log])
      PROVE  Paging'
  <2> DEFINE entries == PageOf(c.before)
             cursor == CursorOf(entries)
             fields == [ok |-> TRUE, entries |-> entries, cursor |-> cursor, seen |-> log]
  <2>1. /\ DOMAIN fields = {"ok", "entries", "cursor", "seen"} /\ Answered(c, fields)
        /\ fields.ok = TRUE /\ fields.entries = entries /\ fields.cursor = cursor /\ fields.seen = log
    BY <1>6
  <2> HIDE DEF entries, cursor, fields
  <2>2. PICK n : /\ calls' = (calls \ {c}) \cup {n} /\ IsCall(n) /\ Serves(n, c)
                 /\ \A f \in DOMAIN fields : f \in DOMAIN n /\ n[f] = fields[f]
    <3>1. DOMAIN fields \subseteq Replies /\ fields.ok \in BOOLEAN
      BY <2>1 DEF Replies
    <3> QED BY <1>1, <2>1, <3>1, AnsweredCall
  <2>3. /\ {"entries", "cursor", "seen"} \subseteq DOMAIN n
        /\ n.entries = entries /\ n.cursor = cursor /\ n.seen = log
    BY <2>1, <2>2
  <2>4. n.id = c.id /\ n.onPage = c.onPage /\ n.op = "page" /\ n.before = c.before
    BY <1>6, <2>2 DEF Serves
  <2>5. CASE page.kind = "audit" /\ c.onPage = TRUE
    <3>1. /\ c \in OnAudit(calls) /\ OnAudit(calls') = (OnAudit(calls) \ {c}) \cup {n}
          /\ ids \in Nat /\ log \subseteq 1..ids /\ page.seen \subseteq log
      BY <1>6, <2>2, <2>4, <2>5 DEF OnAudit, Paging
    <3>2. c.before \in Nat /\ \A d \in OnAudit(calls) : d.id = c.id
      BY <2>5, <3>1 DEF Paging, NoCursor
    <3>3. OnAudit(calls') = {n}
      BY <1>1, <3>1, <3>2 DEF Numbered, OnAudit
    <3>4. Stretch(entries, log, c.before, cursor)
      BY <3>1, <3>2, PageIs DEF entries, cursor
    <3>5. \/ c.before = NoCursor /\ page.state = "loading"
          \/ c.before = page.cursor /\ c.before \in Nat \ {0} /\ page.state = "ready" /\ page.more = TRUE
      BY <2>5, <3>1 DEF Paging
    <3>6. Stretch(n.entries, n.seen, n.before, n.cursor) /\ page.seen \subseteq n.seen /\ n.seen \subseteq log
      BY <2>3, <2>4, <3>1, <3>4
    <3> QED BY <1>1, <2>3, <2>4, <2>5, <3>1, <3>3, <3>5, <3>6 DEF Paging
  <2>6. CASE page.kind # "audit"
    BY <1>1, <2>6, ElsewherePaging
  <2>7. CASE c.onPage # TRUE
    <3>1. OnAudit(calls') \subseteq OnAudit(calls)
      BY <2>2, <2>4, <2>7 DEF OnAudit
    <3> QED BY <1>1, <3>1, FewerPaging
  <2> QED BY <2>5, <2>6, <2>7
<1>7. CASE CarryOut(c)
  <2> DEFINE fields == [ok |-> TRUE]
  <2>1. DOMAIN fields \subseteq Replies /\ fields.ok = TRUE /\ Answered(c, fields) /\ c.op # "page"
    BY <1>7 DEF CarryOut, Replies
  <2> HIDE DEF fields
  <2> QED BY <1>2, <2>1
<1> QED BY <1>3, <1>4, <1>5, <1>6, <1>7 DEF Respond

\* An answer to any other call leaves the audit page alone, or finds or leaves another.
LEMMA ArrivesPaging ==
    ASSUME Sound(page, calls, rows, late), Paging, NEW c \in calls, NEW a \in Outcomes(c), Arrives(a)
    PROVE  Paging'
<1>1. Returns(a, c) /\ Numbered(calls) /\ "audit" \notin Kinds
  BY ArrivesOnPage DEF Sound, Base, Kinds
<1>2. Rest(a) = calls \ {c} /\ (a.onPage => BelongsTo(a.op, page))
  BY <1>1 DEF Returns
<1>3. ASSUME UNCHANGED <<page, ids, log>>, calls' = Rest(a)
      PROVE  Paging'
  <2>1. OnAudit(calls') \subseteq OnAudit(calls)
    BY <1>2, <1>3 DEF OnAudit
  <2> QED BY <1>3, <2>1, FewerPaging
<1>4. CASE IdentityArrives(a) \/ DropAnswer(a)
  <2>1. UNCHANGED <<ids, log>> /\ (page' = Closed \/ (page' = page /\ calls' = Rest(a)))
    BY <1>4 DEF IdentityArrives, DropAnswer, server
  <2>2. Closed.kind # "audit"
    BY DEF Closed
  <2> QED BY <1>3, <2>1, <2>2, ElsewherePaging
<1>5. CASE RemoveArrives(a)
  <2>1. UNCHANGED <<ids, log>> /\ (page' = Fresh("project") \/ (page' = page /\ calls' = Rest(a)))
    BY <1>5 DEF RemoveArrives, server
  <2>2. Fresh("project").kind # "audit"
    BY DEF Fresh
  <2> QED BY <1>3, <2>1, <2>2, ElsewherePaging
<1>6. CASE PageArrives(a)
  BY <1>6, PageArrivesPaging
<1>7. CASE EnvironmentsArrive(a) \/ ItemArrives(a) \/ PutArrives(a) \/ ActArrives(a) \/ CreateArrives(a)
  <2>1. page.kind \in Kinds /\ DOMAIN page = PageFields /\ UNCHANGED <<ids, log>>
    BY <1>1, <1>2, <1>7 DEF EnvironmentsArrive, ItemArrives, PutArrives, ActArrives, CreateArrives, BelongsTo,
                            Sound, Base, Shaped, server
  <2>2. page'.kind = page.kind
    <3>1. CASE EnvironmentsArrive(a)
      BY <2>1, <3>1 DEF EnvironmentsArrive, Selected, PageFields
    <3>2. CASE ItemArrives(a)
      <4>1. a.cell \in Cells
        BY <1>1, <3>2 DEF ItemArrives, Returns, IsAnswer
      <4> QED BY <2>1, <3>2, <4>1 DEF ItemArrives, PageFields, Cells
    <3>3. CASE PutArrives(a)
      BY <2>1, <3>3 DEF PutArrives, Reloaded, PageFields
    <3>4. CASE ActArrives(a)
      BY <2>1, <3>4 DEF ActArrives, Reloaded, Opening, PageFields
    <3>5. CASE CreateArrives(a)
      BY <2>1, <3>5 DEF CreateArrives, Reloaded, Opening, PageFields
    <3> QED BY <1>7, <3>1, <3>2, <3>3, <3>4, <3>5
  <2> QED BY <1>1, <2>1, <2>2, ElsewherePaging
<1> QED BY <1>4, <1>5, <1>6, <1>7 DEF Arrives

\* The log is empty to begin with.
LEMMA InitPaging == Init => Paging
BY DEF Init, Paging, Closed

\* Every step of Next.
LEMMA NextPaging ==
    ASSUME Sound(page, calls, rows, late), Paging, [Next]_vars
    PROVE  Paging'
<1>1. Numbered(calls) /\ "audit" \notin Kinds /\ (page.kind \in Kinds => DOMAIN page = PageFields)
  BY DEF Sound, Base, Shaped, Kinds
<1>2. CASE SignOut \/ \E u \in User : SignIn(u)
  <2>1. page' = Closed /\ UNCHANGED <<ids, log>>
    BY <1>2 DEF SignIn, SignOut, server
  <2>2. Closed.kind # "audit"
    BY DEF Closed
  <2> QED BY <2>1, <2>2, ElsewherePaging
<1>3. CASE \E kind \in Kinds : Visit(kind)
  <2>1. PICK kind \in Kinds : page' = Fresh(kind)
    BY <1>3 DEF Visit
  <2>2. page'.kind = kind
    BY <2>1 DEF Fresh
  <2>3. UNCHANGED <<ids, log>>
    BY <1>3 DEF Visit, server
  <2> QED BY <1>1, <2>2, <2>3, ElsewherePaging
<1>4. CASE \/ \E e \in Env : SelectTab(e)
           \/ Retry \/ Open \/ CloseDetail
  <2>1. page.kind \in Kinds /\ UNCHANGED <<ids, log>>
    BY <1>4 DEF SelectTab, Retry, Open, CloseDetail, server, Kinds
  <2>2. page'.kind = page.kind
    <3>1. CASE \E e \in Env : SelectTab(e)
      BY <1>1, <2>1, <3>1 DEF SelectTab, Selected, PageFields
    <3>2. CASE Retry
      BY <1>1, <2>1, <3>2 DEF Retry, MainCell, PageFields
    <3>3. CASE Open
      BY <1>1, <2>1, <3>3 DEF Open, Opening, PageFields
    <3>4. CASE CloseDetail
      BY <1>1, <2>1, <3>4 DEF CloseDetail, PageFields
    <3> QED BY <1>4, <3>1, <3>2, <3>3, <3>4
  <2> QED BY <1>1, <2>1, <2>2, ElsewherePaging
<1>5. CASE \/ Toggle \/ Save \/ DeleteFlag
           \/ \E v \in Values : Edit(v)
           \/ \E verb \in {"change", "delete"} : Act(verb)
           \/ \E what \in {"item", "environment"} : Create(what)
  <2>1. page.kind \in Kinds /\ UNCHANGED <<ids, log>>
    BY <1>5 DEF Toggle, Save, DeleteFlag, Edit, Act, Create, server, Kinds
  <2>2. page'.kind = page.kind
    BY <1>1, <1>5, <2>1 DEF Toggle, Save, DeleteFlag, Edit, Act, Create, PageFields
  <2> QED BY <1>1, <2>1, <2>2, ElsewherePaging
<1>6. CASE LoadFirst \/ LoadMore \/ LogGrows
  BY <1>6, LoadFirstPaging, LoadMorePaging, LogGrowsPaging
<1>7. CASE \E c \in calls : Accept(c) \/ Respond(c) \/ CarryOut(c) \/ \E a \in Outcomes(c) : Arrives(a)
  BY <1>7, RespondPaging, ArrivesPaging
<1>8. CASE UNCHANGED vars \/ \E e \in Env : OtherWrites(e)
  <2>1. UNCHANGED <<page, calls, ids, log>>
    BY <1>8 DEF vars, server, OtherWrites
  <2> QED BY <2>1, FewerPaging
<1> QED BY <1>2, <1>3, <1>4, <1>5, <1>6, <1>7, <1>8 DEF Next

-----------------------------------------------------------------------------
(* Together *)

\* Every step keeps the five.
LEMMA IInvStep == IInv /\ [Next]_vars => IInv'
<1> SUFFICES ASSUME IInv, [Next]_vars PROVE IInv'
  OBVIOUS
<1>1. Whole(page, calls, rows, late) /\ Sound(page, calls, rows, late)
  BY DEF IInv, Whole
<1>2. Whole(page', calls', rows', late')
  BY <1>1, NextWhole
<1>3. Session'
  BY <1>1, NextSession DEF IInv
<1>4. Paging'
  BY <1>1, NextPaging DEF IInv
<1>5. Sound(page, calls, rows, late)' /\ Awaited(page, calls)' /\ Settling(page, calls)'
  BY <1>2 DEF Whole
<1> QED BY <1>3, <1>4, <1>5 DEF IInv

\* So they hold throughout.
LEMMA Invariance == Spec => []IInv
<1>1. Init => IInv
  BY InitWhole, InitSession, InitPaging DEF IInv, Whole
<1> QED BY <1>1, IInvStep, PTL DEF Spec

\* The user shown is the one the calls are made for (state.rs, api.rs): a
\* question for an identity is about the token there is, and is the only one,
\* until a sign-in or a sign-out overtakes it.
THEOREM SessionIsOwnHolds == Spec => []SessionIsOwn
<1>1. IInv => SessionIsOwn
  BY DEF IInv, Session, SessionIsOwn
<1> QED BY <1>1, Invariance, PTL

\* What is drawn as loading (Load::Loading, and FlagDetail's arm for no draft) has
\* an answer to come, whichever calls of earlier environments and pages are still
\* under way; but for a flag page whose every load has failed.
THEOREM SomethingIsAwaitedHolds == Spec => []SomethingIsAwaited
<1>1. IInv => SomethingIsAwaited
  <2> SUFFICES ASSUME IInv PROVE SomethingIsAwaited
    OBVIOUS
  <2>1. resolving => \E c \in calls : c.op = "me"
    BY DEF IInv, Session
  <2>2. Awaited(page, calls) /\ (page.kind \in Kinds => Drafted(page))
    BY DEF IInv, Sound, Base, Shaped
  <2>3. ASSUME page.kind \in Kinds, page.selected # None, NEW cell \in Cells, Skeleton(cell)
        PROVE  Wanted(cell) \/ NeverLoaded
    <3>1. CASE page[cell] = Loading /\ (page.kind = "flag" => cell = "detail")
      BY <2>2, <2>3, <3>1 DEF Awaited, Asked, Wanted
    <3>2. CASE page.kind = "flag" /\ cell = "detail" /\ page.detail # Loading /\ ~page.drafted
      BY <2>2, <2>3, <3>2 DEF Drafted, NeverLoaded
    <3> QED BY <2>3, <3>1, <3>2 DEF Skeleton
  <2> QED BY <2>1, <2>3 DEF Cells, SomethingIsAwaited
<1> QED BY <1>1, Invariance, PTL

\* A switch that moved before its write was answered (project.rs, toggle) is
\* confirmed, rolled back or fetched again before the calls are all answered.
THEOREM OptimismSettlesHolds == Spec => []OptimismSettles
<1>1. IInv => OptimismSettles
  BY DEF IInv, Settling, Written, OptimismSettles
<1> QED BY <1>1, Invariance, PTL

\* A write the server accepts for its version goes to the environment it was
\* read from, unless an answer for one environment was shown under another; and
\* then, as long as the row lives, it replaces the very row the operator was
\* shown (Draft, toggle, SegmentBody against UPDATE ... WHERE version).
THEOREM OverwritesOnlyWhatItReadHolds == Spec => OverwritesOnlyWhatItRead
<1> DEFINE Meant == \A c \in calls : Accept(c) =>
                      /\ late \/ c.from = c.env
                      /\ c.from = c.env /\ c.base.life = rows[c.env].life => c.base = rows[c.env]
<1>1. IInv => Meant
  <2> SUFFICES ASSUME IInv, NEW c \in calls, Accept(c)
               PROVE  /\ late \/ c.from = c.env
                      /\ c.from = c.env /\ c.base.life = rows[c.env].life => c.base = rows[c.env]
    OBVIOUS
  <2>1. ReadCall(c, rows, late) /\ late \in BOOLEAN
    BY DEF IInv, Sound
  <2>2. ReadPut(c, rows, late) /\ rows[c.env].version = c.version
    BY <2>1 DEF ReadCall, Accept
  <2> QED BY <2>1, <2>2 DEF ReadPut, Known
<1>2. IInv /\ [Next]_vars => [Meant]_vars
  BY <1>1
<1> QED BY <1>2, Invariance, PTL DEF Spec, OverwritesOnlyWhatItRead

\* Paging the audit log by keyset (audit.rs): newest first, each entry once, and
\* every entry there was when the first page was read, down to the cursor,
\* whatever is committed between the pages and in whatever order.
THEOREM PagesCoverTheLogHolds == Spec => []PagesCoverTheLog
<1>1. IInv => PagesCoverTheLog
  BY DEF IInv, Paging, Stretch, Descends, PagesCoverTheLog
<1> QED BY <1>1, Invariance, PTL
=============================================================================
