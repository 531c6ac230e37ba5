------------------------------ MODULE Dashboard ------------------------------
(***************************************************************************)
(* The dashboard (crates/web): one browser tab, the calls it has in flight *)
(* and what their answers do to the page they arrive on.                   *)
(*                                                                         *)
(* Every page that belongs to a project works the same way: it fetches the *)
(* environments, selects one, and shows what it fetched for the selected   *)
(* environment in a list, in an opened detail, or in both. Calls are       *)
(* spawned tasks: their answers come in any order and are written into the *)
(* page's signals when they come. Of what is shown this module keeps one   *)
(* item per environment: its value, its version, and which life of its key *)
(* it belongs to, since a key that is deleted and created again starts     *)
(* over at version 1.                                                      *)
(***************************************************************************)
EXTENDS Integers, FiniteSets, Sequences, Functions

CONSTANTS
    Env, Production,  \* a project's environments and the one opened first
    User,
    PageSize,         \* entries on a page of the audit log
    MaxClicks, MaxOthers, MaxCalls, MaxLog

ASSUME DashboardAssumption ==
    /\ Production \in Env
    /\ PageSize \in Nat \ {0}
    /\ {MaxClicks, MaxOthers, MaxCalls, MaxLog} \subseteq Nat

VARIABLES
    \* Session
    token, identity, resolving,
    \* The page on screen
    page,
    \* Calls in flight: sent, or served and on their way back
    calls,
    \* The server: each environment's item, and the audit log: ids handed out
    \* and ids committed
    rows, ids, log,
    \* How often the operator clicked, and others changed something
    clicks, others,
    \* What the properties remember: an answer was shown under another
    \* environment than its own; a sign-in or sign-out overtook a call for the
    \* identity of an earlier token
    late, overtaken

session == <<token, identity, resolving>>
server == <<rows, ids, log>>
vars == <<session, page, calls, server, clicks, others, late, overtaken>>

None == "none"
NoCursor == 0
Kinds == {"project", "flag", "segments", "experiments", "keys"}
Values == {0, 1}

-------------------------------------------------------------------------------
(* What a page holds. A cell is a Load: loading, failed, or ready with the *)
(* item, where base is what was read and shown is what is on screen (a     *)
(* draft, or a switch that moved before its write was answered).           *)

Absent == [state |-> "absent"]
Loading == [state |-> "loading"]
Failed == [state |-> "failed"]

Blank == [state |-> "empty"]

Ready(e, row) == [state |-> "ready", env |-> e, base |-> row, shown |-> row.value]

\* A row; version 0 says there is none.
Exists(row) == row.version # 0

\* A list has the item or lacks it.
Fetched(e, row) == IF Exists(row) THEN Ready(e, row) ELSE Blank

Closed == [kind |-> "closed"]
Fresh(kind) ==
    [kind |-> kind, envs |-> "loading", selected |-> None, saving |-> FALSE, opened |-> FALSE,
     drafted |-> FALSE,   \* the flag page: there is a draft, of whichever environment
     list |-> IF kind = "project" THEN Blank ELSE Loading,
     detail |-> IF kind = "flag" THEN Loading ELSE Absent]

\* The cell that follows the selected environment.
MainCell(kind) == IF kind = "flag" THEN "detail" ELSE "list"

\* The given fields, and those of a record that are not among them.
Over(fields, record) ==
    [f \in DOMAIN fields \cup DOMAIN record |-> IF f \in DOMAIN fields THEN fields[f] ELSE record[f]]

\* A call takes the lowest free number; onPage says whether the page that
\* spawned it is still there to receive the answer.
Issue(cs, call) ==
    cs \cup {Over(call, [id |-> CHOOSE i \in 1..(Cardinality(cs) + 1) : \A c \in cs : c.id # i,
                          sent |-> TRUE, onPage |-> TRUE, ok |-> FALSE, status |-> 0])}

Get(cell, e) == [op |-> "get", cell |-> cell, env |-> e]

\* The calls of a page that goes: their answers find nobody. Only those that can
\* still change something else are kept: the session's, and writes under way.
Orphaned(cs) ==
    {[c EXCEPT !.onPage = c.op = "me"] :
        c \in {d \in cs : d.op \in {"me", "remove"} \/ (d.op \in {"put", "delete", "create"} /\ d.sent)}}
\* An answer c takes its call out.
Rest(c) == {d \in calls : d.id # c.id}

Click == clicks < MaxClicks /\ clicks' = clicks + 1
Navigate == IF page = Closed THEN UNCHANGED clicks ELSE Click   \* the first page is free
Room(cs) == Cardinality(cs) <= MaxCalls

\* can_write and can_administer: only once the identity is known.
MayWrite == identity # None

-------------------------------------------------------------------------------
(* Session.                                                                *)

\* refresh_identity: ask who the token belongs to.
AskIdentity(cs, t) == Issue(cs, [op |-> "me", token |-> t])

\* login or register answered with a token: the operator was signed out, or a
\* stored token was still being checked.
SignIn(u) ==
    /\ page = Closed /\ (token = None \/ resolving) /\ u # token
    /\ Click
    /\ overtaken' = (overtaken \/ \E c \in calls : c.op = "me")
    /\ token' = u /\ resolving' = TRUE
    /\ calls' = AskIdentity(calls, u) /\ Room(calls')
    /\ UNCHANGED <<identity, page, server, others, late>>

\* Mutant: the identity stays.
SignOutKeepsIdentity == token' = None /\ resolving' = FALSE /\ UNCHANGED identity

SignedOut == token' = None /\ identity' = None /\ resolving' = FALSE

\* The operator signs out; the guarded pages go.
SignOut ==
    /\ token # None /\ Click
    /\ SignedOut
    /\ page' = Closed
    /\ calls' = Orphaned(calls)
    /\ overtaken' = (overtaken \/ \E c \in calls : c.op = "me")
    /\ UNCHANGED <<server, others, late>>

\* The answer to refresh_identity, whoever is signed in by now.
IdentityArrives(c) ==
    /\ c.op = "me"
    /\ \/ c.ok /\ identity' = c.token /\ resolving' = FALSE /\ UNCHANGED <<token, page>>
       \/ c.status = 401 /\ SignedOut /\ page' = Closed
       \/ ~c.ok /\ c.status # 401 /\ resolving' = FALSE /\ UNCHANGED <<token, identity, page>>
    /\ calls' = IF page' = page THEN Rest(c) ELSE Orphaned(Rest(c))
    /\ UNCHANGED <<server, clicks, others, late, overtaken>>

-------------------------------------------------------------------------------
(* Moving between pages and environments.                                  *)

\* A page opens: the environments are asked for; until one is selected there
\* is nothing else to fetch.
Visit(kind) ==
    /\ token # None /\ Navigate
    /\ page' = Fresh(kind)
    /\ calls' = Issue(Orphaned(calls), [op |-> "envs"]) /\ Room(calls')
    /\ UNCHANGED <<session, server, others, late, overtaken>>

\* Mutant: a segment that is open stays open.
SelectedKeepsDraft(p, e) ==
    [p EXCEPT !.selected = e, !.opened = FALSE,
              !.list = IF p.kind = "flag" THEN @ ELSE Loading,
              !.detail = IF p.kind = "flag" THEN Loading ELSE @]

\* Mutant: a list that is shown stays until the next arrives.
SelectedKeepsList(p, e) ==
    [p EXCEPT !.selected = e, !.opened = FALSE,
              !.detail = CASE p.kind = "flag" -> Loading
                           [] p.kind \in {"segments", "experiments"} -> Absent
                           [] OTHER -> @]

\* What selecting environment e does to page p: what was shown for the old one
\* goes, and the new one is fetched.
Selected(p, e) ==
    [p EXCEPT !.selected = e, !.opened = FALSE,
              !.list = IF p.kind = "flag" THEN @ ELSE Loading,
              !.detail = CASE p.kind = "flag" -> Loading
                           [] p.kind \in {"segments", "experiments"} -> Absent
                           [] OTHER -> @]

\* The operator picks another tab.
SelectTab(e) ==
    /\ page.kind \in Kinds /\ page.envs = "ready" /\ e # page.selected /\ Click
    /\ page' = Selected(page, e)
    /\ calls' = Issue(calls, Get(MainCell(page.kind), e)) /\ Room(calls')
    /\ UNCHANGED <<session, server, others, late, overtaken>>

\* The environments arrive: production first, when there is one.
EnvironmentsArrive(c) ==
    /\ c.op = "envs" /\ c.onPage
    /\ IF c.ok
       THEN /\ page' = [Selected(page, Production) EXCEPT !.envs = "ready"]
            /\ calls' = Issue(Rest(c), Get(MainCell(page.kind), Production))
       ELSE /\ page' = [page EXCEPT !.envs = "failed"]
            /\ calls' = Rest(c)
    /\ UNCHANGED <<session, server, clicks, others, late, overtaken>>

\* A fetched item arrives and is shown, whichever environment is selected by
\* now. A segment that could not be opened leaves the editor as it was.
ItemArrives(c) ==
    /\ c.op = "get" /\ c.onPage
    /\ page' = CASE c.ok -> [page EXCEPT ![c.cell] = Fetched(c.env, c.row),
                                         !.drafted = @ \/ page.kind = "flag"]
                 [] ~c.ok /\ page.kind = "segments" /\ c.cell = "detail" -> page
                 [] OTHER -> [page EXCEPT ![c.cell] = Failed]
    /\ late' = (late \/ (c.ok /\ c.env # page.selected))
    /\ calls' = Rest(c)
    /\ UNCHANGED <<session, server, clicks, others, overtaken>>

\* What is drawn as still loading: a cell that is, and the flag page for as long
\* as it has no draft, even after its load has failed.
Skeleton(cell) ==
    IF page.kind = "flag" THEN cell = "detail" /\ (page.detail = Loading \/ ~page.drafted)
                          ELSE page[cell] = Loading

\* The retry a failed list or flag offers, where the failure is what is drawn.
Retry ==
    LET cell == MainCell(page.kind) IN
    /\ page.kind \in Kinds /\ page.selected # None /\ page[cell] = Failed /\ ~Skeleton(cell) /\ Click
    /\ page' = [page EXCEPT ![cell] = Loading]
    /\ calls' = Issue(calls, Get(cell, page.selected)) /\ Room(calls')
    /\ UNCHANGED <<session, server, others, late, overtaken>>

\* An experiment's results are waited for; a segment's editor appears with it.
Opening(p) ==
    IF p.kind = "experiments" THEN [p EXCEPT !.detail = Loading, !.opened = TRUE] ELSE p

\* Opening a segment or an experiment fetches it.
Open ==
    /\ page.kind \in {"segments", "experiments"} /\ Click
    /\ page.list.state = "ready" \/ (page.opened /\ page.detail = Failed)
    /\ page' = Opening(page)
    /\ calls' = Issue(calls, Get("detail", page.selected)) /\ Room(calls')
    /\ UNCHANGED <<session, server, others, late, overtaken>>

\* The editor or the results panel is closed.
CloseDetail ==
    /\ page.kind \in {"segments", "experiments"} /\ page.detail.state = "ready" /\ Click
    /\ page' = [page EXCEPT !.detail = Absent, !.opened = FALSE]
    /\ UNCHANGED <<session, calls, server, others, late, overtaken>>

-------------------------------------------------------------------------------
(* Writing.                                                                *)

\* A write of what cell shows: it names the selected environment and the
\* version the cell was read at. What it was read from is remembered.
Put(p, cell, value) ==
    [op |-> "put", env |-> p.selected, value |-> value, version |-> cell.base.version,
     from |-> cell.env, base |-> cell.base]

\* The switch in the flag list: it moves now and is written after.
Toggle ==
    LET next == 1 - page.list.shown IN
    /\ page.kind = "project" /\ page.list.state = "ready" /\ MayWrite /\ Click
    /\ page' = [page EXCEPT !.list.shown = next]
    /\ calls' = Issue(calls, Put(page, page.list, next)) /\ Room(calls')
    /\ UNCHANGED <<session, server, others, late, overtaken>>

\* The switch, the rules, their conditions and segments, the rollout, the
\* membership lists: any control of an editor changes the draft.
Edit(v) ==
    /\ page.kind \in {"flag", "segments"} /\ page.detail.state = "ready" /\ v # page.detail.shown
    /\ MayWrite /\ Click
    /\ page' = [page EXCEPT !.detail.shown = v]
    /\ UNCHANGED <<session, calls, server, others, late, overtaken>>

\* Save: one at a time, and on the flag page only what differs from what was loaded.
Save ==
    /\ page.kind \in {"flag", "segments"} /\ page.detail.state = "ready" /\ ~page.saving
    /\ MayWrite /\ Click
    /\ page.kind = "flag" => page.detail.shown # page.detail.base.value
    /\ page' = [page EXCEPT !.saving = TRUE]
    /\ calls' = Issue(calls, Put(page, page.detail, page.detail.shown)) /\ Room(calls')
    /\ UNCHANGED <<session, server, others, late, overtaken>>

\* Starting, stopping, deleting, revoking: a write that carries no version.
Act(verb) ==
    /\ page.kind \in {"segments", "experiments", "keys"} /\ MayWrite /\ Click
    /\ \/ verb = "change" /\ page.kind # "segments" /\ page.list.state = "ready"
       \/ verb = "delete" /\ page.kind # "keys" /\ page.detail.state = "ready"
    /\ calls' = Issue(calls, [op |-> verb, env |-> page.selected,
                              from |-> IF verb = "delete" THEN page.detail.env ELSE page.list.env])
    /\ Room(calls')
    /\ UNCHANGED <<session, page, server, others, late, overtaken>>

\* A form: a new flag, segment, experiment or key, or a new environment.
Create(what) ==
    /\ page.kind \in Kinds \ {"flag"} /\ MayWrite /\ Click
    /\ \/ what = "item" /\ (page.kind # "project" => page.selected # None)
       \/ what = "environment" /\ page.kind = "project" /\ page.envs = "ready"
    /\ calls' = Issue(calls, [op |-> "create", what |-> what,
                              at |-> CASE what = "environment" -> {}
                                       [] page.kind = "project" -> Env
                                       [] OTHER -> {page.selected}]) /\ Room(calls')
    /\ UNCHANGED <<session, page, server, others, late, overtaken>>

\* The flag page's danger zone.
DeleteFlag ==
    /\ page.kind = "flag" /\ page.detail.state = "ready" /\ MayWrite /\ Click
    /\ calls' = Issue(calls, [op |-> "remove"]) /\ Room(calls')
    /\ UNCHANGED <<session, page, server, others, late, overtaken>>

\* load_flags, load_segments, ... called again from an answer: for the
\* environment selected now.
Reloaded(p) == [p EXCEPT !.list = Loading]

\* Mutant: the list is emptied and nobody asks for it.
ReloadForgotten(cs, p) == cs

Reload(cs, p) == Issue(cs, Get("list", p.selected))

\* Mutant: a refused toggle is reported and nothing more.
PutArrivesNoRollback(c) ==
    LET rest == Rest(c)
        saved == Ready(c.env, c.row)
        shown == /\ c.ok
                 /\ page.kind = "project" => page.list.state = "ready"
    IN /\ c.op = "put" /\ c.onPage
       /\ page' = IF page.kind = "project" /\ shown THEN [page EXCEPT !.list = saved] ELSE page
       /\ calls' = rest
       /\ late' = (late \/ (shown /\ c.env # page.selected))
       /\ UNCHANGED <<session, server, clicks, others, overtaken>>

\* The answer to a versioned write.
PutArrives(c) ==
    LET rest == Rest(c)
        saved == Ready(c.env, c.row)
        shown == /\ c.ok
                 /\ page.kind = "project" => page.list.state = "ready"
    IN /\ c.op = "put" /\ c.onPage
       /\ \/ /\ page.kind = "project"
             /\ IF c.ok THEN /\ page' = IF shown THEN [page EXCEPT !.list = saved] ELSE page
                             /\ calls' = rest
                        ELSE page' = Reloaded(page) /\ calls' = Reload(rest, page)
          \/ /\ page.kind = "flag"
             /\ page' = IF c.ok THEN [page EXCEPT !.saving = FALSE, !.detail = saved, !.drafted = TRUE]
                                ELSE [page EXCEPT !.saving = FALSE]
             /\ calls' = rest
          \/ /\ page.kind = "segments"
             /\ page' = IF c.ok THEN [Reloaded(page) EXCEPT !.saving = FALSE, !.detail = saved]
                                ELSE [page EXCEPT !.saving = FALSE]
             /\ calls' = CASE c.ok -> Reload(rest, page)
                           [] ~c.ok /\ c.status = 409 -> Issue(rest, Get("detail", page.selected))
                           [] OTHER -> rest
       /\ late' = (late \/ (shown /\ c.env # page.selected))
       /\ UNCHANGED <<session, server, clicks, others, overtaken>>

\* The answer to the others: the list is fetched again; a deleted item is no
\* longer open, a started or stopped experiment that is open is fetched too.
ActArrives(c) ==
    LET rest == Rest(c)
        again == c.op = "change" /\ page.opened
    IN /\ c.op \in {"change", "delete"} /\ c.onPage
       /\ IF c.ok
          THEN /\ page' = CASE c.op = "delete" -> [Reloaded(page) EXCEPT !.detail = Absent, !.opened = FALSE]
                            [] again -> Opening(Reloaded(page))
                            [] OTHER -> Reloaded(page)
               /\ calls' = IF again THEN Issue(Reload(rest, page), Get("detail", page.selected))
                                    ELSE Reload(rest, page)
          ELSE page' = page /\ calls' = rest
       /\ UNCHANGED <<session, server, clicks, others, late, overtaken>>

\* on_created: what a page fetches again when its form has succeeded.
CreateArrives(c) ==
    LET rest == Rest(c)
    IN /\ c.op = "create" /\ c.onPage
       /\ \/ ~c.ok /\ page' = page /\ calls' = rest
          \/ /\ c.ok /\ c.what = "environment"
             /\ page' = [page EXCEPT !.envs = "loading"]
             /\ calls' = Issue(rest, [op |-> "envs"])
          \/ /\ c.ok /\ c.what = "item" /\ page.selected = None
             /\ page' = [page EXCEPT !.list = Blank]
             /\ calls' = rest
          \/ /\ c.ok /\ c.what = "item" /\ page.selected # None
             /\ page' = Opening(Reloaded(page))
             /\ calls' = IF page.kind \in {"segments", "experiments"}
                         THEN Issue(Reload(rest, page), Get("detail", page.selected))
                         ELSE Reload(rest, page)
       /\ UNCHANGED <<session, server, clicks, others, late, overtaken>>

\* The flag is deleted: the browser goes to its project, from wherever the
\* operator is by now.
RemoveArrives(c) ==
    LET rest == Rest(c)
        leaves == c.ok /\ token # None /\ page.kind # "project"
    IN /\ c.op = "remove"
       /\ page' = IF leaves THEN Fresh("project") ELSE page
       /\ calls' = IF leaves THEN Issue(Orphaned(rest), [op |-> "envs"]) ELSE rest
       /\ UNCHANGED <<session, server, clicks, others, late, overtaken>>

\* An answer whose page is gone changes nothing on screen.
DropAnswer(c) ==
    /\ ~c.onPage /\ c.op # "remove"
    /\ calls' = Rest(c)
    /\ UNCHANGED <<session, page, server, clicks, others, late, overtaken>>

-------------------------------------------------------------------------------
(* The audit page: newest first, a page at a time, by keyset.              *)

\* ORDER BY id DESC LIMIT: the newest of a set of ids, newest first.
NewestFirst(older) ==
    LET size == IF Cardinality(older) < PageSize THEN Cardinality(older) ELSE PageSize
    IN CHOOSE s \in [1..size -> older] :
          /\ \A i, j \in 1..size : i < j => s[i] > s[j]
          /\ \A x \in older \ Range(s), i \in 1..size : x < s[i]

\* Mutant: the cursor is part of the next page.
PageOfInclusive(before) == NewestFirst({i \in log : before = NoCursor \/ i <= before})

\* The newest ids below a bound, and the cursor the server returns with them.
PageOf(before) == NewestFirst({i \in log : before = NoCursor \/ i < before})

CursorOf(entries) == IF Len(entries) = PageSize THEN entries[PageSize] ELSE NoCursor

\* The page opens, or a failed first page is tried again.
LoadFirst ==
    /\ token # None /\ (page.kind = "audit" => page.state = "failed") /\ Navigate
    /\ page' = [kind |-> "audit", state |-> "loading", entries |-> <<>>, cursor |-> NoCursor,
                more |-> FALSE, seen |-> {}]
    /\ calls' = Issue(Orphaned(calls), [op |-> "page", before |-> NoCursor]) /\ Room(calls')
    /\ UNCHANGED <<session, server, others, late, overtaken>>

LoadMore ==
    /\ page.kind = "audit" /\ page.state = "ready" /\ page.cursor # NoCursor /\ ~page.more /\ Click
    /\ page' = [page EXCEPT !.more = TRUE]
    /\ calls' = Issue(calls, [op |-> "page", before |-> page.cursor]) /\ Room(calls')
    /\ UNCHANGED <<session, server, others, late, overtaken>>

\* A page of the log arrives; a page that could not be fetched leaves the
\* cursor for another try.
PageArrives(c) ==
    /\ c.op = "page" /\ c.onPage
    /\ page' = CASE c.ok /\ c.before = NoCursor ->
                      [page EXCEPT !.state = "ready", !.entries = c.entries, !.cursor = c.cursor, !.seen = c.seen]
                 [] c.ok /\ c.before # NoCursor ->
                      [page EXCEPT !.entries = @ \o c.entries, !.cursor = c.cursor, !.more = FALSE]
                 [] ~c.ok /\ c.before = NoCursor -> [page EXCEPT !.state = "failed"]
                 [] OTHER -> [page EXCEPT !.more = FALSE]
    /\ calls' = Rest(c)
    /\ UNCHANGED <<session, server, clicks, others, late, overtaken>>

\* The log grows while it is looked at, which is when it matters: ids are
\* handed out in order and committed in any.
LogGrows ==
    /\ page.kind = "audit"
    /\ \/ ids < MaxLog /\ ids' = ids + 1 /\ log' = log
       \/ \E i \in 1..ids \ log : log' = log \cup {i} /\ ids' = ids
    /\ UNCHANGED <<session, page, calls, rows, clicks, others, late, overtaken>>

-------------------------------------------------------------------------------
(* The server, as far as the answers differ, and the network in between.   *)

Answered(c, fields) == calls' = Rest(c) \cup {Over(fields, [c EXCEPT !.sent = FALSE])}

\* The rows of E go; a key that is created again begins a new life.
Drops(E) ==
    rows' = [e \in Env |-> IF e \in E THEN [life |-> rows[e].life + 1, version |-> 0, value |-> 0]
                                      ELSE rows[e]]

\* Those of E there are not come into being, at version 1.
Begins(E) ==
    rows' = [e \in Env |-> IF e \in E /\ ~Exists(rows[e]) THEN [rows[e] EXCEPT !.version = 1] ELSE rows[e]]

\* A versioned write that finds the version it names.
Accept(c) ==
    LET row == [rows[c.env] EXCEPT !.version = c.version + 1, !.value = c.value]
    IN /\ c.op = "put" /\ c.sent
       /\ rows[c.env].version = c.version
       /\ rows' = [rows EXCEPT ![c.env] = row]
       /\ Answered(c, [ok |-> TRUE, row |-> row])
       /\ UNCHANGED <<session, page, ids, log, clicks, others, late, overtaken>>

\* The other answers that depend on what the server holds.
Respond(c) ==
    /\ c.sent
    /\ \/ /\ c.op = "put" /\ rows[c.env].version # c.version
          /\ Answered(c, [status |-> IF Exists(rows[c.env]) THEN 409 ELSE 404])
       \/ /\ c.op = "get"
          /\ IF c.cell = "list" \/ Exists(rows[c.env])
             THEN Answered(c, [ok |-> TRUE, row |-> rows[c.env]])
             ELSE Answered(c, [status |-> 404])
       \/ /\ c.op = "page"
          /\ LET entries == PageOf(c.before)
             IN Answered(c, [ok |-> TRUE, entries |-> entries, cursor |-> CursorOf(entries), seen |-> log])
    /\ UNCHANGED <<session, page, server, clicks, others, late, overtaken>>

\* A deletion, a flag's in all environments, or a creation, which may be of
\* another key than the one that is kept here.
CarryOut(c) ==
    /\ c.sent
    /\ \/ c.op = "delete" /\ Exists(rows[c.env]) /\ Drops({c.env})
       \/ c.op = "remove" /\ Drops({e \in Env : Exists(rows[e])})
       \/ c.op = "create" /\ (Begins(c.at) \/ UNCHANGED rows)
    /\ Answered(c, [ok |-> TRUE])
    /\ UNCHANGED <<session, page, ids, log, clicks, others, late, overtaken>>

\* What may arrive of a call: its answer, when it was served; the outcome of
\* one that reads and writes nothing kept here; or nothing but a network failure
\* (status 0), whether or not the server had acted on it.
Outcomes(c) ==
    {[c EXCEPT !.ok = FALSE, !.status = 0]}
        \cup (IF c.sent THEN {} ELSE {c})
        \cup (IF c.op \in {"me", "envs", "change"} THEN {[c EXCEPT !.ok = TRUE]} ELSE {})
        \cup (IF c.op = "me" THEN {[c EXCEPT !.status = 401]} ELSE {})

\* Another operator writes, deletes or creates.
OtherWrites(e) ==
    /\ others < MaxOthers /\ others' = others + 1
    /\ \/ /\ Exists(rows[e])
          /\ rows' = [rows EXCEPT ![e].version = @ + 1, ![e].value = 1 - @]
       \/ Exists(rows[e]) /\ Drops({e})
       \/ ~Exists(rows[e]) /\ Begins({e})
    /\ UNCHANGED <<session, page, calls, ids, log, clicks, late, overtaken>>

-------------------------------------------------------------------------------
\* The tab is loaded, with or without a stored token.
Init ==
    /\ token \in User \cup {None} /\ identity = None /\ resolving = (token # None)
    /\ page = Closed
    /\ calls = IF token = None THEN {} ELSE AskIdentity({}, token)
    /\ rows = [e \in Env |-> [life |-> 1, version |-> 1, value |-> 0]]
    /\ ids = 0 /\ log = {}
    /\ clicks = 0 /\ others = 0 /\ late = FALSE /\ overtaken = FALSE

Arrives(c) ==
    \/ IdentityArrives(c) \/ EnvironmentsArrive(c) \/ ItemArrives(c) \/ PutArrives(c)
    \/ ActArrives(c) \/ CreateArrives(c) \/ RemoveArrives(c) \/ PageArrives(c) \/ DropAnswer(c)

Next ==
    \/ \E u \in User : SignIn(u)
    \/ SignOut
    \/ \E kind \in Kinds : Visit(kind)
    \/ \E e \in Env : SelectTab(e) \/ OtherWrites(e)
    \/ Retry \/ Open \/ CloseDetail \/ Toggle \/ Save \/ DeleteFlag
    \/ \E v \in Values : Edit(v)
    \/ \E verb \in {"change", "delete"} : Act(verb)
    \/ \E what \in {"item", "environment"} : Create(what)
    \/ LoadFirst \/ LoadMore \/ LogGrows
    \/ \E c \in calls : Accept(c) \/ Respond(c) \/ CarryOut(c) \/ \E answer \in Outcomes(c) : Arrives(answer)

Spec == Init /\ [][Next]_vars

-------------------------------------------------------------------------------
(* Properties.                                                             *)

\* A write that is accepted is meant for the environment it goes to (the version
\* is per environment, so a draft that outlived a change of tab could pass the
\* check by coincidence), unless an answer for one environment was shown under
\* another; and then it replaces what the operator was shown, within a row's
\* life (the version does not tell a row from an earlier one of the same key).
OverwritesOnlyWhatItRead ==
    [][\A c \in calls : Accept(c) =>
          /\ late \/ c.from = c.env
          /\ c.from = c.env /\ c.base.life = rows[c.env].life => c.base = rows[c.env]]_vars

\* What README.md says of the same writes, without the exceptions: losing a
\* race is "never a silent overwrite".
NeverSilentOverwrite ==
    [][\A c \in calls : Accept(c) => c.from = c.env /\ c.base = rows[c.env]]_vars

\* When nothing is in flight the flag list shows what it last read: a switch
\* that moved before its write was answered has been confirmed or rolled back.
OptimismSettles ==
    page.kind = "project" /\ page.list.state = "ready" /\ calls = {} =>
        page.list.shown = page.list.base.value

\* The page is waiting for what cell is to show.
Wanted(cell) == \E c \in calls : c.op = "get" /\ c.cell = cell /\ c.onPage

\* No flag was ever loaded and the last attempt failed.
NeverLoaded == page.kind = "flag" /\ ~page.drafted /\ page.detail = Failed

\* The login page stays until the new token is confirmed, and a page with a
\* selected environment shows its skeleton, only while the answer is still to
\* come; but for a flag page whose every load has failed so far.
SomethingIsAwaited ==
    /\ resolving => \E c \in calls : c.op = "me"
    /\ page.kind \in Kinds /\ page.selected # None =>
         \A cell \in {"list", "detail"} : Skeleton(cell) => Wanted(cell) \/ NeverLoaded

\* What README.md says, without the exception: loading and failed are
\* "different screens".
SkeletonsAreLoading ==
    page.kind \in Kinds /\ page.selected # None =>
         \A cell \in {"list", "detail"} : Skeleton(cell) => Wanted(cell)

\* The user shown is the one whose token the calls carry, unless a sign-in or
\* a sign-out overtook the question for an earlier token.
SessionIsOwn == ~overtaken => identity \in {None, token}

\* Paging by keyset: newest first, each entry once, and none of the entries
\* there were when the first page was read is skipped, whatever is committed
\* meanwhile.
PagesCoverTheLog ==
    page.kind = "audit" /\ page.state = "ready" =>
        /\ \A i, j \in DOMAIN page.entries : i < j => page.entries[i] > page.entries[j]
        /\ \A i \in page.seen : (page.cursor = NoCursor \/ i >= page.cursor) => i \in Range(page.entries)

===============================================================================
