---------------------------- MODULE EventPipeline ----------------------------
(***************************************************************************)
(* Experiment events from the SDK to the counters: the SDK's Recorder and  *)
(* flush_events (crates/sdk/src/{events,client}.rs), the POST in between,  *)
(* POST /api/v1/events and ingest_counters (crates/api/src/routes/         *)
(* events.rs, crates/storage/src/experiments.rs) and the experiments'      *)
(* life cycle draft -> running -> stopped.                                 *)
(*                                                                         *)
(* Data: a count of n is the set of the n events it stands for, so that    *)
(* lost and doubled ones can be told apart; a cell of the Recorder or of   *)
(* experiment_counters is the events that fall in it.  The hour of a       *)
(* counter is left out.  Saturation at u32::MAX is left out.               *)
(***************************************************************************)
EXTENDS Naturals, FiniteSets

CONSTANTS
    Event,         \* exposures and conversions, each happens once
    Cell,          \* (experiment, variant, kind)
    Experiment,    \* experiment keys
    CellOf,        \* the cell of an event
    ExperimentOf,  \* the experiment of a cell
    Flusher,       \* the background flusher and callers of Client::flush_events
    Background,    \* the former
    Msg,           \* slots for POSTs on the wire
    NoMsg,
    MaxCells,      \* the Recorder's cap
    MaxBatch,      \* MAX_EVENTS_PER_BATCH: cells per POST
    MaxRows        \* bound: how often an experiment key is created

ASSUME PipelineAssumption ==
    /\ CellOf \in [Event -> Cell]
    /\ ExperimentOf \in [Cell -> Experiment]
    /\ Background \subseteq Flusher
    /\ NoMsg \notin Msg
    /\ MaxCells \in Nat
    /\ MaxBatch \in Nat \ {0}
    /\ MaxRows \in Nat

VARIABLES
    \* The server.
    row,        \* by key: the id of the experiment's row and its state
    announced,  \* experiments some snapshot has named to the SDK
    tally,      \* how often an event is in the counters: 0, 1, or 2 for more
    \* The Recorder.
    held,       \* the events its counts stand for
    \* The flushes under way.
    pc,
    batch,      \* cells[start..]: drained and not yet delivered
    chunk,      \* the part of it in the current POST
    msg,        \* that POST
    \* The wire.
    post,       \* what each POST carries, how far it got, what it has read
    \* History.
    happened,   \* events recorded so far
    dropped,    \* refused by the cap
    abandoned,  \* drained by a flush that was aborted
    discarded,  \* refused by the server: the experiment was not running
    erased,     \* counted, and deleted with the experiment
    ambiguous   \* given up on in a POST the server may still act upon

serverVars == <<row, announced, tally, discarded, erased>>
vars == <<row, announced, tally, held, pc, batch, chunk, msg, post,
          happened, dropped, abandoned, discarded, erased, ambiguous>>

Row  == [id : Nat, state : {"absent", "draft", "running", "stopped"}]
Post == [stage : {"free", "sent", "reading", "done", "rejected"},
         events : SUBSET Event, read : [Experiment -> Nat]]

TypeOK ==
    /\ row \in [Experiment -> Row]
    /\ announced \in SUBSET Experiment
    /\ tally \in [Event -> 0..2]
    /\ held \in SUBSET Event
    /\ pc \in [Flusher -> {"idle", "posting", "waiting", "stopped"}]
    /\ batch \in [Flusher -> SUBSET Event]
    /\ chunk \in [Flusher -> SUBSET Event]
    /\ msg \in [Flusher -> Msg \cup {NoMsg}]
    /\ post \in [Msg -> Post]
    /\ happened \in SUBSET Event
    /\ dropped \in SUBSET Event
    /\ abandoned \in SUBSET Event
    /\ discarded \in SUBSET Event
    /\ erased \in SUBSET Event
    /\ ambiguous \in SUBSET Event

Of(e) == ExperimentOf[CellOf[e]]

CellsOf(E) == {CellOf[e] : e \in E}

NothingRead == [x \in Experiment |-> 0]

Carrying(E, s) == [stage |-> s, events |-> E, read |-> NothingRead]

Free == Carrying({}, "free")

\* An interval of zero starts no background flusher.
Init ==
    /\ row = [x \in Experiment |-> [id |-> 0, state |-> "absent"]]
    /\ announced = {}
    /\ tally = [e \in Event |-> 0]
    /\ held = {}
    /\ pc \in [Flusher -> {"idle", "stopped"}]
    /\ \A f \in Flusher \ Background : pc[f] = "idle"
    /\ batch = [f \in Flusher |-> {}]
    /\ chunk = [f \in Flusher |-> {}]
    /\ msg = [f \in Flusher |-> NoMsg]
    /\ post = [m \in Msg |-> Free]
    /\ happened = {}
    /\ dropped = {}
    /\ abandoned = {}
    /\ discarded = {}
    /\ erased = {}
    /\ ambiguous = {}

-----------------------------------------------------------------------------
(* The experiments' life cycle. *)

Moves(x, from, to) ==
    /\ row[x].state \in from
    /\ row' = [row EXCEPT ![x].state = to]
    /\ UNCHANGED <<held, pc, batch, chunk, msg, post, happened, dropped, abandoned,
                   discarded, ambiguous>>

\* create_experiment: a new row, a draft.
CreateExperiment(x) ==
    /\ row[x].state = "absent" /\ row[x].id < MaxRows
    /\ row' = [row EXCEPT ![x] = [id |-> @.id + 1, state |-> "draft"]]
    /\ UNCHANGED <<announced, tally, held, pc, batch, chunk, msg, post, happened,
                   dropped, abandoned, discarded, erased, ambiguous>>

\* UPDATE ... WHERE state = 'draft'.  From here on snapshots name the experiment
\* and the SDK, whose snapshot may be arbitrarily old, records for it.
StartExperiment(x) ==
    /\ Moves(x, {"draft"}, "running")
    /\ announced' = announced \cup {x}
    /\ UNCHANGED <<tally, erased>>

\* UPDATE ... WHERE state = 'running'; terminal.
StopExperiment(x) ==
    /\ Moves(x, {"running"}, "stopped")
    /\ UNCHANGED <<announced, tally, erased>>

\* DELETE ... WHERE state <> 'running', with the counters.
DeleteExperiment(x) ==
    LET gone == {e \in Event : Of(e) = x /\ tally[e] > 0}
    IN  /\ Moves(x, {"draft", "stopped"}, "absent")
        /\ tally' = [e \in Event |-> IF e \in gone THEN 0 ELSE tally[e]]
        /\ erased' = erased \cup gone
        /\ UNCHANGED announced

-----------------------------------------------------------------------------
(* The Recorder. *)

\* record: an existing cell always counts, a new one unless the map is full.
Record(e) ==
    LET fits == \/ CellOf[e] \in CellsOf(held)
                \/ Cardinality(CellsOf(held)) < MaxCells
    IN  /\ e \notin happened
        /\ Of(e) \in announced
        /\ happened' = happened \cup {e}
        /\ held' = IF fits THEN held \cup {e} ELSE held
        /\ dropped' = IF fits THEN dropped ELSE dropped \cup {e}
        /\ UNCHANGED <<serverVars, pc, batch, chunk, msg, post, abandoned, ambiguous>>

\* Mutant of Drain: the counts are copied, not taken.
DrainCopies(f) ==
    /\ pc[f] = "idle"
    /\ batch' = [batch EXCEPT ![f] = held]
    /\ pc' = [pc EXCEPT ![f] = IF held = {} THEN "idle" ELSE "posting"]
    /\ UNCHANGED <<serverVars, held, chunk, msg, post, happened, dropped, abandoned, ambiguous>>

\* drain; an empty map ends the flush at once.
Drain(f) ==
    /\ pc[f] = "idle"
    /\ batch' = [batch EXCEPT ![f] = held]
    /\ held' = {}
    /\ pc' = [pc EXCEPT ![f] = IF held = {} THEN "idle" ELSE "posting"]
    /\ UNCHANGED <<serverVars, chunk, msg, post, happened, dropped, abandoned, ambiguous>>

\* restore(B), in whatever order the map iterates: cells the Recorder has are
\* merged, new ones added while there is room.
Restore(B) ==
    LET new  == CellsOf(B) \ CellsOf(held)
        room == IF Cardinality(CellsOf(held)) < MaxCells
                THEN MaxCells - Cardinality(CellsOf(held)) ELSE 0
        fit  == IF Cardinality(new) < room THEN Cardinality(new) ELSE room
    IN  \E K \in SUBSET new :
          /\ Cardinality(K) = fit
          /\ held' = held \cup {e \in B : CellOf[e] \in CellsOf(held) \cup K}
          /\ dropped' = dropped \cup {e \in B : CellOf[e] \notin CellsOf(held) \cup K}

-----------------------------------------------------------------------------
(* flush_events *)

\* The next chunk goes out: at most MaxBatch of the remaining cells.
PostEvents(f) ==
    LET left == CellsOf(batch[f])
        size == IF Cardinality(left) < MaxBatch THEN Cardinality(left) ELSE MaxBatch
    IN  /\ pc[f] = "posting"
        /\ \E C \in SUBSET left, m \in Msg :
              LET E == {e \in batch[f] : CellOf[e] \in C}
              IN  /\ Cardinality(C) = size
                  /\ post[m].stage = "free"
                  /\ chunk' = [chunk EXCEPT ![f] = E]
                  /\ msg' = [msg EXCEPT ![f] = m]
                  /\ post' = [post EXCEPT ![m] = Carrying(E, "sent")]
        /\ pc' = [pc EXCEPT ![f] = "waiting"]
        /\ UNCHANGED <<serverVars, held, batch, happened, dropped, abandoned, ambiguous>>

\* f has nothing in hand any more.
Leaves(f, label) ==
    /\ pc' = [pc EXCEPT ![f] = label]
    /\ batch' = [batch EXCEPT ![f] = {}]
    /\ chunk' = [chunk EXCEPT ![f] = {}]
    /\ msg' = [msg EXCEPT ![f] = NoMsg]

\* The flush of f ends.
Ends(f) == Leaves(f, "idle")

\* Mutant of Delivered: the flush ends with its first chunk.
DeliveredEnds(f) ==
    /\ pc[f] = "waiting"
    /\ post[msg[f]].stage = "done"
    /\ post' = [post EXCEPT ![msg[f]] = Free]
    /\ Ends(f)
    /\ UNCHANGED <<serverVars, held, happened, dropped, abandoned, ambiguous>>

\* A 2xx: the chunk is done with, the next one follows if there is one.
Delivered(f) ==
    /\ pc[f] = "waiting"
    /\ post[msg[f]].stage = "done"
    /\ post' = [post EXCEPT ![msg[f]] = Free]
    /\ batch' = [batch EXCEPT ![f] = @ \ chunk[f]]
    /\ chunk' = [chunk EXCEPT ![f] = {}]
    /\ msg' = [msg EXCEPT ![f] = NoMsg]
    /\ pc' = [pc EXCEPT ![f] = IF batch[f] = chunk[f] THEN "idle" ELSE "posting"]
    /\ UNCHANGED <<serverVars, held, happened, dropped, abandoned, ambiguous>>

\* Mutant of Refused: a refused chunk is given up.
RefusedGivesUp(f) ==
    /\ pc[f] = "waiting"
    /\ post[msg[f]].stage = "rejected"
    /\ post' = [post EXCEPT ![msg[f]] = Free]
    /\ Ends(f)
    /\ UNCHANGED <<serverVars, held, dropped, happened, abandoned, ambiguous>>

\* Any other status: everything from this chunk on goes back.
Refused(f) ==
    /\ pc[f] = "waiting"
    /\ post[msg[f]].stage = "rejected"
    /\ post' = [post EXCEPT ![msg[f]] = Free]
    /\ Restore(batch[f])
    /\ Ends(f)
    /\ UNCHANGED <<serverVars, happened, abandoned, ambiguous>>

\* A POST that nobody waits for any longer: its answer is lost, or the server
\* still acts upon it.
Orphaned(m) == IF post[m].stage \in {"done", "rejected"}
               THEN [post EXCEPT ![m] = Free] ELSE post

\* A timeout or a broken connection, after which everything goes back as well.
\* Either the POST never reached the server, or it did or still will.
TimesOut(f) ==
    /\ pc[f] = "waiting"
    /\ \/ /\ post[msg[f]].stage = "sent"
          /\ post' = [post EXCEPT ![msg[f]] = Free]
          /\ UNCHANGED ambiguous
       \/ /\ post' = Orphaned(msg[f])
          /\ ambiguous' = ambiguous \cup chunk[f]
    /\ Restore(batch[f])
    /\ Ends(f)
    /\ UNCHANGED <<serverVars, happened, abandoned>>

\* The future of f is dropped: what it had drained goes with it.
Abandons(f) ==
    /\ abandoned' = abandoned \cup batch[f]
    /\ post' = IF pc[f] = "waiting" THEN Orphaned(msg[f]) ELSE post
    /\ UNCHANGED <<serverVars, held, happened, dropped, ambiguous>>

\* The caller's own timeout around flush_events. It may call again.
Aborts(f) == f \notin Background /\ pc[f] # "idle" /\ Abandons(f) /\ Ends(f)

\* shutdown or the drop of the last Client: the background task is aborted,
\* asleep or in a flush, and never drains again.
Shutdown(f) == f \in Background /\ pc[f] # "stopped" /\ Abandons(f) /\ Leaves(f, "stopped")

-----------------------------------------------------------------------------
(* POST /api/v1/events *)

\* The INSERT ... SELECT begins: it sees the experiments running now.
Ingest(m) ==
    /\ post[m].stage = "sent"
    /\ post' = [post EXCEPT ![m].stage = "reading",
                            ![m].read = [x \in Experiment |->
                               IF row[x].state = "running" THEN row[x].id ELSE 0]]
    /\ UNCHANGED <<serverVars, held, pc, batch, chunk, msg, happened, dropped, abandoned,
                   ambiguous>>

\* The answer waits for its flush, if that is still there.
Answered(m, stage) ==
    post' = [post EXCEPT ![m] = IF \E f \in Flusher : msg[f] = m
                                THEN Carrying(post[m].events, stage)
                                ELSE Free]

\* The events of m whose experiment was running, and the others.
Accepted(m) == {e \in post[m].events : post[m].read[Of(e)] # 0}

More(n) == IF n = 0 THEN 1 ELSE 2

\* Mutant of IngestCommits: the counters have no foreign key.
IngestCommitsUnreferenced(m) ==
    /\ post[m].stage = "reading"
    /\ tally' = [e \in Event |-> IF e \in Accepted(m) THEN More(tally[e]) ELSE tally[e]]
    /\ discarded' = discarded \cup (post[m].events \ Accepted(m))
    /\ Answered(m, "done")
    /\ UNCHANGED <<row, announced, held, pc, batch, chunk, msg, happened, dropped, abandoned,
                   erased, ambiguous>>

\* ... and commits: the counters it increments must still belong to a row.
IngestCommits(m) ==
    /\ post[m].stage = "reading"
    /\ \A e \in Accepted(m) :
          row[Of(e)].state # "absent" /\ row[Of(e)].id = post[m].read[Of(e)]
    /\ tally' = [e \in Event |-> IF e \in Accepted(m) THEN More(tally[e]) ELSE tally[e]]
    /\ discarded' = discarded \cup (post[m].events \ Accepted(m))
    /\ Answered(m, "done")
    /\ UNCHANGED <<row, announced, held, pc, batch, chunk, msg, happened, dropped, abandoned,
                   erased, ambiguous>>

\* The key is revoked, the rate limit hit, the database down, or the foreign
\* key violated: an error, and nothing is written.
IngestFails(m) ==
    /\ post[m].stage \in {"sent", "reading"}
    /\ Answered(m, "rejected")
    /\ UNCHANGED <<serverVars, held, pc, batch, chunk, msg, happened, dropped, abandoned,
                   ambiguous>>

-----------------------------------------------------------------------------

Next ==
    \/ \E x \in Experiment : \/ CreateExperiment(x) \/ StartExperiment(x)
                             \/ StopExperiment(x) \/ DeleteExperiment(x)
    \/ \E e \in Event : Record(e)
    \/ \E f \in Flusher : \/ Drain(f) \/ PostEvents(f) \/ Delivered(f) \/ Refused(f)
                          \/ TimesOut(f) \/ Aborts(f) \/ Shutdown(f)
    \/ \E m \in Msg : Ingest(m) \/ IngestCommits(m) \/ IngestFails(m)

Spec == Init /\ [][Next]_vars

\* The flush that sent m still waits for the answer.
Awaited(m) == \E f \in Flusher : msg[f] = m

(***************************************************************************)
(* Fairness: while it lives, the background flusher's timer keeps firing;  *)
(* nobody else has to flush.  A flush under way keeps being polled, or is  *)
(* dropped; every POST ends in an answer or a timeout, and the server is   *)
(* done with it some time.  An outage does not last forever: a POST        *)
(* attempted again and again is handled, and its answer received, within   *)
(* the timeout some time (strong fairness of the steps of a POST that is   *)
(* awaited).  Nothing else is obliged to happen.                           *)
(***************************************************************************)
Fairness ==
    /\ \A f \in Background : WF_vars(Drain(f))
    /\ \A f \in Flusher : /\ SF_vars(PostEvents(f))
                          /\ SF_vars(Delivered(f))
                          /\ WF_vars(Delivered(f) \/ Refused(f) \/ TimesOut(f))
    /\ \A m \in Msg : /\ WF_vars(Ingest(m) \/ IngestCommits(m) \/ IngestFails(m))
                      /\ SF_vars(Awaited(m) /\ Ingest(m))
                      /\ SF_vars(Awaited(m) /\ IngestCommits(m))

FairSpec == Spec /\ Fairness

-----------------------------------------------------------------------------
(* Properties. *)

\* Where an event can have ended up for good.
Settled(e) ==
    \/ tally[e] > 0
    \/ e \in dropped \cup abandoned \cup discarded \cup erased

\* "An outage delays counters, it does not lose them" (flush_events): however
\* posts fail, time out and overlap, an event is in the Recorder, in a flush,
\* or has been counted, refused by the server or the cap, or aborted.
NothingVanishes ==
    \A e \in happened :
        e \in held \/ (\E f \in Flusher : e \in batch[f]) \/ Settled(e)

\* No event is counted twice unless a POST that carried it was given up on
\* while the server could still act upon it: neither drain, chunking and
\* restore nor several flushes at once count an event again.
CountedOnce == \A e \in Event : tally[e] = 2 => e \in ambiguous

\* "A draft has no counters yet" (update_experiment), however late a batch for
\* an earlier experiment of the same key arrives.
DraftIsBlank == \A e \in Event : row[Of(e)].state = "draft" => tally[e] = 0

\* Nobody flushes unasked: the background flusher was stopped or never started.
Unattended == \A f \in Background : pc[f] = "stopped"

\* Every recorded event is settled in the end: flushes retry until the server
\* has answered for it.  The one other end is to be left in the Recorder when
\* the background flusher is gone ("Unflushed events are discarded", shutdown);
\* until somebody flushes, for it is not lost in a flush under way.
EventuallySettled ==
    \A e \in Event : (e \in happened) ~> (Settled(e) \/ (Unattended /\ e \in held))

-----------------------------------------------------------------------------
(* The inductive invariant behind the properties (see EventPipelineProofs). *)

\* What a flush holds at each label, and which POST is its own.
Flow ==
    /\ \A f \in Flusher : pc[f] \in {"idle", "stopped"} => batch[f] = {}
    /\ \A f \in Flusher : pc[f] # "waiting" => chunk[f] = {} /\ msg[f] = NoMsg
    /\ \A f \in Flusher : pc[f] = "waiting" =>
          /\ msg[f] \in Msg
          /\ chunk[f] \subseteq batch[f]
          /\ post[msg[f]].stage # "free"
          /\ post[msg[f]].events = chunk[f]
    /\ \A f, g \in Flusher : msg[f] = msg[g] /\ msg[f] # NoMsg => f = g

\* An event is in one place of the SDK at most, and nowhere before it happened.
Apart ==
    /\ \A f \in Flusher : batch[f] \cap held = {}
    /\ \A f, g \in Flusher : f # g => batch[f] \cap batch[g] = {}
    /\ held \subseteq happened
    /\ \A f \in Flusher : batch[f] \subseteq happened
    /\ \A m \in Msg : post[m].events \subseteq happened

\* A POST the server may still act upon.
Acting(m) == post[m].stage \in {"sent", "reading"}

\* What was answered with success is settled.
Answers == \A m \in Msg : post[m].stage = "done" => \A e \in post[m].events : Settled(e)

\* An unambiguous event that is still in the SDK, or on its way in its only
\* POST, has not been counted.
Uncounted ==
    \A e \in Event : e \notin ambiguous =>
        /\ tally[e] # 2
        /\ e \notin happened \/ e \in held => tally[e] = 0
        /\ \A f \in Flusher : e \in batch[f] =>
              tally[e] = 0 \/ (e \in chunk[f] /\ post[msg[f]].stage = "done")
        /\ \A m \in Msg : (Acting(m) /\ e \in post[m].events) =>
              /\ tally[e] = 0
              /\ e \notin held
              /\ \A f \in Flusher : e \in batch[f] => msg[f] = m
              /\ \A n \in Msg : (Acting(n) /\ e \in post[n].events) => n = m

\* Only an experiment that has run has counters, and a statement under way
\* read a row that has run.
Epochs ==
    /\ \A e \in Event : tally[e] > 0 => row[Of(e)].state \in {"running", "stopped"}
    /\ \A m \in Msg, x \in Experiment : post[m].read[x] # 0 =>
          /\ post[m].read[x] <= row[x].id
          /\ row[x].state = "draft" => post[m].read[x] # row[x].id

IInv == TypeOK /\ Flow /\ Apart /\ Answers /\ NothingVanishes /\ Uncounted /\ Epochs
=============================================================================
