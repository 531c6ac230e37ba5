------------------------- MODULE EventPipelineProofs -------------------------
(***************************************************************************)
(* Proofs about EventPipeline for every set of events, experiments,        *)
(* flushes and POSTs and every cap and batch size.  The argument is the    *)
(* inductive invariant IInv: each lemma Next* shows that every action      *)
(* preserves one of its conjuncts.                                         *)
(***************************************************************************)
EXTENDS EventPipeline, TLAPS

\* What restore does, as far as the invariant cares: everything it is given is
\* afterwards in the Recorder or dropped, and nothing else moves.
LEMMA RestoreFacts ==
    ASSUME NEW B, Restore(B)
    PROVE  /\ held \subseteq held' /\ held' \subseteq held \cup B
           /\ dropped \subseteq dropped' /\ dropped' \subseteq dropped \cup B
           /\ B \subseteq held' \cup dropped'
<1> DEFINE new == CellsOf(B) \ CellsOf(held)
<1>1. PICK K \in SUBSET new :
        /\ held' = held \cup {e \in B : CellOf[e] \in CellsOf(held) \cup K}
        /\ dropped' = dropped \cup {e \in B : CellOf[e] \notin CellsOf(held) \cup K}
  BY DEF Restore
<1> HIDE DEF new
<1>2. QED
  BY <1>1

\* A chunk is a part of the batch in one free POST.
LEMMA PostFacts ==
    ASSUME NEW f \in Flusher, PostEvents(f)
    PROVE  \E E \in SUBSET batch[f], m \in Msg :
              /\ post[m].stage = "free"
              /\ chunk' = [chunk EXCEPT ![f] = E]
              /\ msg' = [msg EXCEPT ![f] = m]
              /\ post' = [post EXCEPT ![m] = Carrying(E, "sent")]
<1>1. PICK C \in SUBSET CellsOf(batch[f]), m \in Msg :
        LET E == {e \in batch[f] : CellOf[e] \in C}
        IN  /\ post[m].stage = "free"
            /\ chunk' = [chunk EXCEPT ![f] = E]
            /\ msg' = [msg EXCEPT ![f] = m]
            /\ post' = [post EXCEPT ![m] = Carrying(E, "sent")]
  BY DEF PostEvents
<1> DEFINE E == {e \in batch[f] : CellOf[e] \in C}
<1>2. E \in SUBSET batch[f]
  OBVIOUS
<1> HIDE DEF E
<1>3. QED
  BY <1>1, <1>2 DEF E

\* An answered POST is free, or keeps its events for its flush.
LEMMA AnsweredFacts ==
    ASSUME NEW m \in Msg, NEW stage, Answered(m, stage)
    PROVE  /\ (\E f \in Flusher : msg[f] = m)
                 => post' = [post EXCEPT ![m] = Carrying(post[m].events, stage)]
           /\ ~(\E f \in Flusher : msg[f] = m) => post' = [post EXCEPT ![m] = Free]
BY DEF Answered

\* What a POST holds while nothing was read for it is a Post.
LEMMA CarryingType ==
    ASSUME NEW E \in SUBSET Event, NEW s \in {"free", "sent", "done", "rejected"}
    PROVE  Carrying(E, s) \in Post
BY DEF Carrying, Post, NothingRead

\* So is an unused slot.
LEMMA FreeType == Free \in Post
BY CarryingType DEF Free

-----------------------------------------------------------------------------
(* TypeOK *)

\* Every action keeps the types.
LEMMA NextType == TypeOK /\ [Next]_vars => TypeOK'
<1> SUFFICES ASSUME TypeOK, [Next]_vars PROVE TypeOK'
  OBVIOUS
<1> USE PipelineAssumption, FreeType
<1>1. ASSUME NEW x \in Experiment, CreateExperiment(x) PROVE TypeOK'
  BY <1>1 DEF TypeOK, CreateExperiment, Row
<1>2. ASSUME NEW x \in Experiment, StartExperiment(x) PROVE TypeOK'
  BY <1>2 DEF TypeOK, StartExperiment, Moves, Row
<1>3. ASSUME NEW x \in Experiment, StopExperiment(x) PROVE TypeOK'
  BY <1>3 DEF TypeOK, StopExperiment, Moves, Row
<1>4. ASSUME NEW x \in Experiment, DeleteExperiment(x) PROVE TypeOK'
  <2>0. row' = [row EXCEPT ![x].state = "absent"]
    BY <1>4 DEF DeleteExperiment, Moves
  <2>1. row' \in [Experiment -> Row]
    BY <2>0 DEF TypeOK, Row
  <2>2. tally' \in [Event -> 0..2] /\ erased' \in SUBSET Event
    BY <1>4 DEF TypeOK, DeleteExperiment
  <2> QED BY <1>4, <2>1, <2>2 DEF TypeOK, DeleteExperiment, Moves
<1>5. ASSUME NEW e \in Event, Record(e) PROVE TypeOK'
  BY <1>5 DEF TypeOK, Record, serverVars
<1>6. ASSUME NEW f \in Flusher, Drain(f) PROVE TypeOK'
  BY <1>6 DEF TypeOK, Drain, serverVars
<1>7. ASSUME NEW f \in Flusher, PostEvents(f) PROVE TypeOK'
  <2>1. PICK E \in SUBSET batch[f], m \in Msg :
              /\ post[m].stage = "free"
              /\ chunk' = [chunk EXCEPT ![f] = E]
              /\ msg' = [msg EXCEPT ![f] = m]
              /\ post' = [post EXCEPT ![m] = Carrying(E, "sent")]
    BY <1>7, PostFacts
  <2>2. Carrying(E, "sent") \in Post
    BY <2>1, CarryingType DEF TypeOK
  <2>3. QED
    BY <1>7, <2>1, <2>2 DEF TypeOK, PostEvents, serverVars
<1>8. ASSUME NEW f \in Flusher, Delivered(f) PROVE TypeOK'
  BY <1>8 DEF TypeOK, Delivered, serverVars
<1>9. ASSUME NEW f \in Flusher, Refused(f) PROVE TypeOK'
  <2>1. held' \in SUBSET Event /\ dropped' \in SUBSET Event
    BY <1>9, RestoreFacts DEF Refused, TypeOK
  <2>2. QED
    BY <1>9, <2>1 DEF TypeOK, Refused, Ends, Leaves, serverVars
<1>10. ASSUME NEW f \in Flusher, TimesOut(f) PROVE TypeOK'
  <2>1. held' \in SUBSET Event /\ dropped' \in SUBSET Event
    BY <1>10, RestoreFacts DEF TimesOut, TypeOK
  <2>2. post' \in [Msg -> Post]
    BY <1>10 DEF TimesOut, Orphaned, TypeOK
  <2>3. QED
    BY <1>10, <2>1, <2>2 DEF TypeOK, TimesOut, Ends, Leaves, serverVars
<1>11. ASSUME NEW f \in Flusher, Aborts(f) \/ Shutdown(f) PROVE TypeOK'
  <2>1. post' \in [Msg -> Post]
    BY <1>11 DEF Aborts, Shutdown, Abandons, Orphaned, TypeOK
  <2>2. QED
    BY <1>11, <2>1 DEF TypeOK, Aborts, Shutdown, Abandons, Ends, Leaves, serverVars
<1>12. ASSUME NEW m \in Msg, Ingest(m) PROVE TypeOK'
  <2>1. \A y \in Experiment : row[y].id \in Nat
    BY DEF TypeOK, Row
  <2>2. [y \in Experiment |-> IF row[y].state = "running" THEN row[y].id ELSE 0]
           \in [Experiment -> Nat]
    BY <2>1
  <2>3. post' \in [Msg -> Post]
    BY <1>12, <2>2 DEF TypeOK, Ingest, Post
  <2>4. QED
    BY <1>12, <2>3 DEF TypeOK, Ingest, serverVars
<1>13. ASSUME NEW m \in Msg, IngestCommits(m) PROVE TypeOK'
  <2>0. post[m].events \in SUBSET Event
    BY DEF TypeOK, Post
  <2>1. post' \in [Msg -> Post]
    BY <1>13, <2>0, AnsweredFacts, CarryingType DEF IngestCommits, TypeOK
  <2>2. QED
    BY <1>13, <2>1 DEF TypeOK, IngestCommits, Accepted, More, Post
<1>14. ASSUME NEW m \in Msg, IngestFails(m) PROVE TypeOK'
  <2>0. post[m].events \in SUBSET Event
    BY DEF TypeOK, Post
  <2>1. post' \in [Msg -> Post]
    BY <1>14, <2>0, AnsweredFacts, CarryingType DEF IngestFails, TypeOK
  <2>2. QED
    BY <1>14, <2>1 DEF TypeOK, IngestFails, serverVars
<1>15. CASE UNCHANGED vars
  BY <1>15 DEF TypeOK, vars
<1>16. QED
  BY <1>1, <1>2, <1>3, <1>4, <1>5, <1>6, <1>7, <1>8, <1>9, <1>10, <1>11, <1>12,
     <1>13, <1>14, <1>15 DEF Next
-----------------------------------------------------------------------------
(* Flow *)

\* Every action keeps flushes and their POSTs in step.
LEMMA NextFlow ==
    TypeOK /\ Flow /\ [Next]_vars => Flow'
<1> SUFFICES ASSUME TypeOK, Flow, [Next]_vars PROVE Flow'
  OBVIOUS
<1> USE PipelineAssumption DEF Flow
<1>1. ASSUME NEW x \in Experiment, CreateExperiment(x) PROVE Flow'
  BY <1>1 DEF TypeOK, CreateExperiment
<1>2. ASSUME NEW x \in Experiment, StartExperiment(x) PROVE Flow'
  BY <1>2 DEF TypeOK, StartExperiment, Moves
<1>3. ASSUME NEW x \in Experiment, StopExperiment(x) PROVE Flow'
  BY <1>3 DEF TypeOK, StopExperiment, Moves
<1>4. ASSUME NEW x \in Experiment, DeleteExperiment(x) PROVE Flow'
  BY <1>4 DEF TypeOK, DeleteExperiment, Moves
<1>5. ASSUME NEW e \in Event, Record(e) PROVE Flow'
  BY <1>5 DEF TypeOK, Record, serverVars, Post
<1>6. ASSUME NEW f \in Flusher, Drain(f) PROVE Flow'
  BY <1>6 DEF TypeOK, Drain, serverVars, Post
<1>7. ASSUME NEW f \in Flusher, PostEvents(f) PROVE Flow'
  <2>1. PICK E \in SUBSET batch[f], m \in Msg :
              /\ post[m].stage = "free"
              /\ chunk' = [chunk EXCEPT ![f] = E]
              /\ msg' = [msg EXCEPT ![f] = m]
              /\ post' = [post EXCEPT ![m] = Carrying(E, "sent")]
    BY <1>7, PostFacts
  <2>2. QED
    BY <1>7, <2>1 DEF TypeOK, PostEvents, serverVars, Carrying, Post
<1>8. ASSUME NEW f \in Flusher, Delivered(f) PROVE Flow'
  BY <1>8 DEF TypeOK, Delivered, serverVars, Free, Carrying, Post
<1>9. ASSUME NEW f \in Flusher, Refused(f) PROVE Flow'
  BY <1>9, RestoreFacts DEF TypeOK, Refused, Ends, Leaves, serverVars, Free, Carrying, Post
<1>10. ASSUME NEW f \in Flusher, TimesOut(f) PROVE Flow'
  BY <1>10, RestoreFacts DEF TypeOK, TimesOut, Ends, Leaves, serverVars, Free, Carrying, Orphaned, Post
<1>11. ASSUME NEW f \in Flusher, Aborts(f) \/ Shutdown(f) PROVE Flow'
  <2>1. PICK label \in {"idle", "stopped"} :
          /\ pc' = [pc EXCEPT ![f] = label] /\ batch' = [batch EXCEPT ![f] = {}]
          /\ chunk' = [chunk EXCEPT ![f] = {}] /\ msg' = [msg EXCEPT ![f] = NoMsg]
    BY <1>11 DEF Aborts, Shutdown, Ends, Leaves
  <2>2. UNCHANGED <<tally, held, happened, ambiguous>>
    BY <1>11 DEF Aborts, Shutdown, Abandons, serverVars
  <2>3. \/ post' = post
        \/ pc[f] = "waiting" /\ ~Acting(msg[f]) /\ post' = [post EXCEPT ![msg[f]] = Free]
    BY <1>11 DEF Aborts, Shutdown, Abandons, Orphaned, Acting
  <2>4. CASE post' = post
    BY <2>1, <2>2, <2>4 DEF TypeOK
  <2>5. CASE pc[f] = "waiting" /\ ~Acting(msg[f]) /\ post' = [post EXCEPT ![msg[f]] = Free]
    BY <2>1, <2>2, <2>5 DEF TypeOK, Free, Carrying, Post, Acting
  <2> QED BY <2>3, <2>4, <2>5
<1>12. ASSUME NEW m \in Msg, Ingest(m) PROVE Flow'
  BY <1>12 DEF TypeOK, Ingest, serverVars, Post
<1>13. ASSUME NEW m \in Msg, IngestCommits(m) PROVE Flow'
  <2>1. CASE \E f \in Flusher : msg[f] = m
    <3>1. post' = [post EXCEPT ![m] = Carrying(post[m].events, "done")]
      BY <1>13, <2>1, AnsweredFacts DEF IngestCommits
    <3>2. QED
      BY <1>13, <2>1, <3>1 DEF TypeOK, IngestCommits, Carrying, Post
  <2>2. CASE ~\E f \in Flusher : msg[f] = m
    <3>1. post' = [post EXCEPT ![m] = Free]
      BY <1>13, <2>2, AnsweredFacts DEF IngestCommits
    <3>2. QED
      BY <1>13, <2>2, <3>1 DEF TypeOK, IngestCommits, Free, Carrying, Post
  <2>3. QED
    BY <2>1, <2>2
<1>14. ASSUME NEW m \in Msg, IngestFails(m) PROVE Flow'
  <2>1. CASE \E f \in Flusher : msg[f] = m
    <3>1. post' = [post EXCEPT ![m] = Carrying(post[m].events, "rejected")]
      BY <1>14, <2>1, AnsweredFacts DEF IngestFails
    <3>2. QED
      BY <1>14, <2>1, <3>1 DEF TypeOK, IngestFails, serverVars, Carrying, Post
  <2>2. CASE ~\E f \in Flusher : msg[f] = m
    <3>1. post' = [post EXCEPT ![m] = Free]
      BY <1>14, <2>2, AnsweredFacts DEF IngestFails
    <3>2. QED
      BY <1>14, <2>2, <3>1 DEF TypeOK, IngestFails, serverVars, Free, Carrying, Post
  <2>3. QED
    BY <2>1, <2>2
<1>15. CASE UNCHANGED vars
  BY <1>15 DEF vars
<1>16. QED
  BY <1>1, <1>2, <1>3, <1>4, <1>5, <1>6, <1>7, <1>8, <1>9, <1>10, <1>11, <1>12,
     <1>13, <1>14, <1>15 DEF Next

-----------------------------------------------------------------------------
(* Apart *)

\* No action puts an event in two places of the SDK.
LEMMA NextApart ==
    TypeOK /\ Flow /\ Apart /\ [Next]_vars => Apart'
<1> SUFFICES ASSUME TypeOK, Flow, Apart, [Next]_vars PROVE Apart'
  OBVIOUS
<1> USE PipelineAssumption DEF Apart
<1>1. ASSUME NEW x \in Experiment, CreateExperiment(x) PROVE Apart'
  BY <1>1 DEF TypeOK, CreateExperiment
<1>2. ASSUME NEW x \in Experiment, StartExperiment(x) PROVE Apart'
  BY <1>2 DEF TypeOK, StartExperiment, Moves
<1>3. ASSUME NEW x \in Experiment, StopExperiment(x) PROVE Apart'
  BY <1>3 DEF TypeOK, StopExperiment, Moves
<1>4. ASSUME NEW x \in Experiment, DeleteExperiment(x) PROVE Apart'
  BY <1>4 DEF TypeOK, DeleteExperiment, Moves
<1>5. ASSUME NEW e \in Event, Record(e) PROVE Apart'
  BY <1>5 DEF TypeOK, Record, serverVars, Post
<1>6. ASSUME NEW f \in Flusher, Drain(f) PROVE Apart'
  BY <1>6 DEF TypeOK, Drain, serverVars, Post
<1>7. ASSUME NEW f \in Flusher, PostEvents(f) PROVE Apart'
  <2>1. PICK E \in SUBSET batch[f], m \in Msg :
              /\ post[m].stage = "free"
              /\ chunk' = [chunk EXCEPT ![f] = E]
              /\ msg' = [msg EXCEPT ![f] = m]
              /\ post' = [post EXCEPT ![m] = Carrying(E, "sent")]
    BY <1>7, PostFacts
  <2>2. QED
    BY <1>7, <2>1 DEF TypeOK, PostEvents, serverVars, Carrying, Post
<1>8. ASSUME NEW f \in Flusher, Delivered(f) PROVE Apart'
  BY <1>8 DEF TypeOK, Delivered, serverVars, Free, Carrying, Post
<1>9. ASSUME NEW f \in Flusher, Refused(f) PROVE Apart'
  BY <1>9, RestoreFacts DEF TypeOK, Refused, Ends, Leaves, serverVars, Free, Carrying, Post
<1>10. ASSUME NEW f \in Flusher, TimesOut(f) PROVE Apart'
  BY <1>10, RestoreFacts DEF TypeOK, TimesOut, Ends, Leaves, serverVars, Free, Carrying, Orphaned, Post
<1>11. ASSUME NEW f \in Flusher, Aborts(f) \/ Shutdown(f) PROVE Apart'
  <2>1. PICK label \in {"idle", "stopped"} :
          /\ pc' = [pc EXCEPT ![f] = label] /\ batch' = [batch EXCEPT ![f] = {}]
          /\ chunk' = [chunk EXCEPT ![f] = {}] /\ msg' = [msg EXCEPT ![f] = NoMsg]
    BY <1>11 DEF Aborts, Shutdown, Ends, Leaves
  <2>2. UNCHANGED <<tally, held, happened, ambiguous>>
    BY <1>11 DEF Aborts, Shutdown, Abandons, serverVars
  <2>3. \/ post' = post
        \/ pc[f] = "waiting" /\ ~Acting(msg[f]) /\ post' = [post EXCEPT ![msg[f]] = Free]
    BY <1>11 DEF Aborts, Shutdown, Abandons, Orphaned, Acting
  <2>4. CASE post' = post
    BY <2>1, <2>2, <2>4 DEF TypeOK
  <2>5. CASE pc[f] = "waiting" /\ ~Acting(msg[f]) /\ post' = [post EXCEPT ![msg[f]] = Free]
    BY <2>1, <2>2, <2>5 DEF TypeOK, Free, Carrying, Post, Acting
  <2> QED BY <2>3, <2>4, <2>5
<1>12. ASSUME NEW m \in Msg, Ingest(m) PROVE Apart'
  BY <1>12 DEF TypeOK, Ingest, serverVars, Post
<1>13. ASSUME NEW m \in Msg, IngestCommits(m) PROVE Apart'
  <2>1. CASE \E f \in Flusher : msg[f] = m
    <3>1. post' = [post EXCEPT ![m] = Carrying(post[m].events, "done")]
      BY <1>13, <2>1, AnsweredFacts DEF IngestCommits
    <3>2. QED
      BY <1>13, <2>1, <3>1 DEF TypeOK, IngestCommits, Carrying, Post
  <2>2. CASE ~\E f \in Flusher : msg[f] = m
    <3>1. post' = [post EXCEPT ![m] = Free]
      BY <1>13, <2>2, AnsweredFacts DEF IngestCommits
    <3>2. QED
      BY <1>13, <2>2, <3>1 DEF TypeOK, IngestCommits, Free, Carrying, Post
  <2>3. QED
    BY <2>1, <2>2
<1>14. ASSUME NEW m \in Msg, IngestFails(m) PROVE Apart'
  <2>1. CASE \E f \in Flusher : msg[f] = m
    <3>1. post' = [post EXCEPT ![m] = Carrying(post[m].events, "rejected")]
      BY <1>14, <2>1, AnsweredFacts DEF IngestFails
    <3>2. QED
      BY <1>14, <2>1, <3>1 DEF TypeOK, IngestFails, serverVars, Carrying, Post
  <2>2. CASE ~\E f \in Flusher : msg[f] = m
    <3>1. post' = [post EXCEPT ![m] = Free]
      BY <1>14, <2>2, AnsweredFacts DEF IngestFails
    <3>2. QED
      BY <1>14, <2>2, <3>1 DEF TypeOK, IngestFails, serverVars, Free, Carrying, Post
  <2>3. QED
    BY <2>1, <2>2
<1>15. CASE UNCHANGED vars
  BY <1>15 DEF vars
<1>16. QED
  BY <1>1, <1>2, <1>3, <1>4, <1>5, <1>6, <1>7, <1>8, <1>9, <1>10, <1>11, <1>12,
     <1>13, <1>14, <1>15 DEF Next

-----------------------------------------------------------------------------
(* Answers, NothingVanishes *)

\* A settled event stays settled: what a deletion takes out of the counters is
\* erased, and nothing else is ever taken back.
LEMMA SettledStays ==
    ASSUME TypeOK, [Next]_vars, NEW e \in Event, Settled(e) PROVE Settled(e)'
<1> USE DEF Settled
<1>1. ASSUME NEW x \in Experiment, CreateExperiment(x) PROVE Settled(e)'
  BY <1>1 DEF CreateExperiment
<1>2. ASSUME NEW x \in Experiment, StartExperiment(x) PROVE Settled(e)'
  BY <1>2 DEF StartExperiment, Moves
<1>3. ASSUME NEW x \in Experiment, StopExperiment(x) PROVE Settled(e)'
  BY <1>3 DEF StopExperiment, Moves
<1>4. ASSUME NEW x \in Experiment, DeleteExperiment(x) PROVE Settled(e)'
  BY <1>4 DEF DeleteExperiment, Moves
<1>5. ASSUME NEW d \in Event, Record(d) PROVE Settled(e)'
  BY <1>5 DEF Record, serverVars
<1>6. ASSUME NEW f \in Flusher, Drain(f) \/ PostEvents(f) \/ Delivered(f) PROVE Settled(e)'
  BY <1>6 DEF Drain, PostEvents, Delivered, serverVars
<1>7. ASSUME NEW f \in Flusher, Refused(f) PROVE Settled(e)'
  BY <1>7, RestoreFacts DEF Refused, serverVars
<1>8. ASSUME NEW f \in Flusher, TimesOut(f) PROVE Settled(e)'
  BY <1>8, RestoreFacts DEF TimesOut, serverVars
<1>9. ASSUME NEW f \in Flusher, Aborts(f) \/ Shutdown(f) PROVE Settled(e)'
  BY <1>9 DEF Aborts, Shutdown, Abandons, serverVars
<1>10. ASSUME NEW m \in Msg, Ingest(m) \/ IngestFails(m) PROVE Settled(e)'
  BY <1>10 DEF Ingest, IngestFails, serverVars
<1>11. ASSUME NEW m \in Msg, IngestCommits(m) PROVE Settled(e)'
  BY <1>11 DEF IngestCommits, More, TypeOK
<1>12. CASE UNCHANGED vars
  BY <1>12 DEF vars
<1>13. QED
  BY <1>1, <1>2, <1>3, <1>4, <1>5, <1>6, <1>7, <1>8, <1>9, <1>10, <1>11, <1>12 DEF Next

\* A POST is answered with success only once its events are settled.
LEMMA NextAnswers ==
    TypeOK /\ Flow /\ Answers /\ [Next]_vars => Answers'
<1> SUFFICES ASSUME TypeOK, Flow, Answers, [Next]_vars PROVE Answers'
  OBVIOUS
<1> USE PipelineAssumption DEF Answers
<1>1. ASSUME NEW x \in Experiment, CreateExperiment(x) PROVE Answers'
  BY <1>1, SettledStays DEF TypeOK, CreateExperiment, Post
<1>2. ASSUME NEW x \in Experiment, StartExperiment(x) PROVE Answers'
  BY <1>2, SettledStays DEF TypeOK, StartExperiment, Moves, Post
<1>3. ASSUME NEW x \in Experiment, StopExperiment(x) PROVE Answers'
  BY <1>3, SettledStays DEF TypeOK, StopExperiment, Moves, Post
<1>4. ASSUME NEW x \in Experiment, DeleteExperiment(x) PROVE Answers'
  BY <1>4, SettledStays DEF TypeOK, DeleteExperiment, Moves, Post
<1>5. ASSUME NEW e \in Event, Record(e) PROVE Answers'
  BY <1>5, SettledStays DEF TypeOK, Record, serverVars, Post
<1>6. ASSUME NEW f \in Flusher, Drain(f) PROVE Answers'
  BY <1>6, SettledStays DEF TypeOK, Drain, serverVars, Post
<1>7. ASSUME NEW f \in Flusher, PostEvents(f) PROVE Answers'
  <2>1. PICK E \in SUBSET batch[f], m \in Msg :
              /\ post[m].stage = "free"
              /\ chunk' = [chunk EXCEPT ![f] = E]
              /\ msg' = [msg EXCEPT ![f] = m]
              /\ post' = [post EXCEPT ![m] = Carrying(E, "sent")]
    BY <1>7, PostFacts
  <2>2. QED
    BY <1>7, <2>1, SettledStays DEF TypeOK, PostEvents, serverVars, Carrying, Post
<1>8. ASSUME NEW f \in Flusher, Delivered(f) PROVE Answers'
  BY <1>8, SettledStays DEF TypeOK, Delivered, serverVars, Free, Carrying, Post
<1>9. ASSUME NEW f \in Flusher, Refused(f) PROVE Answers'
  BY <1>9, SettledStays, RestoreFacts DEF TypeOK, Refused, Ends, Leaves, serverVars, Free, Carrying, Post
<1>10. ASSUME NEW f \in Flusher, TimesOut(f) PROVE Answers'
  BY <1>10, SettledStays, RestoreFacts DEF TypeOK, TimesOut, Ends, Leaves, serverVars, Free, Carrying, Orphaned, Post
<1>11. ASSUME NEW f \in Flusher, Aborts(f) \/ Shutdown(f) PROVE Answers'
  BY <1>11, SettledStays DEF TypeOK, Aborts, Shutdown, Abandons, Ends, Leaves, serverVars, Free, Carrying, Orphaned, Post
<1>12. ASSUME NEW m \in Msg, Ingest(m) PROVE Answers'
  BY <1>12, SettledStays DEF TypeOK, Ingest, serverVars, Post
<1>13. ASSUME NEW m \in Msg, IngestCommits(m) PROVE Answers'
  <2>1. \A e \in post[m].events : e \in Event /\ Settled(e)'
    BY <1>13 DEF IngestCommits, Accepted, More, Settled, TypeOK, Post
  <2>2. CASE \E f \in Flusher : msg[f] = m
    <3>1. post' = [post EXCEPT ![m] = Carrying(post[m].events, "done")]
      BY <1>13, <2>2, AnsweredFacts DEF IngestCommits
    <3>2. QED
      BY <2>1, <3>1, SettledStays DEF TypeOK, Carrying, Post
  <2>3. CASE ~\E f \in Flusher : msg[f] = m
    <3>1. post' = [post EXCEPT ![m] = Free]
      BY <1>13, <2>3, AnsweredFacts DEF IngestCommits
    <3>2. QED
      BY <3>1, SettledStays DEF TypeOK, Free, Carrying, Post
  <2>4. QED
    BY <2>2, <2>3
<1>14. ASSUME NEW m \in Msg, IngestFails(m) PROVE Answers'
  <2>1. CASE \E f \in Flusher : msg[f] = m
    <3>1. post' = [post EXCEPT ![m] = Carrying(post[m].events, "rejected")]
      BY <1>14, <2>1, AnsweredFacts DEF IngestFails
    <3>2. QED
      BY <1>14, <2>1, <3>1, SettledStays DEF TypeOK, IngestFails, serverVars, Carrying, Post
  <2>2. CASE ~\E f \in Flusher : msg[f] = m
    <3>1. post' = [post EXCEPT ![m] = Free]
      BY <1>14, <2>2, AnsweredFacts DEF IngestFails
    <3>2. QED
      BY <1>14, <2>2, <3>1, SettledStays DEF TypeOK, IngestFails, serverVars, Free, Carrying, Post
  <2>3. QED
    BY <2>1, <2>2
<1>15. CASE UNCHANGED vars
  BY <1>15, SettledStays DEF vars, TypeOK, Post
<1>16. QED
  BY <1>1, <1>2, <1>3, <1>4, <1>5, <1>6, <1>7, <1>8, <1>9, <1>10, <1>11, <1>12,
     <1>13, <1>14, <1>15 DEF Next

\* No action loses an event: a delivered chunk is settled, a failed one goes back.
LEMMA NextVanishes ==
    TypeOK /\ Flow /\ Answers /\ NothingVanishes /\ [Next]_vars => NothingVanishes'
<1> SUFFICES ASSUME TypeOK, Flow, Answers, NothingVanishes, [Next]_vars PROVE NothingVanishes'
  OBVIOUS
<1> USE PipelineAssumption DEF NothingVanishes
<1>1. ASSUME NEW x \in Experiment, CreateExperiment(x) PROVE NothingVanishes'
  BY <1>1, SettledStays DEF TypeOK, CreateExperiment
<1>2. ASSUME NEW x \in Experiment, StartExperiment(x) PROVE NothingVanishes'
  BY <1>2, SettledStays DEF TypeOK, StartExperiment, Moves
<1>3. ASSUME NEW x \in Experiment, StopExperiment(x) PROVE NothingVanishes'
  BY <1>3, SettledStays DEF TypeOK, StopExperiment, Moves
<1>4. ASSUME NEW x \in Experiment, DeleteExperiment(x) PROVE NothingVanishes'
  BY <1>4, SettledStays DEF TypeOK, DeleteExperiment, Moves
<1>5. ASSUME NEW e \in Event, Record(e) PROVE NothingVanishes'
  <2>1. e \in held' \cup dropped' /\ held \subseteq held' /\ batch' = batch
    BY <1>5 DEF Record
  <2>2. \A d \in happened' : d = e \/ d \in happened
    BY <1>5 DEF Record
  <2>3. QED
    BY <2>1, <2>2, SettledStays DEF TypeOK, Settled
<1>6. ASSUME NEW f \in Flusher, Drain(f) PROVE NothingVanishes'
  <2>1. \A e \in held : e \in batch'[f]
    BY <1>6 DEF Drain, TypeOK
  <2>2. \A g \in Flusher : batch[g] \subseteq batch'[g]
    BY <1>6 DEF Drain, TypeOK, Flow
  <2>3. happened' = happened
    BY <1>6 DEF Drain
  <2>4. QED
    BY <2>1, <2>2, <2>3, SettledStays DEF TypeOK
<1>7. ASSUME NEW f \in Flusher, PostEvents(f) PROVE NothingVanishes'
  BY <1>7, SettledStays DEF TypeOK, PostEvents
<1>8. ASSUME NEW f \in Flusher, Delivered(f) PROVE NothingVanishes'
  <2>1. \A e \in chunk[f] : Settled(e)
    BY <1>8 DEF Delivered, Flow, Answers, TypeOK, Post
  <2>2. \A e \in happened : e \in held \/ (\E g \in Flusher : e \in batch'[g]) \/ Settled(e)
    BY <1>8, <2>1 DEF Delivered, TypeOK
  <2>3. happened' = happened /\ held' = held
    BY <1>8 DEF Delivered
  <2>4. QED
    BY <2>2, <2>3, SettledStays DEF TypeOK
<1>9. ASSUME NEW f \in Flusher, Refused(f) PROVE NothingVanishes'
  <2>1. batch[f] \subseteq held' \cup dropped' /\ held \subseteq held'
    BY <1>9, RestoreFacts DEF Refused
  <2>2. \A e \in happened :
          e \in held' \cup dropped' \/ (\E g \in Flusher : e \in batch'[g]) \/ Settled(e)
    BY <1>9, <2>1 DEF Refused, Ends, Leaves, TypeOK
  <2>3. happened' = happened
    BY <1>9 DEF Refused
  <2>4. QED
    BY <2>2, <2>3, SettledStays DEF TypeOK, Settled
<1>10. ASSUME NEW f \in Flusher, TimesOut(f) PROVE NothingVanishes'
  <2>1. batch[f] \subseteq held' \cup dropped' /\ held \subseteq held'
    BY <1>10, RestoreFacts DEF TimesOut
  <2>2. \A e \in happened :
          e \in held' \cup dropped' \/ (\E g \in Flusher : e \in batch'[g]) \/ Settled(e)
    BY <1>10, <2>1 DEF TimesOut, Ends, Leaves, TypeOK
  <2>3. happened' = happened
    BY <1>10 DEF TimesOut
  <2>4. QED
    BY <2>2, <2>3, SettledStays DEF TypeOK, Settled
<1>11. ASSUME NEW f \in Flusher, Aborts(f) \/ Shutdown(f) PROVE NothingVanishes'
  <2>1. \A e \in happened :
          e \in held' \cup abandoned' \/ (\E g \in Flusher : e \in batch'[g]) \/ Settled(e)
    BY <1>11 DEF Aborts, Shutdown, Abandons, Ends, Leaves, TypeOK
  <2>2. happened' = happened
    BY <1>11 DEF Aborts, Shutdown, Abandons
  <2>3. QED
    BY <2>1, <2>2, SettledStays DEF TypeOK, Settled
<1>12. ASSUME NEW m \in Msg, Ingest(m) PROVE NothingVanishes'
  BY <1>12, SettledStays DEF TypeOK, Ingest, serverVars, Post
<1>13. ASSUME NEW m \in Msg, IngestCommits(m) PROVE NothingVanishes'
  BY <1>13, SettledStays DEF TypeOK, IngestCommits
<1>14. ASSUME NEW m \in Msg, IngestFails(m) PROVE NothingVanishes'
  BY <1>14, SettledStays DEF TypeOK, IngestFails
<1>15. CASE UNCHANGED vars
  BY <1>15, SettledStays DEF vars, TypeOK
<1>16. QED
  BY <1>1, <1>2, <1>3, <1>4, <1>5, <1>6, <1>7, <1>8, <1>9, <1>10, <1>11, <1>12,
     <1>13, <1>14, <1>15 DEF Next

-----------------------------------------------------------------------------
(* Epochs *)

\* The state machine and the foreign key keep counters away from drafts.
LEMMA NextEpochs ==
    TypeOK /\ Epochs /\ [Next]_vars => Epochs'
<1> SUFFICES ASSUME TypeOK, Epochs, [Next]_vars PROVE Epochs'
  OBVIOUS
<1> USE PipelineAssumption DEF Epochs, Of
<1>1. ASSUME NEW x \in Experiment, CreateExperiment(x) PROVE Epochs'
  BY <1>1 DEF TypeOK, CreateExperiment, Row, Post
<1>2. ASSUME NEW x \in Experiment, StartExperiment(x) PROVE Epochs'
  BY <1>2 DEF TypeOK, StartExperiment, Moves
<1>3. ASSUME NEW x \in Experiment, StopExperiment(x) PROVE Epochs'
  BY <1>3 DEF TypeOK, StopExperiment, Moves
<1>4. ASSUME NEW x \in Experiment, DeleteExperiment(x) PROVE Epochs'
  BY <1>4 DEF TypeOK, DeleteExperiment, Moves
<1>5. ASSUME NEW e \in Event, Record(e) PROVE Epochs'
  BY <1>5 DEF TypeOK, Record, serverVars, Post
<1>6. ASSUME NEW f \in Flusher, Drain(f) PROVE Epochs'
  BY <1>6 DEF TypeOK, Drain, serverVars, Post
<1>7. ASSUME NEW f \in Flusher, PostEvents(f) PROVE Epochs'
  <2>1. PICK E \in SUBSET batch[f], m \in Msg :
              /\ post[m].stage = "free"
              /\ chunk' = [chunk EXCEPT ![f] = E]
              /\ msg' = [msg EXCEPT ![f] = m]
              /\ post' = [post EXCEPT ![m] = Carrying(E, "sent")]
    BY <1>7, PostFacts
  <2>2. QED
    BY <1>7, <2>1 DEF TypeOK, PostEvents, serverVars, Carrying, Post, NothingRead
<1>8. ASSUME NEW f \in Flusher, Delivered(f) PROVE Epochs'
  BY <1>8 DEF TypeOK, Delivered, serverVars, Free, Carrying, Post, NothingRead
<1>9. ASSUME NEW f \in Flusher, Refused(f) PROVE Epochs'
  BY <1>9 DEF TypeOK, Refused, serverVars, Free, Carrying, Post, NothingRead
<1>10. ASSUME NEW f \in Flusher, TimesOut(f) PROVE Epochs'
  <2>1. post' = post \/ post' = [post EXCEPT ![msg[f]] = Free]
    BY <1>10 DEF TimesOut, Orphaned
  <2>2. UNCHANGED <<tally, row>>
    BY <1>10 DEF TimesOut, serverVars
  <2>3. \A m \in Msg, x \in Experiment :
          post'[m].read[x] = post[m].read[x] \/ post'[m].read[x] = 0
    <3>1. \A x \in Experiment : Free.read[x] = 0
      BY DEF Free, Carrying, NothingRead
    <3>2. \A m \in Msg : post'[m] = post[m] \/ post'[m] = Free
      BY <2>1 DEF TypeOK
    <3>3. QED
      BY <3>1, <3>2
  <2>4. QED
    BY <2>2, <2>3
<1>11. ASSUME NEW f \in Flusher, Aborts(f) \/ Shutdown(f) PROVE Epochs'
  <2>1. post' = post \/ post' = [post EXCEPT ![msg[f]] = Free]
    BY <1>11 DEF Aborts, Shutdown, Abandons, Orphaned
  <2>2. UNCHANGED <<tally, row>>
    BY <1>11 DEF Aborts, Shutdown, Abandons, serverVars
  <2>3. \A m \in Msg, x \in Experiment :
          post'[m].read[x] = post[m].read[x] \/ post'[m].read[x] = 0
    <3>1. \A x \in Experiment : Free.read[x] = 0
      BY DEF Free, Carrying, NothingRead
    <3>2. \A m \in Msg : post'[m] = post[m] \/ post'[m] = Free
      BY <2>1 DEF TypeOK
    <3>3. QED
      BY <3>1, <3>2
  <2>4. QED
    BY <2>2, <2>3
<1>12. ASSUME NEW m \in Msg, Ingest(m) PROVE Epochs'
  <2>1. UNCHANGED <<tally, row>>
    BY <1>12 DEF Ingest, serverVars
  <2>2. \A y \in Experiment : row[y].id \in Nat
    BY DEF TypeOK, Row
  <2>3. \A n \in Msg : n # m => post'[n] = post[n]
    BY <1>12 DEF TypeOK, Ingest
  <2>4. post \in [Msg -> Post]
    BY DEF TypeOK
  <2>5. \A y \in Experiment : post'[m].read[y] =
          IF row[y].state = "running" THEN row[y].id ELSE 0
    BY <1>12, <2>4 DEF Ingest, Post
  <2>6. \A n \in Msg, y \in Experiment : post'[n].read[y] # 0 =>
          /\ post'[n].read[y] <= row[y].id
          /\ row[y].state = "draft" => post'[n].read[y] # row[y].id
    <3> SUFFICES ASSUME NEW n \in Msg, NEW y \in Experiment, post'[n].read[y] # 0
                 PROVE  /\ post'[n].read[y] <= row[y].id
                        /\ row[y].state = "draft" => post'[n].read[y] # row[y].id
      OBVIOUS
    <3>1. CASE n = m
      BY <3>1, <2>2, <2>5
    <3>2. CASE n # m
      BY <3>2, <2>3
    <3>3. QED
      BY <3>1, <3>2
  <2>7. QED
    BY <2>1, <2>6
<1>13. ASSUME NEW m \in Msg, IngestCommits(m) PROVE Epochs'
  <2>1. CASE \E f \in Flusher : msg[f] = m
    <3>1. post' = [post EXCEPT ![m] = Carrying(post[m].events, "done")]
      BY <1>13, <2>1, AnsweredFacts DEF IngestCommits
    <3>2. QED
      BY <1>13, <2>1, <3>1 DEF TypeOK, IngestCommits, Carrying, Post, NothingRead, Accepted, Row
  <2>2. CASE ~\E f \in Flusher : msg[f] = m
    <3>1. post' = [post EXCEPT ![m] = Free]
      BY <1>13, <2>2, AnsweredFacts DEF IngestCommits
    <3>2. QED
      BY <1>13, <2>2, <3>1 DEF TypeOK, IngestCommits, Free, Carrying, Post, NothingRead, Accepted, Row
  <2>3. QED
    BY <2>1, <2>2
<1>14. ASSUME NEW m \in Msg, IngestFails(m) PROVE Epochs'
  <2>1. CASE \E f \in Flusher : msg[f] = m
    <3>1. post' = [post EXCEPT ![m] = Carrying(post[m].events, "rejected")]
      BY <1>14, <2>1, AnsweredFacts DEF IngestFails
    <3>2. QED
      BY <1>14, <2>1, <3>1 DEF TypeOK, IngestFails, serverVars, Carrying, Post, NothingRead
  <2>2. CASE ~\E f \in Flusher : msg[f] = m
    <3>1. post' = [post EXCEPT ![m] = Free]
      BY <1>14, <2>2, AnsweredFacts DEF IngestFails
    <3>2. QED
      BY <1>14, <2>2, <3>1 DEF TypeOK, IngestFails, serverVars, Free, Carrying, Post, NothingRead
  <2>3. QED
    BY <2>1, <2>2
<1>15. CASE UNCHANGED vars
  BY <1>15 DEF vars
<1>16. QED
  BY <1>1, <1>2, <1>3, <1>4, <1>5, <1>6, <1>7, <1>8, <1>9, <1>10, <1>11, <1>12,
     <1>13, <1>14, <1>15 DEF Next

-----------------------------------------------------------------------------
(* Uncounted *)

\* No action counts an unambiguous event that is still to be sent.
LEMMA NextUncounted ==
    TypeOK /\ Flow /\ Apart /\ Uncounted /\ [Next]_vars => Uncounted'
<1> SUFFICES ASSUME TypeOK, Flow, Apart, Uncounted, [Next]_vars PROVE Uncounted'
  OBVIOUS
<1> USE PipelineAssumption DEF Flow, Apart, Uncounted, Acting
<1>1. ASSUME NEW x \in Experiment, CreateExperiment(x) PROVE Uncounted'
  BY <1>1 DEF TypeOK, CreateExperiment
<1>2. ASSUME NEW x \in Experiment, StartExperiment(x) PROVE Uncounted'
  BY <1>2 DEF TypeOK, StartExperiment, Moves
<1>3. ASSUME NEW x \in Experiment, StopExperiment(x) PROVE Uncounted'
  BY <1>3 DEF TypeOK, StopExperiment, Moves
<1>4. ASSUME NEW x \in Experiment, DeleteExperiment(x) PROVE Uncounted'
  BY <1>4 DEF TypeOK, DeleteExperiment, Moves
<1>5. ASSUME NEW e \in Event, Record(e) PROVE Uncounted'
  BY <1>5 DEF TypeOK, Record, serverVars, Post
<1>6. ASSUME NEW f \in Flusher, Drain(f) PROVE Uncounted'
  BY <1>6 DEF TypeOK, Drain, serverVars, Post
<1>7. ASSUME NEW f \in Flusher, PostEvents(f) PROVE Uncounted'
  <2>1. PICK E \in SUBSET batch[f], m \in Msg :
              /\ post[m].stage = "free"
              /\ chunk' = [chunk EXCEPT ![f] = E]
              /\ msg' = [msg EXCEPT ![f] = m]
              /\ post' = [post EXCEPT ![m] = Carrying(E, "sent")]
    BY <1>7, PostFacts
  <2>2. QED
    BY <1>7, <2>1 DEF TypeOK, PostEvents, serverVars, Carrying, Post
<1>8. ASSUME NEW f \in Flusher, Delivered(f) PROVE Uncounted'
  BY <1>8 DEF TypeOK, Delivered, serverVars, Free, Carrying, Post
<1>9. ASSUME NEW f \in Flusher, Refused(f) PROVE Uncounted'
  BY <1>9, RestoreFacts DEF TypeOK, Refused, Ends, Leaves, serverVars, Free, Carrying, Post
<1>10. ASSUME NEW f \in Flusher, TimesOut(f) PROVE Uncounted'
  <2>1. held' \subseteq held \cup batch[f]
    BY <1>10, RestoreFacts DEF TimesOut
  <2>2. pc[f] = "waiting" /\ Ends(f) /\ UNCHANGED <<tally, happened>>
    BY <1>10 DEF TimesOut, serverVars
  <2>3. CASE post[msg[f]].stage = "sent" /\ post' = [post EXCEPT ![msg[f]] = Free]
             /\ UNCHANGED ambiguous
    BY <2>1, <2>2, <2>3 DEF TypeOK, Ends, Leaves, Free, Carrying, Post
  <2>4. CASE post' = Orphaned(msg[f]) /\ ambiguous' = ambiguous \cup chunk[f]
    <3>1. CASE post[msg[f]].stage \in {"done", "rejected"}
      BY <2>1, <2>2, <2>4, <3>1 DEF TypeOK, Ends, Leaves, Orphaned, Free, Carrying, Post
    <3>2. CASE post[msg[f]].stage \notin {"done", "rejected"}
      BY <2>1, <2>2, <2>4, <3>2 DEF TypeOK, Ends, Leaves, Orphaned, Post
    <3>3. QED
      BY <3>1, <3>2
  <2>5. QED
    BY <1>10, <2>3, <2>4 DEF TimesOut
<1>11. ASSUME NEW f \in Flusher, Aborts(f) \/ Shutdown(f) PROVE Uncounted'
  <2>1. PICK label \in {"idle", "stopped"} :
          /\ pc' = [pc EXCEPT ![f] = label] /\ batch' = [batch EXCEPT ![f] = {}]
          /\ chunk' = [chunk EXCEPT ![f] = {}] /\ msg' = [msg EXCEPT ![f] = NoMsg]
    BY <1>11 DEF Aborts, Shutdown, Ends, Leaves
  <2>2. UNCHANGED <<tally, held, happened, ambiguous>>
    BY <1>11 DEF Aborts, Shutdown, Abandons, serverVars
  <2>3. \/ post' = post
        \/ pc[f] = "waiting" /\ ~Acting(msg[f]) /\ post' = [post EXCEPT ![msg[f]] = Free]
    BY <1>11 DEF Aborts, Shutdown, Abandons, Orphaned, Acting
  <2>4. CASE post' = post
    BY <2>1, <2>2, <2>4 DEF TypeOK
  <2>5. CASE pc[f] = "waiting" /\ ~Acting(msg[f]) /\ post' = [post EXCEPT ![msg[f]] = Free]
    BY <2>1, <2>2, <2>5 DEF TypeOK, Free, Carrying, Post, Acting
  <2> QED BY <2>3, <2>4, <2>5
<1>12. ASSUME NEW m \in Msg, Ingest(m) PROVE Uncounted'
  BY <1>12 DEF TypeOK, Ingest, serverVars, Post, NothingRead
<1>13. ASSUME NEW m \in Msg, IngestCommits(m) PROVE Uncounted'
  <2>1. CASE \E f \in Flusher : msg[f] = m
    <3>1. post' = [post EXCEPT ![m] = Carrying(post[m].events, "done")]
      BY <1>13, <2>1, AnsweredFacts DEF IngestCommits
    <3>2. QED
      BY <1>13, <2>1, <3>1 DEF TypeOK, IngestCommits, Carrying, Post, Accepted, More
  <2>2. CASE ~\E f \in Flusher : msg[f] = m
    <3>1. post' = [post EXCEPT ![m] = Free]
      BY <1>13, <2>2, AnsweredFacts DEF IngestCommits
    <3>2. QED
      BY <1>13, <2>2, <3>1 DEF TypeOK, IngestCommits, Free, Carrying, Post, Accepted, More
  <2>3. QED
    BY <2>1, <2>2
<1>14. ASSUME NEW m \in Msg, IngestFails(m) PROVE Uncounted'
  <2>1. CASE \E f \in Flusher : msg[f] = m
    <3>1. post' = [post EXCEPT ![m] = Carrying(post[m].events, "rejected")]
      BY <1>14, <2>1, AnsweredFacts DEF IngestFails
    <3>2. QED
      BY <1>14, <2>1, <3>1 DEF TypeOK, IngestFails, serverVars, Carrying, Post
  <2>2. CASE ~\E f \in Flusher : msg[f] = m
    <3>1. post' = [post EXCEPT ![m] = Free]
      BY <1>14, <2>2, AnsweredFacts DEF IngestFails
    <3>2. QED
      BY <1>14, <2>2, <3>1 DEF TypeOK, IngestFails, serverVars, Free, Carrying, Post
  <2>3. QED
    BY <2>1, <2>2
<1>15. CASE UNCHANGED vars
  BY <1>15 DEF vars
<1>16. QED
  BY <1>1, <1>2, <1>3, <1>4, <1>5, <1>6, <1>7, <1>8, <1>9, <1>10, <1>11, <1>12,
     <1>13, <1>14, <1>15 DEF Next

-----------------------------------------------------------------------------

\* The invariant holds initially ...
LEMMA InitIInv == Init => IInv
<1> SUFFICES ASSUME Init PROVE IInv
  OBVIOUS
<1>1. TypeOK
  BY FreeType DEF Init, TypeOK, Row
<1>2. Flow /\ Apart /\ Answers /\ NothingVanishes /\ Uncounted
  BY DEF Init, Flow, Apart, Answers, NothingVanishes, Uncounted, Acting, Free, Carrying
<1>3. Epochs
  BY DEF Init, Epochs, Free, Carrying, NothingRead
<1>4. QED
  BY <1>1, <1>2, <1>3 DEF IInv

\* ... and every step preserves it ...
LEMMA NextIInv == IInv /\ [Next]_vars => IInv'
BY NextType, NextFlow, NextApart, NextAnswers, NextVanishes, NextUncounted, NextEpochs
   DEF IInv

\* ... so it holds always.
LEMMA Invariance == Spec => []IInv
BY InitIInv, NextIInv, PTL DEF Spec

\* The pipeline is type correct.
THEOREM PipelineTypeCorrect == Spec => []TypeOK
BY Invariance, PTL DEF IInv

\* "An outage delays counters, it does not lose them": whatever fails, times out
\* or overlaps, every recorded event is still in the SDK or accounted for.
THEOREM NothingVanishesHolds == Spec => []NothingVanishes
BY Invariance, PTL DEF IInv

\* An event is counted twice only if a POST that carried it was given up on
\* while the server could still act upon it, for any number of concurrent
\* flushes, any cap and any batch size.
THEOREM CountedOnceHolds == Spec => []CountedOnce
<1>1. IInv => CountedOnce
  BY DEF IInv, Uncounted, CountedOnce
<1>2. QED
  BY <1>1, Invariance, PTL

\* "A draft has no counters yet", for any number of experiments that bore its
\* key before and any batch still on its way for them.
THEOREM DraftIsBlankHolds == Spec => []DraftIsBlank
<1>1. IInv => DraftIsBlank
  BY PipelineAssumption DEF IInv, TypeOK, Epochs, DraftIsBlank
<1>2. QED
  BY <1>1, Invariance, PTL
=============================================================================
