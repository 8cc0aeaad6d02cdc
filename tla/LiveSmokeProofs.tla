-------------------------- MODULE LiveSmokeProofs ---------------------------
(***************************************************************************)
(* For any number of documents, contents, concepts and crashes: the        *)
(* database is never ahead of the manifests, a committed job has all its   *)
(* rows, and a rerun of what was committed last changes none.              *)
(***************************************************************************)
EXTENDS LiveSmoke, RangeLemmas

\* A run has a feed, and its loops and the worker have an element to work on.
Ready ==
  /\ run.pc # "idle" => run.feed # << >>
  /\ run.pc \in {"ingest", "enqueue", "work", "finish", "counts", "rows"} => run.rest # << >>
  /\ run.pc = "finish" => tasks # << >>

\* What is fetched is in the corpus, or is still to be recorded.
Fetched ==
  /\ Range(run.rest) \subseteq Range(run.feed)
  /\ \A i \in Range(run.feed) :
       docs[i.doc] # None \/ (run.pc = "ingest" /\ i \in Range(run.rest))
TasksStored == \A i \in Range(tasks) : docs[i.doc] # None

\* What the transaction holds, and what it may take from the manifest.
Behind(rows) ==
  /\ rows.embs \subseteq embs
  /\ \A d \in Docs : rows.docs[d] # None => docs[d] # None
Complete(rows) ==
  \A i \in rows.jobs : i \in rows.chunks /\ i \in rows.embs /\ rows.costs[i] = 1
SessionInv ==
  /\ run.snapshot \subseteq embs
  /\ Behind(db) /\ Behind(run.session)
  /\ Complete(db) /\ Complete(run.session)

Shape == TypeOK /\ Ready /\ Fetched /\ TasksStored
IInv == Shape /\ SessionInv

-----------------------------------------------------------------------------
(* Rows. *)
LEMMA StagedRows ==
  ASSUME NEW rows \in Rows, NEW i \in Items
  PROVE  /\ Staged(rows, i) \in Rows
         /\ Staged(rows, i).docs = [rows.docs EXCEPT ![i.doc] = i.version]
         /\ Staged(rows, i).embs = rows.embs \cup {i}
         /\ Staged(rows, i).chunks = rows.chunks \cup {i}
         /\ Staged(rows, i).jobs = rows.jobs \cup {i}
         /\ Staged(rows, i).costs = [rows.costs EXCEPT ![i] = 1]
         /\ Staged(rows, i).links = rows.links
         /\ Complete(rows) => Complete(Staged(rows, i))
<1>1. i.doc \in Docs /\ i.version \in Versions BY DEF Items
<1>2. rows.costs[i] \in 0 .. 1 BY DEF Rows
<1>3. InsertIfMissing(rows.costs[i]) = 1 BY <1>2 DEF InsertIfMissing
<1> DEFINE r1 == DocumentRow(rows, i)
           r2 == ChunkRows(r1, i)
           r3 == EmbeddingRows(r2, i)
<1>a. rows = [docs |-> rows.docs, chunks |-> rows.chunks, embs |-> rows.embs,
              jobs |-> rows.jobs, costs |-> rows.costs, links |-> rows.links]
  BY DEF Rows
<1>b. r1 = [docs |-> [rows.docs EXCEPT ![i.doc] = i.version], chunks |-> rows.chunks,
            embs |-> rows.embs, jobs |-> rows.jobs, costs |-> rows.costs, links |-> rows.links]
  BY <1>a DEF DocumentRow
<1>c. r2 = [docs |-> [rows.docs EXCEPT ![i.doc] = i.version],
            chunks |-> rows.chunks \cup {i}, embs |-> rows.embs, jobs |-> rows.jobs, costs |-> rows.costs, links |-> rows.links]
  BY <1>b DEF ChunkRows
<1>d. r3 = [docs |-> [rows.docs EXCEPT ![i.doc] = i.version],
            chunks |-> rows.chunks \cup {i}, embs |-> rows.embs \cup {i}, jobs |-> rows.jobs,
            costs |-> rows.costs, links |-> rows.links]
  BY <1>c DEF EmbeddingRows
<1>e. Staged(rows, i) = JobRows(r3, i) BY DEF Staged
<1>4. Staged(rows, i) =
        [docs |-> [rows.docs EXCEPT ![i.doc] = i.version], chunks |-> rows.chunks \cup {i},
         embs |-> rows.embs \cup {i}, jobs |-> rows.jobs \cup {i},
         costs |-> [rows.costs EXCEPT ![i] = 1], links |-> rows.links]
  <2> DEFINE c == [rows.costs EXCEPT ![i] = 1]
  <2>1. r3.costs = rows.costs /\ r3.jobs = rows.jobs BY <1>d
  <2>2. [r3.costs EXCEPT ![i] = InsertIfMissing(@)] = c BY <1>3, <2>1
  <2> HIDE DEF r3, c
  <2>3. JobRows(r3, i) = [r3 EXCEPT !.jobs = rows.jobs \cup {i}, !.costs = c]
    BY <2>1, <2>2 DEF JobRows
  <2>4. Staged(rows, i) =
          [docs |-> [rows.docs EXCEPT ![i.doc] = i.version], chunks |-> rows.chunks \cup {i},
           embs |-> rows.embs \cup {i}, jobs |-> rows.jobs \cup {i}, costs |-> c,
           links |-> rows.links]
    BY <1>d, <1>e, <2>3
  <2> QED BY <2>4 DEF c
<1>5. Staged(rows, i) \in Rows BY <1>1, <1>4 DEF Rows
<1>6. ASSUME Complete(rows), NEW j \in rows.jobs \cup {i}
      PROVE  j \in rows.chunks \cup {i} /\ j \in rows.embs \cup {i}
             /\ [rows.costs EXCEPT ![i] = 1][j] = 1
  BY <1>6 DEF Complete, Rows
<1> QED BY <1>4, <1>5, <1>6 DEF Complete

LEMMA NoRowsHold == NoRows \in Rows /\ Complete(NoRows) /\ Behind(NoRows)
BY DEF NoRows, Rows, Complete, Behind

-----------------------------------------------------------------------------
(* Initially and at the start of a run. *)
LEMMA IdleShape == Idle \in RunState /\ Idle.rest = << >> /\ Idle.feed = << >>
BY NoRowsHold DEF Idle, RunState, Labels

LEMMA InvInit == Init => IInv
<1> SUFFICES ASSUME Init PROVE IInv OBVIOUS
<1>1. TypeOK
  BY ConstantsAssumption, NoRowsHold, IdleShape DEF Init, TypeOK, Statuses
<1>2. Ready /\ Fetched /\ TasksStored
  BY RangeEmpty DEF Init, Ready, Fetched, TasksStored, Idle
<1>3. SessionInv
  BY NoRowsHold DEF Init, SessionInv, Idle, NoRows
<1> QED BY <1>1, <1>2, <1>3 DEF IInv, Shape

-----------------------------------------------------------------------------
(* Types, loops and the documents of a run. *)
LEMMA ItemDoc == \A i \in Items : i.doc \in Docs /\ i.version \in Versions
BY DEF Items

LEMMA RecordedGrows ==
  ASSUME TypeOK, NEW i \in Items
  PROVE  /\ Recorded(i) \in [Docs -> Versions \cup {None}]
         /\ \A d \in Docs : docs[d] # None => Recorded(i)[d] # None
         /\ Recorded(i)[i.doc] # None
BY ItemDoc, ConstantsAssumption DEF TypeOK, Recorded

LEMMA Advanced ==
  ASSUME run \in RunState, run.rest # << >>, run.feed # << >>,
         NEW label \in Labels, NEW next \in Labels, Advance(label, next)
  PROVE  /\ run' \in RunState
         /\ run'.feed = run.feed /\ run'.session = run.session /\ run'.snapshot = run.snapshot
         /\ run'.rest # << >>
         /\ \/ run'.pc = label /\ run'.rest = Tail(run.rest)
            \/ run'.pc = next /\ run'.rest = run.feed /\ Tail(run.rest) = << >>
<1>1. run.rest \in Seq(Items) /\ run.feed \in Seq(Items) BY DEF RunState
<1>2. Tail(run.rest) \in Seq(Items) BY <1>1, RangeTail
<1>3. CASE Tail(run.rest) # << >>
  <2>1. run' = [run EXCEPT !.pc = label, !.rest = Tail(@)] BY <1>3 DEF Advance
  <2> QED BY <1>2, <1>3, <2>1 DEF RunState
<1>4. CASE Tail(run.rest) = << >>
  <2>1. run' = [run EXCEPT !.pc = next, !.rest = run.feed] BY <1>4 DEF Advance
  <2> QED BY <1>1, <1>4, <2>1 DEF RunState
<1> QED BY <1>3, <1>4

LEMMA ShapeStep == Shape /\ [Next]_vars => Shape'
<1> SUFFICES ASSUME Shape, [Next]_vars PROVE Shape' OBVIOUS
<1>i. TypeOK /\ Ready /\ Fetched /\ TasksStored BY DEF Shape
<1>r. run \in RunState /\ run.rest \in Seq(Items) /\ run.feed \in Seq(Items)
      /\ run.worked \in Nat /\ tasks \in Seq(Items)
      /\ docs \in [Docs -> Versions \cup {None}] /\ db \in Rows /\ run.session \in Rows
      /\ jobs \in [Items -> Statuses] /\ embs \subseteq Items /\ recorded \subseteq Items
      /\ run.pc \in Labels /\ run.snapshot \subseteq Items /\ crashes \in 0 .. MaxCrashes
      /\ last \in [feed : Seq(Items), rows : Rows]
  BY <1>i DEF TypeOK, RunState
<1>e. Range(run.rest) \subseteq Items /\ Range(run.feed) \subseteq Items
      /\ Range(tasks) \subseteq Items
  BY <1>r, RangeIn
<1>0. ASSUME Raise, UNCHANGED <<docs, embs, jobs, recorded, db, last>>,
             crashes' \in 0 .. MaxCrashes,
             tasks' \in Seq(Items), Range(tasks') \subseteq Range(tasks)
      PROVE  Shape'
  <2>1. run' = Idle BY <1>0 DEF Raise
  <2>2. TypeOK' BY <1>0, <1>r, <2>1, IdleShape DEF TypeOK
  <2>3. Ready' BY <2>1 DEF Ready, Idle
  <2>4. Fetched' BY <2>1, RangeEmpty, IdleShape DEF Fetched
  <2>5. TasksStored' BY <1>0, <1>i DEF TasksStored
  <2> QED BY <2>2, <2>3, <2>4, <2>5 DEF Shape
<1>1. CASE Start
  <2>1. PICK feed \in Feeds, rq \in Modes :
          run' = [Idle EXCEPT !.pc = "ingest", !.rq = rq, !.feed = feed, !.rest = feed,
                              !.session = db]
    BY <1>1 DEF Start
  <2>2. feed \in Seq(Items) /\ feed # << >> /\ rq \in BOOLEAN BY ConstantsAssumption
  <2>3. run' = [pc |-> "ingest", rq |-> rq, feed |-> feed, rest |-> feed, worked |-> 0,
                snapshot |-> {}, session |-> db]
    BY <2>1 DEF Idle
  <2>4. UNCHANGED <<docs, embs, jobs, tasks, recorded, db, last, crashes>>
    BY <1>1 DEF Start, manifests, rqueue, history
  <2>5. TypeOK' BY <1>r, <2>2, <2>3, <2>4 DEF TypeOK, RunState, Labels
  <2>6. Ready' BY <2>2, <2>3 DEF Ready
  <2>7. Fetched' BY <2>3 DEF Fetched
  <2>8. TasksStored' BY <1>i, <2>4 DEF TasksStored
  <2> QED BY <2>5, <2>6, <2>7, <2>8 DEF Shape
<1>2. CASE Ingest
  <2> DEFINE i == Head(run.rest)
             next == IF run.rq THEN "enqueue" ELSE "rows"
  <2>1. /\ run.rest # << >> /\ run.feed # << >> /\ i \in Items /\ run.pc = "ingest"
        /\ Range(run.rest) = {i} \cup Range(Tail(run.rest))
    BY <1>2, <1>i, <1>r, RangeTail DEF Ingest, Ready
  <2>2. /\ docs' \in [Docs -> Versions \cup {None}] /\ docs'[i.doc] # None
        /\ \A d \in Docs : docs[d] # None => docs'[d] # None
    BY <1>2, <1>i, <2>1, RecordedGrows DEF Ingest
  <2>3. UNCHANGED <<embs, jobs, tasks, recorded, db, last, crashes>>
    BY <1>2 DEF Ingest, rqueue, history
  <2>4. /\ run' \in RunState /\ run'.feed = run.feed /\ run'.rest # << >>
        /\ \/ run'.pc = "ingest" /\ run'.rest = Tail(run.rest)
           \/ run'.pc = next /\ run'.rest = run.feed /\ Tail(run.rest) = << >>
    <3>1. Advance("ingest", next) BY <1>2 DEF Ingest
    <3>2. "ingest" \in Labels /\ next \in Labels BY DEF Labels
    <3> QED BY <1>r, <2>1, <3>1, <3>2, Advanced
  <2>5. TypeOK' BY <1>r, <2>2, <2>3, <2>4 DEF TypeOK
  <2>6. Ready' BY <2>1, <2>4 DEF Ready
  <2>7. Fetched'
    <3>1. Range(run'.rest) \subseteq Range(run'.feed) BY <1>i, <2>1, <2>4 DEF Fetched
    <3>2. ASSUME NEW k \in Range(run'.feed), docs'[k.doc] = None
          PROVE  run'.pc = "ingest" /\ k \in Range(run'.rest)
      <4>1. k \in Items /\ k.doc \in Docs BY <1>e, <2>4, <3>2, ItemDoc
      <4>2. docs[k.doc] = None /\ k # i BY <2>2, <3>2, <4>1
      <4>3. k \in Range(Tail(run.rest)) BY <1>i, <2>1, <2>4, <3>2, <4>2 DEF Fetched
      <4> QED BY <2>4, <4>3, RangeEmpty
    <3> QED BY <3>1, <3>2 DEF Fetched
  <2>8. TasksStored' BY <1>i, <1>e, <2>2, <2>3, ItemDoc DEF TasksStored
  <2> QED BY <2>5, <2>6, <2>7, <2>8 DEF Shape
<1>3. CASE FetchFails
  BY <1>0, <1>3, <1>r DEF FetchFails, manifests, rqueue, history
<1>4. CASE Enqueue
  <2> DEFINE h == Head(run.rest)
             i == Stored(h)
  <2>1. /\ run.rest # << >> /\ run.feed # << >> /\ h \in Items /\ run.pc = "enqueue"
        /\ Range(run.rest) = {h} \cup Range(Tail(run.rest))
    BY <1>4, <1>i, <1>r, RangeTail DEF Enqueue, Ready
  <2>2. docs[h.doc] # None BY <1>i, <2>1 DEF Fetched
  <2>3. i \in Items /\ docs[i.doc] # None
    <3>1. h.doc \in Docs /\ docs[h.doc] \in Versions BY <1>r, <2>1, <2>2, ItemDoc
    <3>2. i = [doc |-> h.doc, version |-> docs[h.doc]] BY <2>1 DEF Stored, Items
    <3> QED BY <2>2, <3>1, <3>2 DEF Items
  <2>4. /\ jobs' = [jobs EXCEPT ![i] = IF @ = "ABSENT" THEN "PENDING" ELSE @]
        /\ tasks' = IF i \in recorded THEN tasks ELSE Append(tasks, i)
        /\ recorded' = recorded \cup {i}
        /\ UNCHANGED <<docs, embs, db, last, crashes>>
    BY <1>4 DEF Enqueue, history
  <2>5. tasks' \in Seq(Items) /\ Range(tasks') \subseteq Range(tasks) \cup {i}
    BY <1>r, <2>3, <2>4, RangeAppend
  <2>6. jobs' \in [Items -> Statuses] BY <1>r, <2>4 DEF Statuses
  <2>7. /\ run' \in RunState /\ run'.feed = run.feed /\ run'.rest # << >>
        /\ \/ run'.pc = "enqueue" /\ run'.rest = Tail(run.rest)
           \/ run'.pc = "work" /\ run'.rest = run.feed
    <3>1. Advance("enqueue", "work") BY <1>4 DEF Enqueue
    <3>2. "enqueue" \in Labels /\ "work" \in Labels BY DEF Labels
    <3> QED BY <1>r, <2>1, <3>1, <3>2, Advanced
  <2>8. TypeOK' BY <1>r, <2>3, <2>4, <2>5, <2>6, <2>7 DEF TypeOK
  <2>9. Ready' BY <2>1, <2>7 DEF Ready
  <2>10. Fetched' BY <1>i, <2>1, <2>4, <2>7 DEF Fetched
  <2>11. TasksStored' BY <1>i, <2>3, <2>4, <2>5 DEF TasksStored
  <2> QED BY <2>8, <2>9, <2>10, <2>11 DEF Shape
<1>5. CASE WorkDone
  <2>1. run' = [run EXCEPT !.pc = "counts"] /\ run.pc = "work"
        /\ UNCHANGED <<docs, embs, jobs, tasks, recorded, db, last, crashes>>
    BY <1>5 DEF WorkDone, manifests, rqueue, history
  <2>2. run' \in RunState /\ run'.pc = "counts" /\ run'.feed = run.feed /\ run'.rest = run.rest
    BY <1>r, <2>1 DEF RunState, Labels
  <2> QED BY <1>i, <2>1, <2>2 DEF Shape, TypeOK, Ready, Fetched, TasksStored
<1>6. CASE WorkTask
  <2>1. /\ tasks # << >> /\ run.pc = "work" /\ Head(tasks) \in Items
        /\ Tail(tasks) \in Seq(Items) /\ Range(Tail(tasks)) \subseteq Range(tasks)
        /\ UNCHANGED <<docs, embs, recorded, db, last, crashes>>
    BY <1>6, <1>r, RangeTail DEF WorkTask, history
  <2>2. CASE jobs[Head(tasks)] = "PENDING"
    <3>1. /\ jobs' = [jobs EXCEPT ![Head(tasks)] = "RUNNING"]
          /\ run' = [run EXCEPT !.pc = "finish"] /\ tasks' = tasks
      BY <1>6, <2>2 DEF WorkTask
    <3>2. /\ run' \in RunState /\ run'.pc = "finish"
          /\ run'.feed = run.feed /\ run'.rest = run.rest
      BY <1>r, <3>1 DEF RunState, Labels
    <3>3. jobs' \in [Items -> Statuses] BY <1>r, <3>1 DEF Statuses
    <3> QED BY <1>i, <2>1, <3>1, <3>2, <3>3 DEF Shape, TypeOK, Ready, Fetched, TasksStored
  <2>3. CASE jobs[Head(tasks)] # "PENDING"
    <3>1. tasks' = Tail(tasks) /\ run' = [run EXCEPT !.worked = @ + 1] /\ jobs' = jobs
      BY <1>6, <2>3 DEF WorkTask
    <3>2. /\ run' \in RunState /\ run'.pc = "work"
          /\ run'.feed = run.feed /\ run'.rest = run.rest
      <4>1. run.worked + 1 \in Nat BY <1>r
      <4> QED BY <1>r, <2>1, <3>1, <4>1 DEF RunState
    <3> QED BY <1>i, <2>1, <3>1, <3>2 DEF Shape, TypeOK, Ready, Fetched, TasksStored
  <2> QED BY <2>2, <2>3
<1>7. CASE FinishTask
  <2> DEFINE i == Head(tasks)
  <2>1. /\ tasks # << >> /\ run.pc = "finish" /\ i \in Items
        /\ Tail(tasks) \in Seq(Items) /\ Range(tasks) = {i} \cup Range(Tail(tasks))
    BY <1>7, <1>i, <1>r, RangeTail DEF FinishTask, Ready
  <2>2. Stored(i) \in Items
    <3>1. i.doc \in Docs /\ docs[i.doc] \in Versions BY <1>i, <1>r, <2>1, ItemDoc DEF TasksStored
    <3>2. Stored(i) = [doc |-> i.doc, version |-> docs[i.doc]] BY <2>1 DEF Stored, Items
    <3> QED BY <3>1, <3>2 DEF Items
  <2>3. PICK outcome \in Outcomes :
          /\ jobs' = [jobs EXCEPT ![i] = outcome]
          /\ embs' = IF outcome = "SUCCEEDED" THEN embs \cup {Stored(i)} ELSE embs
    BY <1>7 DEF FinishTask
  <2>4. jobs' \in [Items -> Statuses] /\ embs' \subseteq Items
    BY <1>r, <2>2, <2>3, ConstantsAssumption DEF Statuses, Settled
  <2>5. /\ tasks' = Tail(tasks) /\ UNCHANGED <<docs, recorded, db, last, crashes>>
        /\ run' = [run EXCEPT !.pc = "work", !.worked = @ + 1]
    BY <1>7 DEF FinishTask, history
  <2>6. run' \in RunState /\ run'.pc = "work" /\ run'.feed = run.feed /\ run'.rest = run.rest
    <3> DEFINE w == run.worked + 1
    <3>1. w \in Nat BY <1>r
    <3>2. run' = [run EXCEPT !.pc = "work", !.worked = w] BY <2>5
    <3> HIDE DEF w
    <3> QED BY <1>r, <3>1, <3>2 DEF RunState, Labels
  <2> QED BY <1>i, <2>1, <2>4, <2>5, <2>6 DEF Shape, TypeOK, Ready, Fetched, TasksStored
<1>8. CASE CheckCounts
  <2>1. UNCHANGED <<docs, embs, jobs, tasks, recorded, db, last, crashes>> /\ run.pc = "counts"
    BY <1>8 DEF CheckCounts, manifests, rqueue, history
  <2>2. CASE Raise BY <1>0, <1>r, <2>1, <2>2
  <2>3. CASE run' = [run EXCEPT !.pc = "rows", !.snapshot = embs]
    <3>1. /\ run' \in RunState /\ run'.pc = "rows"
          /\ run'.feed = run.feed /\ run'.rest = run.rest
      BY <1>r, <2>3 DEF RunState, Labels
    <3> QED BY <1>i, <2>1, <3>1 DEF Shape, TypeOK, Ready, Fetched, TasksStored
  <2> QED BY <1>8, <2>2, <2>3 DEF CheckCounts
<1>9. CASE StageDocument
  <2> DEFINE i == Head(run.rest)
             pc == IF Tail(run.rest) = << >> THEN "ontology" ELSE "rows"
  <2>1. /\ run.rest # << >> /\ run.feed # << >> /\ i \in Items /\ run.pc = "rows"
        /\ Tail(run.rest) \in Seq(Items)
        /\ Range(run.rest) = {i} \cup Range(Tail(run.rest))
    BY <1>9, <1>i, <1>r, RangeTail DEF StageDocument, Ready
  <2>2. /\ run' = [run EXCEPT !.pc = pc, !.rest = Tail(@), !.session = Staged(@, i)]
        /\ embs' = IF run.rq THEN embs ELSE embs \cup {i}
        /\ UNCHANGED <<docs, jobs, tasks, recorded, db, last, crashes>>
    BY <1>9 DEF StageDocument, rqueue, history
  <2>3. Staged(run.session, i) \in Rows BY <1>r, <2>1, StagedRows
  <2>4. /\ run' \in RunState /\ run'.pc = pc
        /\ run'.feed = run.feed /\ run'.rest = Tail(run.rest)
    BY <1>r, <2>1, <2>2, <2>3 DEF RunState, Labels
  <2>5. embs' \subseteq Items BY <1>r, <2>1, <2>2
  <2> QED BY <1>i, <2>1, <2>2, <2>4, <2>5 DEF Shape, TypeOK, Ready, Fetched, TasksStored
<1>10. CASE MissingEmbedding
  BY <1>0, <1>10, <1>r DEF MissingEmbedding, manifests, rqueue, history
<1>11. CASE StageConcepts
  <2>1. UNCHANGED <<docs, embs, jobs, tasks, recorded, db, last, crashes>>
        /\ run.pc = "ontology"
    BY <1>11 DEF StageConcepts, manifests, rqueue, history
  <2>2. CASE Raise BY <1>0, <1>r, <2>1, <2>2
  <2>3. CASE run' = [run EXCEPT !.pc = "commit", !.session.links = @ \cup ConceptLinks]
    <3>1. ConceptLinks \subseteq Links BY DEF ConceptLinks
    <3>2. [run.session EXCEPT !.links = @ \cup ConceptLinks] \in Rows BY <1>r, <3>1 DEF Rows
    <3>3. /\ run' \in RunState /\ run'.pc = "commit"
          /\ run'.feed = run.feed /\ run'.rest = run.rest
      BY <1>r, <2>3, <3>2 DEF RunState, Labels
    <3> QED BY <1>i, <2>1, <3>3 DEF Shape, TypeOK, Ready, Fetched, TasksStored
  <2> QED BY <1>11, <2>2, <2>3 DEF StageConcepts
<1>12. CASE Commit
  <2>1. /\ run.pc = "commit" /\ db' = run.session /\ run' = Idle
        /\ last' = [feed |-> run.feed, rows |-> run.session]
        /\ UNCHANGED <<docs, embs, jobs, tasks, recorded, crashes>>
    BY <1>12 DEF Commit, manifests, rqueue
  <2>2. TypeOK' BY <1>r, <2>1, IdleShape DEF TypeOK
  <2>3. Ready' BY <2>1 DEF Ready, Idle
  <2>4. Fetched' BY <2>1, RangeEmpty, IdleShape DEF Fetched
  <2>5. TasksStored' BY <1>i, <2>1 DEF TasksStored
  <2> QED BY <2>2, <2>3, <2>4, <2>5 DEF Shape
<1>13. CASE Crash
  <2>1. /\ run' = Idle /\ crashes' = crashes + 1 /\ crashes < MaxCrashes
        /\ tasks' = IF run.pc = "finish" THEN Tail(tasks) ELSE tasks
        /\ UNCHANGED <<docs, embs, jobs, recorded, db, last>>
    BY <1>13 DEF Crash
  <2>2. tasks' \in Seq(Items) /\ Range(tasks') \subseteq Range(tasks)
    BY <1>i, <1>r, <2>1, RangeTail DEF Ready
  <2>3. crashes' \in 0 .. MaxCrashes BY <1>r, <2>1, ConstantsAssumption
  <2> QED BY <1>0, <2>1, <2>2, <2>3 DEF Raise
<1>14. ASSUME NEW i \in Items, Expire(i) PROVE Shape'
  <2>1. recorded' = recorded \ {i} /\ UNCHANGED <<docs, embs, jobs, tasks, db, run, last, crashes>>
    BY <1>14 DEF Expire, history
  <2> QED BY <1>i, <2>1 DEF Shape, TypeOK, Ready, Fetched, TasksStored
<1>15. ASSUME NEW i \in Foreign, IngestForeign(i) PROVE Shape'
  <2>1. i \in Items BY ConstantsAssumption
  <2>2. /\ docs' \in [Docs -> Versions \cup {None}]
        /\ \A d \in Docs : docs[d] # None => docs'[d] # None
    BY <1>15, <1>i, <2>1, RecordedGrows DEF IngestForeign
  <2>3. UNCHANGED <<embs, jobs, tasks, recorded, db, run, last, crashes>>
    BY <1>15 DEF IngestForeign, rqueue, history
  <2>4. TypeOK' BY <1>r, <2>2, <2>3 DEF TypeOK
  <2>5. Ready' BY <1>i, <2>3 DEF Ready
  <2>6. Fetched' BY <1>i, <1>e, <2>2, <2>3, ItemDoc DEF Fetched
  <2>7. TasksStored' BY <1>i, <1>e, <2>2, <2>3, ItemDoc DEF TasksStored
  <2> QED BY <2>4, <2>5, <2>6, <2>7 DEF Shape
<1>16. CASE UNCHANGED vars
  BY <1>i, <1>16 DEF vars, rqueue, manifests, history, Shape, TypeOK, Ready, Fetched, TasksStored
<1> QED
  BY <1>1, <1>2, <1>3, <1>4, <1>5, <1>6, <1>7, <1>8, <1>9, <1>10, <1>11, <1>12, <1>13, <1>14,
     <1>15, <1>16 DEF Next, Smoke

-----------------------------------------------------------------------------
(* What the transaction holds. *)
LEMMA InvStep == IInv /\ [Next]_vars => IInv'
<1> SUFFICES ASSUME IInv, [Next]_vars PROVE IInv' OBVIOUS
<1>s. Shape' BY ShapeStep DEF IInv
<1> SUFFICES SessionInv' BY <1>s DEF IInv
<1>i. /\ TypeOK /\ Ready /\ Fetched /\ run.snapshot \subseteq embs
      /\ Behind(db) /\ Behind(run.session) /\ Complete(db) /\ Complete(run.session)
  BY DEF IInv, Shape, SessionInv
<1>r. run \in RunState /\ run.rest \in Seq(Items) /\ run.session \in Rows
  BY <1>i DEF TypeOK, RunState
\* A step that neither stages nor commits.
<1>0. ASSUME \/ run'.session = run.session /\ run'.snapshot = run.snapshot
             \/ run' = Idle,
             embs \subseteq embs', \A d \in Docs : docs[d] # None => docs'[d] # None, db' = db
      PROVE  SessionInv'
  <2>1. Behind(db)' /\ Complete(db)' BY <1>0, <1>i DEF Behind, Complete
  <2>2. CASE run' = Idle BY <2>1, <2>2 DEF SessionInv, Idle, NoRows, Behind, Complete
  <2>3. CASE run'.session = run.session /\ run'.snapshot = run.snapshot
    <3>1. Behind(run.session)' /\ Complete(run.session)' /\ run'.snapshot \subseteq embs'
      BY <1>0, <1>i, <2>3 DEF Behind, Complete
    <3> QED BY <2>1, <3>1 DEF SessionInv
  <2> QED BY <1>0, <2>2, <2>3
<1>1. CASE Start
  <2>1. PICK feed \in Feeds, rq \in Modes :
          run' = [Idle EXCEPT !.pc = "ingest", !.rq = rq, !.feed = feed, !.rest = feed,
                              !.session = db]
    BY <1>1 DEF Start
  <2>2. run'.session = db /\ run'.snapshot = {} BY <2>1 DEF Idle
  <2>3. UNCHANGED <<docs, embs, db>> BY <1>1 DEF Start, manifests, rqueue
  <2> QED BY <1>i, <2>2, <2>3 DEF SessionInv, Behind, Complete
<1>2. CASE Ingest
  <2>1. Head(run.rest) \in Items /\ run.rest # << >> /\ run.feed # << >>
    BY <1>2, <1>i, <1>r, RangeTail DEF Ingest, Ready
  <2>2. \A d \in Docs : docs[d] # None => docs'[d] # None
    BY <1>2, <1>i, <2>1, RecordedGrows DEF Ingest
  <2>3. run'.session = run.session /\ run'.snapshot = run.snapshot
    <3>1. Advance("ingest", IF run.rq THEN "enqueue" ELSE "rows") BY <1>2 DEF Ingest
    <3>2. "ingest" \in Labels /\ (IF run.rq THEN "enqueue" ELSE "rows") \in Labels BY DEF Labels
    <3> QED BY <1>r, <2>1, <3>1, <3>2, Advanced
  <2> QED BY <1>0, <1>2, <2>2, <2>3 DEF Ingest
<1>3. CASE FetchFails \/ MissingEmbedding \/ Crash
  <2>1. run' = Idle /\ UNCHANGED <<docs, embs, db>>
    BY <1>3 DEF FetchFails, MissingEmbedding, Crash, Raise, manifests, rqueue
  <2> QED BY <1>0, <2>1
<1>4. CASE Enqueue
  <2>1. run.rest # << >> /\ run.feed # << >> BY <1>4, <1>i DEF Enqueue, Ready
  <2>2. run'.session = run.session /\ run'.snapshot = run.snapshot
    <3>1. Advance("enqueue", "work") BY <1>4 DEF Enqueue
    <3>2. "enqueue" \in Labels /\ "work" \in Labels BY DEF Labels
    <3> QED BY <1>r, <2>1, <3>1, <3>2, Advanced
  <2> QED BY <1>0, <1>4, <2>2 DEF Enqueue
<1>5. CASE WorkDone \/ WorkTask \/ FinishTask
  <2>1. run'.session = run.session /\ run'.snapshot = run.snapshot
        /\ embs \subseteq embs' /\ UNCHANGED <<docs, db>>
    BY <1>5, <1>r DEF WorkDone, WorkTask, FinishTask, RunState, manifests, rqueue
  <2> QED BY <1>0, <2>1
<1>6. CASE CheckCounts
  <2>1. UNCHANGED <<docs, embs, db>> BY <1>6 DEF CheckCounts, manifests, rqueue
  <2>2. CASE Raise BY <1>0, <2>1, <2>2 DEF Raise
  <2>3. CASE run' = [run EXCEPT !.pc = "rows", !.snapshot = embs]
    <3>1. run'.session = run.session /\ run'.snapshot = embs BY <1>r, <2>3 DEF RunState
    <3> QED BY <1>i, <2>1, <3>1 DEF SessionInv, Behind, Complete
  <2> QED BY <1>6, <2>2, <2>3 DEF CheckCounts
<1>7. CASE StageDocument
  <2> DEFINE i == Head(run.rest)
             rows == Staged(run.session, i)
  <2>1. /\ i \in Items /\ run.pc = "rows" /\ i.doc \in Docs /\ docs[i.doc] # None
        /\ run.rq => i \in embs
    BY <1>7, <1>i, <1>r, RangeTail, ItemDoc DEF StageDocument, Ready, Fetched
  <2>2. run'.session = rows /\ run'.snapshot = run.snapshot BY <1>7, <1>r DEF StageDocument, RunState
  <2>3. embs' = embs \cup {i} /\ UNCHANGED <<docs, db>>
    BY <1>7, <2>1 DEF StageDocument
  <2>4. /\ rows.docs = [run.session.docs EXCEPT ![i.doc] = i.version]
        /\ rows.embs = run.session.embs \cup {i} /\ Complete(rows)
    BY <1>i, <1>r, <2>1, StagedRows
  <2>5. rows.embs \subseteq embs'
    BY <1>i, <2>3, <2>4 DEF Behind
  <2>6. \A d \in Docs : rows.docs[d] # None => docs'[d] # None
    <3>1. run.session.docs \in [Docs -> Versions \cup {None}] BY <1>r DEF Rows
    <3> HIDE DEF rows
    <3> QED BY <1>i, <2>1, <2>3, <2>4, <3>1 DEF Behind
  <2>7. Behind(run.session)' BY <2>2, <2>5, <2>6 DEF Behind
  <2>8. Complete(run.session)' BY <2>2, <2>4 DEF Complete
  <2> QED BY <1>i, <2>2, <2>3, <2>7, <2>8 DEF SessionInv, Behind, Complete
<1>8. CASE StageConcepts
  <2>1. UNCHANGED <<docs, embs, db>> BY <1>8 DEF StageConcepts, manifests, rqueue
  <2>2. CASE Raise BY <1>0, <2>1, <2>2 DEF Raise
  <2>3. CASE run' = [run EXCEPT !.pc = "commit", !.session.links = @ \cup ConceptLinks]
    <3>1. /\ run'.session = [run.session EXCEPT !.links = @ \cup ConceptLinks]
          /\ run'.snapshot = run.snapshot
      BY <1>r, <2>3 DEF RunState
    <3>2. /\ run'.session.docs = run.session.docs /\ run'.session.embs = run.session.embs
          /\ run'.session.chunks = run.session.chunks /\ run'.session.jobs = run.session.jobs
          /\ run'.session.costs = run.session.costs
      BY <1>r, <3>1 DEF Rows
    <3> QED BY <1>i, <2>1, <3>1, <3>2 DEF SessionInv, Behind, Complete
  <2> QED BY <1>8, <2>2, <2>3 DEF StageConcepts
<1>9. CASE Commit
  <2>1. db' = run.session /\ run' = Idle /\ UNCHANGED <<docs, embs>>
    BY <1>9 DEF Commit, manifests, rqueue
  <2>2. Behind(db)' /\ Complete(db)' BY <1>i, <2>1 DEF Behind, Complete
  <2> QED BY <2>1, <2>2 DEF SessionInv, Idle, NoRows, Behind, Complete
<1>10. ASSUME NEW i \in Items, Expire(i) PROVE SessionInv'
  <2>1. UNCHANGED <<docs, embs, db, run>> BY <1>10 DEF Expire
  <2> QED BY <1>0, <2>1
<1>11. ASSUME NEW i \in Foreign, IngestForeign(i) PROVE SessionInv'
  <2>1. i \in Items BY ConstantsAssumption
  <2>2. \A d \in Docs : docs[d] # None => docs'[d] # None
    BY <1>11, <1>i, <2>1, RecordedGrows DEF IngestForeign
  <2> QED BY <1>0, <1>11, <2>2 DEF IngestForeign
<1>12. CASE UNCHANGED vars
  <2>1. UNCHANGED <<docs, embs, db, run>> BY <1>12 DEF vars
  <2> QED BY <1>0, <2>1
<1> QED
  BY <1>1, <1>2, <1>3, <1>4, <1>5, <1>6, <1>7, <1>8, <1>9, <1>10, <1>11, <1>12 DEF Next, Smoke

-----------------------------------------------------------------------------
(* Every reachable state satisfies the invariant. *)
THEOREM Invariance == Spec => []IInv
<1>1. Init => IInv BY InvInit
<1>2. IInv /\ [Next]_vars => IInv' BY InvStep
<1> QED BY <1>1, <1>2, PTL DEF Spec

\* The variables have their types.
THEOREM TypesHold == Spec => []TypeOK
<1>1. IInv => TypeOK BY DEF IInv, Shape
<1> QED BY <1>1, Invariance, PTL

\* The database is never ahead of the manifests (run_live_small_smoke 146-236),
\* whatever fails, crashes or is ingested by others meanwhile.
THEOREM CommitsLast == Spec => []ManifestsFirst
<1>1. IInv => ManifestsFirst BY DEF IInv, SessionInv, Behind, ManifestsFirst
<1> QED BY <1>1, Invariance, PTL

\* A committed job has its chunks, embeddings and cost row (168-194).
THEOREM JobsComplete == Spec => []CommittedJobsComplete
<1>1. IInv => CommittedJobsComplete BY DEF IInv, SessionInv, Complete, CommittedJobsComplete
<1> QED BY <1>1, Invariance, PTL
-----------------------------------------------------------------------------
(* A rerun of one sample changes no row. *)
\* v is what the first n items of a feed say of a document.
Absent(feed, n, d) == \A k \in 1 .. n : feed[k].doc # d
Latest(v, feed, n, d) ==
  \E k \in 1 .. n : feed[k].doc = d /\ feed[k].version = v
                    /\ \A j \in 1 .. n : j > k => feed[j].doc # d

\* The rows are those of base and of the first n items of a feed.
Done(feed, n) == {feed[k] : k \in 1 .. n}
StagedTo(rows, base, feed, n) ==
  /\ rows.chunks = base.chunks \cup Done(feed, n)
  /\ rows.embs = base.embs \cup Done(feed, n)
  /\ rows.jobs = base.jobs \cup Done(feed, n)
  /\ \A i \in Items : rows.costs[i] = IF i \in Done(feed, n) THEN 1 ELSE base.costs[i]
  /\ \A d \in Docs : \/ Latest(rows.docs[d], feed, n, d)
                     \/ Absent(feed, n, d) /\ rows.docs[d] = base.docs[d]

\* The rows have all that a feed says.
Carries(rows, feed) ==
  /\ Done(feed, Len(feed)) \subseteq rows.chunks \cap rows.embs \cap rows.jobs
  /\ \A i \in Done(feed, Len(feed)) : rows.costs[i] = 1
  /\ \A d \in Docs : Absent(feed, Len(feed), d) \/ Latest(rows.docs[d], feed, Len(feed), d)

\* The links of what the corpus says of the documents of a run that passed: a
\* paper keeps its content, the others are as the rows have them.
LinksOf(d, v) == {l \in Links : l.doc = d /\ l.concept \in Mentions[v]}
Linked(rows) ==
  \A d \in FeedDocs :
    /\ docs[d] # None
    /\ LinksOf(d, IF d \in Academic THEN docs[d] ELSE rows.docs[d]) \subseteq rows.links

\* How far the loop of a run is.
Passed == Len(run.feed) - Len(run.rest)
OnWay ==
  /\ Len(run.rest) <= Len(run.feed)
  /\ \A k \in 1 .. Len(run.rest) : run.rest[k] = run.feed[Passed + k]
Ingested == IF run.pc = "ingest" THEN Passed ELSE Len(run.feed)
StagedSoFar ==
  IF run.pc \in {"ontology", "commit"} THEN Len(run.feed)
  ELSE IF run.pc = "rows" THEN Passed ELSE 0

Running ==
  /\ run.feed \in Feeds
  /\ run.pc \in {"ingest", "rows"} => OnWay
  /\ run.pc \in {"work", "finish", "counts"} => run.rest = run.feed
  /\ \A d \in FeedDocs \ Academic :
       Latest(docs[d], run.feed, Ingested, d) \/ Absent(run.feed, Ingested, d)
  /\ StagedTo(run.session, db, run.feed, StagedSoFar)
  /\ run.pc # "commit" => run.session.links = db.links
  /\ run.pc = "commit" =>
       /\ Linked(run.session)
       /\ run.feed = last.feed => run.session.links = db.links

Passing ==
  /\ last.feed # << >> => last.feed \in Feeds /\ Linked(db)
  /\ Carries(db, last.feed)
  /\ \A d \in Docs : db.docs[d] # None => d \in FeedDocs
RerunInv == Passing /\ (run.pc # "idle" => Running)

\* Two versions cannot both be the latest.
LEMMA LatestIsOne ==
  ASSUME NEW feed \in Seq(Items), NEW n \in 0 .. Len(feed), NEW d, NEW v, NEW w,
         Latest(v, feed, n, d), Latest(w, feed, n, d)
  PROVE  v = w
<1>1. PICK k \in 1 .. n : feed[k].doc = d /\ feed[k].version = v
                          /\ \A j \in 1 .. n : j > k => feed[j].doc # d
  BY DEF Latest
<1>2. PICK l \in 1 .. n : feed[l].doc = d /\ feed[l].version = w
                          /\ \A j \in 1 .. n : j > l => feed[j].doc # d
  BY DEF Latest
<1>3. ~ (k > l) /\ ~ (l > k) BY <1>1, <1>2
<1>4. k = l BY ONLY <1>3, k \in 1 .. n, l \in 1 .. n, n \in 0 .. Len(feed), Len(feed) \in Nat
<1> QED BY <1>1, <1>2, <1>4

\* One item more is the latest of its document, and leaves the others.
LEMMA LatestGrows ==
  ASSUME NEW feed \in Seq(Items), NEW n \in 0 .. Len(feed) - 1, NEW i, i = feed[n + 1]
  PROVE  /\ Latest(i.version, feed, n + 1, i.doc)
         /\ \A d, v : d # i.doc /\ Latest(v, feed, n, d) => Latest(v, feed, n + 1, d)
         /\ \A d : d # i.doc /\ Absent(feed, n, d) => Absent(feed, n + 1, d)
<1>1. n \in Nat /\ n + 1 \in 1 .. n + 1 OBVIOUS
<1>2. \A k : k \in 1 .. n + 1 <=> k \in 1 .. n \/ k = n + 1 BY <1>1
<1>3. Latest(i.version, feed, n + 1, i.doc)
  <2>1. \A j \in 1 .. n + 1 : ~ (j > n + 1) BY <1>1
  <2> QED BY <1>1, <2>1 DEF Latest
<1>4. ASSUME NEW d, NEW v, d # i.doc, Latest(v, feed, n, d) PROVE Latest(v, feed, n + 1, d)
  <2>1. PICK k \in 1 .. n : feed[k].doc = d /\ feed[k].version = v
                            /\ \A j \in 1 .. n : j > k => feed[j].doc # d
    BY <1>4 DEF Latest
  <2>2. k \in 1 .. n + 1 BY <1>2
  <2>3. \A j \in 1 .. n + 1 : j > k => feed[j].doc # d BY <1>2, <1>4, <2>1
  <2> QED BY <2>1, <2>2, <2>3 DEF Latest
<1>5. ASSUME NEW d, d # i.doc, Absent(feed, n, d) PROVE Absent(feed, n + 1, d)
  BY <1>2, <1>5 DEF Absent
<1> QED BY <1>3, <1>4, <1>5

\* Every feed has every document of the sample.
LEMMA NoneAbsent ==
  ASSUME OneSample, NEW feed \in Feeds, NEW d \in FeedDocs
  PROVE  ~ Absent(feed, Len(feed), d)
<1>1. feed \in Seq(Items) BY ConstantsAssumption
<1>2. PICK k \in DOMAIN feed : feed[k].doc = d BY DEF OneSample
<1>3. k \in 1 .. Len(feed) BY <1>1, <1>2
<1> QED BY <1>2, <1>3 DEF Absent

LEMMA LatestInSample ==
  ASSUME NEW feed \in Feeds, NEW n \in 0 .. Len(feed), NEW d \in Docs, NEW v,
         Latest(v, feed, n, d)
  PROVE  d \in FeedDocs
<1>1. feed \in Seq(Items) BY ConstantsAssumption
<1>2. PICK k \in 1 .. n : feed[k].doc = d BY DEF Latest
<1>3. k \in DOMAIN feed BY <1>1, <1>2
<1> QED BY <1>2, <1>3 DEF FeedDocs

\* A transaction starts with the committed rows.
LEMMA StagedNone ==
  ASSUME NEW rows \in Rows, NEW feed \in Seq(Items)
  PROVE  StagedTo(rows, rows, feed, 0)
<1>1. 1 .. 0 = {} OBVIOUS
<1>2. Done(feed, 0) = {} BY <1>1 DEF Done
<1>3. \A d \in Docs : Absent(feed, 0, d) BY <1>1 DEF Absent
<1> QED BY <1>2, <1>3 DEF StagedTo

\* Staging a document takes it one item further.
LEMMA StagedNext ==
  ASSUME NEW rows \in Rows, NEW base \in Rows, NEW feed \in Seq(Items),
         NEW n \in 0 .. Len(feed) - 1, StagedTo(rows, base, feed, n), NEW i, i = feed[n + 1]
  PROVE  StagedTo(Staged(rows, i), base, feed, n + 1)
<1>1. i \in Items
  <2>1. n + 1 \in 1 .. Len(feed) OBVIOUS
  <2> QED BY <2>1
<1>2. /\ Staged(rows, i).docs = [rows.docs EXCEPT ![i.doc] = i.version]
      /\ Staged(rows, i).embs = rows.embs \cup {i}
      /\ Staged(rows, i).chunks = rows.chunks \cup {i}
      /\ Staged(rows, i).jobs = rows.jobs \cup {i}
      /\ Staged(rows, i).costs = [rows.costs EXCEPT ![i] = 1]
  BY <1>1, StagedRows
<1>3. Done(feed, n + 1) = Done(feed, n) \cup {i}
  <2>1. \A k : k \in 1 .. n + 1 <=> k \in 1 .. n \/ k = n + 1 OBVIOUS
  <2> QED BY <2>1 DEF Done
<1>4. rows.costs \in [Items -> 0 .. 1] /\ rows.docs \in [Docs -> Versions \cup {None}]
  BY DEF Rows
<1> DEFINE s == Staged(rows, i)
<1> HIDE DEF s
<1>5. /\ s.chunks = base.chunks \cup Done(feed, n + 1)
      /\ s.embs = base.embs \cup Done(feed, n + 1)
      /\ s.jobs = base.jobs \cup Done(feed, n + 1)
  BY <1>2, <1>3 DEF StagedTo, s
<1>6. ASSUME NEW j \in Items
      PROVE  s.costs[j] = IF j \in Done(feed, n + 1) THEN 1 ELSE base.costs[j]
  <2>1. rows.costs[j] = IF j \in Done(feed, n) THEN 1 ELSE base.costs[j] BY DEF StagedTo
  <2>2. s.costs[j] = IF j = i THEN 1 ELSE rows.costs[j] BY <1>2, <1>4 DEF s
  <2> QED BY <1>3, <2>1, <2>2
<1>7. ASSUME NEW d \in Docs
      PROVE  \/ Latest(s.docs[d], feed, n + 1, d)
             \/ Absent(feed, n + 1, d) /\ s.docs[d] = base.docs[d]
  <2>1. s.docs[d] = IF d = i.doc THEN i.version ELSE rows.docs[d] BY <1>2, <1>4 DEF s
  <2>2. \/ Latest(rows.docs[d], feed, n, d)
        \/ Absent(feed, n, d) /\ rows.docs[d] = base.docs[d]
    BY DEF StagedTo
  <2> QED BY <2>1, <2>2, LatestGrows
<1> QED BY <1>5, <1>6, <1>7 DEF StagedTo, s

\* A transaction at its end has all that its feed says.
LEMMA StagedCarries ==
  ASSUME NEW rows, NEW base, NEW feed \in Seq(Items), StagedTo(rows, base, feed, Len(feed))
  PROVE  Carries(rows, feed)
<1>1. Done(feed, Len(feed)) \subseteq Items BY DEF Done
<1> QED BY <1>1 DEF StagedTo, Carries

\* It is what was committed, when that has all that the feed says.
LEMMA StagedAgain ==
  ASSUME NEW rows \in Rows, NEW base \in Rows, NEW feed \in Seq(Items),
         StagedTo(rows, base, feed, Len(feed)), Carries(base, feed), rows.links = base.links
  PROVE  rows = base
<1>1. rows.chunks = base.chunks /\ rows.embs = base.embs /\ rows.jobs = base.jobs
  BY DEF StagedTo, Carries
<1>2. rows.costs = base.costs
  <2>1. rows.costs \in [Items -> 0 .. 1] /\ base.costs \in [Items -> 0 .. 1] BY DEF Rows
  <2>2. \A i \in Items : rows.costs[i] = base.costs[i] BY DEF StagedTo, Carries
  <2> QED BY <2>1, <2>2
<1>3. rows.docs = base.docs
  <2>1. /\ rows.docs \in [Docs -> Versions \cup {None}]
        /\ base.docs \in [Docs -> Versions \cup {None}]
    BY DEF Rows
  <2>2. ASSUME NEW d \in Docs PROVE rows.docs[d] = base.docs[d]
    <3>1. CASE Absent(feed, Len(feed), d)
      <4>1. ~ Latest(rows.docs[d], feed, Len(feed), d) BY <3>1 DEF Absent, Latest
      <4> QED BY <4>1 DEF StagedTo
    <3>2. CASE ~ Absent(feed, Len(feed), d)
      <4>1. Latest(rows.docs[d], feed, Len(feed), d) /\ Latest(base.docs[d], feed, Len(feed), d)
        BY <3>2 DEF StagedTo, Carries
      <4>2. Len(feed) \in 0 .. Len(feed) OBVIOUS
      <4> QED BY <4>1, <4>2, LatestIsOne
    <3> QED BY <3>1, <3>2
  <2> QED BY <2>1, <2>2
<1>4. /\ rows = [docs |-> rows.docs, chunks |-> rows.chunks, embs |-> rows.embs,
                 jobs |-> rows.jobs, costs |-> rows.costs, links |-> rows.links]
      /\ base = [docs |-> base.docs, chunks |-> base.chunks, embs |-> base.embs,
                 jobs |-> base.jobs, costs |-> base.costs, links |-> base.links]
  BY DEF Rows
<1> HIDE DEF Rows
<1> QED BY ONLY <1>1, <1>2, <1>3, <1>4, rows.links = base.links

\* A paper that is there keeps its content.
LEMMA RecordedKeeps ==
  ASSUME TypeOK, NEW i \in Items
  PROVE  /\ \A d \in Academic : docs[d] # None => Recorded(i)[d] = docs[d]
         /\ \A d \in Docs : d # i.doc => Recorded(i)[d] = docs[d]
         /\ i.doc \notin Academic => Recorded(i)[i.doc] = i.version
BY ItemDoc, ConstantsAssumption DEF TypeOK, Recorded

\* The rows of a transaction are of documents of the sample.
LEMMA StagedInSample ==
  ASSUME NEW feed \in Feeds, NEW n \in 0 .. Len(feed), NEW rows, NEW base,
         StagedTo(rows, base, feed, n), \A d \in Docs : base.docs[d] # None => d \in FeedDocs,
         NEW d \in Docs, rows.docs[d] # None
  PROVE  d \in FeedDocs
<1>1. \/ Latest(rows.docs[d], feed, n, d)
      \/ Absent(feed, n, d) /\ rows.docs[d] = base.docs[d]
  BY DEF StagedTo
<1> QED BY <1>1, LatestInSample

\* What a passed run left stays as it is until the next one commits.
LEMMA PassingRests ==
  ASSUME Passing, UNCHANGED <<db, last>>, \A d \in Docs : docs[d] # None => docs'[d] # None,
         \A d \in Academic : docs[d] # None => docs'[d] = docs[d]
  PROVE  Passing'
<1>1. ASSUME Linked(db) PROVE Linked(db)'
  <2> SUFFICES ASSUME NEW d \in FeedDocs
               PROVE  /\ docs'[d] # None
                      /\ LinksOf(d, IF d \in Academic THEN docs'[d] ELSE db.docs[d])
                           \subseteq db.links
    BY DEF Linked, LinksOf
  <2>1. docs[d] # None
        /\ LinksOf(d, IF d \in Academic THEN docs[d] ELSE db.docs[d]) \subseteq db.links
    BY <1>1 DEF Linked
  <2>2. d \in Docs BY DEF FeedDocs
  <2> QED BY <2>1, <2>2
<1> QED BY <1>1 DEF Passing, Carries, Done, Absent, Latest

\* What the parts of Running say after a step.
LEMMA RunningNext ==
  ASSUME run'.feed \in Feeds,
         run'.pc \in {"ingest", "rows"} =>
           /\ Len(run'.rest) <= Len(run'.feed)
           /\ \A k \in 1 .. Len(run'.rest) :
                run'.rest[k] = run'.feed[Len(run'.feed) - Len(run'.rest) + k],
         run'.pc \in {"work", "finish", "counts"} => run'.rest = run'.feed,
         NEW m, m = IF run'.pc = "ingest" THEN Len(run'.feed) - Len(run'.rest) ELSE Len(run'.feed),
         \A d \in FeedDocs \ Academic : Latest(docs'[d], run'.feed, m, d) \/ Absent(run'.feed, m, d),
         NEW n, n = IF run'.pc \in {"ontology", "commit"} THEN Len(run'.feed)
                    ELSE IF run'.pc = "rows" THEN Len(run'.feed) - Len(run'.rest) ELSE 0,
         StagedTo(run'.session, db', run'.feed, n),
         run'.pc # "commit" => run'.session.links = db'.links,
         run'.pc = "commit" =>
           /\ Linked(run.session)'
           /\ run'.feed = last'.feed => run'.session.links = db'.links
  PROVE  Running'
<1>1. Passed' = Len(run'.feed) - Len(run'.rest) BY DEF Passed
<1>2. Ingested' = m /\ StagedSoFar' = n BY <1>1 DEF Ingested, StagedSoFar
<1>3. StagedTo(run.session, db, run.feed, StagedSoFar)' BY <1>2 DEF StagedTo, Done, Latest, Absent
<1>4. ASSUME NEW d \in FeedDocs \ Academic
      PROVE  Latest(docs[d], run.feed, Ingested, d)' \/ Absent(run.feed, Ingested, d)'
  BY <1>2 DEF Latest, Absent
<1>5. OnWay' <=> /\ Len(run'.rest) <= Len(run'.feed)
                 /\ \A k \in 1 .. Len(run'.rest) :
                      run'.rest[k] = run'.feed[Len(run'.feed) - Len(run'.rest) + k]
  BY <1>1 DEF OnWay
<1> QED BY <1>3, <1>4, <1>5 DEF Running

\* The links of the whole corpus are those of a sample all of which is linked.
LEMMA LinksOfSample ==
  ASSUME TypeOK, NEW rows, Linked(rows), NEW feed \in Feeds,
         \A d \in FeedDocs \ Academic : docs[d] = rows.docs[d],
         \A l \in ConceptLinks : l.doc \in FeedDocs
  PROVE  ConceptLinks \subseteq rows.links
<1> SUFFICES ASSUME NEW l \in ConceptLinks PROVE l \in rows.links OBVIOUS
<1>1. l \in Links /\ l.concept \in Mentions[docs[l.doc]] /\ l.doc \in FeedDocs
  BY DEF ConceptLinks
<1>2. l \in LinksOf(l.doc, docs[l.doc]) BY <1>1 DEF LinksOf
<1>3. LinksOf(l.doc, IF l.doc \in Academic THEN docs[l.doc] ELSE rows.docs[l.doc])
        \subseteq rows.links
  BY <1>1 DEF Linked
<1> QED BY <1>1, <1>2, <1>3

LEMMA RerunInit == Init => RerunInv
<1> SUFFICES ASSUME Init PROVE RerunInv OBVIOUS
<1>1. last.feed = << >> /\ db = NoRows /\ run.pc = "idle" BY DEF Init, Idle
<1>2. 1 .. Len(<< >>) = {} OBVIOUS
<1>3. Done(<< >>, Len(<< >>)) = {} BY <1>2 DEF Done
<1>4. \A d : Absent(<< >>, Len(<< >>), d) BY <1>2 DEF Absent
<1>5. Carries(db, last.feed) BY <1>1, <1>3, <1>4 DEF Carries
<1>6. \A d \in Docs : db.docs[d] = None BY <1>1 DEF NoRows
<1> QED BY <1>1, <1>5, <1>6 DEF RerunInv, Passing

\* Where the loop of a run is: its head is the next item of the feed.
LEMMA OnWayHead ==
  ASSUME run \in RunState, run.rest # << >>, OnWay
  PROVE  /\ Passed \in 0 .. Len(run.feed) - 1
         /\ Head(run.rest) = run.feed[Passed + 1]
         /\ Len(Tail(run.rest)) <= Len(run.feed)
         /\ Len(run.feed) - Len(Tail(run.rest)) = Passed + 1
         /\ Tail(run.rest) = << >> => Len(run.feed) = Passed + 1
         /\ \A k \in 1 .. Len(Tail(run.rest)) :
              Tail(run.rest)[k] = run.feed[Len(run.feed) - Len(Tail(run.rest)) + k]
<1> DEFINE a == Len(run.feed)
           b == Len(run.rest)
           c == Len(Tail(run.rest))
<1>1. run.rest \in Seq(Items) /\ run.feed \in Seq(Items) BY DEF RunState
<1>2. /\ a \in Nat /\ b \in Nat \ {0} /\ c = b - 1
      /\ Head(run.rest) = run.rest[1]
      /\ \A k \in 1 .. b - 1 : Tail(run.rest)[k] = run.rest[k + 1]
  BY <1>1
<1>3. Passed = a - b BY DEF Passed
<1>4. b <= a /\ \A k \in 1 .. b : run.rest[k] = run.feed[Passed + k] BY DEF OnWay
<1>5. Tail(run.rest) = << >> => c = 0
  <2>1. Len(<< >>) = 0 OBVIOUS
  <2> QED BY <2>1
<1> HIDE DEF a, b, c
<1>6. Passed \in 0 .. a - 1 /\ c <= a /\ a - c = Passed + 1 BY <1>2, <1>3, <1>4
<1>7. Head(run.rest) = run.feed[Passed + 1]
  <2>1. 1 \in 1 .. b BY <1>2
  <2> QED BY <2>1, <1>2, <1>4
<1>8. c = 0 => a = Passed + 1 BY <1>2, <1>6
<1>9. ASSUME NEW k \in 1 .. c PROVE Tail(run.rest)[k] = run.feed[a - c + k]
  <2>0. k \in 1 .. b - 1 /\ k + 1 \in 1 .. b BY ONLY <1>2, <1>9
  <2>1. Tail(run.rest)[k] = run.rest[k + 1] BY ONLY <1>2, <2>0
  <2>2. Passed + (k + 1) = (Passed + 1) + k BY <1>2, <1>6
  <2> QED BY ONLY <1>4, <1>6, <2>0, <2>1, <2>2
<1> QED BY <1>5, <1>6, <1>7, <1>8, <1>9 DEF a, b, c

LEMMA RerunStep == OneSample /\ IInv /\ RerunInv /\ [Next]_vars => RerunInv'
<1> SUFFICES ASSUME OneSample, IInv, RerunInv, [Next]_vars PROVE RerunInv' OBVIOUS
<1>i. TypeOK /\ Ready /\ Fetched /\ Passing BY DEF IInv, Shape, RerunInv
<1>r. /\ run \in RunState /\ run.rest \in Seq(Items) /\ run.feed \in Seq(Items)
      /\ Len(run.feed) \in Nat /\ Len(run.rest) \in Nat
      /\ docs \in [Docs -> Versions \cup {None}] /\ db \in Rows /\ run.session \in Rows
  BY <1>i DEF TypeOK, RunState
<1>g. run.pc # "idle" => Running BY DEF RerunInv
<1>c. FeedDocs \subseteq Docs /\ Academic \subseteq Docs /\ Foreign \subseteq Items
  BY ConstantsAssumption DEF FeedDocs
\* A step that leaves the corpus and the database.
<1>p. ASSUME UNCHANGED <<docs, db, last>> PROVE Passing' BY <1>i, <1>p, PassingRests
\* A run that ends without a commit.
<1>0. ASSUME run' = Idle, UNCHANGED <<docs, db, last>> PROVE RerunInv'
  BY <1>0, <1>p DEF RerunInv, Idle
\* A step that does not go on with the loop of the run.
<1>q. ASSUME Passing', db' = db, last' = last, run.pc # "idle", run'.feed = run.feed,
             run'.session = run.session, run'.rest = run.rest,
             run'.pc = run.pc \/ /\ run.pc \in {"work", "finish", "counts"}
                                 /\ run'.pc \in {"work", "finish", "counts", "rows"},
             \A d \in FeedDocs \ Academic : docs'[d] = docs[d],
             run.pc = "commit" => Linked(run.session)'
      PROVE  RerunInv'
  <2> DEFINE m == IF run'.pc = "ingest" THEN Len(run'.feed) - Len(run'.rest) ELSE Len(run'.feed)
             n == IF run'.pc \in {"ontology", "commit"} THEN Len(run'.feed)
                  ELSE IF run'.pc = "rows" THEN Len(run'.feed) - Len(run'.rest) ELSE 0
  <2>1. Running BY <1>q, <1>g
  <2>2. Len(run.feed) - Len(run.feed) = 0 BY <1>r
  <2>3. m = Ingested BY <1>q DEF Ingested, Passed
  <2>4. n = StagedSoFar BY <1>q, <2>1, <2>2 DEF StagedSoFar, Passed, Running
  <2> HIDE DEF m, n
  <2>5. run'.feed \in Feeds BY <1>q, <2>1 DEF Running
  <2>6. run'.pc \in {"ingest", "rows"} =>
           /\ Len(run'.rest) <= Len(run'.feed)
           /\ \A k \in 1 .. Len(run'.rest) :
                run'.rest[k] = run'.feed[Len(run'.feed) - Len(run'.rest) + k]
    <3>1. CASE run'.pc = run.pc BY <1>q, <2>1, <3>1 DEF Running, OnWay, Passed
    <3>2. CASE run.pc \in {"work", "finish", "counts"}
      <4>1. run'.rest = run'.feed BY <1>q, <2>1, <3>2 DEF Running
      <4>2. \A k \in 1 .. Len(run.feed) : Len(run.feed) - Len(run.feed) + k = k BY <1>r
      <4> QED BY <1>q, <1>r, <4>1, <4>2
    <3> QED BY <1>q, <3>1, <3>2
  <2>7. run'.pc \in {"work", "finish", "counts"} => run'.rest = run'.feed
    BY <1>q, <2>1 DEF Running
  <2>8. \A d \in FeedDocs \ Academic : Latest(docs'[d], run'.feed, m, d) \/ Absent(run'.feed, m, d)
    BY <1>q, <2>1, <2>3 DEF Running
  <2>9. StagedTo(run'.session, db', run'.feed, n) BY <1>q, <2>1, <2>4 DEF Running
  <2>10. run'.pc # "commit" => run'.session.links = db'.links BY <1>q, <2>1 DEF Running
  <2>11. run'.pc = "commit" =>
           /\ Linked(run.session)'
           /\ run'.feed = last'.feed => run'.session.links = db'.links
    BY <1>q, <2>1 DEF Running
  <2>12. Running'
    BY <2>5, <2>6, <2>7, <2>8, <2>9, <2>10, <2>11, RunningNext DEF m, n
  <2> QED BY <1>q, <2>12 DEF RerunInv
<1>1. CASE Start
  <2>1. PICK feed \in Feeds, rq \in Modes :
          run' = [Idle EXCEPT !.pc = "ingest", !.rq = rq, !.feed = feed, !.rest = feed,
                              !.session = db]
    BY <1>1 DEF Start
  <2>2. feed \in Seq(Items) /\ Len(feed) \in Nat BY ConstantsAssumption
  <2>3. run'.pc = "ingest" /\ run'.feed = feed /\ run'.rest = feed /\ run'.session = db
    BY <2>1 DEF Idle
  <2>4. UNCHANGED <<docs, db, last>> BY <1>1 DEF Start, manifests, rqueue, history
  <2>5. Len(feed) - Len(feed) = 0 BY <2>2
  <2>6. StagedTo(run'.session, db', run'.feed, 0) BY <1>r, <2>2, <2>3, <2>4, StagedNone
  <2>7. \A d : Absent(run'.feed, 0, d)
    <3>1. 1 .. 0 = {} OBVIOUS
    <3> QED BY <3>1 DEF Absent
  <2>8. \A k \in 1 .. Len(feed) : Len(feed) - Len(feed) + k = k BY <2>2
  <2>9. Running' BY <2>2, <2>3, <2>4, <2>5, <2>6, <2>7, <2>8, RunningNext
  <2> QED BY <1>p, <2>4, <2>9 DEF RerunInv
<1>2. CASE Ingest
  <2> DEFINE i == Head(run.rest)
             next == IF run.rq THEN "enqueue" ELSE "rows"
  <2>1. /\ run.pc = "ingest" /\ run.rest # << >> /\ run.feed # << >> /\ i \in Items
        /\ Running /\ OnWay /\ UNCHANGED <<db, last>>
    BY <1>2, <1>i, <1>r, <1>g, RangeTail DEF Ingest, Ready, Running, history
  <2>2. docs' = Recorded(i) BY <1>2 DEF Ingest
  <2>3. /\ run'.feed = run.feed /\ run'.session = run.session
        /\ \/ run'.pc = "ingest" /\ run'.rest = Tail(run.rest)
           \/ run'.pc = next /\ run'.rest = run.feed /\ Tail(run.rest) = << >>
    <3>1. Advance("ingest", next) BY <1>2 DEF Ingest
    <3>2. "ingest" \in Labels /\ next \in Labels BY DEF Labels
    <3> QED BY <1>r, <2>1, <3>1, <3>2, Advanced
  <2>4. /\ Passed \in 0 .. Len(run.feed) - 1 /\ i = run.feed[Passed + 1]
        /\ Len(Tail(run.rest)) <= Len(run.feed)
        /\ Len(run.feed) - Len(Tail(run.rest)) = Passed + 1
        /\ Tail(run.rest) = << >> => Len(run.feed) = Passed + 1
        /\ \A k \in 1 .. Len(Tail(run.rest)) :
             Tail(run.rest)[k] = run.feed[Len(run.feed) - Len(Tail(run.rest)) + k]
    BY <1>r, <2>1, OnWayHead
  <2>5. Passing' BY <1>i, <1>c, <2>1, <2>2, RecordedGrows, RecordedKeeps, PassingRests
  <2>6. ASSUME NEW d \in FeedDocs \ Academic
        PROVE  Latest(docs'[d], run.feed, Passed + 1, d) \/ Absent(run.feed, Passed + 1, d)
    <3>1. Latest(docs[d], run.feed, Passed, d) \/ Absent(run.feed, Passed, d)
      BY <2>1 DEF Running, Ingested
    <3>2. CASE d = i.doc
      <4>1. docs'[d] = i.version BY <1>i, <2>1, <2>2, <2>6, <3>2, RecordedKeeps
      <4> QED BY <1>r, <2>4, <3>2, <4>1, LatestGrows
    <3>3. CASE d # i.doc
      <4>1. docs'[d] = docs[d] BY <1>i, <1>c, <2>1, <2>2, <3>3, RecordedKeeps
      <4> QED BY <1>r, <2>4, <3>1, <3>3, <4>1, LatestGrows
    <3> QED BY <3>2, <3>3
  <2>7. StagedTo(run'.session, db', run'.feed, 0) BY <2>1, <2>3 DEF Running, StagedSoFar
  <2>8. run'.session.links = db'.links /\ run'.feed \in Feeds BY <2>1, <2>3 DEF Running
  <2>9. Running'
    <3>1. CASE run'.pc = "ingest"
      <4>1. run'.rest = Tail(run.rest) BY <2>3, <3>1
      <4> QED BY <2>3, <2>4, <2>6, <2>7, <2>8, <3>1, <4>1, RunningNext
    <3>2. CASE run'.pc # "ingest"
      <4>1. /\ run'.pc \in {"enqueue", "rows"} /\ run'.rest = run.feed
            /\ Len(run.feed) = Passed + 1
        BY <2>3, <2>4, <3>2
      <4>2. Len(run.feed) - Len(run.feed) = 0 BY <1>r
      <4>3. \A k \in 1 .. Len(run.feed) : Len(run.feed) - Len(run.feed) + k = k BY <1>r
      <4> QED BY <1>r, <2>3, <2>6, <2>7, <2>8, <4>1, <4>2, <4>3, RunningNext
    <3> QED BY <3>1, <3>2
  <2> QED BY <2>5, <2>9 DEF RerunInv
<1>3. CASE FetchFails \/ MissingEmbedding \/ Crash
  <2>1. run' = Idle /\ UNCHANGED <<docs, db, last>>
    BY <1>3 DEF FetchFails, MissingEmbedding, Crash, Raise, manifests, rqueue, history
  <2> QED BY <1>0, <2>1
<1>4. CASE Enqueue
  <2>1. /\ run.rest # << >> /\ run.feed # << >> /\ run.pc = "enqueue" /\ Running
        /\ UNCHANGED <<docs, db, last>>
    BY <1>4, <1>i, <1>g DEF Enqueue, Ready, history
  <2>2. /\ run'.feed = run.feed /\ run'.session = run.session
        /\ run'.pc = "enqueue" \/ (run'.pc = "work" /\ run'.rest = run.feed)
    <3>1. Advance("enqueue", "work") BY <1>4 DEF Enqueue
    <3>2. "enqueue" \in Labels /\ "work" \in Labels BY DEF Labels
    <3> QED BY <1>r, <2>1, <3>1, <3>2, Advanced
  <2>3. /\ StagedTo(run'.session, db', run'.feed, 0) /\ run'.session.links = db'.links
        /\ run'.feed \in Feeds
        /\ \A d \in FeedDocs \ Academic :
             Latest(docs'[d], run'.feed, Len(run'.feed), d) \/ Absent(run'.feed, Len(run'.feed), d)
    BY <2>1, <2>2 DEF Running, StagedSoFar, Ingested
  <2>4. Running' BY <2>2, <2>3, RunningNext
  <2> QED BY <1>p, <2>1, <2>4 DEF RerunInv
<1>5. CASE WorkDone \/ WorkTask \/ FinishTask
  <2>1. /\ run'.session = run.session /\ run'.feed = run.feed /\ run'.rest = run.rest
        /\ run.pc \in {"work", "finish"} /\ run'.pc \in {"work", "finish", "counts"}
        /\ UNCHANGED <<docs, db, last>>
    BY <1>5, <1>r DEF WorkDone, WorkTask, FinishTask, RunState, manifests, rqueue, history
  <2> QED BY <1>p, <1>q, <2>1
<1>6. CASE CheckCounts
  <2>1. UNCHANGED <<docs, db, last>> /\ run.pc = "counts"
    BY <1>6 DEF CheckCounts, manifests, rqueue, history
  <2>2. CASE Raise BY <1>0, <2>1, <2>2 DEF Raise
  <2>3. CASE run' = [run EXCEPT !.pc = "rows", !.snapshot = embs]
    <3>1. /\ run'.session = run.session /\ run'.feed = run.feed /\ run'.rest = run.rest
          /\ run'.pc = "rows"
      BY <1>r, <2>3 DEF RunState
    <3> QED BY <1>p, <1>q, <2>1, <3>1
  <2> QED BY <1>6, <2>2, <2>3 DEF CheckCounts
<1>7. CASE StageDocument
  <2> DEFINE i == Head(run.rest)
  <2>1. /\ run.pc = "rows" /\ run.rest # << >> /\ i \in Items
        /\ Running /\ OnWay /\ UNCHANGED <<docs, db, last>>
    BY <1>7, <1>i, <1>r, <1>g, RangeTail DEF StageDocument, Ready, Running, rqueue, history
  <2>2. /\ run'.pc = IF Tail(run.rest) = << >> THEN "ontology" ELSE "rows"
        /\ run'.rest = Tail(run.rest) /\ run'.feed = run.feed
        /\ run'.session = Staged(run.session, i)
    BY <1>7, <1>r DEF StageDocument, RunState
  <2>3. /\ Passed \in 0 .. Len(run.feed) - 1 /\ i = run.feed[Passed + 1]
        /\ Len(Tail(run.rest)) <= Len(run.feed)
        /\ Len(run.feed) - Len(Tail(run.rest)) = Passed + 1
        /\ Tail(run.rest) = << >> => Len(run.feed) = Passed + 1
        /\ \A k \in 1 .. Len(Tail(run.rest)) :
             Tail(run.rest)[k] = run.feed[Len(run.feed) - Len(Tail(run.rest)) + k]
    BY <1>r, <2>1, OnWayHead
  <2>4. StagedTo(run.session, db, run.feed, Passed) /\ run.session.links = db.links
        /\ run.feed \in Feeds
        /\ \A d \in FeedDocs \ Academic :
             Latest(docs[d], run.feed, Len(run.feed), d) \/ Absent(run.feed, Len(run.feed), d)
    BY <2>1 DEF Running, StagedSoFar, Ingested
  <2>5. StagedTo(run'.session, db', run'.feed, Passed + 1)
    BY <1>r, <2>1, <2>2, <2>3, <2>4, StagedNext
  <2>6. run'.session.links = db'.links
    <3>1. Staged(run.session, i).links = run.session.links BY <1>r, <2>1, StagedRows
    <3> QED BY <2>1, <2>2, <2>4, <3>1
  <2>7. Running'
    <3>1. CASE Tail(run.rest) = << >>
      BY <2>1, <2>2, <2>4, <2>3, <2>5, <2>6, <3>1, RunningNext
    <3>2. CASE Tail(run.rest) # << >>
      BY <2>1, <2>2, <2>3, <2>4, <2>5, <2>6, <3>2, RunningNext
    <3> QED BY <3>1, <3>2
  <2> QED BY <1>p, <2>1, <2>7 DEF RerunInv
<1>8. CASE StageConcepts
  <2>1. UNCHANGED <<docs, db, last>> /\ run.pc = "ontology"
    BY <1>8 DEF StageConcepts, manifests, rqueue, history
  <2>2. CASE Raise BY <1>0, <2>1, <2>2 DEF Raise
  <2>3. CASE /\ ~ \E l \in ConceptLinks : run.session.docs[l.doc] = None
             /\ run' = [run EXCEPT !.pc = "commit", !.session.links = @ \cup ConceptLinks]
    <3>1. /\ run'.session = [run.session EXCEPT !.links = @ \cup ConceptLinks]
          /\ run'.pc = "commit" /\ run'.feed = run.feed
      BY <1>r, <2>3 DEF RunState
    <3>2. /\ run'.session.docs = run.session.docs /\ run'.session.embs = run.session.embs
          /\ run'.session.chunks = run.session.chunks /\ run'.session.jobs = run.session.jobs
          /\ run'.session.costs = run.session.costs
          /\ run'.session.links = run.session.links \cup ConceptLinks
      BY <1>r, <3>1 DEF Rows
    <3>3. /\ Running /\ run.feed \in Feeds /\ run.session.links = db.links
          /\ StagedTo(run.session, db, run.feed, Len(run.feed))
          /\ \A d \in FeedDocs \ Academic :
               Latest(docs[d], run.feed, Len(run.feed), d) \/ Absent(run.feed, Len(run.feed), d)
      BY <1>g, <2>1 DEF Running, StagedSoFar, Ingested
    <3>4. \A l \in ConceptLinks : l.doc \in FeedDocs
      <4> SUFFICES ASSUME NEW l \in ConceptLinks PROVE l.doc \in FeedDocs OBVIOUS
      <4>1. l.doc \in Docs /\ run.session.docs[l.doc] # None
        BY <2>3 DEF ConceptLinks, Links
      <4>2. Len(run.feed) \in 0 .. Len(run.feed) BY <1>r
      <4> QED BY <1>i, <3>3, <4>1, <4>2, StagedInSample DEF Passing
    <3>5. ASSUME NEW feed \in Feeds, NEW rows, Carries(rows, feed), feed = run.feed
          PROVE  \A d \in FeedDocs \ Academic : docs[d] = rows.docs[d]
      <4> SUFFICES ASSUME NEW d \in FeedDocs \ Academic PROVE docs[d] = rows.docs[d] OBVIOUS
      <4>1. d \in Docs /\ ~ Absent(feed, Len(feed), d) BY <1>c, NoneAbsent
      <4>2. Latest(docs[d], feed, Len(feed), d) /\ Latest(rows.docs[d], feed, Len(feed), d)
        BY <3>3, <3>5, <4>1 DEF Carries
      <4>3. Len(feed) \in 0 .. Len(feed) BY <1>r, <3>5
      <4> QED BY <1>r, <3>5, <4>2, <4>3, LatestIsOne
    <3>6. Linked(run.session)'
      <4> SUFFICES ASSUME NEW d \in FeedDocs
                   PROVE  /\ docs'[d] # None
                          /\ LinksOf(d, IF d \in Academic THEN docs'[d] ELSE run'.session.docs[d])
                               \subseteq run'.session.links
        BY DEF Linked, LinksOf
      <4>1. docs[d] # None
        <5>1. PICK k \in DOMAIN run.feed : run.feed[k].doc = d BY <3>3 DEF OneSample
        <5>2. run.feed[k] \in Range(run.feed) BY <5>1 DEF Range
        <5> QED BY <1>i, <2>1, <5>1, <5>2 DEF Fetched
      <4>2. d \notin Academic => docs[d] = run.session.docs[d]
        BY <1>r, <3>3, <3>5, StagedCarries
      <4>3. LinksOf(d, docs[d]) \subseteq ConceptLinks BY <4>1 DEF LinksOf, ConceptLinks
      <4> QED BY <2>1, <3>2, <4>1, <4>2, <4>3
    <3>7. ASSUME run.feed = last.feed PROVE run'.session.links = db'.links
      <4>1. last.feed # << >> BY <1>i, <2>1, <3>7 DEF Ready
      <4>2. Linked(db) /\ last.feed \in Feeds /\ Carries(db, last.feed) BY <1>i, <4>1 DEF Passing
      <4>3. \A d \in FeedDocs \ Academic : docs[d] = db.docs[d] BY <3>5, <3>7, <4>2
      <4>4. ConceptLinks \subseteq db.links BY <1>i, <3>4, <4>2, <4>3, LinksOfSample
      <4> QED BY <2>1, <3>2, <3>3, <4>4
    <3>8. StagedTo(run'.session, db', run'.feed, Len(run'.feed))
      BY <2>1, <3>1, <3>2, <3>3 DEF StagedTo
    <3>9. Running' BY <2>1, <3>1, <3>3, <3>6, <3>7, <3>8, RunningNext
    <3> QED BY <1>p, <2>1, <3>9 DEF RerunInv
  <2> QED BY <1>8, <2>2, <2>3 DEF StageConcepts
<1>9. CASE Commit
  <2>1. /\ run.pc = "commit" /\ db' = run.session /\ run' = Idle
        /\ last' = [feed |-> run.feed, rows |-> run.session] /\ docs' = docs
    BY <1>9 DEF Commit, manifests
  <2>2. /\ run.feed \in Feeds /\ Linked(run.session)
        /\ StagedTo(run.session, db, run.feed, Len(run.feed))
    BY <1>g, <2>1 DEF Running, StagedSoFar
  <2>3. last'.feed = run.feed BY <2>1
  <2>4. Carries(run.session, run.feed) BY <1>r, <2>2, StagedCarries
  <2>5. Carries(db, last.feed)' BY <2>1, <2>3, <2>4 DEF Carries, Done, Absent, Latest
  <2>6. Linked(db)' BY <2>1, <2>2 DEF Linked, LinksOf
  <2>7. ASSUME NEW d \in Docs, db'.docs[d] # None PROVE d \in FeedDocs
    <3>1. Len(run.feed) \in 0 .. Len(run.feed) BY <1>r
    <3> QED BY <1>i, <2>1, <2>2, <2>7, <3>1, StagedInSample DEF Passing
  <2> QED BY <2>1, <2>2, <2>3, <2>5, <2>6, <2>7 DEF RerunInv, Passing, Idle
<1>10. ASSUME NEW i \in Items, Expire(i) PROVE RerunInv'
  <2>1. UNCHANGED <<docs, db, run, last>> BY <1>10 DEF Expire, history
  <2>2. run.pc = "commit" => Linked(run.session)' BY <1>g, <2>1 DEF Running, Linked, LinksOf
  <2>3. CASE run.pc = "idle" BY <1>p, <2>1, <2>3 DEF RerunInv
  <2>4. CASE run.pc # "idle" BY <1>p, <1>q, <2>1, <2>2, <2>4
  <2> QED BY <2>3, <2>4
<1>11. ASSUME NEW i \in Foreign, IngestForeign(i) PROVE RerunInv'
  <2>1. i \in Items /\ i.doc \notin FeedDocs BY <1>c DEF OneSample
  <2>2. docs' = Recorded(i) /\ UNCHANGED <<db, run, last>> BY <1>11 DEF IngestForeign, history
  <2>3. Passing' BY <1>i, <1>c, <2>1, <2>2, RecordedGrows, RecordedKeeps, PassingRests
  <2>4. \A d \in FeedDocs : docs'[d] = docs[d] BY <1>i, <1>c, <2>1, <2>2, RecordedKeeps
  <2>5. run.pc = "commit" => Linked(run.session)'
    <3> SUFFICES ASSUME Linked(run.session) PROVE Linked(run.session)' BY <1>g DEF Running
    <3> QED BY <2>2, <2>4 DEF Linked, LinksOf
  <2>6. CASE run.pc = "idle" BY <2>2, <2>3, <2>6 DEF RerunInv
  <2>7. CASE run.pc # "idle" BY <1>q, <2>2, <2>3, <2>4, <2>5, <2>7
  <2> QED BY <2>6, <2>7
<1>12. CASE UNCHANGED vars
  <2>1. UNCHANGED <<docs, db, run, last>> BY <1>12 DEF vars, manifests, history
  <2>2. run.pc = "commit" => Linked(run.session)' BY <1>g, <2>1 DEF Running, Linked, LinksOf
  <2>3. CASE run.pc = "idle" BY <1>p, <2>1, <2>3 DEF RerunInv
  <2>4. CASE run.pc # "idle" BY <1>p, <1>q, <2>1, <2>2, <2>4
  <2> QED BY <2>3, <2>4
<1> QED
  BY <1>1, <1>2, <1>3, <1>4, <1>5, <1>6, <1>7, <1>8, <1>9, <1>10, <1>11, <1>12 DEF Next, Smoke

\* A commit of the documents of the last run that passed changes no row
\* (run_live_small_smoke 146-236, src/README.md:34), whatever other contents
\* failed or crashed since, if all runs are of one sample and no other command
\* ingests a document of it.
THEOREM RerunChangesNothing ==
  ASSUME OneSample
  PROVE  Spec => RerunPreserves
<1>1. Init => RerunInv BY RerunInit
<1>2. IInv /\ RerunInv /\ [Next]_vars => RerunInv' BY RerunStep
<1>3. Spec => []RerunInv BY <1>1, <1>2, Invariance, PTL DEF Spec
<1>4. IInv /\ RerunInv /\ [Next]_vars => [run.pc = "commit" /\ run.feed = last.feed => db' = db]_vars
  <2> SUFFICES ASSUME IInv, RerunInv, Next, run.pc = "commit", run.feed = last.feed
               PROVE  db' = db
    OBVIOUS
  <2>1. /\ run \in RunState /\ run.feed \in Seq(Items) /\ db \in Rows /\ run.session \in Rows
        /\ Ready
    BY DEF IInv, Shape, TypeOK, RunState
  <2>2. Running /\ Passing BY DEF RerunInv
  <2>3. StagedTo(run.session, db, run.feed, Len(run.feed)) /\ run.session.links = db.links
    BY <2>2 DEF Running, StagedSoFar
  <2>4. Carries(db, run.feed) BY <2>2 DEF Passing
  <2>5. run.session = db BY <2>1, <2>3, <2>4, StagedAgain
  <2>6. db' = run.session \/ db' = db
    BY DEF Next, Smoke, Start, Ingest, FetchFails, Enqueue, WorkDone, WorkTask, FinishTask,
           CheckCounts, StageDocument, MissingEmbedding, StageConcepts, Commit, Crash, Expire,
           IngestForeign
  <2> QED BY <2>5, <2>6
<1> QED BY <1>3, <1>4, Invariance, PTL DEF Spec, RerunPreserves
=============================================================================
