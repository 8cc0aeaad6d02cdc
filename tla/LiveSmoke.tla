------------------------------ MODULE LiveSmoke ------------------------------
(***************************************************************************)
(* One run of `wzkf smoke live-small` writes two stores: the manifests,    *)
(* document by document as it goes, and the database, in one transaction   *)
(* that is committed at the end.  Other commands may ingest documents into *)
(* the same storage root meanwhile, and a run may fail or crash anywhere.  *)
(*                                                                         *)
(*   src/src/wzkf/smoke/live_small.py, db/repositories.py, db/models.py    *)
(*   src/src/wzkf/pipeline/local.py, jobs/rq_worker.py                     *)
(*                                                                         *)
(* An item is a document with one content: its canonical hash, its chunks  *)
(* (one is enough), its job.  A rewrite of a manifest is one step here     *)
(* (JobRunner has its parts), and so is enqueue_embedding_job (RqQueue).   *)
(***************************************************************************)
EXTENDS Naturals, Sequences, FiniteSets

CONSTANTS
  Docs,        \* document ids
  Academic,    \* papers: two providers' records of one DOI share the id
  Versions,    \* contents a document may have
  Concepts,
  Mentions,    \* Mentions[v]: the concepts extracted from content v
  Feeds,       \* the sequences of items a run may fetch
  Modes,       \* the values of --use-rq that are run
  Outcomes,    \* how an embedding task may end
  Foreign,     \* items another command may ingest
  None,
  MaxCrashes   \* bound on the number of crashes

Items == [doc : Docs, version : Versions]
Links == [doc : Docs, concept : Concepts]

Settled == {"SUCCEEDED", "FAILED"}

ASSUME ConstantsAssumption ==
  /\ Outcomes \subseteq Settled
  /\ Academic \subseteq Docs
  /\ Mentions \in [Versions -> SUBSET Concepts]
  /\ Feeds \subseteq Seq(Items) \ {<< >>}
  /\ Modes \subseteq BOOLEAN
  /\ Foreign \subseteq Items
  /\ None \notin Versions
  /\ MaxCrashes \in Nat

Statuses == {"ABSENT", "PENDING", "RUNNING"} \cup Settled
Rows == [docs : [Docs -> Versions \cup {None}],   \* canonical_hash of the row
         chunks : SUBSET Items, embs : SUBSET Items,
         jobs : SUBSET Items,
         costs : [Items -> 0 .. 1],               \* rows for the job's cost
         links : SUBSET Links]                    \* document_concepts
NoRows == [docs |-> [d \in Docs |-> None], chunks |-> {}, embs |-> {},
           jobs |-> {}, costs |-> [i \in Items |-> 0], links |-> {}]
Labels == {"idle", "ingest", "enqueue", "work", "finish", "counts", "rows",
           "ontology", "commit"}
RunState ==
  [pc : Labels, rq : BOOLEAN,
   feed : Seq(Items),        \* the documents the run fetches
   rest : Seq(Items),        \* those its current loop has left
   worked : Nat,             \* RQ tasks executed by the burst worker
   snapshot : SUBSET Items,  \* embeddings read from the corpus manifest
   session : Rows]           \* the open transaction
Idle == [pc |-> "idle", rq |-> FALSE, feed |-> << >>, rest |-> << >>, worked |-> 0,
         snapshot |-> {}, session |-> NoRows]

VARIABLES
  docs,       \* corpus.json: the content of each document
  embs,       \* corpus.json: the items embedded
  jobs,       \* jobs.json
  tasks,      \* the RQ queue
  recorded,   \* the items whose RQ job exists
  db,         \* committed rows
  run,        \* the smoke run
  last,       \* history: feed and rows of the last run that passed
  crashes

vars == <<docs, embs, jobs, tasks, recorded, db, run, last, crashes>>
rqueue == <<jobs, tasks, recorded>>
manifests == <<docs, embs, rqueue>>
history == <<last, crashes>>

TypeOK ==
  /\ docs \in [Docs -> Versions \cup {None}]
  /\ embs \subseteq Items
  /\ jobs \in [Items -> Statuses]
  /\ tasks \in Seq(Items)
  /\ recorded \subseteq Items
  /\ db \in Rows
  /\ run \in RunState
  /\ last \in [feed : Seq(Items), rows : Rows]
  /\ crashes \in 0 .. MaxCrashes

Init ==
  /\ docs = [d \in Docs |-> None]
  /\ embs = {}
  /\ jobs = [i \in Items |-> "ABSENT"]
  /\ tasks = << >>
  /\ recorded = {}
  /\ db = NoRows
  /\ run = Idle
  /\ last = [feed |-> << >>, rows |-> NoRows]
  /\ crashes = 0

-----------------------------------------------------------------------------
(* _record: a paper that is there keeps its content, only metadata merge.  *)
Recorded(item) ==
  [docs EXCEPT ![item.doc] = IF item.doc \in Academic /\ @ # None THEN @ ELSE item.version]

\* The content of the item's document in the corpus, for which its job is.
Stored(item) == [item EXCEPT !.version = docs[item.doc]]

Count(status) == Cardinality({i \in Items : jobs[i] = status})

\* No job of the whole manifest failed or is PENDING, and enough succeeded.
Clean ==
  Count("FAILED") = 0 /\ Count("PENDING") = 0 /\ Count("SUCCEEDED") >= Len(run.feed)

\* Mutant: each run adds a cost row.
InsertAlways(n) == n + 1

InsertIfMissing(n) == IF n = 0 THEN 1 ELSE n

DocumentRow(rows, i) == [rows EXCEPT !.docs[i.doc] = i.version]
ChunkRows(rows, i) == [rows EXCEPT !.chunks = @ \cup {i}]
EmbeddingRows(rows, i) == [rows EXCEPT !.embs = @ \cup {i}]
JobRows(rows, i) == [rows EXCEPT !.jobs = @ \cup {i}, !.costs[i] = InsertIfMissing(@)]

Staged(rows, i) == JobRows(EmbeddingRows(ChunkRows(DocumentRow(rows, i), i), i), i)

\* What rebuild_ontology finds in the whole corpus.
ConceptLinks ==
  {l \in Links : docs[l.doc] # None /\ l.concept \in Mentions[docs[l.doc]]}

\* The next label of the run when its loop has one document less.
Advance(label, next) ==
  run' = IF Tail(run.rest) # << >> THEN [run EXCEPT !.pc = label, !.rest = Tail(@)]
         ELSE [run EXCEPT !.pc = next, !.rest = run.feed]

Raise == run' = Idle

-----------------------------------------------------------------------------
\* Only a run's own commit changes the database, so its transaction sees what
\* was committed when it started.
Start ==
  /\ run.pc = "idle"
  /\ \E feed \in Feeds, rq \in Modes :
       run' = [Idle EXCEPT !.pc = "ingest", !.rq = rq, !.feed = feed, !.rest = feed,
                           !.session = db]
  /\ UNCHANGED <<manifests, db, history>>

Ingest ==
  /\ run.pc = "ingest"
  /\ docs' = Recorded(Head(run.rest))
  /\ Advance("ingest", IF run.rq THEN "enqueue" ELSE "rows")
  /\ UNCHANGED <<embs, rqueue, db, history>>

\* A fetch raises, or returns nothing usable.
FetchFails ==
  /\ run.pc = "ingest"
  /\ Raise
  /\ UNCHANGED <<manifests, db, history>>

Enqueue ==
  /\ run.pc = "enqueue"
  /\ LET i == Stored(Head(run.rest)) IN
       /\ jobs' = [jobs EXCEPT ![i] = IF @ = "ABSENT" THEN "PENDING" ELSE @]
       /\ tasks' = IF i \in recorded THEN tasks ELSE Append(tasks, i)
       /\ recorded' = recorded \cup {i}
  /\ Advance("enqueue", "work")
  /\ UNCHANGED <<docs, embs, db, history>>

\* The burst worker stops at an empty queue or after as many tasks as documents.
WorkDone ==
  /\ run.pc = "work"
  /\ tasks = << >> \/ run.worked = Len(run.feed)
  /\ run' = [run EXCEPT !.pc = "counts"]
  /\ UNCHANGED <<manifests, db, history>>

\* run_embedding_job: a job that is not PENDING is skipped.
WorkTask ==
  /\ run.pc = "work"
  /\ tasks # << >> /\ run.worked < Len(run.feed)
  /\ IF jobs[Head(tasks)] = "PENDING"
     THEN /\ jobs' = [jobs EXCEPT ![Head(tasks)] = "RUNNING"]
          /\ run' = [run EXCEPT !.pc = "finish"]
          /\ UNCHANGED tasks
     ELSE /\ tasks' = Tail(tasks)
          /\ run' = [run EXCEPT !.worked = @ + 1]
          /\ UNCHANGED jobs
  /\ UNCHANGED <<docs, embs, recorded, db, history>>

\* The content of the moment is embedded.
FinishTask ==
  /\ run.pc = "finish"
  /\ \E outcome \in Outcomes :
       /\ jobs' = [jobs EXCEPT ![Head(tasks)] = outcome]
       /\ embs' = IF outcome = "SUCCEEDED" THEN embs \cup {Stored(Head(tasks))} ELSE embs
  /\ tasks' = Tail(tasks)
  /\ run' = [run EXCEPT !.pc = "work", !.worked = @ + 1]
  /\ UNCHANGED <<docs, recorded, db, history>>

CheckCounts ==
  /\ run.pc = "counts"
  /\ IF Clean THEN run' = [run EXCEPT !.pc = "rows", !.snapshot = embs] ELSE Raise
  /\ UNCHANGED <<manifests, db, history>>

\* Mutant: a missing embedding is passed over.
StageWithoutEmbedding ==
  LET i == Head(run.rest)
      rows == Staged(run.session, i) IN
  /\ run.pc = "rows"
  /\ embs' = IF run.rq THEN embs ELSE embs \cup {i}
  /\ run' = [run EXCEPT
       !.pc = IF Tail(run.rest) = << >> THEN "ontology" ELSE "rows", !.rest = Tail(@),
       !.session = [rows EXCEPT !.embs = IF run.rq /\ i \notin run.snapshot
                                         THEN run.session.embs ELSE @]]
  /\ UNCHANGED <<docs, rqueue, db, history>>

\* Mutant: the embedding is written to the database only.
StageInDatabaseOnly ==
  /\ run.pc = "rows"
  /\ run.rq => Head(run.rest) \in run.snapshot
  /\ run' = [run EXCEPT
       !.pc = IF Tail(run.rest) = << >> THEN "ontology" ELSE "rows", !.rest = Tail(@),
       !.session = Staged(@, Head(run.rest))]
  /\ UNCHANGED <<manifests, db, history>>

\* The rows of the document as it was ingested, not as it was merged.
StageDocument ==
  LET i == Head(run.rest) IN
  /\ run.pc = "rows"
  /\ run.rq => i \in run.snapshot
  /\ embs' = IF run.rq THEN embs ELSE embs \cup {i}
  /\ run' = [run EXCEPT
       !.pc = IF Tail(run.rest) = << >> THEN "ontology" ELSE "rows", !.rest = Tail(@),
       !.session = Staged(@, i)]
  /\ UNCHANGED <<docs, rqueue, db, history>>

\* _required_embedding raises, and the transaction is rolled back.
MissingEmbedding ==
  /\ run.pc = "rows"
  /\ run.rq /\ Head(run.rest) \notin run.snapshot
  /\ Raise
  /\ UNCHANGED <<manifests, db, history>>

\* The foreign key of document_concepts rejects a link to a document of
\* another command, which has no row (db/models.py:146-154).
StageConcepts ==
  /\ run.pc = "ontology"
  /\ IF \E l \in ConceptLinks : run.session.docs[l.doc] = None
     THEN Raise
     ELSE run' = [run EXCEPT !.pc = "commit", !.session.links = @ \cup ConceptLinks]
  /\ UNCHANGED <<manifests, db, history>>

\* The counts of the result and the context pack are functions of the rows.
Commit ==
  /\ run.pc = "commit"
  /\ db' = run.session
  /\ last' = [feed |-> run.feed, rows |-> run.session]
  /\ run' = Idle
  /\ UNCHANGED <<manifests, crashes>>

Crash ==
  /\ crashes < MaxCrashes
  /\ run.pc # "idle"
  /\ run' = Idle
  /\ tasks' = IF run.pc = "finish" THEN Tail(tasks) ELSE tasks
  /\ crashes' = crashes + 1
  /\ UNCHANGED <<docs, embs, jobs, recorded, db, last>>

\* An RQ job ended more than a day ago.
Expire(i) ==
  /\ i \in recorded
  /\ \A k \in DOMAIN tasks : tasks[k] # i
  /\ recorded' = recorded \ {i}
  /\ UNCHANGED <<docs, embs, jobs, tasks, db, run, history>>

\* Another command records a document in the same storage root.
IngestForeign(item) ==
  /\ docs' = Recorded(item)
  /\ UNCHANGED <<embs, rqueue, db, run, history>>

-----------------------------------------------------------------------------
Smoke ==
  \/ Start \/ Ingest \/ FetchFails \/ Enqueue \/ WorkDone \/ WorkTask \/ FinishTask
  \/ CheckCounts \/ StageDocument \/ MissingEmbedding \/ StageConcepts \/ Commit

Next ==
  \/ Smoke
  \/ Crash
  \/ \E i \in Items : Expire(i)
  \/ \E i \in Foreign : IngestForeign(i)

Spec == Init /\ [][Next]_vars

-----------------------------------------------------------------------------
(***************************************************************************)
(* Properties.                                                             *)
(***************************************************************************)

\* The database is never ahead of the manifests: whatever fails or crashes, a
\* committed document is in the corpus and a committed embedding in its
\* embeddings (run_live_small_smoke 146-236 commits last).
ManifestsFirst ==
  /\ db.embs \subseteq embs
  /\ \A d \in Docs : db.docs[d] # None => docs[d] # None

\* A committed SUCCEEDED job has its chunks, their embeddings and its cost row
\* in the same database (168-194).
CommittedJobsComplete ==
  \A i \in db.jobs : i \in db.chunks /\ i \in db.embs /\ db.costs[i] = 1

\* All runs are of the same documents, in whatever contents, and other commands
\* ingest other ones.
FeedDocs == {d \in Docs : \E feed \in Feeds : \E k \in DOMAIN feed : feed[k].doc = d}
OneSample ==
  /\ \A feed \in Feeds, d \in FeedDocs : \E k \in DOMAIN feed : feed[k].doc = d
  /\ \A i \in Foreign : i.doc \notin FeedDocs

\* A rerun with the same documents that passes changes no row, so it preserves
\* the counts and the context pack, whatever runs with other contents of these
\* documents failed or crashed since (src/README.md:34).
RerunPreserves ==
  [][run.pc = "commit" /\ run.feed = last.feed => db' = db]_vars

\* The smoke finds that its jobs did not finish cleanly only if one of them
\* did not succeed (_run_rq_embeddings 371-379).
CountsTrustworthy ==
  run.pc = "counts"
    /\ (\A k \in DOMAIN run.feed : jobs[Stored(run.feed[k])] = "SUCCEEDED") => Clean
=============================================================================
