------------------------------ MODULE JobRunner ------------------------------
(***************************************************************************)
(* The file-backed job runner: every command (CLI process, API thread, RQ  *)
(* worker) that reads and rewrites manifests/jobs.json, the operation      *)
(* cache, the cost ledger and manifests/corpus.json.  No file has a lock,  *)
(* and write_text first truncates a file and then fills it, so a           *)
(* read-modify-write is three steps: load, truncate, fill.                 *)
(*                                                                         *)
(*   src/src/wzkf/jobs/{queue,runner,cost_ledger,rq_worker}.py             *)
(*   src/src/wzkf/retrieval/embedding_service.py                           *)
(*   src/src/wzkf/pipeline/local.py                                        *)
(*                                                                         *)
(* Contents are abstracted to what the code tells apart: a document's      *)
(* version stands for its canonical hash, Content[v] for the texts of its  *)
(* child chunks, an embedding for the (model, chunk) key it is stored      *)
(* under, a cached operation for its (model, text) key.                    *)
(***************************************************************************)
EXTENDS Naturals, FiniteSets

CONSTANTS
  Procs,       \* the processes and threads that run commands
  Docs,        \* document ids
  Academic,    \* the documents _record merges instead of replacing
  Versions,    \* canonical hashes a document's content may have
  Texts,       \* chunk texts
  Content,     \* Content[v]: the texts of the child chunks of version v
  Providers, Models,
  Services,    \* the (provider, model) pairs a command may be started with
  Requests,    \* the (job type, provider, model) a job may be enqueued with
  Commands,    \* the kinds of command that are started
  None,        \* an absent value
  MaxCrashes,  \* bound on the number of crashes
  MaxCalls     \* the count of provider calls for an operation stops here

CommandKinds ==
  {"run_pending", "process_document", "enqueue", "rq_task", "ingest", "ontology"}
JobTypes == {"embed_document", "other"}

ASSUME ConstantsAssumption ==
  /\ Academic \subseteq Docs
  /\ Content \in [Versions -> SUBSET Texts]
  /\ Services \subseteq [provider : Providers, model : Models]
  /\ Requests \subseteq [type : JobTypes, provider : Providers \cup {None},
                         model : Models \cup {None}]
  /\ Commands \subseteq CommandKinds
  /\ None \notin Versions \cup Providers \cup Models
  /\ MaxCrashes \in Nat
  /\ MaxCalls \in Nat \ {0}

\* A job's id is the hash of its fields, so the job stands for its id.
Jobs == [doc : Docs, input : Versions, req : Requests]
Marks == {"RUNNING", "SUCCEEDED", "FAILED", "SKIPPED"}
Statuses == Marks \cup {"ABSENT", "PENDING"}
Settled == {"SUCCEEDED", "FAILED", "SKIPPED"}

\* A chunk id hashes the document id and the chunk text with its parent's.
Chunks == [doc : Docs, version : Versions, text : Texts]
ChunksOf(d, v) == {[doc |-> d, version |-> v, text |-> t] : t \in Content[v]}
Keys == [model : Models, chunk : Chunks]
Ops == [model : Models, text : Texts]
KeysOf(m, d, v) == {[model |-> m, chunk |-> c] : c \in ChunksOf(d, v)}

Files == {"jobs", "cache", "costs", "corpus"}
Disk == [jobs : [Jobs -> Statuses], cache : SUBSET Ops, costs : SUBSET Ops,
         docs : [Docs -> Versions \cup {None}], embs : SUBSET Keys]
Blank == [jobs |-> [j \in Jobs |-> "ABSENT"], cache |-> {}, costs |-> {},
          docs |-> [d \in Docs |-> None], embs |-> {}]

(***************************************************************************)
(* Where a command is.  A label is the next thing the command does; a mark *)
(* is labelled by the status it writes.  InTry are the labels inside       *)
(* run_job's try block.                                                    *)
(***************************************************************************)
InTry == {"document", "chunk", "provider", "put", "charge", "upsert",
          "SUCCEEDED", "SKIPPED"}
Writes == Marks \cup {"enqueue", "put", "charge", "upsert", "record", "ontology"}
Labels == Writes \cup InTry \cup {"idle", "lookup", "pending", "next"}
FileAt(label) ==
  CASE label \in Marks \cup {"enqueue", "pending", "next"} -> "jobs"
    [] label \in {"chunk", "put"} -> "cache"
    [] label = "charge" -> "costs"
    [] OTHER -> "corpus"

ProcState ==
  [pc : Labels, phase : {"load", "truncate", "fill"},
   svc : Services \cup {None},               \* the service the command runs with
   doc : Docs \cup {None}, version : Versions \cup {None},
   req : Requests \cup {None}, thenRun : BOOLEAN,
   todo : SUBSET Jobs,                       \* rest of the list pending() gave
   job : Jobs \cup {None},                   \* the job being run
   chunks : SUBSET Chunks, chunk : Chunks \cup {None},
   buf : Disk]                               \* manifest loaded and edited
Idle ==
  [pc |-> "idle", phase |-> "load", svc |-> None, doc |-> None, version |-> None,
   req |-> None, thenRun |-> FALSE, todo |-> {}, job |-> None, chunks |-> {},
   chunk |-> None, buf |-> Blank]

VARIABLES
  disk,      \* the last complete content of the four files
  torn,      \* files that do not parse: truncated, or left mixed
  proc,      \* what each process holds in memory
  calls,     \* history: completed provider calls per operation
  indexed,   \* history: embedding keys ever written to the corpus
  crashes    \* history: number of crashes

vars == <<disk, torn, proc, calls, indexed, crashes>>
files == <<disk, torn>>
history == <<calls, indexed, crashes>>

TypeOK ==
  /\ disk \in Disk
  /\ torn \subseteq Files
  /\ proc \in [Procs -> ProcState]
  /\ calls \in [Ops -> 0 .. MaxCalls]
  /\ indexed \subseteq Keys
  /\ crashes \in 0 .. MaxCrashes

Init ==
  /\ disk = Blank
  /\ torn = {}
  /\ proc = [p \in Procs |-> Idle]
  /\ calls = [o \in Ops |-> 0]
  /\ indexed = {}
  /\ crashes = 0

-----------------------------------------------------------------------------
(* Edits of the manifests, each the body of one method between its load and
   its write.                                                              *)
Marked(jobs, j, status) == [jobs EXCEPT ![j] = status]
Enqueued(jobs, j) == [jobs EXCEPT ![j] = "PENDING"]
\* Mutant: the operation key loses the model.
WithOperationOfText(ops, o) == ops \cup {o.text}

\* Mutant: put starts from an empty manifest.
WithOnlyOperation(ops, o) == {o}

WithOperation(ops, o) == ops \cup {o}
WithCost(ops, o) == ops \cup {o}
WithEmbedding(embs, k) == embs \cup {k}
WithDocument(docs, d, v) ==
  [docs EXCEPT ![d] = IF d \in Academic /\ @ # None THEN @ ELSE v]

Pending(jobs) == {j \in Jobs : jobs[j] = "PENDING"}
\* Mutant: run_job takes any job it finds.
RunnableIfKnown(jobs, j) == jobs[j] # "ABSENT"

Runnable(jobs, j) == jobs[j] = "PENDING"
\* Mutant: run_job does not compare the models.
AcceptsAnyModel(svc, req) == req.provider \in {None, svc.provider}

Accepts(svc, req) ==
  /\ req.provider \in {None, svc.provider}
  /\ req.model \in {None, svc.model}

TargetJob(w) == [doc |-> w.doc, input |-> w.version, req |-> w.req]
OpOf(w) == [model |-> w.svc.model, text |-> w.chunk.text]
KeyOf(w) == [model |-> w.svc.model, chunk |-> w.chunk]

-----------------------------------------------------------------------------
(* Control flow between the steps. *)
Goto(p, w) == proc' = [proc EXCEPT ![p] = w]

\* run_pending goes on with the jobs left of its list, or returns.
Resume(w, todo) ==
  IF todo = {} THEN Idle
  ELSE [Idle EXCEPT !.pc = "next", !.svc = w.svc, !.todo = todo]

\* Mutant: the loop ends with its first chunk.
IterateOnce(w, chunks) ==
  [w EXCEPT !.pc = IF w.pc = "upsert" \/ chunks = {} THEN "SUCCEEDED" ELSE "chunk",
            !.chunks = chunks, !.chunk = None]

\* The loop over the child chunks, then the SUCCEEDED mark.
Iterate(w, chunks) ==
  [w EXCEPT !.pc = IF chunks = {} THEN "SUCCEEDED" ELSE "chunk",
            !.chunks = chunks, !.chunk = None]

\* The checks run_job and _run_embed_document make after the RUNNING mark.
Dispatch(w) ==
  [w EXCEPT !.pc = CASE w.job.req.type # "embed_document" -> "SKIPPED"
                     [] ~ Accepts(w.svc, w.job.req) -> "FAILED"
                     [] OTHER -> "document"]

\* What a command does once the write at its label is done.
After(v) ==
  LET w == [v EXCEPT !.phase = "load", !.buf = Blank] IN
  CASE w.pc = "enqueue" /\ w.thenRun -> [Idle EXCEPT !.pc = "pending", !.svc = w.svc]
    [] w.pc = "RUNNING" -> Dispatch(w)
    [] w.pc \in Settled -> Resume(w, w.todo)
    [] w.pc = "put" -> [w EXCEPT !.pc = "charge"]
    [] w.pc = "charge" -> [w EXCEPT !.pc = "upsert"]
    [] w.pc = "upsert" -> Iterate(w, w.chunks \ {w.chunk})
    [] OTHER -> Idle

\* Mutant: the except clause does not mark the job FAILED.
RaiseUnmarked(p) ==
  Goto(p, IF proc[p].pc \in InTry THEN Resume(proc[p], proc[p].todo) ELSE Idle)

\* Mutant: the except clause tries the document again.
RaiseAndRetry(p) ==
  Goto(p, IF proc[p].pc \in InTry THEN [proc[p] EXCEPT !.pc = "document"] ELSE Idle)

\* Mutant: an exception falls through to the SUCCEEDED mark.
RaiseAsSuccess(p) ==
  Goto(p, IF proc[p].pc \in InTry THEN [proc[p] EXCEPT !.pc = "SUCCEEDED"] ELSE Idle)

\* An exception: the except clause of run_job, or the end of the command.
Raise(p) ==
  Goto(p, IF proc[p].pc \in InTry THEN [proc[p] EXCEPT !.pc = "FAILED"] ELSE Idle)

\* p is about to read the file of this label and the file parses.
Reads(p, label) ==
  /\ proc[p].pc = label
  /\ proc[p].phase = "load"
  /\ FileAt(label) \notin torn

Stage(p, content) ==
  /\ Goto(p, [proc[p] EXCEPT !.phase = "truncate", !.buf = content])
  /\ UNCHANGED <<files, history>>

Proceed(p, w) ==
  /\ Goto(p, w)
  /\ UNCHANGED <<files, history>>

-----------------------------------------------------------------------------
(* Commands. *)
CanStart(p, kind) == proc[p].pc = "idle" /\ kind \in Commands

\* wzkf process all, POST /jobs/run-pending
StartRunPending(p) ==
  /\ CanStart(p, "run_pending")
  /\ \E s \in Services : Proceed(p, [Idle EXCEPT !.pc = "pending", !.svc = s])

\* wzkf process document
StartProcessDocument(p) ==
  /\ CanStart(p, "process_document")
  /\ \E s \in Services, d \in Docs, r \in Requests :
       /\ r.type = "embed_document" /\ r.provider = s.provider /\ r.model = s.model
       /\ Proceed(p, [Idle EXCEPT !.pc = "lookup", !.svc = s, !.doc = d,
                                  !.req = r, !.thenRun = TRUE])

\* POST /jobs/embed-document, wzkf jobs enqueue-rq, library callers
StartEnqueue(p) ==
  /\ CanStart(p, "enqueue")
  /\ \E d \in Docs, r \in Requests :
       Proceed(p, [Idle EXCEPT !.pc = "lookup", !.doc = d, !.req = r])

\* An RQ worker runs the task of a job that enqueue_embedding_job put in the
\* manifest: the task carries the job's own provider and model.
StartRqTask(p) ==
  /\ CanStart(p, "rq_task")
  /\ \E s \in Services, j \in Jobs :
       /\ disk.jobs[j] # "ABSENT"
       /\ j.req.provider = s.provider /\ j.req.model = s.model
       /\ Proceed(p, [Idle EXCEPT !.pc = "next", !.svc = s, !.todo = {j}])

\* One _record call of an ingest command
StartIngest(p) ==
  /\ CanStart(p, "ingest")
  /\ \E d \in Docs, v \in Versions :
       Proceed(p, [Idle EXCEPT !.pc = "record", !.doc = d, !.version = v])

\* GET /concepts, ontology review, export obsidian
StartOntology(p) ==
  /\ CanStart(p, "ontology")
  /\ Proceed(p, [Idle EXCEPT !.pc = "ontology"])

-----------------------------------------------------------------------------
(* Reads. *)
Lookup(p) ==
  /\ Reads(p, "lookup")
  /\ LET v == disk.docs[proc[p].doc] IN
       Proceed(p, IF v = None THEN Idle
                  ELSE [proc[p] EXCEPT !.pc = "enqueue", !.version = v])

ListPending(p) ==
  /\ Reads(p, "pending")
  /\ Proceed(p, Resume(proc[p], Pending(disk.jobs)))

\* run_job's get: absent and not-PENDING jobs are counted and left alone.
GetJob(p) ==
  /\ Reads(p, "next")
  /\ \E j \in proc[p].todo :
       Proceed(p, IF Runnable(disk.jobs, j)
                  THEN [proc[p] EXCEPT !.pc = "RUNNING", !.job = j, !.todo = @ \ {j}]
                  ELSE Resume(proc[p], proc[p].todo \ {j}))

GetDocument(p) ==
  /\ Reads(p, "document")
  /\ LET d == proc[p].job.doc
         v == disk.docs[d] IN
       Proceed(p, IF v = None THEN [proc[p] EXCEPT !.pc = "FAILED"]
                  ELSE Iterate(proc[p], ChunksOf(d, v)))

\* Mutant: the cache is never consulted.
CacheGetMisses(p) ==
  /\ Reads(p, "chunk")
  /\ \E c \in proc[p].chunks :
       Proceed(p, [proc[p] EXCEPT !.chunk = c, !.pc = "provider"])

\* embed_text: a hit goes straight to the corpus, past the ledger.
CacheGet(p) ==
  /\ Reads(p, "chunk")
  /\ \E c \in proc[p].chunks :
       LET w == [proc[p] EXCEPT !.chunk = c] IN
       Proceed(p, [w EXCEPT !.pc = IF OpOf(w) \in disk.cache THEN "upsert"
                                   ELSE "provider"])

CallProvider(p) ==
  /\ proc[p].pc = "provider"
  /\ Goto(p, [proc[p] EXCEPT !.pc = "put"])
  /\ calls' = [calls EXCEPT ![OpOf(proc[p])] = IF @ < MaxCalls THEN @ + 1 ELSE @]
  /\ UNCHANGED <<files, indexed, crashes>>

\* Mutant: a failed call goes on with an empty embedding.
ProviderFailsSilently(p) ==
  /\ proc[p].pc = "provider"
  /\ Goto(p, [proc[p] EXCEPT !.pc = "put"])
  /\ UNCHANGED <<files, history>>

ProviderFails(p) ==
  /\ proc[p].pc = "provider"
  /\ Raise(p)
  /\ UNCHANGED <<files, history>>

-----------------------------------------------------------------------------
(* Read-modify-writes. *)
LoadToMark(p) ==
  \E status \in Marks :
    /\ Reads(p, status)
    /\ disk.jobs[proc[p].job] # "ABSENT"
    /\ Stage(p, [Blank EXCEPT !.jobs = Marked(disk.jobs, proc[p].job, status)])

\* KeyError: the job vanished from the manifest.
MarkUnknown(p) ==
  \E status \in Marks :
    /\ Reads(p, status)
    /\ disk.jobs[proc[p].job] = "ABSENT"
    /\ Raise(p)
    /\ UNCHANGED <<files, history>>

LoadToEnqueue(p) ==
  /\ Reads(p, "enqueue")
  /\ LET j == TargetJob(proc[p]) IN
       IF disk.jobs[j] = "ABSENT"
       THEN Stage(p, [Blank EXCEPT !.jobs = Enqueued(disk.jobs, j)])
       ELSE Proceed(p, After(proc[p]))

LoadToPut(p) ==
  /\ Reads(p, "put")
  /\ Stage(p, [Blank EXCEPT !.cache = WithOperation(disk.cache, OpOf(proc[p]))])

\* Mutant: the ledger is not written.
LoadToChargeNothing(p) ==
  /\ Reads(p, "charge")
  /\ Proceed(p, After(proc[p]))

LoadToCharge(p) ==
  /\ Reads(p, "charge")
  /\ LET o == OpOf(proc[p]) IN
       IF o \in disk.costs THEN Proceed(p, After(proc[p]))
       ELSE Stage(p, [Blank EXCEPT !.costs = WithCost(disk.costs, o)])

LoadToUpsert(p) ==
  /\ Reads(p, "upsert")
  /\ Stage(p, [Blank EXCEPT !.docs = disk.docs,
                            !.embs = WithEmbedding(disk.embs, KeyOf(proc[p]))])

LoadToRecord(p) ==
  /\ Reads(p, "record")
  /\ Stage(p, [Blank EXCEPT
       !.docs = WithDocument(disk.docs, proc[p].doc, proc[p].version),
       !.embs = disk.embs])

\* rebuild_ontology writes back the whole corpus it loaded.
LoadToOntology(p) ==
  /\ Reads(p, "ontology")
  /\ Stage(p, [Blank EXCEPT !.docs = disk.docs, !.embs = disk.embs])

\* json.loads raises on a file another command has truncated or left mixed.
ReadFails(p) ==
  /\ proc[p].pc \notin {"idle", "provider"}
  /\ proc[p].phase = "load"
  /\ FileAt(proc[p].pc) \in torn
  /\ Raise(p)
  /\ UNCHANGED <<files, history>>

Truncate(p) ==
  /\ proc[p].phase = "truncate"
  /\ torn' = torn \cup {FileAt(proc[p].pc)}
  /\ Goto(p, [proc[p] EXCEPT !.phase = "fill"])
  /\ UNCHANGED <<disk, history>>

\* The content reaches the file.  If another command filled the file since
\* this one truncated it, the shorter text may leave the longer one's tail.
Fill(p) ==
  LET w == proc[p]
      f == FileAt(w.pc) IN
  /\ w.phase = "fill"
  /\ disk' = [jobs |-> IF f = "jobs" THEN w.buf.jobs ELSE disk.jobs,
              cache |-> IF f = "cache" THEN w.buf.cache ELSE disk.cache,
              costs |-> IF f = "costs" THEN w.buf.costs ELSE disk.costs,
              docs |-> IF f = "corpus" THEN w.buf.docs ELSE disk.docs,
              embs |-> IF f = "corpus" THEN w.buf.embs ELSE disk.embs]
  /\ \/ torn' = torn \ {f}
     \/ f \notin torn /\ torn' = torn \cup {f}
  /\ indexed' = IF w.pc = "upsert" THEN indexed \cup {KeyOf(w)} ELSE indexed
  /\ Goto(p, After(w))
  /\ UNCHANGED <<calls, crashes>>

Crash(p) ==
  /\ crashes < MaxCrashes
  /\ proc[p].pc # "idle"
  /\ Goto(p, Idle)
  /\ crashes' = crashes + 1
  /\ UNCHANGED <<files, calls, indexed>>

-----------------------------------------------------------------------------
Start(p) ==
  \/ StartRunPending(p) \/ StartProcessDocument(p) \/ StartEnqueue(p)
  \/ StartRqTask(p) \/ StartIngest(p) \/ StartOntology(p)

\* A step of the command p is running.
Work(p) ==
  \/ Lookup(p) \/ ListPending(p) \/ GetJob(p) \/ GetDocument(p) \/ CacheGet(p)
  \/ CallProvider(p) \/ ProviderFails(p)
  \/ LoadToMark(p) \/ MarkUnknown(p) \/ LoadToEnqueue(p) \/ LoadToPut(p)
  \/ LoadToCharge(p) \/ LoadToUpsert(p) \/ LoadToRecord(p) \/ LoadToOntology(p)
  \/ ReadFails(p) \/ Truncate(p) \/ Fill(p)

Next == \E p \in Procs : Start(p) \/ Work(p) \/ Crash(p)

Spec == Init /\ [][Next]_vars

\* A command that has been started goes on; nobody is bound to start one.
FairSpec == Spec /\ \A p \in Procs : WF_vars(Work(p))

-----------------------------------------------------------------------------
(***************************************************************************)
(* Properties.                                                             *)
(***************************************************************************)
PaidOps == {o \in Ops : calls[o] > 0}
OpOfKey(k) == [model |-> k.model, text |-> k.chunk.text]

\* The manifests d hold only operations of ops.
Backed(d, ops) ==
  /\ d.cache \cup d.costs \subseteq ops
  /\ \A k \in d.embs : OpOfKey(k) \in ops

\* Nothing is cached, charged or searchable unless a provider call produced
\* it: however commands interleave, crash or overwrite each other, a manifest
\* never holds an operation that embed_text did not pay for.
Provenance == Backed(disk, PaidOps)

\* The sets of keys that complete a job.
Coverings ==
  [j \in Jobs |->
    {keys \in {KeysOf(s.model, j.doc, v) : s \in {x \in Services : Accepts(x, j.req)},
                                          v \in Versions} :
       j.req.type = "embed_document"}]

Embedded(j, keys) == \E need \in Coverings[j] : need \subseteq keys

\* The jobs that jobs calls SUCCEEDED have been embedded by keys.
Completed(jobs, keys) ==
  \A j \in Jobs : jobs[j] = "SUCCEEDED" => Embedded(j, keys)

\* A SUCCEEDED mark is never premature: every chunk of one version of the
\* document has been written to the corpus by then (run_job 46-50), though a
\* concurrent writer of the corpus may since have lost it.
SucceededWasIndexed == Completed(disk.jobs, indexed)

\* With one command at a time the ledger never charges for an operation that
\* the cache does not hold (embed_text 84-94 caches before it charges).
ChargedIsCached == disk.costs \subseteq disk.cache

\* With one command at a time an operation is paid for once, and once more for
\* each crash (embed_text 76-84).
PaidOnce == \A o \in Ops : calls[o] <= 1 + crashes

\* With one command at a time every embedding in the corpus is there for a job
\* of its document that asked for its model (_run_embed_document 58-82).
EmbeddingHasJob ==
  \A k \in disk.embs : \E j \in Jobs :
    /\ disk.jobs[j] \in Settled \cup {"RUNNING"}
    /\ j.doc = k.chunk.doc
    /\ j.req.model \in {None, k.model}

\* With one command at a time, crashes included, the files implement the
\* lifecycle the queue promises: no job is claimed twice, re-opened or
\* settled before the corpus holds what it was for.
Abstract == INSTANCE JobLifecycle WITH
  status <- disk.jobs, searchable <- disk.embs
Lifecycle == Abstract!Spec

\* With one command at a time and no crash the books balance between commands:
\* what is cached is charged and searchable (embed_text 83-94,
\* _run_embed_document 76-82).
BooksBalance ==
  crashes = 0 /\ (\A p \in Procs : proc[p].pc = "idle") =>
    /\ disk.costs = disk.cache
    /\ {OpOfKey(k) : k \in disk.embs} = disk.cache

\* A job's identity holds the hash of the content it was enqueued for: once it
\* SUCCEEDED, the chunks of that content are searchable whenever the document
\* has it (live_small _required_embedding raises otherwise).
SucceededCoversInput ==
  \A j \in Jobs :
    disk.jobs[j] = "SUCCEEDED" /\ disk.docs[j.doc] = j.input =>
      \E s \in Services : KeysOf(s.model, j.doc, j.input) \subseteq disk.embs

\* A run of the pending jobs that is by itself from its listing on settles every
\* job, whatever overlapping commands did before, unless they left a file that
\* does not parse or a job RUNNING (run_pending 28-37, run_job 46-55; no crash).
RunSettles ==
  \A p \in Procs :
    []((/\ proc[p].pc = "pending" /\ torn = {}
        /\ \A j \in Jobs : disk.jobs[j] # "RUNNING"
        /\ [](\A q \in Procs \ {p} : proc[q].pc = "idle"))
       => <>(\A j \in Jobs : disk.jobs[j] \in Settled \cup {"ABSENT"}))

\* Every started command ends, whatever the others do.
CommandsEnd == \A p \in Procs : (proc[p].pc # "idle") ~> (proc[p].pc = "idle")
=============================================================================
