-------------------------- MODULE JobLifecycleProofs --------------------------
(***************************************************************************)
(* JobRunner with one process: its commands run one at a time, each may    *)
(* raise or crash anywhere.  What the manifests then promise together, and *)
(* that the files implement JobLifecycle.                                  *)
(***************************************************************************)
EXTENDS JobRunnerProofs

OneProcess == \E p \in Procs : Procs = {p}

-----------------------------------------------------------------------------
(***************************************************************************)
(* The inductive invariant.  Its parts are of the process's memory w, the  *)
(* files d and t, the calls c and the number of crashes n, so that they    *)
(* can be stated of the state before a step and of the one after it.       *)
(***************************************************************************)

\* What was loaded is still in the file, so a write adds what it is to add.
InStep(w, d) ==
  w.phase # "load" =>
    /\ w.pc \in Writes
    /\ w.pc \in Marks => w.buf.jobs = Marked(d.jobs, w.job, w.pc)
    /\ w.pc = "enqueue" => /\ d.jobs[TargetJob(w)] = "ABSENT"
                           /\ w.buf.jobs = Enqueued(d.jobs, TargetJob(w))
    /\ w.pc = "put" => w.buf.cache = WithOperation(d.cache, OpOf(w))
    /\ w.pc = "charge" => w.buf.costs = WithCost(d.costs, OpOf(w))
    /\ w.pc = "upsert" => w.buf.embs = WithEmbedding(d.embs, KeyOf(w))
    /\ w.pc \in {"record", "ontology"} => w.buf.embs = d.embs

\* The job that is run is this command's, and its chunks are of its document.
Holds(w, d) ==
  /\ w.pc = "RUNNING" => d.jobs[w.job] = "PENDING"
  /\ w.pc \in InJob \ {"RUNNING"} => d.jobs[w.job] = "RUNNING"
  /\ w.pc \in InLoop => \E v \in Versions : w.chunks \subseteq ChunksOf(w.job.doc, v)

\* An operation is called for only if it is not cached, and its answer is kept
\* because the file that could not be read at the lookup would not be now.
Fetches(w, d, t) ==
  /\ w.pc \in {"provider", "put"} => OpOf(w) \notin d.cache
  /\ w.pc = "provider" \/ (w.pc = "put" /\ w.phase # "fill") => "cache" \notin t
  /\ w.pc \in {"charge", "upsert"} => OpOf(w) \in d.cache

\* The calls for o that the cache, the command at its put, or a crash explains.
Explained(w, d, o) == IF o \in d.cache \/ (w.pc = "put" /\ OpOf(w) = o) THEN 1 ELSE 0
Counted(w, d, c, n) == \A o \in Ops : c[o] <= n + Explained(w, d, o)

\* Without a crash: the files parse, and a difference between them is the
\* operation this command is bringing from one to the next.
At(w, labels) == IF w.pc \in labels THEN {OpOf(w)} ELSE {}
OpsOf(embs) == {OpOfKey(k) : k \in embs}
Even(w, d, t, n) ==
  n = 0 =>
    /\ t = IF w.phase = "fill" THEN {FileAt(w.pc)} ELSE {}
    /\ d.cache = d.costs \cup At(w, {"charge"})
    /\ d.cache = OpsOf(d.embs) \cup At(w, {"charge", "upsert"})

Sound(w, d, t, c, n) ==
  InStep(w, d) /\ Holds(w, d) /\ Fetches(w, d, t) /\ Counted(w, d, c, n) /\ Even(w, d, t, n)

AskedFor(d, k) ==
  \E j \in Jobs :
    /\ d.jobs[j] \in Settled \cup {"RUNNING"}
    /\ j.doc = k.chunk.doc
    /\ j.req.model \in {None, k.model}

\* Of the files alone.
Settles(d, keys) ==
  /\ d.costs \subseteq d.cache
  /\ keys \subseteq d.embs
  /\ \A k \in d.embs : AskedFor(d, k)

SoloInv ==
  /\ \A p \in Procs : Sound(proc[p], disk, torn, calls, crashes)
  /\ Settles(disk, indexed)
-----------------------------------------------------------------------------
(* The labels a command goes through after a write. *)
LEMMA Labelling ==
  /\ InJob = {"RUNNING", "SUCCEEDED", "FAILED", "SKIPPED", "provider", "put", "charge",
              "upsert", "document", "chunk"}
  /\ InLoop = {"provider", "put", "charge", "upsert", "chunk"}
  /\ Settled = {"SUCCEEDED", "FAILED", "SKIPPED"}
  /\ Marks = {"RUNNING", "SUCCEEDED", "FAILED", "SKIPPED"}
  /\ Writes = {"RUNNING", "SUCCEEDED", "FAILED", "SKIPPED", "enqueue", "put", "charge",
               "upsert", "record", "ontology"}
  BY InJobSet, InLoopSet DEF Settled, Marks, Writes

LEMMA ResumeAt ==
  ASSUME NEW w, NEW todo
  PROVE  Resume(w, todo).phase = "load" /\ Resume(w, todo).pc \in {"next", "idle"}
  BY DEF Resume, Idle

LEMMA DispatchAt ==
  ASSUME NEW w \in ProcState
  PROVE  /\ Dispatch(w).pc \in {"SKIPPED", "FAILED", "document"}
         /\ Dispatch(w).job = w.job /\ Dispatch(w).phase = w.phase
  <1>1. \A pc \in {"SKIPPED", "FAILED", "document"} :
          LET v == [w EXCEPT !.pc = pc] IN v.pc = pc /\ v.job = w.job /\ v.phase = w.phase
    BY Relabel, LabelSet
  <1> QED BY <1>1 DEF Dispatch

LEMMA IterateAt ==
  ASSUME NEW w \in ProcState, NEW chunks
  PROVE  LET v == Iterate(w, chunks) IN
         /\ v.pc \in {"SUCCEEDED", "chunk"} /\ v.phase = w.phase
         /\ v.job = w.job /\ v.svc = w.svc /\ v.chunks = chunks
  BY DEF Iterate, ProcState

LEMMA AfterAt ==
  ASSUME NEW v \in WellFormed
  PROVE  LET a == After(v) IN
         /\ a.phase = "load"
         /\ v.pc = "RUNNING" => /\ a.pc \in {"SKIPPED", "FAILED", "document"}
                                /\ a.job = v.job
         /\ v.pc \in Settled \cup {"enqueue", "record", "ontology"} => a.pc \notin InJob
         /\ v.pc = "put" => /\ a.pc = "charge" /\ a.job = v.job /\ a.svc = v.svc
                            /\ a.chunk = v.chunk /\ a.chunks = v.chunks
         /\ v.pc = "charge" => /\ a.pc = "upsert" /\ a.job = v.job /\ a.svc = v.svc
                               /\ a.chunk = v.chunk /\ a.chunks = v.chunks
         /\ v.pc = "upsert" => /\ a.pc \in {"SUCCEEDED", "chunk"} /\ a.job = v.job
                               /\ a.chunks = v.chunks \ {v.chunk}
  <1> DEFINE w == [v EXCEPT !.phase = "load", !.buf = Blank]
  <1>1. /\ w \in WellFormed /\ w.pc = v.pc /\ w.svc = v.svc /\ w.chunk = v.chunk
        /\ w.job = v.job /\ w.chunks = v.chunks
    BY DropBuffer
  <1>2. w.phase = "load"
    BY DEF WellFormed, ProcState
  <1>3. After(v) =
          CASE w.pc = "enqueue" /\ w.thenRun -> [Idle EXCEPT !.pc = "pending", !.svc = w.svc]
            [] w.pc = "RUNNING" -> Dispatch(w)
            [] w.pc \in Settled -> Resume(w, w.todo)
            [] w.pc = "put" -> [w EXCEPT !.pc = "charge"]
            [] w.pc = "charge" -> [w EXCEPT !.pc = "upsert"]
            [] w.pc = "upsert" -> Iterate(w, w.chunks \ {w.chunk})
            [] OTHER -> Idle
    BY DEF After, w
  <1> HIDE DEF w
  <1>4. w \in ProcState
    BY <1>1 DEF WellFormed
  <1>5. Idle.pc = "idle" /\ Idle.phase = "load"
    BY DEF Idle
  <1>6. LET x == [Idle EXCEPT !.pc = "pending", !.svc = w.svc] IN
        x.pc = "pending" /\ x.phase = "load"
    BY DEF Idle
  <1>7. CASE w.pc = "enqueue"
    BY <1>1, <1>3, <1>5, <1>6, <1>7, Labelling
  <1>8. CASE w.pc = "RUNNING"
    BY <1>1, <1>2, <1>3, <1>4, <1>8, DispatchAt, Labelling
  <1>9. CASE w.pc \in Settled
    BY <1>1, <1>3, <1>9, ResumeAt, Labelling
  <1>10. CASE w.pc = "put"
    <2>1. After(v) = [w EXCEPT !.pc = "charge"]
      BY <1>3, <1>10, Labelling
    <2> QED BY <1>1, <1>2, <1>4, <1>10, <2>1, Relabel, LabelSet, Labelling
  <1>11. CASE w.pc = "charge"
    <2>1. After(v) = [w EXCEPT !.pc = "upsert"]
      BY <1>3, <1>11, Labelling
    <2> QED BY <1>1, <1>2, <1>4, <1>11, <2>1, Relabel, LabelSet, Labelling
  <1>12. CASE w.pc = "upsert"
    BY <1>1, <1>2, <1>3, <1>4, <1>12, IterateAt, Labelling
  <1>13. CASE w.pc \notin Settled \cup {"enqueue", "RUNNING", "put", "charge", "upsert"}
    BY <1>1, <1>3, <1>5, <1>13, Labelling
  <1> QED
    BY <1>7, <1>8, <1>9, <1>10, <1>11, <1>12, <1>13

-----------------------------------------------------------------------------
(* Steps of the one process that leave files and history alone. *)
LEMMA SoloGoto ==
  ASSUME OneProcess, TypeInv, NEW p \in Procs, NEW w, Goto(p, w),
         Sound(w, disk', torn', calls', crashes'), Settles(disk', indexed')
  PROVE  SoloInv'
  <1>1. \A q \in Procs : q = p
    BY DEF OneProcess
  <1>2. proc'[p] = w
    BY DEF Goto, TypeInv
  <1> QED
    BY <1>1, <1>2 DEF SoloInv

LEMMA SoloProceed ==
  ASSUME OneProcess, TypeInv, SoloInv, NEW p \in Procs, NEW w, Proceed(p, w),
         Sound(w, disk, torn, calls, crashes)
  PROVE  SoloInv'
  <1>1. /\ Goto(p, w) /\ disk' = disk /\ torn' = torn
        /\ calls' = calls /\ indexed' = indexed /\ crashes' = crashes
    BY DEF Proceed, files, history
  <1>2. Sound(w, disk', torn', calls', crashes') /\ Settles(disk', indexed')
    BY <1>1 DEF SoloInv
  <1> QED
    BY <1>1, <1>2, SoloGoto

\* Memory that holds no job, after memory that brought no operation anywhere.
LEMMA FreshSound ==
  ASSUME NEW v, NEW w, NEW d, NEW t, NEW c, NEW n, Sound(v, d, t, c, n),
         v.phase = "load", v.pc \notin {"put", "charge", "upsert"},
         w.phase = "load", w.pc \notin InJob
  PROVE  Sound(w, d, t, c, n)
  <1>1. InStep(w, d)
    BY DEF InStep
  <1>2. Holds(w, d)
    BY Labelling DEF Holds
  <1>3. Fetches(w, d, t)
    BY Labelling DEF Fetches
  <1>4. Counted(w, d, c, n)
    BY Labelling DEF Sound, Counted, Explained
  <1>5. Even(w, d, t, n)
    BY Labelling DEF Sound, Even, At
  <1> QED
    BY <1>1, <1>2, <1>3, <1>4, <1>5 DEF Sound

\* The end of a command that brought nothing anywhere.
LEMMA IdleSound ==
  ASSUME NEW v, NEW d, NEW t, NEW c, NEW n, Sound(v, d, t, c, n),
         v.phase = "load", v.pc \notin {"put", "charge", "upsert"}
  PROVE  Sound(Idle, d, t, c, n)
  BY FreshSound, Labelling DEF Idle

\* Memory at a label of the job that was held, where no operation is on its way.
LEMMA HeldSound ==
  ASSUME NEW v, NEW w, NEW d, NEW t, NEW c, NEW n, Sound(v, d, t, c, n),
         v.phase = "load", v.pc \in InJob \ {"RUNNING", "put"},
         v.pc \in {"charge", "upsert"} => n # 0,
         w.phase = "load", w.job = v.job,
         w.pc \in {"SUCCEEDED", "FAILED", "SKIPPED", "document", "chunk"},
         w.pc = "chunk" => \E u \in Versions : w.chunks \subseteq ChunksOf(w.job.doc, u)
  PROVE  Sound(w, d, t, c, n)
  <1>1. InStep(w, d)
    BY DEF InStep
  <1>2. Holds(w, d)
    BY Labelling DEF Sound, Holds
  <1>3. Fetches(w, d, t)
    BY DEF Fetches
  <1>4. Counted(w, d, c, n)
    BY DEF Sound, Counted, Explained
  <1>5. Even(w, d, t, n)
    BY DEF Sound, Even, At
  <1> QED
    BY <1>1, <1>2, <1>3, <1>4, <1>5 DEF Sound

LEMMA StartSound ==
  ASSUME OneProcess, TypeInv, SoloInv, NEW p \in Procs, Start(p)
  PROVE  SoloInv'
  <1>1. /\ Sound(proc[p], disk, torn, calls, crashes) /\ proc[p].pc = "idle"
        /\ proc[p].phase = "load"
    <2>1. proc[p].pc = "idle" /\ proc[p] \in ProcState
      BY DEF Start, CanStart, StartRunPending, StartProcessDocument, StartEnqueue,
             StartRqTask, StartIngest, StartOntology, TypeInv, TypeOK
    <2>2. Sound(proc[p], disk, torn, calls, crashes)
      BY DEF SoloInv
    <2>3. proc[p].phase = "load"
      BY <2>1, <2>2, ProcFields, Labelling DEF Sound, InStep, ProcState
    <2> QED BY <2>1, <2>2, <2>3
  <1>2. ASSUME NEW w, w.pc \notin InJob, w.phase = "load", Proceed(p, w)
        PROVE  SoloInv'
    BY <1>1, <1>2, FreshSound, SoloProceed
  <1>3. CASE StartRunPending(p)
    <2>1. PICK s \in Services : Proceed(p, [Idle EXCEPT !.pc = "pending", !.svc = s])
      BY <1>3 DEF StartRunPending
    <2> QED BY <1>2, <2>1, Labelling DEF Idle
  <1>4. CASE StartProcessDocument(p)
    <2>1. PICK s \in Services, d \in Docs, r \in Requests :
            Proceed(p, [Idle EXCEPT !.pc = "lookup", !.svc = s, !.doc = d,
                                    !.req = r, !.thenRun = TRUE])
      BY <1>4 DEF StartProcessDocument
    <2> QED BY <1>2, <2>1, Labelling DEF Idle
  <1>5. CASE StartEnqueue(p)
    <2>1. PICK d \in Docs, r \in Requests :
            Proceed(p, [Idle EXCEPT !.pc = "lookup", !.doc = d, !.req = r])
      BY <1>5 DEF StartEnqueue
    <2> QED BY <1>2, <2>1, Labelling DEF Idle
  <1>6. CASE StartRqTask(p)
    <2>1. PICK s \in Services, j \in Jobs :
            Proceed(p, [Idle EXCEPT !.pc = "next", !.svc = s, !.todo = {j}])
      BY <1>6 DEF StartRqTask
    <2> QED BY <1>2, <2>1, Labelling DEF Idle
  <1>7. CASE StartIngest(p)
    <2>1. PICK d \in Docs, v \in Versions :
            Proceed(p, [Idle EXCEPT !.pc = "record", !.doc = d, !.version = v])
      BY <1>7 DEF StartIngest
    <2> QED BY <1>2, <2>1, Labelling DEF Idle
  <1>8. CASE StartOntology(p)
    BY <1>2, <1>8, Labelling DEF StartOntology, Idle
  <1> QED
    BY <1>3, <1>4, <1>5, <1>6, <1>7, <1>8 DEF Start

LEMMA ReadSound ==
  ASSUME OneProcess, TypeInv, IndexInv, SoloInv, NEW p \in Procs,
         Lookup(p) \/ ListPending(p) \/ GetJob(p) \/ GetDocument(p) \/ CacheGet(p)
  PROVE  SoloInv'
  <1>0. /\ proc[p] \in ProcState /\ proc[p] \in WellFormed /\ Equipped(proc[p])
        /\ Sound(proc[p], disk, torn, calls, crashes) /\ disk \in Disk
        /\ proc[p].phase = "load"
    BY DEF TypeInv, TypeOK, WellFormed, SoloInv, Lookup, ListPending, GetJob,
           GetDocument, CacheGet, Reads
  <1>1. CASE Lookup(p)
    <2> DEFINE v == disk.docs[proc[p].doc]
               w == [proc[p] EXCEPT !.pc = "enqueue", !.version = v]
    <2>1. proc[p].pc = "lookup" /\ Proceed(p, IF v = None THEN Idle ELSE w)
      BY <1>1 DEF Lookup, Reads
    <2>2. w.pc = "enqueue" /\ w.phase = "load"
      BY <1>0 DEF ProcState
    <2> HIDE DEF w
    <2>3. Sound(w, disk, torn, calls, crashes)
      BY <1>0, <2>1, <2>2, FreshSound, Labelling
    <2>4. Sound(Idle, disk, torn, calls, crashes)
      BY <1>0, <2>1, IdleSound
    <2> QED BY <2>1, <2>3, <2>4, SoloProceed
  <1>2. CASE ListPending(p)
    <2>1. proc[p].pc = "pending" /\ Proceed(p, Resume(proc[p], Pending(disk.jobs)))
      BY <1>2 DEF ListPending, Reads
    <2>2. Sound(Resume(proc[p], Pending(disk.jobs)), disk, torn, calls, crashes)
      BY <1>0, <2>1, FreshSound, ResumeAt, Labelling
    <2> QED BY <2>1, <2>2, SoloProceed
  <1>3. CASE GetJob(p)
    <2>1. PICK j \in proc[p].todo :
            Proceed(p, IF Runnable(disk.jobs, j)
                  THEN [proc[p] EXCEPT !.pc = "RUNNING", !.job = j, !.todo = @ \ {j}]
                  ELSE Resume(proc[p], proc[p].todo \ {j}))
      BY <1>3 DEF GetJob
    <2> DEFINE w == [proc[p] EXCEPT !.pc = "RUNNING", !.job = j, !.todo = @ \ {j}]
    <2>2. w.pc = "RUNNING" /\ w.job = j /\ w.phase = "load"
      BY <1>0 DEF ProcState
    <2>3. proc[p].pc = "next" /\ Proceed(p, IF Runnable(disk.jobs, j) THEN w
                                           ELSE Resume(proc[p], proc[p].todo \ {j}))
      BY <1>3, <2>1 DEF GetJob, Reads
    <2> HIDE DEF w
    <2>4. Sound(Resume(proc[p], proc[p].todo \ {j}), disk, torn, calls, crashes)
      BY <1>0, <2>3, FreshSound, ResumeAt, Labelling
    <2>5. ASSUME Runnable(disk.jobs, j) PROVE Sound(w, disk, torn, calls, crashes)
      <3>1. InStep(w, disk) /\ Fetches(w, disk, torn)
        BY <2>2 DEF InStep, Fetches
      <3>2. Holds(w, disk)
        BY <2>2, <2>5, Labelling DEF Holds, Runnable
      <3>3. Counted(w, disk, calls, crashes)
        BY <1>0, <2>2, <2>3 DEF Sound, Counted, Explained
      <3>4. Even(w, disk, torn, crashes)
        BY <1>0, <2>2, <2>3 DEF Sound, Even, At
      <3> QED BY <3>1, <3>2, <3>3, <3>4 DEF Sound
    <2> QED BY <2>3, <2>4, <2>5, SoloProceed
  <1>4. CASE GetDocument(p)
    <2> DEFINE d == proc[p].job.doc
               v == disk.docs[d]
               w == Iterate(proc[p], ChunksOf(d, v))
               x == [proc[p] EXCEPT !.pc = "FAILED"]
    <2>1. /\ proc[p].pc = "document"
          /\ Proceed(p, IF v = None THEN x ELSE w)
      BY <1>4 DEF GetDocument, Reads
    <2>2. proc[p].job \in Jobs
      BY <1>0, <2>1, Labelling DEF Equipped
    <2>3. v \in Versions \cup {None}
      BY <1>0, <2>2 DEF Jobs, Disk
    <2>4. x.pc = "FAILED" /\ x.phase = "load" /\ x.job = proc[p].job
      BY <1>0, Relabel, LabelSet
    <2>5. /\ w.pc \in {"SUCCEEDED", "chunk"} /\ w.phase = "load" /\ w.job = proc[p].job
          /\ w.chunks = ChunksOf(d, v)
      BY <1>0, IterateAt
    <2> HIDE DEF w, x
    <2>6. Sound(x, disk, torn, calls, crashes)
      BY <1>0, <2>1, <2>4, HeldSound, Labelling
    <2>7. ASSUME v # None PROVE Sound(w, disk, torn, calls, crashes)
      BY <1>0, <2>1, <2>3, <2>5, <2>7, HeldSound, Labelling
    <2> QED BY <2>1, <2>6, <2>7, SoloProceed
  <1>5. CASE CacheGet(p)
    <2>1. PICK c \in proc[p].chunks :
            LET w == [proc[p] EXCEPT !.chunk = c] IN
            Proceed(p, [w EXCEPT !.pc = IF OpOf(w) \in disk.cache THEN "upsert"
                                        ELSE "provider"])
      BY <1>5 DEF CacheGet
    <2> DEFINE w == [proc[p] EXCEPT !.chunk = c]
               pc == IF OpOf(w) \in disk.cache THEN "upsert" ELSE "provider"
               x == [w EXCEPT !.pc = pc]
    <2>2. c \in Chunks /\ proc[p].pc = "chunk" /\ "cache" \notin torn
      BY <1>0, <1>5, ProcFields DEF CacheGet, Reads, FileAt, Marks
    <2>3. /\ w \in ProcState /\ w.svc = proc[p].svc /\ w.job = proc[p].job
          /\ w.chunks = proc[p].chunks /\ w.phase = "load" /\ w.chunk = c
      BY <1>0, <2>2 DEF ProcState
    <2>4. Proceed(p, x)
      BY <2>1
    <2> HIDE DEF w
    <2>5. /\ pc \in {"upsert", "provider"}
          /\ pc = "upsert" <=> OpOf(w) \in disk.cache
      OBVIOUS
    <2> HIDE DEF pc
    <2>a. /\ x.pc = pc /\ x.phase = "load" /\ x.job = proc[p].job
          /\ x.chunks = proc[p].chunks /\ x.svc = w.svc /\ x.chunk = w.chunk
      BY <2>3, <2>5, Relabel, LabelSet
    <2> HIDE DEF x
    <2>6. /\ x.pc = pc /\ x.phase = "load" /\ x.job = proc[p].job
          /\ x.chunks = proc[p].chunks /\ OpOf(x) = OpOf(w)
      BY <2>a DEF OpOf
    <2>7. InStep(x, disk) /\ Fetches(x, disk, torn)
      BY <2>2, <2>5, <2>6 DEF InStep, Fetches
    <2>8. Holds(x, disk)
      BY <1>0, <2>2, <2>5, <2>6, Labelling DEF Holds, Sound
    <2>9. Counted(x, disk, calls, crashes)
      BY <1>0, <2>2, <2>5, <2>6 DEF Sound, Counted, Explained
    <2>10. Even(x, disk, torn, crashes)
      BY <1>0, <2>2, <2>5, <2>6 DEF Sound, Even, At
    <2> QED BY <2>4, <2>7, <2>8, <2>9, <2>10, SoloProceed DEF Sound
  <1> QED
    BY <1>1, <1>2, <1>3, <1>4, <1>5

\* Staging a write keeps everything but the buffer.
LEMMA StageSound ==
  ASSUME OneProcess, TypeInv, SoloInv, NEW p \in Procs, NEW content, Stage(p, content),
         proc[p].phase = "load", proc[p].pc \in Writes,
         LET w == [proc[p] EXCEPT !.phase = "truncate", !.buf = content] IN
           InStep(w, disk)
  PROVE  SoloInv'
  <1> DEFINE w == [proc[p] EXCEPT !.phase = "truncate", !.buf = content]
  <1>0. proc[p] \in ProcState /\ Sound(proc[p], disk, torn, calls, crashes)
    BY DEF TypeInv, TypeOK, SoloInv
  <1>1. /\ w.pc = proc[p].pc /\ w.svc = proc[p].svc /\ w.chunk = proc[p].chunk
        /\ w.job = proc[p].job /\ w.chunks = proc[p].chunks /\ w.phase = "truncate"
    BY <1>0 DEF ProcState
  <1>2. Proceed(p, w) /\ InStep(w, disk)
    BY DEF Stage, Proceed
  <1> HIDE DEF w
  <1>a. OpOf(w) = OpOf(proc[p])
    BY <1>1 DEF OpOf
  <1>3. Holds(w, disk)
    BY <1>0, <1>1 DEF Sound, Holds
  <1>4. Fetches(w, disk, torn)
    BY <1>0, <1>1, <1>a DEF Sound, Fetches
  <1>5. Counted(w, disk, calls, crashes)
    BY <1>0, <1>1, <1>a DEF Sound, Counted, Explained
  <1>6. Even(w, disk, torn, crashes)
    BY <1>0, <1>1, <1>a DEF Sound, Even, At
  <1> QED
    BY <1>2, <1>3, <1>4, <1>5, <1>6, SoloProceed DEF Sound

LEMMA LoadSound ==
  ASSUME OneProcess, TypeInv, SoloInv, NEW p \in Procs,
         \/ LoadToMark(p) \/ LoadToEnqueue(p) \/ LoadToPut(p) \/ LoadToCharge(p)
         \/ LoadToUpsert(p) \/ LoadToRecord(p) \/ LoadToOntology(p)
  PROVE  SoloInv'
  <1> DEFINE w(content) == [proc[p] EXCEPT !.phase = "truncate", !.buf = content]
  <1>0. /\ proc[p] \in ProcState /\ proc[p] \in WellFormed
        /\ Sound(proc[p], disk, torn, calls, crashes)
        /\ proc[p].phase = "load" /\ proc[p].pc \in Writes
    <2>1. proc[p].phase = "load" /\ proc[p].pc \in Writes
      BY DEF LoadToMark, LoadToEnqueue, LoadToPut, LoadToCharge, LoadToUpsert,
             LoadToRecord, LoadToOntology, Reads, Writes
    <2> QED BY <2>1 DEF TypeInv, TypeOK, SoloInv
  <1>1. ASSUME NEW content
        PROVE  /\ w(content).pc = proc[p].pc /\ w(content).buf = content
               /\ w(content).job = proc[p].job /\ OpOf(w(content)) = OpOf(proc[p])
               /\ KeyOf(w(content)) = KeyOf(proc[p])
               /\ TargetJob(w(content)) = TargetJob(proc[p])
    <2> DEFINE x == w(content)
    <2>1. /\ x.pc = proc[p].pc /\ x.buf = content /\ x.job = proc[p].job
          /\ x.svc = proc[p].svc /\ x.chunk = proc[p].chunk /\ x.doc = proc[p].doc
          /\ x.version = proc[p].version /\ x.req = proc[p].req
      BY <1>0 DEF ProcState
    <2> HIDE DEF x
    <2>2. /\ x.pc = proc[p].pc /\ x.buf = content /\ x.job = proc[p].job
          /\ OpOf(x) = OpOf(proc[p]) /\ KeyOf(x) = KeyOf(proc[p])
          /\ TargetJob(x) = TargetJob(proc[p])
      BY <2>1 DEF OpOf, KeyOf, TargetJob
    <2> QED BY <2>2 DEF x
  <1> HIDE DEF w
  <1>2. ASSUME NEW content, Stage(p, content), InStep(w(content), disk)
        PROVE  SoloInv'
    BY <1>0, <1>2, StageSound DEF w
  <1>3. CASE LoadToMark(p)
    <2>1. PICK status \in Marks :
            /\ proc[p].pc = status
            /\ Stage(p, [Blank EXCEPT !.jobs = Marked(disk.jobs, proc[p].job, status)])
      BY <1>3 DEF LoadToMark, Reads
    <2> DEFINE b == [Blank EXCEPT !.jobs = Marked(disk.jobs, proc[p].job, status)]
    <2>2. b.jobs = Marked(disk.jobs, proc[p].job, status) /\ Stage(p, b)
      BY <2>1 DEF Blank
    <2> HIDE DEF b
    <2>3. InStep(w(b), disk)
      BY <1>0, <1>1, <2>1, <2>2, Labelling DEF InStep
    <2> QED BY <1>2, <2>2, <2>3
  <1>4. CASE LoadToEnqueue(p)
    <2> DEFINE j == TargetJob(proc[p])
               b == [Blank EXCEPT !.jobs = Enqueued(disk.jobs, j)]
    <2>1. /\ proc[p].pc = "enqueue"
          /\ IF disk.jobs[j] = "ABSENT" THEN Stage(p, b) ELSE Proceed(p, After(proc[p]))
      BY <1>4 DEF LoadToEnqueue, Reads
    <2>2. b.jobs = Enqueued(disk.jobs, j)
      BY DEF Blank
    <2> HIDE DEF b
    <2>3. disk.jobs[j] = "ABSENT" => InStep(w(b), disk)
      BY <1>0, <1>1, <2>1, <2>2, Labelling DEF InStep
    <2>4. Sound(After(proc[p]), disk, torn, calls, crashes)
      BY <1>0, <2>1, AfterAt, FreshSound, Labelling
    <2> QED BY <1>2, <2>1, <2>3, <2>4, SoloProceed
  <1>5. CASE LoadToPut(p)
    <2> DEFINE b == [Blank EXCEPT !.cache = WithOperation(disk.cache, OpOf(proc[p]))]
    <2>1. proc[p].pc = "put" /\ Stage(p, b)
      BY <1>5 DEF LoadToPut, Reads
    <2>2. b.cache = WithOperation(disk.cache, OpOf(proc[p]))
      BY DEF Blank
    <2> HIDE DEF b
    <2>3. InStep(w(b), disk)
      BY <1>0, <1>1, <2>1, <2>2, Labelling DEF InStep
    <2> QED BY <1>2, <2>1, <2>3
  <1>6. CASE LoadToCharge(p)
    <2> DEFINE o == OpOf(proc[p])
               b == [Blank EXCEPT !.costs = WithCost(disk.costs, o)]
               a == After(proc[p])
    <2>1. /\ proc[p].pc = "charge"
          /\ IF o \in disk.costs THEN Proceed(p, a) ELSE Stage(p, b)
      BY <1>6 DEF LoadToCharge, Reads
    <2>2. b.costs = WithCost(disk.costs, o)
      BY DEF Blank
    <2>3. /\ a.phase = "load" /\ a.pc = "upsert" /\ a.job = proc[p].job
          /\ a.svc = proc[p].svc /\ a.chunk = proc[p].chunk /\ a.chunks = proc[p].chunks
      BY <1>0, <2>1, AfterAt
    <2> HIDE DEF a, b
    <2>4. OpOf(a) = o
      BY <2>3 DEF OpOf
    <2>5. InStep(w(b), disk)
      BY <1>0, <1>1, <2>1, <2>2, Labelling DEF InStep
    <2>6. ASSUME o \in disk.costs PROVE Sound(a, disk, torn, calls, crashes)
      <3>1. InStep(a, disk) /\ Fetches(a, disk, torn)
        BY <1>0, <2>1, <2>3, <2>4 DEF InStep, Fetches, Sound
      <3>2. Holds(a, disk)
        BY <1>0, <2>1, <2>3, Labelling DEF Holds, Sound
      <3>3. Counted(a, disk, calls, crashes)
        BY <1>0, <2>1, <2>3 DEF Sound, Counted, Explained
      <3>4. Even(a, disk, torn, crashes)
        BY <1>0, <2>1, <2>3, <2>4, <2>6 DEF Sound, Even, At
      <3> QED BY <3>1, <3>2, <3>3, <3>4 DEF Sound
    <2> QED BY <1>2, <2>1, <2>5, <2>6, SoloProceed
  <1>7. CASE LoadToUpsert(p)
    <2> DEFINE b == [Blank EXCEPT !.docs = disk.docs,
                                  !.embs = WithEmbedding(disk.embs, KeyOf(proc[p]))]
    <2>1. proc[p].pc = "upsert" /\ Stage(p, b)
      BY <1>7 DEF LoadToUpsert, Reads
    <2>2. b.embs = WithEmbedding(disk.embs, KeyOf(proc[p]))
      BY DEF Blank
    <2> HIDE DEF b
    <2>3. InStep(w(b), disk)
      BY <1>0, <1>1, <2>1, <2>2, Labelling DEF InStep
    <2> QED BY <1>2, <2>1, <2>3
  <1>8. CASE LoadToRecord(p)
    <2> DEFINE b == [Blank EXCEPT
                       !.docs = WithDocument(disk.docs, proc[p].doc, proc[p].version),
                       !.embs = disk.embs]
    <2>1. proc[p].pc = "record" /\ Stage(p, b)
      BY <1>8 DEF LoadToRecord, Reads
    <2>2. b.embs = disk.embs
      BY DEF Blank
    <2> HIDE DEF b
    <2>3. InStep(w(b), disk)
      BY <1>0, <1>1, <2>1, <2>2, Labelling DEF InStep
    <2> QED BY <1>2, <2>1, <2>3
  <1>9. CASE LoadToOntology(p)
    <2> DEFINE b == [Blank EXCEPT !.docs = disk.docs, !.embs = disk.embs]
    <2>1. proc[p].pc = "ontology" /\ Stage(p, b)
      BY <1>9 DEF LoadToOntology, Reads
    <2>2. b.embs = disk.embs
      BY DEF Blank
    <2> HIDE DEF b
    <2>3. InStep(w(b), disk)
      BY <1>0, <1>1, <2>1, <2>2, Labelling DEF InStep
    <2> QED BY <1>2, <2>1, <2>3
  <1> QED
    BY <1>3, <1>4, <1>5, <1>6, <1>7, <1>8, <1>9

\* An exception: no answer is lost by it, and without a crash only the provider raises.
LEMMA RaiseSound ==
  ASSUME OneProcess, TypeInv, SoloInv, NEW p \in Procs,
         ProviderFails(p) \/ MarkUnknown(p) \/ ReadFails(p)
  PROVE  SoloInv'
  <1>0. /\ proc[p] \in ProcState /\ Sound(proc[p], disk, torn, calls, crashes)
        /\ Raise(p) /\ UNCHANGED <<files, history>>
    BY DEF TypeInv, TypeOK, SoloInv, ProviderFails, MarkUnknown, ReadFails
  <1>1. ~ MarkUnknown(p)
    <2>1. ASSUME NEW status \in Marks, proc[p].pc = status,
                 disk.jobs[proc[p].job] = "ABSENT"
          PROVE  FALSE
      BY <1>0, <2>1, Labelling DEF Sound, Holds
    <2> QED BY <2>1 DEF MarkUnknown, Reads
  <1>2. proc[p].phase = "load"
    BY <1>0, <1>1, Labelling DEF ProviderFails, ReadFails, Sound, InStep, ProcState
  <1>3. proc[p].pc # "put"
    BY <1>0, <1>1, <1>2 DEF ProviderFails, ReadFails, Sound, Fetches, FileAt, Marks
  <1>4. proc[p].pc \in {"charge", "upsert"} => crashes # 0
    <2>1. ASSUME proc[p].pc \in {"charge", "upsert"}, crashes = 0
          PROVE  FALSE
      <3>1. torn = {}
        BY <1>0, <1>2, <2>1 DEF Sound, Even
      <3> QED BY <1>1, <2>1, <3>1 DEF ProviderFails, ReadFails
    <2> QED BY <2>1
  <1> DEFINE x == [proc[p] EXCEPT !.pc = "FAILED"]
             w == IF proc[p].pc \in InTry THEN x ELSE Idle
  <1>5. Proceed(p, w)
    BY <1>0 DEF Raise, Proceed
  <1>6. x.pc = "FAILED" /\ x.job = proc[p].job /\ x.phase = proc[p].phase
    BY <1>0, Relabel, LabelSet
  <1> HIDE DEF x
  <1>7. CASE proc[p].pc \in InTry
    <2>1. proc[p].pc \in InJob \ {"RUNNING", "put"}
      BY <1>3, <1>7, Labelling DEF InTry
    <2>2. Sound(x, disk, torn, calls, crashes)
      BY <1>0, <1>2, <1>4, <1>6, <2>1, HeldSound
    <2> QED BY <1>5, <1>7, <2>2, SoloProceed
  <1>8. CASE proc[p].pc \notin InTry
    <2>1. Sound(Idle, disk, torn, calls, crashes)
      BY <1>0, <1>2, <1>8, IdleSound DEF InTry
    <2> QED BY <1>5, <1>8, <2>1, SoloProceed
  <1> QED
    BY <1>7, <1>8

LEMMA CallSound ==
  ASSUME OneProcess, TypeInv, SoloInv, NEW p \in Procs, CallProvider(p)
  PROVE  SoloInv'
  <1> DEFINE w == [proc[p] EXCEPT !.pc = "put"]
             o == OpOf(proc[p])
  <1>0. /\ proc[p] \in ProcState /\ proc[p] \in WellFormed /\ proc[p].pc = "provider"
        /\ Sound(proc[p], disk, torn, calls, crashes) /\ Settles(disk, indexed)
        /\ calls \in [Ops -> 0 .. MaxCalls] /\ crashes \in Nat
        /\ MaxCalls \in Nat
    BY ConstantsAssumption DEF TypeInv, TypeOK, SoloInv, CallProvider
  <1>1. /\ Goto(p, w) /\ disk' = disk /\ torn' = torn /\ indexed' = indexed
        /\ crashes' = crashes
        /\ calls' = [calls EXCEPT ![o] = IF @ < MaxCalls THEN @ + 1 ELSE @]
    BY DEF CallProvider, files
  <1>2. /\ w.pc = "put" /\ w.svc = proc[p].svc /\ w.chunk = proc[p].chunk
        /\ w.job = proc[p].job /\ w.chunks = proc[p].chunks /\ w.phase = proc[p].phase
    BY <1>0, Relabel, LabelSet
  <1>3. proc[p].phase = "load"
    BY <1>0, Labelling DEF Sound, InStep, ProcState
  <1> HIDE DEF w
  <1>4. OpOf(w) = o /\ o \in Ops
    BY <1>0, <1>2, InChunkOps DEF OpOf, InChunk
  <1>5. InStep(w, disk) /\ Fetches(w, disk, torn)
    BY <1>0, <1>2, <1>3, <1>4 DEF Sound, InStep, Fetches
  <1>6. Holds(w, disk)
    BY <1>0, <1>2, Labelling DEF Sound, Holds
  <1>7. Counted(w, disk, calls', crashes)
    <2>1. ASSUME NEW q \in Ops
          PROVE  calls'[q] <= crashes + Explained(w, disk, q)
      <3>1. calls[q] <= crashes + Explained(proc[p], disk, q) /\ calls[q] \in Nat
        BY <1>0 DEF Sound, Counted
      <3>2. CASE q = o
        <4>1. Explained(proc[p], disk, q) = 0
          BY <1>0, <3>2 DEF Sound, Fetches, Explained
        <4>2. Explained(w, disk, q) = 1
          BY <1>2, <1>4, <3>2 DEF Explained
        <4>3. calls'[q] <= calls[q] + 1
          BY <1>0, <1>1, <1>4, <3>1, <3>2
        <4>4. calls'[q] \in Nat
          BY <1>0, <1>1, <1>4, <3>1, <3>2
        <4> QED BY <1>0, <3>1, <4>1, <4>2, <4>3, <4>4
      <3>3. CASE q # o
        <4>1. calls'[q] = calls[q]
          BY <1>0, <1>1, <3>3
        <4>2. Explained(w, disk, q) = Explained(proc[p], disk, q)
          BY <1>0, <1>2, <1>4, <3>3 DEF Explained
        <4> QED BY <3>1, <4>1, <4>2
      <3> QED BY <3>2, <3>3
    <2> QED BY <2>1 DEF Counted
  <1>8. Even(w, disk, torn, crashes)
    BY <1>0, <1>2, <1>3 DEF Sound, Even, At
  <1>9. Sound(w, disk', torn', calls', crashes') /\ Settles(disk', indexed')
    BY <1>0, <1>1, <1>5, <1>6, <1>7, <1>8 DEF Sound
  <1> QED
    BY <1>1, <1>9, SoloGoto

LEMMA TruncateSound ==
  ASSUME OneProcess, TypeInv, SoloInv, NEW p \in Procs, Truncate(p)
  PROVE  SoloInv'
  <1> DEFINE f == FileAt(proc[p].pc)
             w == [proc[p] EXCEPT !.phase = "fill"]
  <1>0. /\ proc[p] \in ProcState /\ proc[p].phase = "truncate"
        /\ Sound(proc[p], disk, torn, calls, crashes) /\ Settles(disk, indexed)
        /\ Goto(p, w) /\ torn' = torn \cup {f} /\ disk' = disk
        /\ calls' = calls /\ indexed' = indexed /\ crashes' = crashes
    BY DEF TypeInv, TypeOK, SoloInv, Truncate, history
  <1>1. /\ w.pc = proc[p].pc /\ w.svc = proc[p].svc /\ w.chunk = proc[p].chunk
        /\ w.job = proc[p].job /\ w.chunks = proc[p].chunks /\ w.phase = "fill"
        /\ w.buf = proc[p].buf /\ w.doc = proc[p].doc /\ w.version = proc[p].version
        /\ w.req = proc[p].req
    BY <1>0 DEF ProcState
  <1> HIDE DEF w
  <1>2. /\ OpOf(w) = OpOf(proc[p]) /\ KeyOf(w) = KeyOf(proc[p])
        /\ TargetJob(w) = TargetJob(proc[p])
    BY <1>1 DEF OpOf, KeyOf, TargetJob
  <1>3. InStep(w, disk)
    BY <1>0, <1>1, <1>2 DEF Sound, InStep
  <1>4. Holds(w, disk)
    BY <1>0, <1>1 DEF Sound, Holds
  <1>5. Fetches(w, disk, torn')
    <2>1. w.pc # "provider"
      BY <1>0, <1>1, Labelling DEF Sound, InStep
    <2> QED BY <1>0, <1>1, <1>2, <2>1 DEF Sound, Fetches
  <1>6. Counted(w, disk, calls, crashes)
    BY <1>0, <1>1, <1>2 DEF Sound, Counted, Explained
  <1>7. Even(w, disk, torn', crashes)
    BY <1>0, <1>1, <1>2 DEF Sound, Even, At
  <1>8. Sound(w, disk', torn', calls', crashes') /\ Settles(disk', indexed')
    BY <1>0, <1>3, <1>4, <1>5, <1>6, <1>7 DEF Sound
  <1> QED
    BY <1>0, <1>8, SoloGoto

\* A crash loses at most the answer of the operation the command was at.
LEMMA CrashSound ==
  ASSUME OneProcess, TypeInv, SoloInv, NEW p \in Procs, Crash(p)
  PROVE  SoloInv'
  <1>0. /\ Sound(proc[p], disk, torn, calls, crashes) /\ Settles(disk, indexed)
        /\ Goto(p, Idle) /\ torn' = torn /\ disk' = disk /\ calls' = calls
        /\ indexed' = indexed /\ crashes' = crashes + 1 /\ crashes \in Nat
        /\ calls \in [Ops -> Nat]
    BY ConstantsAssumption DEF TypeInv, TypeOK, SoloInv, Crash, files
  <1>1. Idle.pc = "idle" /\ Idle.phase = "load"
    BY DEF Idle
  <1>2. InStep(Idle, disk) /\ Holds(Idle, disk) /\ Fetches(Idle, disk, torn)
    BY <1>1, Labelling DEF InStep, Holds, Fetches
  <1>3. Counted(Idle, disk, calls, crashes + 1)
    <2>1. ASSUME NEW o \in Ops
          PROVE  calls[o] <= crashes + 1 + Explained(Idle, disk, o)
      <3>1. calls[o] <= crashes + Explained(proc[p], disk, o) /\ calls[o] \in Nat
        BY <1>0 DEF Sound, Counted
      <3>2. Explained(proc[p], disk, o) \in {0, 1} /\ Explained(Idle, disk, o) \in {0, 1}
        BY DEF Explained
      <3> QED BY <1>0, <3>1, <3>2
    <2> QED BY <2>1 DEF Counted
  <1>4. Even(Idle, disk, torn, crashes + 1)
    BY <1>0 DEF Even
  <1>5. Sound(Idle, disk', torn', calls', crashes') /\ Settles(disk', indexed')
    BY <1>0, <1>2, <1>3, <1>4 DEF Sound
  <1> QED
    BY <1>0, <1>5, SoloGoto

\* What a fill does to the files, label by label.
LEMMA FillAt ==
  ASSUME OneProcess, TypeInv, SoloInv, NEW p \in Procs, Fill(p)
  PROVE  LET v == proc[p] IN
         /\ v \in WellFormed /\ v.pc \in Writes /\ v.phase = "fill"
         /\ Sound(v, disk, torn, calls, crashes) /\ Settles(disk, indexed)
         /\ Goto(p, After(v)) /\ calls' = calls /\ crashes' = crashes
         /\ crashes = 0 => torn' = {}
         /\ indexed' = IF v.pc = "upsert" THEN indexed \cup {KeyOf(v)} ELSE indexed
         /\ disk'.jobs = CASE v.pc \in Marks -> Marked(disk.jobs, v.job, v.pc)
                           [] v.pc = "enqueue" -> Enqueued(disk.jobs, TargetJob(v))
                           [] OTHER -> disk.jobs
         /\ disk'.cache = IF v.pc = "put" THEN disk.cache \cup {OpOf(v)} ELSE disk.cache
         /\ disk'.costs = IF v.pc = "charge" THEN disk.costs \cup {OpOf(v)} ELSE disk.costs
         /\ disk'.embs = IF v.pc = "upsert" THEN disk.embs \cup {KeyOf(v)} ELSE disk.embs
  <1> DEFINE v == proc[p]
             f == FileAt(v.pc)
  <1>1. /\ v \in WellFormed /\ v.phase = "fill"
        /\ Sound(v, disk, torn, calls, crashes) /\ Settles(disk, indexed)
    BY DEF TypeInv, TypeOK, SoloInv, Fill
  <1>2. /\ disk'.jobs = IF f = "jobs" THEN v.buf.jobs ELSE disk.jobs
        /\ disk'.cache = IF f = "cache" THEN v.buf.cache ELSE disk.cache
        /\ disk'.costs = IF f = "costs" THEN v.buf.costs ELSE disk.costs
        /\ disk'.embs = IF f = "corpus" THEN v.buf.embs ELSE disk.embs
    BY DEF Fill
  <1>3. InStep(v, disk) /\ v.pc \in Writes
    BY <1>1 DEF Sound, InStep
  <1>4. /\ torn' = torn \ {f} \/ (f \notin torn /\ torn' = torn \cup {f})
        /\ indexed' = IF v.pc = "upsert" THEN indexed \cup {KeyOf(v)} ELSE indexed
        /\ Goto(p, After(v)) /\ calls' = calls /\ crashes' = crashes
    BY DEF Fill
  <1>5. crashes = 0 => torn' = {}
    BY <1>1, <1>4 DEF Sound, Even
  <1>6. /\ v.pc \in Marks \cup {"enqueue"} <=> f = "jobs"
        /\ v.pc = "put" <=> f = "cache"
        /\ v.pc = "charge" <=> f = "costs"
        /\ v.pc \in {"upsert", "record", "ontology"} <=> f = "corpus"
    BY <1>3, Labelling DEF FileAt
  <1>7. /\ v.pc \in Marks => v.buf.jobs = Marked(disk.jobs, v.job, v.pc)
        /\ v.pc = "enqueue" => v.buf.jobs = Enqueued(disk.jobs, TargetJob(v))
        /\ v.pc = "put" => v.buf.cache = disk.cache \cup {OpOf(v)}
        /\ v.pc = "charge" => v.buf.costs = disk.costs \cup {OpOf(v)}
        /\ v.pc = "upsert" => v.buf.embs = disk.embs \cup {KeyOf(v)}
        /\ v.pc \in {"record", "ontology"} => v.buf.embs = disk.embs
    BY <1>1, <1>3 DEF InStep, WithOperation, WithCost, WithEmbedding
  <1> HIDE DEF f
  <1> QED
    BY <1>1, <1>2, <1>3, <1>4, <1>5, <1>6, <1>7, Labelling

\* The job a claimed chunk is embedded for has asked for it.
LEMMA UpsertAsked ==
  ASSUME NEW v \in WellFormed, NEW d, v.pc = "upsert", Holds(v, d), Fits(v)
  PROVE  /\ AskedFor(d, KeyOf(v))
         /\ OpOfKey(KeyOf(v)) = OpOf(v)
  <1>1. /\ v.job \in Jobs /\ v.chunk \in v.chunks /\ d.jobs[v.job] = "RUNNING"
    BY Labelling DEF WellFormed, Equipped, InChunk, Holds
  <1>2. v.chunk.doc = v.job.doc
    BY <1>1, Labelling DEF Holds, ChunksOf
  <1>3. v.job.req.model \in {None, v.svc.model}
    BY DEF Fits, Accepts
  <1>4. KeyOf(v).chunk = v.chunk /\ KeyOf(v).model = v.svc.model
    BY DEF KeyOf
  <1>5. OpOfKey(KeyOf(v)) = OpOf(v)
    BY <1>4 DEF OpOfKey, OpOf
  <1> QED
    BY <1>1, <1>2, <1>3, <1>4, <1>5 DEF AskedFor

LEMMA FillSound ==
  ASSUME OneProcess, TypeInv, IndexInv, SoloInv, NEW p \in Procs, Fill(p)
  PROVE  SoloInv'
  <1> DEFINE v == proc[p]
             a == After(v)
  <1>1. /\ v \in WellFormed /\ v.pc \in Writes /\ v.phase = "fill"
        /\ Sound(v, disk, torn, calls, crashes) /\ Settles(disk, indexed)
        /\ Goto(p, a) /\ calls' = calls /\ crashes' = crashes
        /\ crashes = 0 => torn' = {}
        /\ indexed' = IF v.pc = "upsert" THEN indexed \cup {KeyOf(v)} ELSE indexed
        /\ disk'.jobs = CASE v.pc \in Marks -> Marked(disk.jobs, v.job, v.pc)
                          [] v.pc = "enqueue" -> Enqueued(disk.jobs, TargetJob(v))
                          [] OTHER -> disk.jobs
        /\ disk'.cache = IF v.pc = "put" THEN disk.cache \cup {OpOf(v)} ELSE disk.cache
        /\ disk'.costs = IF v.pc = "charge" THEN disk.costs \cup {OpOf(v)} ELSE disk.costs
        /\ disk'.embs = IF v.pc = "upsert" THEN disk.embs \cup {KeyOf(v)} ELSE disk.embs
    BY FillAt
  <1>2. /\ disk.jobs \in [Jobs -> Statuses] /\ IndexedProc(v, indexed)
        /\ InStep(v, disk) /\ Holds(v, disk) /\ Fetches(v, disk, torn)
        /\ Counted(v, disk, calls, crashes) /\ Even(v, disk, torn, crashes)
        /\ v.pc \in InJob => v.job \in Jobs
    BY <1>1 DEF TypeInv, TypeOK, Disk, IndexInv, Sound, WellFormed, Equipped
  <1>3. /\ a.phase = "load"
        /\ v.pc = "RUNNING" => a.pc \in {"SKIPPED", "FAILED", "document"} /\ a.job = v.job
        /\ v.pc \in Settled \cup {"enqueue", "record", "ontology"} => a.pc \notin InJob
        /\ v.pc = "put" => /\ a.pc = "charge" /\ a.job = v.job /\ a.svc = v.svc
                           /\ a.chunk = v.chunk /\ a.chunks = v.chunks
        /\ v.pc = "charge" => /\ a.pc = "upsert" /\ a.job = v.job /\ a.svc = v.svc
                              /\ a.chunk = v.chunk /\ a.chunks = v.chunks
        /\ v.pc = "upsert" => /\ a.pc \in {"SUCCEEDED", "chunk"} /\ a.job = v.job
                              /\ a.chunks = v.chunks \ {v.chunk}
    BY <1>1, AfterAt
  <1> HIDE DEF a, v
  <1>4. v.pc \in {"put", "charge"} => OpOf(a) = OpOf(v)
    BY <1>3 DEF OpOf
  <1>5. v.pc = "upsert" => AskedFor(disk, KeyOf(v)) /\ OpOfKey(KeyOf(v)) = OpOf(v)
    BY <1>1, <1>2, UpsertAsked, InLoopSet DEF IndexedProc
  <1>6. InStep(a, disk')
    BY <1>3 DEF InStep
  <1>7. Holds(a, disk')
    <2>1. CASE v.pc = "RUNNING"
      <3>1. disk'.jobs[v.job] = "RUNNING"
        BY <1>1, <1>2, <2>1, Labelling DEF Marked
      <3> QED BY <1>3, <2>1, <3>1, Labelling DEF Holds
    <2>2. CASE v.pc \in Settled \cup {"enqueue", "record", "ontology"}
      BY <1>3, <2>2, Labelling DEF Holds
    <2>3. CASE v.pc \in {"put", "charge", "upsert"}
      <3>1. disk'.jobs = disk.jobs
        BY <1>1, <2>3, Labelling
      <3>2. disk.jobs[v.job] = "RUNNING"
        BY <1>2, <2>3, Labelling DEF Holds
      <3>3. PICK u \in Versions : v.chunks \subseteq ChunksOf(v.job.doc, u)
        BY <1>2, <2>3, Labelling DEF Holds
      <3>4. a.chunks \subseteq v.chunks /\ a.job = v.job /\ a.pc # "RUNNING"
        BY <1>3, <2>3, Labelling
      <3>5. a.chunks \subseteq ChunksOf(a.job.doc, u)
        BY <3>3, <3>4
      <3> QED BY <3>1, <3>2, <3>4, <3>5 DEF Holds
    <2> QED BY <1>1, <2>1, <2>2, <2>3, Labelling
  <1>8. Fetches(a, disk', torn')
    BY <1>1, <1>2, <1>3, <1>4, Labelling DEF Fetches
  <1>9. Counted(a, disk', calls, crashes)
    <2>1. ASSUME NEW o \in Ops
          PROVE  Explained(a, disk', o) = Explained(v, disk, o)
      <3>1. a.pc # "put"
        BY <1>1, <1>3, Labelling
      <3> QED BY <1>1, <3>1 DEF Explained
    <2> QED BY <1>2, <2>1 DEF Counted
  <1>10. Even(a, disk', torn', crashes)
    <2>1. OpsOf(disk'.embs) = IF v.pc = "upsert" THEN OpsOf(disk.embs) \cup {OpOf(v)}
                              ELSE OpsOf(disk.embs)
      BY <1>1, <1>5 DEF OpsOf
    <2> QED BY <1>1, <1>2, <1>3, <1>4, <2>1, Labelling DEF Even, At
  <1>11. Settles(disk', indexed')
    <2>1. disk'.costs \subseteq disk'.cache
      BY <1>1, <1>2 DEF Settles, Fetches
    <2>2. indexed' \subseteq disk'.embs
      BY <1>1 DEF Settles
    <2>3. ASSUME NEW j \in Jobs, disk.jobs[j] \in Settled \cup {"RUNNING"}
          PROVE  disk'.jobs[j] \in Settled \cup {"RUNNING"}
      <3>1. disk'.jobs[j] = disk.jobs[j] \/ (v.pc \in Marks /\ disk'.jobs[j] = v.pc)
        <4>1. CASE v.pc \in Marks
          <5>1. disk'.jobs = [disk.jobs EXCEPT ![v.job] = v.pc]
            BY <1>1, <4>1, Labelling DEF Marked
          <5>2. disk.jobs \in [Jobs -> Statuses]
            BY <1>2
          <5> QED BY <4>1, <5>1, <5>2
        <4>2. CASE v.pc = "enqueue"
          <5>1. disk.jobs[TargetJob(v)] = "ABSENT"
            BY <1>1, <1>2, <4>2 DEF InStep
          <5>2. disk'.jobs = Enqueued(disk.jobs, TargetJob(v))
            BY <1>1, <4>2, Labelling
          <5> QED BY <1>2, <2>3, <5>1, <5>2, Labelling DEF Enqueued
        <4>3. CASE v.pc \notin Marks \cup {"enqueue"}
          BY <1>1, <4>3
        <4> QED BY <4>1, <4>2, <4>3
      <3> QED BY <2>3, <3>1, Labelling
    <2>4. ASSUME NEW k, AskedFor(disk, k)
          PROVE  AskedFor(disk', k)
      BY <2>3, <2>4 DEF AskedFor
    <2>5. \A k \in disk'.embs : AskedFor(disk', k)
      BY <1>1, <1>5, <2>4 DEF Settles
    <2> QED BY <2>1, <2>2, <2>5 DEF Settles
  <1>12. Sound(a, disk', torn', calls', crashes')
    BY <1>1, <1>6, <1>7, <1>8, <1>9, <1>10 DEF Sound
  <1> QED
    BY <1>1, <1>11, <1>12, SoloGoto

LEMMA InitSound == Init => SoloInv
  <1> SUFFICES ASSUME Init PROVE SoloInv
    OBVIOUS
  <1>1. Idle.pc = "idle" /\ Idle.phase = "load"
    BY DEF Idle
  <1>2. Blank.cache = {} /\ Blank.costs = {} /\ Blank.embs = {}
    BY DEF Blank
  <1>3. InStep(Idle, disk) /\ Holds(Idle, disk) /\ Fetches(Idle, disk, torn)
    BY <1>1, Labelling DEF InStep, Holds, Fetches
  <1>4. Counted(Idle, disk, calls, crashes)
    BY DEF Init, Counted, Explained
  <1>5. Even(Idle, disk, torn, crashes)
    BY <1>1, <1>2 DEF Init, Even, At, OpsOf
  <1>6. Settles(disk, indexed)
    BY <1>2 DEF Init, Settles
  <1> QED
    BY <1>3, <1>4, <1>5, <1>6 DEF Init, SoloInv, Sound

LEMMA StepSound ==
  ASSUME OneProcess
  PROVE  TypeInv /\ IndexInv /\ SoloInv /\ [Next]_vars => SoloInv'
  <1> SUFFICES ASSUME TypeInv, IndexInv, SoloInv, [Next]_vars
               PROVE  SoloInv'
    OBVIOUS
  <1>1. ASSUME NEW p \in Procs, Start(p) \/ Work(p) \/ Crash(p)
        PROVE  SoloInv'
    BY <1>1, StartSound, ReadSound, LoadSound, RaiseSound, CallSound, TruncateSound,
       FillSound, CrashSound DEF Work
  <1>2. CASE UNCHANGED vars
    BY <1>2 DEF vars, SoloInv
  <1> QED
    BY <1>1, <1>2 DEF Next

\* With one command at a time the files and the memory stay in step, whatever
\* raises and wherever a command crashes.
THEOREM SoloHolds ==
  ASSUME OneProcess
  PROVE  Spec => []SoloInv
  <1>1. TypeInv /\ IndexInv /\ SoloInv /\ [Next]_vars => SoloInv'
    BY StepSound
  <1> QED
    BY <1>1, InitSound, InitIndexed, StepIndexed, TypeCorrect, PTL DEF Spec

\* With one command at a time the cost ledger never names an operation that the
\* cache lost: embed_text caches an answer before it charges for it.
THEOREM ChargesAreCached ==
  ASSUME OneProcess
  PROVE  Spec => []ChargedIsCached
  <1>1. SoloInv => ChargedIsCached
    BY DEF SoloInv, Settles, ChargedIsCached
  <1> QED
    BY <1>1, SoloHolds, PTL

\* With one command at a time an operation is paid for once, and once more for
\* each crash: the answer is in the cache before it can be asked for again.
THEOREM PaidOnceOnly ==
  ASSUME OneProcess
  PROVE  Spec => []PaidOnce
  <1>1. TypeInv /\ SoloInv => PaidOnce
    <2> SUFFICES ASSUME TypeInv, SoloInv, NEW o \in Ops
                 PROVE  calls[o] <= 1 + crashes
      BY DEF PaidOnce
    <2>1. PICK p \in Procs : Sound(proc[p], disk, torn, calls, crashes)
      BY DEF OneProcess, SoloInv
    <2>2. calls[o] <= crashes + Explained(proc[p], disk, o)
      BY <2>1 DEF Sound, Counted
    <2>3. Explained(proc[p], disk, o) \in {0, 1}
      BY DEF Explained
    <2>4. crashes \in Nat /\ calls[o] \in Nat
      BY ConstantsAssumption DEF TypeInv, TypeOK
    <2> QED BY <2>2, <2>3, <2>4
  <1> QED
    BY <1>1, SoloHolds, TypeCorrect, PTL

\* With one command at a time every embedding in the corpus is there for a job,
\* claimed or settled, of its document that accepts its model.
THEOREM EmbeddingsHaveJobs ==
  ASSUME OneProcess
  PROVE  Spec => []EmbeddingHasJob
  <1>1. SoloInv => EmbeddingHasJob
    BY DEF SoloInv, Settles, AskedFor, EmbeddingHasJob
  <1> QED
    BY <1>1, SoloHolds, PTL

\* With one command at a time and no crash, whatever the provider raised, the
\* cache, the ledger and the corpus agree between commands.
THEOREM BooksAreBalanced ==
  ASSUME OneProcess
  PROVE  Spec => []BooksBalance
  <1>1. SoloInv => BooksBalance
    <2> SUFFICES ASSUME SoloInv, crashes = 0, \A p \in Procs : proc[p].pc = "idle"
                 PROVE  /\ disk.costs = disk.cache
                        /\ OpsOf(disk.embs) = disk.cache
      BY DEF BooksBalance, OpsOf
    <2>1. PICK p \in Procs : Sound(proc[p], disk, torn, calls, crashes)
      BY DEF OneProcess, SoloInv
    <2>2. proc[p].pc = "idle"
      OBVIOUS
    <2> QED BY <2>1, <2>2 DEF Sound, Even, At
  <1> QED
    BY <1>1, SoloHolds, PTL

-----------------------------------------------------------------------------
(***************************************************************************)
(* The files implement JobLifecycle: a fill is a step of it, or changes    *)
(* neither the statuses nor the embeddings; no other step touches a file.  *)
(***************************************************************************)
LEMMA OnlyFillWrites ==
  ASSUME [Next]_vars
  PROVE  disk' = disk \/ \E p \in Procs : Fill(p)
  <1>1. ASSUME NEW p \in Procs, Start(p)
        PROVE  disk' = disk
    BY <1>1 DEF Start, StartRunPending, StartProcessDocument, StartEnqueue,
                StartRqTask, StartIngest, StartOntology, Proceed, files
  <1>2. ASSUME NEW p \in Procs,
               Lookup(p) \/ ListPending(p) \/ GetJob(p) \/ GetDocument(p) \/ CacheGet(p)
        PROVE  disk' = disk
    BY <1>2 DEF Lookup, ListPending, GetJob, GetDocument, CacheGet, Proceed, files
  <1>3. ASSUME NEW p \in Procs,
               \/ CallProvider(p) \/ ProviderFails(p) \/ MarkUnknown(p)
               \/ ReadFails(p) \/ Truncate(p) \/ Crash(p)
        PROVE  disk' = disk
    BY <1>3 DEF CallProvider, ProviderFails, MarkUnknown, ReadFails, Truncate, Crash, files
  <1>4. ASSUME NEW p \in Procs,
               \/ LoadToMark(p) \/ LoadToEnqueue(p) \/ LoadToPut(p) \/ LoadToCharge(p)
               \/ LoadToUpsert(p) \/ LoadToRecord(p) \/ LoadToOntology(p)
        PROVE  disk' = disk
    BY <1>4 DEF LoadToMark, LoadToEnqueue, LoadToPut, LoadToCharge, LoadToUpsert,
                LoadToRecord, LoadToOntology, Stage, Proceed, files
  <1> QED
    BY <1>1, <1>2, <1>3, <1>4 DEF Next, Work, vars

\* A completing set of keys of the job that a chunk is embedded for.
LEMMA KeyCovers ==
  ASSUME NEW w \in WellFormed, w.pc = "upsert", NEW d, Holds(w, d), Fits(w)
  PROVE  KeyOf(w) \in UNION Coverings[w.job]
  <1>1. w.job \in Jobs /\ w.svc \in Services /\ w.chunk \in w.chunks
    BY Labelling DEF WellFormed, Equipped, InChunk
  <1>2. PICK v \in Versions : w.chunks \subseteq ChunksOf(w.job.doc, v)
    BY Labelling DEF Holds
  <1>3. KeyOf(w) \in KeysOf(w.svc.model, w.job.doc, v)
    BY <1>1, <1>2 DEF KeyOf, KeysOf
  <1>4. KeysOf(w.svc.model, w.job.doc, v) \in Coverings[w.job]
    BY <1>1 DEF Coverings, Fits
  <1> QED
    BY <1>3, <1>4

LEMMA FillImplements ==
  ASSUME OneProcess, TypeInv, IndexInv, SoloInv, NEW p \in Procs, Fill(p)
  PROVE  Abstract!Next \/ UNCHANGED <<disk.jobs, disk.embs>>
  <1> DEFINE v == proc[p]
  <1>1. /\ v \in WellFormed /\ v.pc \in Writes
        /\ Sound(v, disk, torn, calls, crashes) /\ Settles(disk, indexed)
        /\ disk'.jobs = CASE v.pc \in Marks -> Marked(disk.jobs, v.job, v.pc)
                          [] v.pc = "enqueue" -> Enqueued(disk.jobs, TargetJob(v))
                          [] OTHER -> disk.jobs
        /\ disk'.embs = IF v.pc = "upsert" THEN disk.embs \cup {KeyOf(v)} ELSE disk.embs
        /\ v.phase = "fill"
    BY FillAt
  <1>2. /\ InStep(v, disk) /\ Holds(v, disk) /\ IndexedProc(v, indexed)
        /\ v.pc \in InJob => v.job \in Jobs
        /\ v.pc = "enqueue" => TargetJob(v) \in Jobs
    <2>1. v.pc = "enqueue" => TargetJob(v) \in Jobs
      BY <1>1 DEF TargetJob, Jobs, WellFormed, Equipped
    <2> QED BY <1>1, <2>1 DEF Sound, IndexInv, WellFormed, Equipped
  <1> HIDE DEF v
  <1>3. CASE v.pc = "enqueue"
    <2>1. disk.jobs[TargetJob(v)] = "ABSENT"
      BY <1>1, <1>2, <1>3 DEF InStep
    <2>2. disk'.jobs = [disk.jobs EXCEPT ![TargetJob(v)] = "PENDING"] /\ disk'.embs = disk.embs
      BY <1>1, <1>3, Labelling DEF Enqueued
    <2>3. Abstract!Submit(TargetJob(v))
      BY <2>1, <2>2 DEF Abstract!Submit, Abstract!Move
    <2> QED BY <1>2, <1>3, <2>3 DEF Abstract!Next
  <1>4. CASE v.pc \in Marks
    <2>1. /\ disk'.jobs = [disk.jobs EXCEPT ![v.job] = v.pc] /\ disk'.embs = disk.embs
          /\ v.job \in Jobs
      BY <1>1, <1>2, <1>4, Labelling DEF Marked
    <2>2. CASE v.pc = "RUNNING"
      <3>1. disk.jobs[v.job] = "PENDING"
        BY <1>2, <2>2 DEF Holds
      <3>2. Abstract!Claim(v.job)
        BY <2>1, <2>2, <3>1 DEF Abstract!Claim, Abstract!Move
      <3> QED BY <2>1, <3>2 DEF Abstract!Next
    <2>3. CASE v.pc \in Settled
      <3>1. disk.jobs[v.job] = "RUNNING"
        BY <1>2, <2>3, Labelling DEF Holds
      <3>2. CASE v.pc = "SUCCEEDED"
        <4>1. \E keys \in Coverings[v.job] : keys \subseteq disk.embs
          BY <1>1, <1>2, <3>2 DEF IndexedProc, Embedded, Settles
        <4>2. Abstract!Succeed(v.job)
          BY <2>1, <3>1, <3>2, <4>1 DEF Abstract!Succeed, Abstract!Move
        <4> QED BY <2>1, <4>2 DEF Abstract!Next
      <3>3. CASE v.pc \in {"FAILED", "SKIPPED"}
        <4>1. Abstract!GiveUp(v.job)
          BY <2>1, <3>1, <3>3 DEF Abstract!GiveUp, Abstract!Move
        <4> QED BY <2>1, <4>1 DEF Abstract!Next
      <3> QED BY <2>3, <3>2, <3>3, Labelling
    <2> QED BY <1>4, <2>2, <2>3, Labelling
  <1>5. CASE v.pc = "upsert"
    <2>1. disk'.jobs = disk.jobs /\ disk'.embs = disk.embs \cup {KeyOf(v)}
      BY <1>1, <1>5, Labelling
    <2>2. disk.jobs[v.job] = "RUNNING" /\ v.job \in Jobs
      BY <1>2, <1>5, Labelling DEF Holds
    <2>3. KeyOf(v) \in UNION Coverings[v.job]
      BY <1>1, <1>2, <1>5, KeyCovers, InLoopSet DEF IndexedProc
    <2>4. Abstract!Index(v.job)
      BY <2>1, <2>2, <2>3 DEF Abstract!Index
    <2> QED BY <2>2, <2>4 DEF Abstract!Next
  <1>6. CASE v.pc \notin Marks \cup {"enqueue", "upsert"}
    BY <1>1, <1>6
  <1> QED
    BY <1>3, <1>4, <1>5, <1>6

\* With one command at a time, crashes included, no job is claimed twice,
\* re-opened or settled before the corpus holds what it was for, and the corpus
\* grows only by what a claimed job is for.
THEOREM FilesImplementLifecycle ==
  ASSUME OneProcess
  PROVE  Spec => Lifecycle
  <1>1. Init => Abstract!Init
    BY DEF Init, Abstract!Init, Blank
  <1>2. TypeInv /\ IndexInv /\ SoloInv /\ [Next]_vars => [Abstract!Next]_(Abstract!vars)
    <2> SUFFICES ASSUME TypeInv, IndexInv, SoloInv, [Next]_vars
                 PROVE  [Abstract!Next]_(Abstract!vars)
      OBVIOUS
    <2>1. CASE disk' = disk
      BY <2>1 DEF Abstract!vars
    <2>2. CASE \E p \in Procs : Fill(p)
      BY <2>2, FillImplements DEF Abstract!vars
    <2> QED BY <2>1, <2>2, OnlyFillWrites
  <1>3. Spec => []IndexInv
    BY InitIndexed, StepIndexed, TypeCorrect, PTL DEF Spec
  <1> QED
    BY <1>1, <1>2, <1>3, SoloHolds, TypeCorrect, PTL DEF Spec, Lifecycle, Abstract!Spec
=============================================================================
