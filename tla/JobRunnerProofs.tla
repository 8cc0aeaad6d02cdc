--------------------------- MODULE JobRunnerProofs ---------------------------
(***************************************************************************)
(* Theorems about JobRunner for every value of its constants.              *)
(*                                                                         *)
(* A command at a label needs what earlier steps put in its variables: a   *)
(* runner has a job and a service, an upsert has a chunk.  WellFormed is   *)
(* ProcState with that, and makes the type invariant inductive.            *)
(***************************************************************************)
EXTENDS JobRunner, TLAPS

InChunk == {"provider", "put", "charge", "upsert"}
InJob == Marks \cup InChunk \cup {"document", "chunk"}

Equipped(w) ==
  /\ w.pc \in {"lookup", "enqueue"} =>
       w.doc \in Docs /\ w.req \in Requests /\ (w.thenRun => w.svc \in Services)
  /\ w.pc = "enqueue" => w.version \in Versions
  /\ w.pc = "record" => w.doc \in Docs /\ w.version \in Versions
  /\ w.pc \in {"pending", "next"} => w.svc \in Services
  /\ w.pc \in InJob => w.job \in Jobs /\ w.svc \in Services
  /\ w.pc \in InChunk => w.chunk \in w.chunks

WellFormed == {w \in ProcState : Equipped(w)}

TypeInv == TypeOK /\ proc \in [Procs -> WellFormed]

-----------------------------------------------------------------------------
(* The process states the helpers return. *)
LEMMA BlankType == Blank \in Disk
  BY ConstantsAssumption DEF Blank, Disk, Statuses, Marks

LEMMA LabelSet ==
  Labels = {"RUNNING", "SUCCEEDED", "FAILED", "SKIPPED", "enqueue", "put", "charge",
            "upsert", "record", "ontology", "document", "chunk", "provider",
            "idle", "lookup", "pending", "next"}
  BY DEF Labels, Writes, InTry, Marks

LEMMA InJobSet ==
  InJob = {"RUNNING", "SUCCEEDED", "FAILED", "SKIPPED", "provider", "put", "charge",
           "upsert", "document", "chunk"}
  BY DEF InJob, InChunk, Marks

LEMMA IdleFields ==
  /\ Idle \in ProcState
  /\ Idle.pc = "idle"
  BY BlankType, LabelSet DEF Idle, ProcState

LEMMA ProcFields ==
  ASSUME NEW w \in ProcState
  PROVE  /\ w.pc \in Labels
         /\ w.svc \in Services \cup {None}
         /\ w.doc \in Docs \cup {None}
         /\ w.version \in Versions \cup {None}
         /\ w.req \in Requests \cup {None}
         /\ w.thenRun \in BOOLEAN
         /\ w.todo \in SUBSET Jobs
         /\ w.job \in Jobs \cup {None}
         /\ w.chunks \in SUBSET Chunks
         /\ w.chunk \in Chunks \cup {None}
         /\ w.buf \in Disk
  BY DEF ProcState

LEMMA IdleType == Idle \in WellFormed
  BY IdleFields, InJobSet DEF WellFormed, Equipped, InChunk

LEMMA NextType ==
  ASSUME NEW svc \in Services, NEW todo \in SUBSET Jobs
  PROVE  [Idle EXCEPT !.pc = "next", !.svc = svc, !.todo = todo] \in WellFormed
  <1> DEFINE w == [Idle EXCEPT !.pc = "next", !.svc = svc, !.todo = todo]
  <1>1. w \in ProcState /\ w.pc = "next" /\ w.svc = svc
    BY IdleFields, LabelSet DEF Idle, ProcState
  <1> HIDE DEF w
  <1>2. w \in WellFormed
    BY <1>1, InJobSet DEF WellFormed, Equipped, InChunk
  <1> QED BY <1>2 DEF w

LEMMA PendingType ==
  ASSUME NEW svc \in Services
  PROVE  [Idle EXCEPT !.pc = "pending", !.svc = svc] \in WellFormed
  <1> DEFINE w == [Idle EXCEPT !.pc = "pending", !.svc = svc]
  <1>1. w \in ProcState /\ w.pc = "pending" /\ w.svc = svc
    BY IdleFields, LabelSet DEF Idle, ProcState
  <1> HIDE DEF w
  <1>2. w \in WellFormed
    BY <1>1, InJobSet DEF WellFormed, Equipped, InChunk
  <1> QED BY <1>2 DEF w

LEMMA ResumeType ==
  ASSUME NEW w, w.svc \in Services, NEW todo \in SUBSET Jobs
  PROVE  Resume(w, todo) \in WellFormed
  BY NextType, IdleType DEF Resume

\* Only the label of a process changes.
LEMMA Relabel ==
  ASSUME NEW w \in ProcState, NEW pc \in Labels
  PROVE  LET v == [w EXCEPT !.pc = pc] IN
         /\ v \in ProcState /\ v.pc = pc
         /\ v.svc = w.svc /\ v.doc = w.doc /\ v.version = w.version /\ v.req = w.req
         /\ v.thenRun = w.thenRun /\ v.todo = w.todo /\ v.job = w.job
         /\ v.chunks = w.chunks /\ v.chunk = w.chunk /\ v.buf = w.buf
         /\ v.phase = w.phase
  BY DEF ProcState

\* Within a job, a label that needs no chunk, or another that does.
LEMMA RelabelInJob ==
  ASSUME NEW w \in WellFormed, w.pc \in InJob, NEW pc \in InJob,
         pc \in InChunk => w.pc \in InChunk
  PROVE  [w EXCEPT !.pc = pc] \in WellFormed
  <1> DEFINE v == [w EXCEPT !.pc = pc]
  <1>0. w \in ProcState /\ Equipped(w) /\ pc \in Labels
    BY InJobSet, LabelSet DEF WellFormed
  <1>1. /\ v \in ProcState /\ v.pc = pc /\ v.svc = w.svc /\ v.job = w.job
        /\ v.chunks = w.chunks /\ v.chunk = w.chunk
    BY <1>0, Relabel
  <1> HIDE DEF v
  <1>2. Equipped(v)
    BY <1>0, <1>1, InJobSet DEF Equipped, InChunk
  <1> QED BY <1>1, <1>2 DEF WellFormed, v

LEMMA IterateType ==
  ASSUME NEW w \in ProcState, w.job \in Jobs, w.svc \in Services,
         NEW chunks \in SUBSET Chunks
  PROVE  Iterate(w, chunks) \in WellFormed
  <1> DEFINE pc == IF chunks = {} THEN "SUCCEEDED" ELSE "chunk"
             v == [w EXCEPT !.pc = pc, !.chunks = chunks, !.chunk = None]
  <1>1. pc \in Labels /\ pc \in {"SUCCEEDED", "chunk"}
    BY LabelSet
  <1> HIDE DEF pc
  <1>2. v \in ProcState /\ v.pc = pc /\ v.svc = w.svc /\ v.job = w.job
    BY <1>1 DEF ProcState
  <1> HIDE DEF v
  <1>3. Equipped(v)
    BY <1>1, <1>2, InJobSet DEF Equipped, InChunk
  <1> QED
    BY <1>2, <1>3 DEF Iterate, WellFormed, v, pc

LEMMA DispatchType ==
  ASSUME NEW w \in WellFormed, w.pc = "RUNNING"
  PROVE  Dispatch(w) \in WellFormed
  <1>1. \A pc \in {"SKIPPED", "FAILED", "document"} : [w EXCEPT !.pc = pc] \in WellFormed
    BY RelabelInJob, InJobSet DEF InChunk
  <1> QED
    BY <1>1 DEF Dispatch

\* The write at a label is done and its buffer is dropped.
LEMMA DropBuffer ==
  ASSUME NEW v \in WellFormed
  PROVE  LET w == [v EXCEPT !.phase = "load", !.buf = Blank] IN
         /\ w \in WellFormed /\ w.pc = v.pc /\ w.svc = v.svc /\ w.job = v.job
         /\ w.todo = v.todo /\ w.chunks = v.chunks /\ w.chunk = v.chunk
         /\ w.thenRun = v.thenRun /\ w.buf = Blank
  <1> DEFINE w == [v EXCEPT !.phase = "load", !.buf = Blank]
  <1>0. v \in ProcState /\ Equipped(v)
    BY DEF WellFormed
  <1>1. /\ w \in ProcState /\ w.pc = v.pc /\ w.svc = v.svc /\ w.doc = v.doc
        /\ w.version = v.version /\ w.req = v.req /\ w.thenRun = v.thenRun
        /\ w.job = v.job /\ w.chunks = v.chunks /\ w.chunk = v.chunk
        /\ w.todo = v.todo /\ w.buf = Blank
    BY <1>0, BlankType DEF ProcState
  <1> HIDE DEF w
  <1>2. Equipped(w)
    BY <1>0, <1>1 DEF Equipped
  <1>3. w \in WellFormed
    BY <1>1, <1>2 DEF WellFormed
  <1> QED BY <1>1, <1>3 DEF w

LEMMA AfterType ==
  ASSUME NEW v \in WellFormed
  PROVE  After(v) \in WellFormed
  <1> DEFINE w == [v EXCEPT !.phase = "load", !.buf = Blank]
  <1>1. w \in WellFormed
    BY DropBuffer
  <1> HIDE DEF w
  <1>0. w \in ProcState /\ Equipped(w)
    BY <1>1 DEF WellFormed
  <1>2. w.pc = "enqueue" /\ w.thenRun =>
          [Idle EXCEPT !.pc = "pending", !.svc = w.svc] \in WellFormed
    BY <1>0, PendingType DEF Equipped
  <1>3. w.pc = "RUNNING" => Dispatch(w) \in WellFormed
    BY <1>1, DispatchType
  <1>4. w.pc \in Settled => Resume(w, w.todo) \in WellFormed
    BY <1>0, ResumeType, ProcFields, InJobSet DEF Equipped, Settled
  <1>5. w.pc = "put" => [w EXCEPT !.pc = "charge"] \in WellFormed
    BY <1>1, RelabelInJob, InJobSet DEF InChunk
  <1>6. w.pc = "charge" => [w EXCEPT !.pc = "upsert"] \in WellFormed
    BY <1>1, RelabelInJob, InJobSet DEF InChunk
  <1>7. w.pc = "upsert" => Iterate(w, w.chunks \ {w.chunk}) \in WellFormed
    <2>1. w.chunks \ {w.chunk} \in SUBSET Chunks
      BY <1>0, ProcFields
    <2> QED BY <1>0, <2>1, IterateType, InJobSet DEF Equipped
  <1>8. After(v) =
          CASE w.pc = "enqueue" /\ w.thenRun -> [Idle EXCEPT !.pc = "pending", !.svc = w.svc]
            [] w.pc = "RUNNING" -> Dispatch(w)
            [] w.pc \in Settled -> Resume(w, w.todo)
            [] w.pc = "put" -> [w EXCEPT !.pc = "charge"]
            [] w.pc = "charge" -> [w EXCEPT !.pc = "upsert"]
            [] w.pc = "upsert" -> Iterate(w, w.chunks \ {w.chunk})
            [] OTHER -> Idle
    BY DEF After, w
  <1> QED
    BY <1>2, <1>3, <1>4, <1>5, <1>6, <1>7, <1>8, IdleType

-----------------------------------------------------------------------------
(* Each step keeps the type invariant. *)
LEMMA RaiseType ==
  ASSUME TypeInv, NEW p \in Procs, Raise(p)
  PROVE  proc' \in [Procs -> WellFormed]
  <1>1. proc[p] \in WellFormed
    BY DEF TypeInv
  <1>2. proc[p].pc \in InTry => [proc[p] EXCEPT !.pc = "FAILED"] \in WellFormed
    <2>1. ASSUME proc[p].pc \in InTry
          PROVE  proc[p].pc \in InJob
      BY <2>1, InJobSet DEF InTry
    <2> QED BY <1>1, <2>1, RelabelInJob, InJobSet DEF InChunk
  <1> QED
    BY <1>2, IdleType DEF Raise, Goto, TypeInv

LEMMA TypeSplit ==
  ASSUME proc \in [Procs -> WellFormed]
  PROVE  proc \in [Procs -> ProcState]
  BY DEF WellFormed

LEMMA TypeSplitNext ==
  ASSUME proc' \in [Procs -> WellFormed]
  PROVE  proc' \in [Procs -> ProcState]
  BY DEF WellFormed

LEMMA ProceedType ==
  ASSUME TypeInv, NEW p \in Procs, NEW w \in WellFormed, Proceed(p, w)
  PROVE  TypeInv'
  <1>1. proc' \in [Procs -> WellFormed]
    BY DEF Proceed, Goto, TypeInv
  <1> QED
    BY <1>1, TypeSplitNext DEF Proceed, TypeInv, TypeOK, files, history

LEMMA RaiseStepType ==
  ASSUME TypeInv, NEW p \in Procs, Raise(p), UNCHANGED <<files, history>>
  PROVE  TypeInv'
  BY RaiseType, TypeSplitNext DEF TypeInv, TypeOK, files, history

LEMMA StageType ==
  ASSUME TypeInv, NEW p \in Procs, NEW content \in Disk, Stage(p, content)
  PROVE  TypeInv'
  <1> DEFINE w == [proc[p] EXCEPT !.phase = "truncate", !.buf = content]
  <1>0. proc[p] \in ProcState /\ Equipped(proc[p])
    BY DEF TypeInv, WellFormed
  <1>1. /\ w \in ProcState /\ w.pc = proc[p].pc /\ w.svc = proc[p].svc
        /\ w.doc = proc[p].doc /\ w.version = proc[p].version /\ w.req = proc[p].req
        /\ w.thenRun = proc[p].thenRun /\ w.job = proc[p].job
        /\ w.chunks = proc[p].chunks /\ w.chunk = proc[p].chunk
    BY <1>0 DEF ProcState
  <1>2. proc' = [proc EXCEPT ![p] = w]
    BY DEF Stage, Goto
  <1> HIDE DEF w
  <1>3. w \in WellFormed
    BY <1>0, <1>1 DEF Equipped, WellFormed
  <1>4. proc' \in [Procs -> WellFormed]
    BY <1>2, <1>3 DEF TypeInv
  <1> QED
    BY <1>4, TypeSplitNext DEF Stage, TypeInv, TypeOK, files, history

LEMMA StartType ==
  ASSUME TypeInv, NEW p \in Procs, Start(p)
  PROVE  TypeInv'
  <1>1. CASE StartRunPending(p)
    BY <1>1, PendingType, ProceedType DEF StartRunPending
  <1>2. CASE StartProcessDocument(p)
    <2>1. PICK s \in Services, d \in Docs, r \in Requests :
            Proceed(p, [Idle EXCEPT !.pc = "lookup", !.svc = s, !.doc = d,
                                    !.req = r, !.thenRun = TRUE])
      BY <1>2 DEF StartProcessDocument
    <2> DEFINE w == [Idle EXCEPT !.pc = "lookup", !.svc = s, !.doc = d,
                                 !.req = r, !.thenRun = TRUE]
    <2>2. /\ w \in ProcState /\ w.pc = "lookup" /\ w.doc = d /\ w.req = r /\ w.svc = s
      BY LabelSet, IdleFields DEF Idle, ProcState
    <2>3. Proceed(p, w)
      BY <2>1
    <2> HIDE DEF w
    <2>4. w \in WellFormed
      BY <2>2, InJobSet DEF WellFormed, Equipped, InChunk
    <2> QED BY <2>3, <2>4, ProceedType
  <1>3. CASE StartEnqueue(p)
    <2>1. PICK d \in Docs, r \in Requests :
            Proceed(p, [Idle EXCEPT !.pc = "lookup", !.doc = d, !.req = r])
      BY <1>3 DEF StartEnqueue
    <2> DEFINE w == [Idle EXCEPT !.pc = "lookup", !.doc = d, !.req = r]
    <2>2. /\ w \in ProcState /\ w.pc = "lookup" /\ w.doc = d /\ w.req = r
          /\ w.thenRun = FALSE
      BY LabelSet, IdleFields DEF Idle, ProcState
    <2>3. Proceed(p, w)
      BY <2>1
    <2> HIDE DEF w
    <2>4. w \in WellFormed
      BY <2>2, InJobSet DEF WellFormed, Equipped, InChunk
    <2> QED BY <2>3, <2>4, ProceedType
  <1>4. CASE StartRqTask(p)
    BY <1>4, NextType, ProceedType DEF StartRqTask
  <1>5. CASE StartIngest(p)
    <2>1. PICK d \in Docs, v \in Versions :
            Proceed(p, [Idle EXCEPT !.pc = "record", !.doc = d, !.version = v])
      BY <1>5 DEF StartIngest
    <2> DEFINE w == [Idle EXCEPT !.pc = "record", !.doc = d, !.version = v]
    <2>2. w \in ProcState /\ w.pc = "record" /\ w.doc = d /\ w.version = v
      BY LabelSet, IdleFields DEF Idle, ProcState
    <2>3. Proceed(p, w)
      BY <2>1
    <2> HIDE DEF w
    <2>4. w \in WellFormed
      BY <2>2, InJobSet DEF WellFormed, Equipped, InChunk
    <2> QED BY <2>3, <2>4, ProceedType
  <1>6. CASE StartOntology(p)
    <2> DEFINE w == [Idle EXCEPT !.pc = "ontology"]
    <2>1. w \in ProcState /\ w.pc = "ontology"
      BY Relabel, LabelSet, IdleFields
    <2>2. Proceed(p, w)
      BY <1>6 DEF StartOntology
    <2> HIDE DEF w
    <2>3. w \in WellFormed
      BY <2>1, InJobSet DEF WellFormed, Equipped, InChunk
    <2> QED BY <2>2, <2>3, ProceedType
  <1> QED
    BY <1>1, <1>2, <1>3, <1>4, <1>5, <1>6 DEF Start

LEMMA ChunkTypes ==
  ASSUME NEW d \in Docs, NEW v \in Versions
  PROVE  ChunksOf(d, v) \in SUBSET Chunks
  BY ConstantsAssumption DEF ChunksOf, Chunks

LEMMA ReadType ==
  ASSUME TypeInv, NEW p \in Procs,
         Lookup(p) \/ ListPending(p) \/ GetJob(p) \/ GetDocument(p) \/ CacheGet(p)
  PROVE  TypeInv'
  <1>0. /\ proc[p] \in WellFormed /\ proc[p] \in ProcState /\ Equipped(proc[p])
        /\ disk \in Disk
    BY DEF TypeInv, TypeOK, WellFormed
  <1>1. CASE Lookup(p)
    <2> DEFINE v == disk.docs[proc[p].doc]
               w == [proc[p] EXCEPT !.pc = "enqueue", !.version = v]
    <2>0. proc[p].pc = "lookup" /\ Proceed(p, IF v = None THEN Idle ELSE w)
      BY <1>1 DEF Lookup, Reads
    <2>1. proc[p].doc \in Docs /\ v \in Versions \cup {None}
      BY <1>0, <2>0 DEF Equipped, Disk
    <2>2. ASSUME v # None PROVE w \in WellFormed
      <3>1. /\ w \in ProcState /\ w.pc = "enqueue" /\ w.version = v
            /\ w.doc = proc[p].doc /\ w.req = proc[p].req /\ w.svc = proc[p].svc
            /\ w.thenRun = proc[p].thenRun
        BY <1>0, <2>1, LabelSet DEF ProcState
      <3> HIDE DEF w, v
      <3> QED
        BY <1>0, <2>0, <2>1, <2>2, <3>1, InJobSet DEF WellFormed, Equipped, InChunk
    <2> QED BY <2>0, <2>2, IdleType, ProceedType
  <1>2. CASE ListPending(p)
    <2>1. proc[p].svc \in Services
      BY <1>0, <1>2 DEF ListPending, Reads, Equipped
    <2> QED BY <1>2, <2>1, ResumeType, ProceedType DEF ListPending, Pending
  <1>3. CASE GetJob(p)
    <2>1. PICK j \in proc[p].todo :
            Proceed(p, IF Runnable(disk.jobs, j)
                  THEN [proc[p] EXCEPT !.pc = "RUNNING", !.job = j, !.todo = @ \ {j}]
                  ELSE Resume(proc[p], proc[p].todo \ {j}))
      BY <1>3 DEF GetJob
    <2> DEFINE w == [proc[p] EXCEPT !.pc = "RUNNING", !.job = j, !.todo = @ \ {j}]
    <2>2. j \in Jobs /\ proc[p].todo \ {j} \in SUBSET Jobs /\ proc[p].svc \in Services
      BY <1>0, <1>3, ProcFields DEF GetJob, Reads, Equipped
    <2>3. w \in ProcState /\ w.pc = "RUNNING" /\ w.job = j /\ w.svc = proc[p].svc
      BY <1>0, <2>2, LabelSet DEF ProcState
    <2>4. Resume(proc[p], proc[p].todo \ {j}) \in WellFormed
      BY <2>2, ResumeType
    <2>5. Proceed(p, IF Runnable(disk.jobs, j) THEN w
                     ELSE Resume(proc[p], proc[p].todo \ {j}))
      BY <2>1
    <2> HIDE DEF w
    <2>6. w \in WellFormed
      BY <2>2, <2>3, InJobSet DEF WellFormed, Equipped, InChunk
    <2> QED BY <2>4, <2>5, <2>6, ProceedType
  <1>4. CASE GetDocument(p)
    <2> DEFINE d == proc[p].job.doc
               v == disk.docs[d]
    <2>1. /\ proc[p].pc = "document"
          /\ Proceed(p, IF v = None THEN [proc[p] EXCEPT !.pc = "FAILED"]
                        ELSE Iterate(proc[p], ChunksOf(d, v)))
      BY <1>4 DEF GetDocument, Reads
    <2>2. proc[p].job \in Jobs /\ proc[p].svc \in Services
      BY <1>0, <2>1, InJobSet DEF Equipped
    <2>3. d \in Docs /\ v \in Versions \cup {None}
      BY <1>0, <2>2 DEF Jobs, Disk
    <2>4. [proc[p] EXCEPT !.pc = "FAILED"] \in WellFormed
      BY <1>0, <2>1, RelabelInJob, InJobSet DEF InChunk
    <2>5. v # None => Iterate(proc[p], ChunksOf(d, v)) \in WellFormed
      BY <1>0, <2>2, <2>3, ChunkTypes, IterateType
    <2> QED BY <2>1, <2>4, <2>5, ProceedType
  <1>5. CASE CacheGet(p)
    <2>1. PICK c \in proc[p].chunks :
            LET w == [proc[p] EXCEPT !.chunk = c] IN
            Proceed(p, [w EXCEPT !.pc = IF OpOf(w) \in disk.cache THEN "upsert"
                                        ELSE "provider"])
      BY <1>5 DEF CacheGet
    <2> DEFINE w == [proc[p] EXCEPT !.chunk = c]
               pc == IF OpOf(w) \in disk.cache THEN "upsert" ELSE "provider"
               x == [w EXCEPT !.pc = pc]
    <2>2. proc[p].job \in Jobs /\ proc[p].svc \in Services /\ c \in Chunks
      BY <1>0, <1>5, InJobSet, ProcFields DEF Equipped, CacheGet, Reads
    <2>3. /\ w \in ProcState /\ w.chunk = c /\ w.job = proc[p].job
          /\ w.svc = proc[p].svc /\ w.chunks = proc[p].chunks
      BY <1>0, <2>2 DEF ProcState
    <2>4. Proceed(p, x)
      BY <2>1
    <2> HIDE DEF w
    <2>5. pc \in Labels /\ pc \in InChunk
      BY LabelSet DEF InChunk
    <2> HIDE DEF pc
    <2>6. /\ x \in ProcState /\ x.pc = pc /\ x.chunk = c /\ x.job = proc[p].job
          /\ x.svc = proc[p].svc /\ x.chunks = proc[p].chunks
      BY <2>3, <2>5, Relabel
    <2> HIDE DEF x
    <2>7. x \in WellFormed
      BY <2>2, <2>5, <2>6 DEF WellFormed, Equipped, InChunk
    <2> QED BY <2>4, <2>7, ProceedType
  <1> QED
    BY <1>1, <1>2, <1>3, <1>4, <1>5

\* The buffers the loads stage.
LEMMA JobsBuffer ==
  ASSUME NEW jobs \in [Jobs -> Statuses]
  PROVE  [Blank EXCEPT !.jobs = jobs] \in Disk
  BY BlankType DEF Disk

LEMMA OpType ==
  ASSUME NEW w \in ProcState, w.svc \in Services, w.chunk \in Chunks
  PROVE  OpOf(w) \in Ops /\ KeyOf(w) \in Keys
  BY ConstantsAssumption DEF OpOf, KeyOf, Ops, Keys, Chunks

LEMMA InChunkFields ==
  ASSUME NEW w \in WellFormed, w.pc \in InChunk
  PROVE  w.chunk \in Chunks /\ w.chunk \in w.chunks /\ w.svc \in Services /\ w.job \in Jobs
  BY InJobSet DEF WellFormed, Equipped, InChunk, ProcState

LEMMA InChunkOps ==
  ASSUME NEW w \in WellFormed, w.pc \in InChunk
  PROVE  OpOf(w) \in Ops /\ KeyOf(w) \in Keys
  BY InChunkFields, OpType DEF WellFormed

LEMMA LoadType ==
  ASSUME TypeInv, NEW p \in Procs,
         \/ LoadToMark(p) \/ LoadToEnqueue(p) \/ LoadToPut(p) \/ LoadToCharge(p)
         \/ LoadToUpsert(p) \/ LoadToRecord(p) \/ LoadToOntology(p)
  PROVE  TypeInv'
  <1>0. /\ proc[p] \in WellFormed /\ proc[p] \in ProcState /\ Equipped(proc[p])
        /\ disk \in Disk
    BY DEF TypeInv, TypeOK, WellFormed
  <1>d. /\ disk.jobs \in [Jobs -> Statuses] /\ disk.cache \in SUBSET Ops
        /\ disk.costs \in SUBSET Ops /\ disk.docs \in [Docs -> Versions \cup {None}]
        /\ disk.embs \in SUBSET Keys
    BY <1>0 DEF Disk
  <1>a. After(proc[p]) \in WellFormed
    BY <1>0, AfterType
  <1>1. CASE LoadToMark(p)
    <2>1. PICK status \in Marks :
            Stage(p, [Blank EXCEPT !.jobs = Marked(disk.jobs, proc[p].job, status)])
      BY <1>1 DEF LoadToMark
    <2>2. Marked(disk.jobs, proc[p].job, status) \in [Jobs -> Statuses]
      BY <1>d DEF Marked, Statuses
    <2> QED BY <2>1, <2>2, JobsBuffer, StageType
  <1>2. CASE LoadToEnqueue(p)
    <2> DEFINE j == TargetJob(proc[p])
    <2>1. IF disk.jobs[j] = "ABSENT"
          THEN Stage(p, [Blank EXCEPT !.jobs = Enqueued(disk.jobs, j)])
          ELSE Proceed(p, After(proc[p]))
      BY <1>2 DEF LoadToEnqueue
    <2>2. Enqueued(disk.jobs, j) \in [Jobs -> Statuses]
      BY <1>d DEF Enqueued, Statuses
    <2> QED BY <2>1, <2>2, <1>a, JobsBuffer, StageType, ProceedType
  <1>3. CASE LoadToPut(p)
    <2>1. OpOf(proc[p]) \in Ops
      BY <1>0, <1>3, InChunkOps DEF LoadToPut, Reads, InChunk
    <2>2. [Blank EXCEPT !.cache = WithOperation(disk.cache, OpOf(proc[p]))] \in Disk
      BY <1>d, <2>1, BlankType DEF Disk, WithOperation
    <2> QED BY <1>3, <2>2, StageType DEF LoadToPut
  <1>4. CASE LoadToCharge(p)
    <2> DEFINE o == OpOf(proc[p])
    <2>1. o \in Ops
      BY <1>0, <1>4, InChunkOps DEF LoadToCharge, Reads, InChunk
    <2>2. [Blank EXCEPT !.costs = WithCost(disk.costs, o)] \in Disk
      BY <1>d, <2>1, BlankType DEF Disk, WithCost
    <2>3. IF o \in disk.costs THEN Proceed(p, After(proc[p]))
          ELSE Stage(p, [Blank EXCEPT !.costs = WithCost(disk.costs, o)])
      BY <1>4 DEF LoadToCharge
    <2> QED BY <1>a, <2>2, <2>3, StageType, ProceedType
  <1>5. CASE LoadToUpsert(p)
    <2>1. KeyOf(proc[p]) \in Keys
      BY <1>0, <1>5, InChunkOps DEF LoadToUpsert, Reads, InChunk
    <2>2. [Blank EXCEPT !.docs = disk.docs,
                        !.embs = WithEmbedding(disk.embs, KeyOf(proc[p]))] \in Disk
      BY <1>d, <2>1, BlankType DEF Disk, WithEmbedding
    <2> QED BY <1>5, <2>2, StageType DEF LoadToUpsert
  <1>6. CASE LoadToRecord(p)
    <2> DEFINE docs == WithDocument(disk.docs, proc[p].doc, proc[p].version)
    <2>1. proc[p].doc \in Docs /\ proc[p].version \in Versions
      BY <1>0, <1>6 DEF LoadToRecord, Reads, Equipped
    <2>2. docs \in [Docs -> Versions \cup {None}]
      BY <1>d, <2>1 DEF WithDocument
    <2>3. Stage(p, [Blank EXCEPT !.docs = docs, !.embs = disk.embs])
      BY <1>6 DEF LoadToRecord
    <2> HIDE DEF docs
    <2>4. [Blank EXCEPT !.docs = docs, !.embs = disk.embs] \in Disk
      BY <1>d, <2>2, BlankType DEF Disk
    <2> QED BY <2>3, <2>4, StageType
  <1>7. CASE LoadToOntology(p)
    <2>1. [Blank EXCEPT !.docs = disk.docs, !.embs = disk.embs] \in Disk
      BY <1>d, BlankType DEF Disk
    <2> QED BY <1>7, <2>1, StageType DEF LoadToOntology
  <1> QED
    BY <1>1, <1>2, <1>3, <1>4, <1>5, <1>6, <1>7

LEMMA OtherType ==
  ASSUME TypeInv, NEW p \in Procs,
         \/ CallProvider(p) \/ ProviderFails(p) \/ MarkUnknown(p) \/ ReadFails(p)
         \/ Truncate(p) \/ Fill(p) \/ Crash(p)
  PROVE  TypeInv'
  <1>0. /\ proc[p] \in WellFormed /\ proc[p] \in ProcState /\ Equipped(proc[p])
        /\ disk \in Disk /\ proc \in [Procs -> WellFormed]
    BY DEF TypeInv, TypeOK, WellFormed
  <1>1. CASE CallProvider(p)
    <2>1. proc[p].pc = "provider"
      BY <1>1 DEF CallProvider
    <2>2. [proc[p] EXCEPT !.pc = "put"] \in WellFormed
      BY <1>0, <2>1, RelabelInJob, InJobSet DEF InChunk
    <2>3. proc' \in [Procs -> WellFormed]
      BY <1>0, <1>1, <2>2 DEF CallProvider, Goto
    <2>4. calls' \in [Ops -> 0 .. MaxCalls]
      <3>1. ASSUME NEW c \in 0 .. MaxCalls
            PROVE  (IF c < MaxCalls THEN c + 1 ELSE c) \in 0 .. MaxCalls
        BY ConstantsAssumption
      <3>2. calls \in [Ops -> 0 .. MaxCalls]
        BY DEF TypeInv, TypeOK
      <3>3. OpOf(proc[p]) \in Ops
        BY <1>0, <2>1, InChunkOps DEF InChunk
      <3> QED BY <1>1, <3>1, <3>2, <3>3 DEF CallProvider
    <2> QED
      BY <1>1, <2>3, <2>4, TypeSplitNext DEF CallProvider, TypeInv, TypeOK, files
  <1>2. CASE ProviderFails(p) \/ MarkUnknown(p) \/ ReadFails(p)
    BY <1>2, RaiseStepType DEF ProviderFails, MarkUnknown, ReadFails
  <1>3. CASE Truncate(p)
    <2> DEFINE w == [proc[p] EXCEPT !.phase = "fill"]
    <2>1. /\ w \in ProcState /\ w.pc = proc[p].pc /\ w.svc = proc[p].svc
          /\ w.doc = proc[p].doc /\ w.version = proc[p].version /\ w.req = proc[p].req
          /\ w.thenRun = proc[p].thenRun /\ w.job = proc[p].job
          /\ w.chunks = proc[p].chunks /\ w.chunk = proc[p].chunk
      BY <1>0 DEF ProcState
    <2>2. proc' = [proc EXCEPT ![p] = w]
      BY <1>3 DEF Truncate, Goto
    <2> HIDE DEF w
    <2>3. w \in WellFormed
      BY <1>0, <2>1 DEF WellFormed, Equipped
    <2>4. proc' \in [Procs -> WellFormed]
      BY <1>0, <2>2, <2>3
    <2>5. torn' \subseteq Files
      BY <1>3 DEF Truncate, TypeInv, TypeOK, Files, FileAt
    <2> QED
      BY <1>3, <2>4, <2>5, TypeSplitNext DEF Truncate, TypeInv, TypeOK, history
  <1>4. CASE Fill(p)
    <2> DEFINE w == proc[p]
               f == FileAt(w.pc)
    <2>1. After(w) \in WellFormed
      BY <1>0, AfterType
    <2>2. proc' \in [Procs -> WellFormed]
      BY <1>0, <1>4, <2>1 DEF Fill, Goto
    <2>3. disk' \in Disk
      <3>1. w.buf \in Disk
        BY <1>0, ProcFields
      <3> QED BY <1>0, <1>4, <3>1 DEF Fill, Disk
    <2>4. torn' \subseteq Files
      BY <1>4 DEF Fill, TypeInv, TypeOK, Files, FileAt
    <2>5. indexed' \subseteq Keys
      BY <1>0, <1>4, InChunkOps DEF Fill, TypeInv, TypeOK, InChunk
    <2> QED
      BY <1>4, <2>2, <2>3, <2>4, <2>5, TypeSplitNext DEF Fill, TypeInv, TypeOK
  <1>5. CASE Crash(p)
    <2>1. proc' \in [Procs -> WellFormed]
      BY <1>0, <1>5, IdleType DEF Crash, Goto
    <2>2. crashes' \in 0 .. MaxCrashes
      BY <1>5, ConstantsAssumption DEF Crash, TypeInv, TypeOK
    <2> QED
      BY <1>5, <2>1, <2>2, TypeSplitNext DEF Crash, TypeInv, TypeOK, files
  <1> QED
    BY <1>1, <1>2, <1>3, <1>4, <1>5

LEMMA InitType == Init => TypeInv
  BY BlankType, IdleType, IdleFields, ConstantsAssumption DEF Init, TypeInv, TypeOK, Files

LEMMA StepType == TypeInv /\ [Next]_vars => TypeInv'
  <1> SUFFICES ASSUME TypeInv, [Next]_vars
               PROVE  TypeInv'
    OBVIOUS
  <1>1. ASSUME NEW p \in Procs, Start(p) \/ Work(p) \/ Crash(p)
        PROVE  TypeInv'
    BY <1>1, StartType, ReadType, LoadType, OtherType DEF Work
  <1>2. CASE UNCHANGED vars
    BY <1>2 DEF vars, TypeInv, TypeOK
  <1> QED
    BY <1>1, <1>2 DEF Next

\* The state keeps its types, and a command at a label always has the job, the
\* service and the chunk that label works on.
THEOREM TypeCorrect == Spec => []TypeInv
  BY InitType, StepType, PTL DEF Spec

\* The type invariant the runs check.
THEOREM TypesHold == Spec => []TypeOK
  <1>1. TypeInv => TypeOK
    BY DEF TypeInv
  <1> QED BY <1>1, TypeCorrect, PTL

-----------------------------------------------------------------------------
(***************************************************************************)
(* Provenance.  Provenance alone is not inductive: a command writes back   *)
(* what it loaded earlier, so its buffer must be backed too, and so must   *)
(* the operation it carries from the provider to the cache, the ledger and *)
(* the corpus.  PaidOps only grows, which keeps old snapshots backed.      *)
(***************************************************************************)
BackedProc(w, ops) ==
  /\ Backed(w.buf, ops)
  /\ w.pc \in {"put", "charge", "upsert"} => OpOf(w) \in ops

ProvenanceInv ==
  /\ Backed(disk, PaidOps)
  /\ \A p \in Procs : BackedProc(proc[p], PaidOps)

LEMMA BackedMonotone ==
  ASSUME NEW d, NEW a, NEW b, a \subseteq b, Backed(d, a)
  PROVE  Backed(d, b)
  BY DEF Backed

LEMMA BlankBacked == ASSUME NEW ops PROVE Backed(Blank, ops)
  BY DEF Blank, Backed

LEMMA IdleBacked == ASSUME NEW ops PROVE BackedProc(Idle, ops)
  BY BlankBacked DEF Idle, BackedProc

\* A process that only changes its label keeps its operation and its buffer.
LEMMA RelabelBacked ==
  ASSUME NEW w \in ProcState, NEW pc \in Labels, NEW ops, BackedProc(w, ops),
         pc \in {"put", "charge", "upsert"} => OpOf(w) \in ops
  PROVE  BackedProc([w EXCEPT !.pc = pc], ops)
  BY Relabel DEF BackedProc, OpOf

LEMMA ResumeBacked ==
  ASSUME NEW w, NEW todo, NEW ops
  PROVE  BackedProc(Resume(w, todo), ops)
  <1> DEFINE v == [Idle EXCEPT !.pc = "next", !.svc = w.svc, !.todo = todo]
  <1>1. v.pc = "next" /\ v.buf = Blank
    BY DEF Idle
  <1> HIDE DEF v
  <1>2. BackedProc(v, ops)
    BY <1>1, BlankBacked DEF BackedProc
  <1> QED
    BY <1>2, IdleBacked DEF Resume, v

LEMMA IterateBacked ==
  ASSUME NEW w \in ProcState, NEW chunks, NEW ops, Backed(w.buf, ops)
  PROVE  BackedProc(Iterate(w, chunks), ops)
  <1> DEFINE v == Iterate(w, chunks)
  <1>1. v.buf = w.buf /\ v.pc \in {"SUCCEEDED", "chunk"}
    BY DEF Iterate, ProcState
  <1> QED
    BY <1>1 DEF BackedProc

LEMMA DispatchBacked ==
  ASSUME NEW w \in ProcState, NEW ops, BackedProc(w, ops)
  PROVE  BackedProc(Dispatch(w), ops)
  BY RelabelBacked, LabelSet DEF Dispatch

LEMMA AfterBacked ==
  ASSUME NEW v \in WellFormed, NEW ops, BackedProc(v, ops)
  PROVE  BackedProc(After(v), ops)
  <1> DEFINE w == [v EXCEPT !.phase = "load", !.buf = Blank]
  <1>1. /\ w \in WellFormed /\ w.pc = v.pc /\ w.svc = v.svc /\ w.chunk = v.chunk
        /\ w.buf = Blank
    BY DropBuffer
  <1> HIDE DEF w
  <1>2. w \in ProcState /\ BackedProc(w, ops)
    BY <1>1, BlankBacked DEF WellFormed, BackedProc, OpOf
  <1>3. BackedProc([Idle EXCEPT !.pc = "pending", !.svc = w.svc], ops)
    BY BlankBacked DEF Idle, BackedProc
  <1>4. BackedProc(Dispatch(w), ops)
    BY <1>2, DispatchBacked
  <1>5. BackedProc(Resume(w, w.todo), ops)
    BY ResumeBacked
  <1>6. w.pc = "put" => BackedProc([w EXCEPT !.pc = "charge"], ops)
    BY <1>2, RelabelBacked, LabelSet DEF BackedProc
  <1>7. w.pc = "charge" => BackedProc([w EXCEPT !.pc = "upsert"], ops)
    BY <1>2, RelabelBacked, LabelSet DEF BackedProc
  <1>8. BackedProc(Iterate(w, w.chunks \ {w.chunk}), ops)
    BY <1>1, <1>2, IterateBacked, BlankBacked
  <1>9. After(v) =
          CASE w.pc = "enqueue" /\ w.thenRun -> [Idle EXCEPT !.pc = "pending", !.svc = w.svc]
            [] w.pc = "RUNNING" -> Dispatch(w)
            [] w.pc \in Settled -> Resume(w, w.todo)
            [] w.pc = "put" -> [w EXCEPT !.pc = "charge"]
            [] w.pc = "charge" -> [w EXCEPT !.pc = "upsert"]
            [] w.pc = "upsert" -> Iterate(w, w.chunks \ {w.chunk})
            [] OTHER -> Idle
    BY DEF After, w
  <1> QED
    BY <1>3, <1>4, <1>5, <1>6, <1>7, <1>8, <1>9, IdleBacked

\* Process p moves to w, which is backed; the others hold what they held.
LEMMA GotoBacked ==
  ASSUME TypeInv, ProvenanceInv, NEW p \in Procs, NEW w, Goto(p, w),
         PaidOps \subseteq PaidOps', BackedProc(w, PaidOps'), Backed(disk', PaidOps')
  PROVE  ProvenanceInv'
  <1>1. proc' = [proc EXCEPT ![p] = w] /\ proc \in [Procs -> WellFormed]
    BY DEF Goto, TypeInv
  <1>2. ASSUME NEW q \in Procs PROVE BackedProc(proc'[q], PaidOps')
    <2>1. CASE q = p
      BY <1>1, <2>1
    <2>2. CASE q # p
      <3>1. proc'[q] = proc[q] /\ BackedProc(proc[q], PaidOps)
        BY <1>1, <2>2 DEF ProvenanceInv
      <3> QED BY <3>1, BackedMonotone DEF BackedProc
    <2> QED BY <2>1, <2>2
  <1> QED
    BY <1>2 DEF ProvenanceInv

LEMMA ProceedBacked ==
  ASSUME TypeInv, ProvenanceInv, NEW p \in Procs, NEW w, Proceed(p, w),
         BackedProc(w, PaidOps)
  PROVE  ProvenanceInv'
  <1>1. PaidOps' = PaidOps /\ disk' = disk /\ Goto(p, w)
    BY DEF Proceed, PaidOps, files, history
  <1> QED
    BY <1>1, GotoBacked DEF ProvenanceInv

LEMMA RaiseBacked ==
  ASSUME TypeInv, ProvenanceInv, NEW p \in Procs, Raise(p), UNCHANGED <<files, history>>
  PROVE  ProvenanceInv'
  <1>0. proc[p] \in ProcState /\ BackedProc(proc[p], PaidOps)
    BY DEF TypeInv, TypeOK, ProvenanceInv
  <1>1. BackedProc([proc[p] EXCEPT !.pc = "FAILED"], PaidOps)
    BY <1>0, RelabelBacked, LabelSet
  <1> DEFINE w == IF proc[p].pc \in InTry THEN [proc[p] EXCEPT !.pc = "FAILED"] ELSE Idle
  <1>2. BackedProc(w, PaidOps) /\ Proceed(p, w)
    BY <1>1, IdleBacked DEF Raise, Proceed
  <1> QED
    BY <1>2, ProceedBacked

LEMMA StageBacked ==
  ASSUME TypeInv, ProvenanceInv, NEW p \in Procs, NEW content, Stage(p, content),
         Backed(content, PaidOps)
  PROVE  ProvenanceInv'
  <1> DEFINE w == [proc[p] EXCEPT !.phase = "truncate", !.buf = content]
  <1>0. proc[p] \in ProcState /\ BackedProc(proc[p], PaidOps)
    BY DEF TypeInv, TypeOK, ProvenanceInv
  <1>1. /\ w.buf = content /\ w.pc = proc[p].pc /\ w.svc = proc[p].svc
        /\ w.chunk = proc[p].chunk
    BY <1>0 DEF ProcState
  <1>2. Proceed(p, w)
    BY DEF Stage, Proceed
  <1> HIDE DEF w
  <1>3. BackedProc(w, PaidOps)
    BY <1>0, <1>1 DEF BackedProc, OpOf
  <1> QED
    BY <1>2, <1>3, ProceedBacked

LEMMA StartBacked ==
  ASSUME TypeInv, ProvenanceInv, NEW p \in Procs, Start(p)
  PROVE  ProvenanceInv'
  <1>1. ASSUME NEW w, w.pc \notin {"put", "charge", "upsert"}, w.buf = Blank, Proceed(p, w)
        PROVE  ProvenanceInv'
    BY <1>1, BlankBacked, ProceedBacked DEF BackedProc
  <1>2. CASE StartRunPending(p)
    <2>1. PICK s \in Services : Proceed(p, [Idle EXCEPT !.pc = "pending", !.svc = s])
      BY <1>2 DEF StartRunPending
    <2> QED BY <1>1, <2>1 DEF Idle
  <1>3. CASE StartProcessDocument(p)
    <2>1. PICK s \in Services, d \in Docs, r \in Requests :
            Proceed(p, [Idle EXCEPT !.pc = "lookup", !.svc = s, !.doc = d,
                                    !.req = r, !.thenRun = TRUE])
      BY <1>3 DEF StartProcessDocument
    <2> QED BY <1>1, <2>1 DEF Idle
  <1>4. CASE StartEnqueue(p)
    <2>1. PICK d \in Docs, r \in Requests :
            Proceed(p, [Idle EXCEPT !.pc = "lookup", !.doc = d, !.req = r])
      BY <1>4 DEF StartEnqueue
    <2> QED BY <1>1, <2>1 DEF Idle
  <1>5. CASE StartRqTask(p)
    <2>1. PICK s \in Services, j \in Jobs :
            Proceed(p, [Idle EXCEPT !.pc = "next", !.svc = s, !.todo = {j}])
      BY <1>5 DEF StartRqTask
    <2> QED BY <1>1, <2>1 DEF Idle
  <1>6. CASE StartIngest(p)
    <2>1. PICK d \in Docs, v \in Versions :
            Proceed(p, [Idle EXCEPT !.pc = "record", !.doc = d, !.version = v])
      BY <1>6 DEF StartIngest
    <2> QED BY <1>1, <2>1 DEF Idle
  <1>7. CASE StartOntology(p)
    BY <1>1, <1>7 DEF StartOntology, Idle
  <1> QED
    BY <1>2, <1>3, <1>4, <1>5, <1>6, <1>7 DEF Start

LEMMA ReadBacked ==
  ASSUME TypeInv, ProvenanceInv, NEW p \in Procs,
         Lookup(p) \/ ListPending(p) \/ GetJob(p) \/ GetDocument(p) \/ CacheGet(p)
  PROVE  ProvenanceInv'
  <1>0. /\ proc[p] \in ProcState /\ BackedProc(proc[p], PaidOps) /\ Backed(disk, PaidOps)
        /\ Backed(proc[p].buf, PaidOps)
    BY DEF TypeInv, TypeOK, ProvenanceInv, BackedProc
  <1>1. CASE Lookup(p)
    <2> DEFINE v == disk.docs[proc[p].doc]
               w == [proc[p] EXCEPT !.pc = "enqueue", !.version = v]
    <2>1. Proceed(p, IF v = None THEN Idle ELSE w)
      BY <1>1 DEF Lookup
    <2>2. w.pc = "enqueue" /\ w.buf = proc[p].buf
      BY <1>0 DEF ProcState
    <2> HIDE DEF w
    <2>3. BackedProc(w, PaidOps)
      BY <1>0, <2>2 DEF BackedProc
    <2> QED BY <2>1, <2>3, IdleBacked, ProceedBacked
  <1>2. CASE ListPending(p)
    BY <1>2, ResumeBacked, ProceedBacked DEF ListPending
  <1>3. CASE GetJob(p)
    <2>1. PICK j \in proc[p].todo :
            Proceed(p, IF Runnable(disk.jobs, j)
                  THEN [proc[p] EXCEPT !.pc = "RUNNING", !.job = j, !.todo = @ \ {j}]
                  ELSE Resume(proc[p], proc[p].todo \ {j}))
      BY <1>3 DEF GetJob
    <2> DEFINE w == [proc[p] EXCEPT !.pc = "RUNNING", !.job = j, !.todo = @ \ {j}]
    <2>2. w.pc = "RUNNING" /\ w.buf = proc[p].buf
      BY <1>0 DEF ProcState
    <2>3. Proceed(p, IF Runnable(disk.jobs, j) THEN w
                     ELSE Resume(proc[p], proc[p].todo \ {j}))
      BY <2>1
    <2> HIDE DEF w
    <2>4. BackedProc(w, PaidOps)
      BY <1>0, <2>2 DEF BackedProc
    <2> QED BY <2>3, <2>4, ResumeBacked, ProceedBacked
  <1>4. CASE GetDocument(p)
    <2> DEFINE v == disk.docs[proc[p].job.doc]
               chunks == ChunksOf(proc[p].job.doc, v)
    <2>1. Proceed(p, IF v = None THEN [proc[p] EXCEPT !.pc = "FAILED"]
                     ELSE Iterate(proc[p], chunks))
      BY <1>4 DEF GetDocument
    <2>2. BackedProc([proc[p] EXCEPT !.pc = "FAILED"], PaidOps)
      BY <1>0, RelabelBacked, LabelSet
    <2>3. BackedProc(Iterate(proc[p], chunks), PaidOps)
      BY <1>0, IterateBacked
    <2> QED BY <2>1, <2>2, <2>3, ProceedBacked
  <1>5. CASE CacheGet(p)
    <2>1. PICK c \in proc[p].chunks :
            LET w == [proc[p] EXCEPT !.chunk = c] IN
            Proceed(p, [w EXCEPT !.pc = IF OpOf(w) \in disk.cache THEN "upsert"
                                        ELSE "provider"])
      BY <1>5 DEF CacheGet
    <2> DEFINE w == [proc[p] EXCEPT !.chunk = c]
               pc == IF OpOf(w) \in disk.cache THEN "upsert" ELSE "provider"
               x == [w EXCEPT !.pc = pc]
    <2>2. c \in Chunks
      BY <1>0, <1>5, ProcFields
    <2>3. w \in ProcState /\ w.buf = proc[p].buf
      BY <1>0, <2>2 DEF ProcState
    <2>4. Proceed(p, x)
      BY <2>1
    <2> HIDE DEF w
    <2>5. pc \in Labels
      BY LabelSet
    <2>6. x.pc = pc /\ x.svc = w.svc /\ x.chunk = w.chunk /\ x.buf = w.buf
      BY <2>3, <2>5, Relabel
    <2>7. pc \in {"put", "charge", "upsert"} => OpOf(w) \in PaidOps
      BY <1>0 DEF Backed
    <2> HIDE DEF x, pc
    <2>8. BackedProc(x, PaidOps)
      BY <1>0, <2>3, <2>6, <2>7 DEF BackedProc, OpOf
    <2> QED BY <2>4, <2>8, ProceedBacked
  <1> QED
    BY <1>1, <1>2, <1>3, <1>4, <1>5

LEMMA LoadBacked ==
  ASSUME TypeInv, ProvenanceInv, NEW p \in Procs,
         \/ LoadToMark(p) \/ LoadToEnqueue(p) \/ LoadToPut(p) \/ LoadToCharge(p)
         \/ LoadToUpsert(p) \/ LoadToRecord(p) \/ LoadToOntology(p)
  PROVE  ProvenanceInv'
  <1>0. /\ proc[p] \in WellFormed /\ BackedProc(proc[p], PaidOps)
        /\ disk.cache \subseteq PaidOps /\ disk.costs \subseteq PaidOps
        /\ \A k \in disk.embs : OpOfKey(k) \in PaidOps
    BY DEF TypeInv, ProvenanceInv, Backed
  <1>a. BackedProc(After(proc[p]), PaidOps)
    BY <1>0, AfterBacked
  <1>b. ASSUME NEW jobs PROVE Backed([Blank EXCEPT !.jobs = jobs], PaidOps)
    BY DEF Blank, Backed
  <1>c. ASSUME NEW docs, NEW embs, \A k \in embs : OpOfKey(k) \in PaidOps
        PROVE  Backed([Blank EXCEPT !.docs = docs, !.embs = embs], PaidOps)
    BY <1>c DEF Blank, Backed
  <1>1. CASE LoadToMark(p)
    <2>1. PICK status \in Marks :
            Stage(p, [Blank EXCEPT !.jobs = Marked(disk.jobs, proc[p].job, status)])
      BY <1>1 DEF LoadToMark
    <2> QED BY <2>1, <1>b, StageBacked
  <1>2. CASE LoadToEnqueue(p)
    BY <1>2, <1>a, <1>b, StageBacked, ProceedBacked DEF LoadToEnqueue
  <1>3. CASE LoadToPut(p)
    <2> DEFINE ops == WithOperation(disk.cache, OpOf(proc[p]))
    <2>1. OpOf(proc[p]) \in PaidOps
      BY <1>0, <1>3 DEF LoadToPut, Reads, BackedProc
    <2>2. ops \subseteq PaidOps
      BY <1>0, <2>1 DEF WithOperation
    <2>3. Stage(p, [Blank EXCEPT !.cache = ops])
      BY <1>3 DEF LoadToPut
    <2> HIDE DEF ops
    <2>4. Backed([Blank EXCEPT !.cache = ops], PaidOps)
      BY <2>2 DEF Blank, Backed
    <2> QED BY <2>3, <2>4, StageBacked
  <1>4. CASE LoadToCharge(p)
    <2> DEFINE ops == WithCost(disk.costs, OpOf(proc[p]))
    <2>1. OpOf(proc[p]) \in PaidOps
      BY <1>0, <1>4 DEF LoadToCharge, Reads, BackedProc
    <2>2. ops \subseteq PaidOps
      BY <1>0, <2>1 DEF WithCost
    <2>3. \/ Proceed(p, After(proc[p]))
          \/ Stage(p, [Blank EXCEPT !.costs = ops])
      BY <1>4 DEF LoadToCharge
    <2> HIDE DEF ops
    <2>4. Backed([Blank EXCEPT !.costs = ops], PaidOps)
      BY <2>2 DEF Blank, Backed
    <2> QED BY <1>a, <2>3, <2>4, StageBacked, ProceedBacked
  <1>5. CASE LoadToUpsert(p)
    <2> DEFINE embs == WithEmbedding(disk.embs, KeyOf(proc[p]))
    <2>1. OpOf(proc[p]) \in PaidOps
      BY <1>0, <1>5 DEF LoadToUpsert, Reads, BackedProc
    <2>2. OpOfKey(KeyOf(proc[p])) = OpOf(proc[p])
      BY DEF OpOfKey, KeyOf, OpOf
    <2>3. \A k \in embs : OpOfKey(k) \in PaidOps
      BY <1>0, <2>1, <2>2 DEF WithEmbedding
    <2>4. Stage(p, [Blank EXCEPT !.docs = disk.docs, !.embs = embs])
      BY <1>5 DEF LoadToUpsert
    <2> QED BY <1>c, <2>3, <2>4, StageBacked
  <1>6. CASE LoadToRecord(p)
    BY <1>0, <1>6, <1>c, StageBacked DEF LoadToRecord
  <1>7. CASE LoadToOntology(p)
    BY <1>0, <1>7, <1>c, StageBacked DEF LoadToOntology
  <1> QED
    BY <1>1, <1>2, <1>3, <1>4, <1>5, <1>6, <1>7

\* A completed call pays for its operation, and nothing is ever unpaid.
LEMMA CallPays ==
  ASSUME TypeInv, NEW p \in Procs, CallProvider(p)
  PROVE  PaidOps \subseteq PaidOps' /\ OpOf(proc[p]) \in PaidOps'
  <1>1. calls \in [Ops -> 0 .. MaxCalls] /\ MaxCalls \in Nat \ {0}
    BY ConstantsAssumption DEF TypeInv, TypeOK
  <1>2. OpOf(proc[p]) \in Ops
    BY InChunkOps DEF CallProvider, TypeInv, InChunk
  <1>3. calls' = [calls EXCEPT ![OpOf(proc[p])] = IF @ < MaxCalls THEN @ + 1 ELSE @]
    BY DEF CallProvider
  <1>4. \A o \in Ops : calls[o] \in Nat /\ (calls[o] > 0 => calls'[o] > 0)
    BY <1>1, <1>2, <1>3
  <1>5. calls'[OpOf(proc[p])] > 0
    BY <1>1, <1>2, <1>3
  <1> QED
    BY <1>2, <1>4, <1>5 DEF PaidOps

LEMMA OtherBacked ==
  ASSUME TypeInv, ProvenanceInv, NEW p \in Procs,
         \/ CallProvider(p) \/ ProviderFails(p) \/ MarkUnknown(p) \/ ReadFails(p)
         \/ Truncate(p) \/ Fill(p) \/ Crash(p)
  PROVE  ProvenanceInv'
  <1>0. /\ proc[p] \in WellFormed /\ proc[p] \in ProcState
        /\ BackedProc(proc[p], PaidOps) /\ Backed(disk, PaidOps)
    BY DEF TypeInv, TypeOK, ProvenanceInv
  <1>1. CASE CallProvider(p)
    <2> DEFINE w == [proc[p] EXCEPT !.pc = "put"]
    <2>1. PaidOps \subseteq PaidOps' /\ OpOf(proc[p]) \in PaidOps'
      BY <1>1, CallPays
    <2>2. w.pc = "put" /\ w.svc = proc[p].svc /\ w.chunk = proc[p].chunk
          /\ w.buf = proc[p].buf
      BY <1>0, Relabel, LabelSet
    <2>3. Goto(p, w) /\ disk' = disk
      BY <1>1 DEF CallProvider, files
    <2> HIDE DEF w
    <2>4. BackedProc(w, PaidOps')
      BY <1>0, <2>1, <2>2, BackedMonotone DEF BackedProc, OpOf
    <2>5. Backed(disk', PaidOps')
      BY <1>0, <2>1, <2>3, BackedMonotone
    <2> QED BY <2>1, <2>3, <2>4, <2>5, GotoBacked
  <1>2. CASE ProviderFails(p) \/ MarkUnknown(p) \/ ReadFails(p)
    BY <1>2, RaiseBacked DEF ProviderFails, MarkUnknown, ReadFails
  <1>3. CASE Truncate(p)
    <2> DEFINE w == [proc[p] EXCEPT !.phase = "fill"]
    <2>1. /\ w.pc = proc[p].pc /\ w.svc = proc[p].svc /\ w.chunk = proc[p].chunk
          /\ w.buf = proc[p].buf
      BY <1>0 DEF ProcState
    <2>2. Goto(p, w) /\ disk' = disk /\ PaidOps' = PaidOps
      BY <1>3 DEF Truncate, history, PaidOps
    <2> HIDE DEF w
    <2>3. BackedProc(w, PaidOps)
      BY <1>0, <2>1 DEF BackedProc, OpOf
    <2> QED BY <1>0, <2>2, <2>3, GotoBacked
  <1>4. CASE Fill(p)
    <2>1. BackedProc(After(proc[p]), PaidOps)
      BY <1>0, AfterBacked
    <2>2. Goto(p, After(proc[p])) /\ PaidOps' = PaidOps
      BY <1>4 DEF Fill, PaidOps
    <2>3. Backed(disk', PaidOps)
      BY <1>0, <1>4 DEF Fill, Backed, BackedProc
    <2> QED BY <2>1, <2>2, <2>3, GotoBacked
  <1>5. CASE Crash(p)
    <2>1. Goto(p, Idle) /\ disk' = disk /\ PaidOps' = PaidOps
      BY <1>5 DEF Crash, files, PaidOps
    <2> QED BY <1>0, <2>1, IdleBacked, GotoBacked
  <1> QED
    BY <1>1, <1>2, <1>3, <1>4, <1>5

LEMMA InitBacked == Init => ProvenanceInv
  BY BlankBacked, IdleBacked DEF Init, ProvenanceInv

LEMMA StepBacked == TypeInv /\ ProvenanceInv /\ [Next]_vars => ProvenanceInv'
  <1> SUFFICES ASSUME TypeInv, ProvenanceInv, [Next]_vars
               PROVE  ProvenanceInv'
    OBVIOUS
  <1>1. ASSUME NEW p \in Procs, Start(p) \/ Work(p) \/ Crash(p)
        PROVE  ProvenanceInv'
    BY <1>1, StartBacked, ReadBacked, LoadBacked, OtherBacked DEF Work
  <1>2. CASE UNCHANGED vars
    BY <1>2 DEF vars, ProvenanceInv, PaidOps
  <1> QED
    BY <1>1, <1>2 DEF Next

\* However many commands run, interleave, crash and overwrite each other, the
\* cache, the ledger and the corpus hold only what a provider call produced.
THEOREM NothingUnpaid == Spec => []Provenance
  <1>1. ProvenanceInv => Provenance
    BY DEF ProvenanceInv, Provenance
  <1> QED
    BY <1>1, InitBacked, StepBacked, TypeCorrect, PTL DEF Spec

-----------------------------------------------------------------------------
(***************************************************************************)
(* A SUCCEEDED mark is never premature.  The inductive invariant follows   *)
(* the claim backwards: from the file to every buffer that may overwrite   *)
(* it, from the buffer to the runner about to mark, and from there to the  *)
(* loop, where each chunk of the version read is still to do or written.   *)
(***************************************************************************)
\* The job is one its runner may embed.
Fits(w) ==
  w.job.req.type = "embed_document" /\ Accepts(w.svc, w.job.req)

\* Every chunk of one version is still to do or has been written.
Covered(w, chunks, keys) ==
  \E v \in Versions : \A k \in KeysOf(w.svc.model, w.job.doc, v) :
    k.chunk \in chunks \/ k \in keys

InLoop == InChunk \cup {"chunk"}

IndexedProc(w, keys) ==
  /\ Completed(w.buf.jobs, keys)
  /\ w.pc = "SUCCEEDED" => Embedded(w.job, keys)
  /\ w.pc \in InLoop \cup {"document"} => Fits(w)
  /\ w.pc \in InLoop => Covered(w, w.chunks, keys)

IndexInv ==
  /\ Completed(disk.jobs, indexed)
  /\ \A p \in Procs : IndexedProc(proc[p], indexed)

LEMMA InLoopSet ==
  InLoop = {"provider", "put", "charge", "upsert", "chunk"}
  BY DEF InLoop, InChunk

LEMMA EmbeddedMonotone ==
  ASSUME NEW j, NEW a, NEW b, a \subseteq b, Embedded(j, a)
  PROVE  Embedded(j, b)
  BY DEF Embedded

LEMMA CompletedMonotone ==
  ASSUME NEW jobs, NEW a, NEW b, a \subseteq b, Completed(jobs, a)
  PROVE  Completed(jobs, b)
  BY EmbeddedMonotone DEF Completed

LEMMA IndexedMonotone ==
  ASSUME NEW w, NEW a, NEW b, a \subseteq b, IndexedProc(w, a)
  PROVE  IndexedProc(w, b)
  <1>1. w.pc \in InLoop => Covered(w, w.chunks, b)
    BY DEF IndexedProc, Covered
  <1> QED
    BY <1>1, EmbeddedMonotone, CompletedMonotone DEF IndexedProc

LEMMA BlankCompleted == ASSUME NEW keys PROVE Completed(Blank.jobs, keys)
  BY DEF Blank, Completed

\* A process outside run_job's try block, with a blank buffer.
LEMMA FreshIndexed ==
  ASSUME NEW w, NEW keys, w.buf = Blank, w.pc \notin InLoop \cup {"SUCCEEDED", "document"}
  PROVE  IndexedProc(w, keys)
  BY BlankCompleted DEF IndexedProc

LEMMA IdleIndexed == ASSUME NEW keys PROVE IndexedProc(Idle, keys)
  BY FreshIndexed, InLoopSet DEF Idle

LEMMA ResumeIndexed ==
  ASSUME NEW w, NEW todo, NEW keys
  PROVE  IndexedProc(Resume(w, todo), keys)
  <1> DEFINE v == [Idle EXCEPT !.pc = "next", !.svc = w.svc, !.todo = todo]
  <1>1. v.pc = "next" /\ v.buf = Blank
    BY DEF Idle
  <1> HIDE DEF v
  <1>2. IndexedProc(v, keys)
    BY <1>1, FreshIndexed, InLoopSet
  <1> QED
    BY <1>2, IdleIndexed DEF Resume, v

\* A label that claims no more than the one before.
LEMMA RelabelIndexed ==
  ASSUME NEW w \in ProcState, NEW pc \in Labels, NEW keys, IndexedProc(w, keys),
         pc # "SUCCEEDED",
         pc \in InLoop => w.pc \in InLoop,
         pc = "document" => Fits(w)
  PROVE  IndexedProc([w EXCEPT !.pc = pc], keys)
  <1> DEFINE v == [w EXCEPT !.pc = pc]
  <1>1. /\ v.pc = pc /\ v.svc = w.svc /\ v.job = w.job /\ v.chunks = w.chunks
        /\ v.buf = w.buf
    BY Relabel
  <1> HIDE DEF v
  <1>2. IndexedProc(v, keys)
    BY <1>1 DEF IndexedProc, Fits, Covered
  <1> QED BY <1>2 DEF v

LEMMA CoveredEmbedded ==
  ASSUME NEW w \in ProcState, w.job \in Jobs, w.svc \in Services, Fits(w), NEW keys,
         Covered(w, {}, keys)
  PROVE  Embedded(w.job, keys)
  <1>1. PICK v \in Versions : KeysOf(w.svc.model, w.job.doc, v) \subseteq keys
    BY DEF Covered
  <1>2. KeysOf(w.svc.model, w.job.doc, v) \in Coverings[w.job]
    BY DEF Coverings, Fits
  <1> QED
    BY <1>1, <1>2 DEF Embedded

LEMMA IterateIndexed ==
  ASSUME NEW w \in ProcState, w.job \in Jobs, w.svc \in Services, Fits(w), NEW keys,
         NEW chunks, Covered(w, chunks, keys), Completed(w.buf.jobs, keys)
  PROVE  IndexedProc(Iterate(w, chunks), keys)
  <1> DEFINE v == Iterate(w, chunks)
  <1>1. /\ v.pc = IF chunks = {} THEN "SUCCEEDED" ELSE "chunk"
        /\ v.buf = w.buf /\ v.job = w.job /\ v.svc = w.svc /\ v.chunks = chunks
    BY DEF Iterate, ProcState
  <1>2. chunks = {} => Embedded(v.job, keys)
    BY <1>1, CoveredEmbedded
  <1>3. Fits(v) /\ Covered(v, v.chunks, keys)
    BY <1>1 DEF Fits, Covered
  <1> HIDE DEF v
  <1>4. IndexedProc(v, keys)
    BY <1>1, <1>2, <1>3, InLoopSet DEF IndexedProc
  <1> QED BY <1>4 DEF v

LEMMA DispatchIndexed ==
  ASSUME NEW w \in ProcState, w.pc = "RUNNING", NEW keys, IndexedProc(w, keys)
  PROVE  IndexedProc(Dispatch(w), keys)
  <1>1. \A pc \in {"SKIPPED", "FAILED"} : IndexedProc([w EXCEPT !.pc = pc], keys)
    BY RelabelIndexed, LabelSet, InLoopSet
  <1>2. Fits(w) => IndexedProc([w EXCEPT !.pc = "document"], keys)
    BY RelabelIndexed, LabelSet, InLoopSet
  <1> QED
    BY <1>1, <1>2 DEF Dispatch, Fits

\* After a write; after an upsert the key it wrote is among the keys.
LEMMA AfterIndexed ==
  ASSUME NEW v \in WellFormed, NEW keys, IndexedProc(v, keys),
         v.pc = "upsert" => KeyOf(v) \in keys
  PROVE  IndexedProc(After(v), keys)
  <1> DEFINE w == [v EXCEPT !.phase = "load", !.buf = Blank]
  <1>1. /\ w \in WellFormed /\ w.pc = v.pc /\ w.svc = v.svc /\ w.chunk = v.chunk
        /\ w.job = v.job /\ w.chunks = v.chunks /\ w.buf = Blank
    BY DropBuffer
  <1> HIDE DEF w
  <1>2. w \in ProcState /\ IndexedProc(w, keys)
    BY <1>1, BlankCompleted DEF WellFormed, IndexedProc, Fits, Covered
  <1>3. IndexedProc([Idle EXCEPT !.pc = "pending", !.svc = w.svc], keys)
    <2> DEFINE x == [Idle EXCEPT !.pc = "pending", !.svc = w.svc]
    <2>1. x.pc = "pending" /\ x.buf = Blank
      BY DEF Idle
    <2> HIDE DEF x
    <2>2. IndexedProc(x, keys)
      BY <2>1, FreshIndexed, InLoopSet
    <2> QED BY <2>2 DEF x
  <1>4. w.pc = "RUNNING" => IndexedProc(Dispatch(w), keys)
    BY <1>2, DispatchIndexed
  <1>5. IndexedProc(Resume(w, w.todo), keys)
    BY ResumeIndexed
  <1>6. w.pc = "put" => IndexedProc([w EXCEPT !.pc = "charge"], keys)
    BY <1>2, RelabelIndexed, LabelSet, InLoopSet
  <1>7. w.pc = "charge" => IndexedProc([w EXCEPT !.pc = "upsert"], keys)
    BY <1>2, RelabelIndexed, LabelSet, InLoopSet
  <1>8. ASSUME w.pc = "upsert"
        PROVE  IndexedProc(Iterate(w, w.chunks \ {w.chunk}), keys)
    <2>1. Fits(w) /\ Covered(w, w.chunks, keys)
      BY <1>2, <1>8, InLoopSet DEF IndexedProc
    <2>2. PICK u \in Versions : \A k \in KeysOf(w.svc.model, w.job.doc, u) :
            k.chunk \in w.chunks \/ k \in keys
      BY <2>1 DEF Covered
    <2>3. \A k \in KeysOf(w.svc.model, w.job.doc, u) : k.chunk = w.chunk => k \in keys
      BY <1>1, <1>8 DEF KeysOf, KeyOf
    <2>4. Covered(w, w.chunks \ {w.chunk}, keys)
      BY <2>2, <2>3 DEF Covered
    <2>5. w.job \in Jobs /\ w.svc \in Services
      BY <1>1, <1>8, InChunkFields DEF InChunk
    <2> QED BY <1>1, <1>2, <2>1, <2>4, <2>5, BlankCompleted, IterateIndexed
  <1>9. After(v) =
          CASE w.pc = "enqueue" /\ w.thenRun -> [Idle EXCEPT !.pc = "pending", !.svc = w.svc]
            [] w.pc = "RUNNING" -> Dispatch(w)
            [] w.pc \in Settled -> Resume(w, w.todo)
            [] w.pc = "put" -> [w EXCEPT !.pc = "charge"]
            [] w.pc = "charge" -> [w EXCEPT !.pc = "upsert"]
            [] w.pc = "upsert" -> Iterate(w, w.chunks \ {w.chunk})
            [] OTHER -> Idle
    BY DEF After, w
  <1> QED
    BY <1>3, <1>4, <1>5, <1>6, <1>7, <1>8, <1>9, IdleIndexed

\* Process p moves to w, which is indexed; the others hold what they held.
LEMMA GotoIndexed ==
  ASSUME TypeInv, IndexInv, NEW p \in Procs, NEW w, Goto(p, w),
         indexed \subseteq indexed', IndexedProc(w, indexed'),
         Completed(disk'.jobs, indexed')
  PROVE  IndexInv'
  <1>1. proc' = [proc EXCEPT ![p] = w] /\ proc \in [Procs -> WellFormed]
    BY DEF Goto, TypeInv
  <1>2. ASSUME NEW q \in Procs PROVE IndexedProc(proc'[q], indexed')
    <2>1. CASE q = p
      BY <1>1, <2>1
    <2>2. CASE q # p
      <3>1. proc'[q] = proc[q] /\ IndexedProc(proc[q], indexed)
        BY <1>1, <2>2 DEF IndexInv
      <3> QED BY <3>1, IndexedMonotone
    <2> QED BY <2>1, <2>2
  <1> QED
    BY <1>2 DEF IndexInv

LEMMA ProceedIndexed ==
  ASSUME TypeInv, IndexInv, NEW p \in Procs, NEW w, Proceed(p, w), IndexedProc(w, indexed)
  PROVE  IndexInv'
  <1>1. indexed' = indexed /\ disk' = disk /\ Goto(p, w)
    BY DEF Proceed, files, history
  <1> QED
    BY <1>1, GotoIndexed DEF IndexInv

LEMMA RaiseIndexed ==
  ASSUME TypeInv, IndexInv, NEW p \in Procs, Raise(p), UNCHANGED <<files, history>>
  PROVE  IndexInv'
  <1>0. proc[p] \in ProcState /\ IndexedProc(proc[p], indexed)
    BY DEF TypeInv, TypeOK, IndexInv
  <1>1. IndexedProc([proc[p] EXCEPT !.pc = "FAILED"], indexed)
    BY <1>0, RelabelIndexed, LabelSet, InLoopSet
  <1> DEFINE w == IF proc[p].pc \in InTry THEN [proc[p] EXCEPT !.pc = "FAILED"] ELSE Idle
  <1>2. IndexedProc(w, indexed) /\ Proceed(p, w)
    BY <1>1, IdleIndexed DEF Raise, Proceed
  <1> QED
    BY <1>2, ProceedIndexed

LEMMA StageIndexed ==
  ASSUME TypeInv, IndexInv, NEW p \in Procs, NEW content, Stage(p, content),
         Completed(content.jobs, indexed)
  PROVE  IndexInv'
  <1> DEFINE w == [proc[p] EXCEPT !.phase = "truncate", !.buf = content]
  <1>0. proc[p] \in ProcState /\ IndexedProc(proc[p], indexed)
    BY DEF TypeInv, TypeOK, IndexInv
  <1>1. /\ w.buf = content /\ w.pc = proc[p].pc /\ w.svc = proc[p].svc
        /\ w.job = proc[p].job /\ w.chunks = proc[p].chunks
    BY <1>0 DEF ProcState
  <1>2. Proceed(p, w)
    BY DEF Stage, Proceed
  <1> HIDE DEF w
  <1>3. IndexedProc(w, indexed)
    BY <1>0, <1>1 DEF IndexedProc, Fits, Covered
  <1> QED
    BY <1>2, <1>3, ProceedIndexed

LEMMA StartIndexed ==
  ASSUME TypeInv, IndexInv, NEW p \in Procs, Start(p)
  PROVE  IndexInv'
  <1>1. ASSUME NEW w, w.buf = Blank, Proceed(p, w),
               w.pc \notin {"provider", "put", "charge", "upsert", "chunk", "SUCCEEDED",
                            "document"}
        PROVE  IndexInv'
    BY <1>1, FreshIndexed, InLoopSet, ProceedIndexed
  <1>2. CASE StartRunPending(p)
    <2>1. PICK s \in Services : Proceed(p, [Idle EXCEPT !.pc = "pending", !.svc = s])
      BY <1>2 DEF StartRunPending
    <2> QED BY <1>1, <2>1 DEF Idle
  <1>3. CASE StartProcessDocument(p)
    <2>1. PICK s \in Services, d \in Docs, r \in Requests :
            Proceed(p, [Idle EXCEPT !.pc = "lookup", !.svc = s, !.doc = d,
                                    !.req = r, !.thenRun = TRUE])
      BY <1>3 DEF StartProcessDocument
    <2> QED BY <1>1, <2>1 DEF Idle
  <1>4. CASE StartEnqueue(p)
    <2>1. PICK d \in Docs, r \in Requests :
            Proceed(p, [Idle EXCEPT !.pc = "lookup", !.doc = d, !.req = r])
      BY <1>4 DEF StartEnqueue
    <2> QED BY <1>1, <2>1 DEF Idle
  <1>5. CASE StartRqTask(p)
    <2>1. PICK s \in Services, j \in Jobs :
            Proceed(p, [Idle EXCEPT !.pc = "next", !.svc = s, !.todo = {j}])
      BY <1>5 DEF StartRqTask
    <2> QED BY <1>1, <2>1 DEF Idle
  <1>6. CASE StartIngest(p)
    <2>1. PICK d \in Docs, v \in Versions :
            Proceed(p, [Idle EXCEPT !.pc = "record", !.doc = d, !.version = v])
      BY <1>6 DEF StartIngest
    <2> QED BY <1>1, <2>1 DEF Idle
  <1>7. CASE StartOntology(p)
    BY <1>1, <1>7 DEF StartOntology, Idle
  <1> QED
    BY <1>2, <1>3, <1>4, <1>5, <1>6, <1>7 DEF Start

LEMMA ReadIndexed ==
  ASSUME TypeInv, IndexInv, NEW p \in Procs,
         Lookup(p) \/ ListPending(p) \/ GetJob(p) \/ GetDocument(p) \/ CacheGet(p)
  PROVE  IndexInv'
  <1>0. /\ proc[p] \in ProcState /\ IndexedProc(proc[p], indexed)
        /\ Completed(proc[p].buf.jobs, indexed) /\ Equipped(proc[p]) /\ disk \in Disk
    BY DEF TypeInv, TypeOK, IndexInv, IndexedProc, WellFormed
  <1>1. CASE Lookup(p)
    <2> DEFINE v == disk.docs[proc[p].doc]
               w == [proc[p] EXCEPT !.pc = "enqueue", !.version = v]
    <2>1. Proceed(p, IF v = None THEN Idle ELSE w)
      BY <1>1 DEF Lookup
    <2>2. w.pc = "enqueue" /\ w.buf = proc[p].buf
      BY <1>0 DEF ProcState
    <2> HIDE DEF w
    <2>3. IndexedProc(w, indexed)
      BY <1>0, <2>2, InLoopSet DEF IndexedProc
    <2> QED BY <2>1, <2>3, IdleIndexed, ProceedIndexed
  <1>2. CASE ListPending(p)
    BY <1>2, ResumeIndexed, ProceedIndexed DEF ListPending
  <1>3. CASE GetJob(p)
    <2>1. PICK j \in proc[p].todo :
            Proceed(p, IF Runnable(disk.jobs, j)
                  THEN [proc[p] EXCEPT !.pc = "RUNNING", !.job = j, !.todo = @ \ {j}]
                  ELSE Resume(proc[p], proc[p].todo \ {j}))
      BY <1>3 DEF GetJob
    <2> DEFINE w == [proc[p] EXCEPT !.pc = "RUNNING", !.job = j, !.todo = @ \ {j}]
    <2>2. w.pc = "RUNNING" /\ w.buf = proc[p].buf
      BY <1>0 DEF ProcState
    <2>3. Proceed(p, IF Runnable(disk.jobs, j) THEN w
                     ELSE Resume(proc[p], proc[p].todo \ {j}))
      BY <2>1
    <2> HIDE DEF w
    <2>4. IndexedProc(w, indexed)
      BY <1>0, <2>2, InLoopSet DEF IndexedProc
    <2> QED BY <2>3, <2>4, ResumeIndexed, ProceedIndexed
  <1>4. CASE GetDocument(p)
    <2> DEFINE d == proc[p].job.doc
               v == disk.docs[d]
    <2>1. /\ proc[p].pc = "document"
          /\ Proceed(p, IF v = None THEN [proc[p] EXCEPT !.pc = "FAILED"]
                        ELSE Iterate(proc[p], ChunksOf(d, v)))
      BY <1>4 DEF GetDocument, Reads
    <2>2. proc[p].job \in Jobs /\ proc[p].svc \in Services /\ Fits(proc[p])
      BY <1>0, <2>1, InJobSet DEF Equipped, IndexedProc
    <2>3. v \in Versions \cup {None}
      BY <1>0, <2>2 DEF Jobs, Disk
    <2>4. IndexedProc([proc[p] EXCEPT !.pc = "FAILED"], indexed)
      BY <1>0, RelabelIndexed, LabelSet, InLoopSet
    <2>5. ASSUME v # None
          PROVE  IndexedProc(Iterate(proc[p], ChunksOf(d, v)), indexed)
      <3>1. Covered(proc[p], ChunksOf(d, v), indexed)
        BY <2>3, <2>5 DEF Covered, KeysOf
      <3> QED BY <1>0, <2>2, <3>1, IterateIndexed
    <2> QED BY <2>1, <2>4, <2>5, ProceedIndexed
  <1>5. CASE CacheGet(p)
    <2>1. PICK c \in proc[p].chunks :
            LET w == [proc[p] EXCEPT !.chunk = c] IN
            Proceed(p, [w EXCEPT !.pc = IF OpOf(w) \in disk.cache THEN "upsert"
                                        ELSE "provider"])
      BY <1>5 DEF CacheGet
    <2> DEFINE w == [proc[p] EXCEPT !.chunk = c]
               pc == IF OpOf(w) \in disk.cache THEN "upsert" ELSE "provider"
    <2>2. c \in Chunks /\ proc[p].pc = "chunk"
      BY <1>0, <1>5, ProcFields DEF CacheGet, Reads
    <2>3. /\ w \in ProcState /\ w.pc = proc[p].pc /\ w.svc = proc[p].svc
          /\ w.job = proc[p].job /\ w.chunks = proc[p].chunks /\ w.buf = proc[p].buf
      BY <1>0, <2>2 DEF ProcState
    <2>4. Proceed(p, [w EXCEPT !.pc = pc])
      BY <2>1
    <2> HIDE DEF w
    <2>5. IndexedProc(w, indexed)
      BY <1>0, <2>3 DEF IndexedProc, Fits, Covered
    <2>6. pc \in Labels /\ pc \in InLoop /\ pc \notin {"SUCCEEDED", "document"}
      BY LabelSet, InLoopSet
    <2> HIDE DEF pc
    <2>7. IndexedProc([w EXCEPT !.pc = pc], indexed)
      BY <2>2, <2>3, <2>5, <2>6, RelabelIndexed, InLoopSet
    <2> QED BY <2>4, <2>7, ProceedIndexed
  <1> QED
    BY <1>1, <1>2, <1>3, <1>4, <1>5

LEMMA LoadIndexed ==
  ASSUME TypeInv, IndexInv, NEW p \in Procs,
         \/ LoadToMark(p) \/ LoadToEnqueue(p) \/ LoadToPut(p) \/ LoadToCharge(p)
         \/ LoadToUpsert(p) \/ LoadToRecord(p) \/ LoadToOntology(p)
  PROVE  IndexInv'
  <1>0. /\ proc[p] \in WellFormed /\ IndexedProc(proc[p], indexed)
        /\ Completed(disk.jobs, indexed) /\ disk.jobs \in [Jobs -> Statuses]
    BY DEF TypeInv, TypeOK, IndexInv, Disk
  <1>b. ASSUME NEW jobs, Completed(jobs, indexed),
               Stage(p, [Blank EXCEPT !.jobs = jobs])
        PROVE  IndexInv'
    <2>1. [Blank EXCEPT !.jobs = jobs].jobs = jobs
      BY DEF Blank
    <2> QED BY <1>b, <2>1, StageIndexed
  <1>1. CASE LoadToMark(p)
    <2> DEFINE j == proc[p].job
    <2>1. PICK status \in Marks :
            /\ proc[p].pc = status
            /\ Stage(p, [Blank EXCEPT !.jobs = Marked(disk.jobs, j, status)])
      BY <1>1 DEF LoadToMark, Reads
    <2>2. status = "SUCCEEDED" => Embedded(j, indexed)
      BY <1>0, <2>1 DEF IndexedProc
    <2>3. Completed(Marked(disk.jobs, j, status), indexed)
      BY <1>0, <2>2 DEF Completed, Marked
    <2> QED BY <1>b, <2>1, <2>3
  <1>2. CASE LoadToEnqueue(p)
    <2> DEFINE j == TargetJob(proc[p])
    <2>1. Completed(Enqueued(disk.jobs, j), indexed)
      BY <1>0 DEF Completed, Enqueued
    <2>2. ASSUME Proceed(p, After(proc[p])) PROVE IndexInv'
      <3>1. proc[p].pc = "enqueue"
        BY <1>2 DEF LoadToEnqueue, Reads
      <3> QED BY <1>0, <2>2, <3>1, AfterIndexed, ProceedIndexed
    <2>3. \/ Stage(p, [Blank EXCEPT !.jobs = Enqueued(disk.jobs, j)])
          \/ Proceed(p, After(proc[p]))
      BY <1>2 DEF LoadToEnqueue
    <2> QED BY <1>b, <2>1, <2>2, <2>3
  <1>3. CASE LoadToPut(p)
    <2>1. Completed([Blank EXCEPT !.cache = WithOperation(disk.cache, OpOf(proc[p]))].jobs,
                    indexed)
      BY BlankCompleted DEF Blank
    <2> QED BY <1>3, <2>1, StageIndexed DEF LoadToPut
  <1>4. CASE LoadToCharge(p)
    <2> DEFINE content == [Blank EXCEPT !.costs = WithCost(disk.costs, OpOf(proc[p]))]
    <2>1. Completed(content.jobs, indexed)
      BY BlankCompleted DEF Blank
    <2>2. proc[p].pc = "charge" /\ (Proceed(p, After(proc[p])) \/ Stage(p, content))
      BY <1>4 DEF LoadToCharge, Reads
    <2> HIDE DEF content
    <2>3. IndexedProc(After(proc[p]), indexed)
      BY <1>0, <2>2, AfterIndexed
    <2> QED BY <2>1, <2>2, <2>3, StageIndexed, ProceedIndexed
  <1>c. ASSUME NEW docs, NEW embs, Stage(p, [Blank EXCEPT !.docs = docs, !.embs = embs])
        PROVE  IndexInv'
    <2>1. Completed([Blank EXCEPT !.docs = docs, !.embs = embs].jobs, indexed)
      BY BlankCompleted DEF Blank
    <2> QED BY <1>c, <2>1, StageIndexed
  <1>5. CASE LoadToUpsert(p)
    BY <1>5, <1>c DEF LoadToUpsert
  <1>6. CASE LoadToRecord(p)
    BY <1>6, <1>c DEF LoadToRecord
  <1>7. CASE LoadToOntology(p)
    BY <1>7, <1>c DEF LoadToOntology
  <1> QED
    BY <1>1, <1>2, <1>3, <1>4, <1>5, <1>6, <1>7

LEMMA OtherIndexed ==
  ASSUME TypeInv, IndexInv, NEW p \in Procs,
         \/ CallProvider(p) \/ ProviderFails(p) \/ MarkUnknown(p) \/ ReadFails(p)
         \/ Truncate(p) \/ Fill(p) \/ Crash(p)
  PROVE  IndexInv'
  <1>0. /\ proc[p] \in WellFormed /\ proc[p] \in ProcState
        /\ IndexedProc(proc[p], indexed) /\ Completed(disk.jobs, indexed)
    BY DEF TypeInv, TypeOK, IndexInv
  <1>1. CASE CallProvider(p)
    <2>1. /\ proc[p].pc = "provider" /\ Goto(p, [proc[p] EXCEPT !.pc = "put"])
          /\ disk' = disk /\ indexed' = indexed
      BY <1>1 DEF CallProvider, files
    <2>2. IndexedProc([proc[p] EXCEPT !.pc = "put"], indexed)
      BY <1>0, <2>1, RelabelIndexed, LabelSet, InLoopSet
    <2> QED BY <1>0, <2>1, <2>2, GotoIndexed
  <1>2. CASE ProviderFails(p) \/ MarkUnknown(p) \/ ReadFails(p)
    BY <1>2, RaiseIndexed DEF ProviderFails, MarkUnknown, ReadFails
  <1>3. CASE Truncate(p)
    <2> DEFINE w == [proc[p] EXCEPT !.phase = "fill"]
    <2>1. /\ w.pc = proc[p].pc /\ w.svc = proc[p].svc /\ w.job = proc[p].job
          /\ w.chunks = proc[p].chunks /\ w.buf = proc[p].buf
      BY <1>0 DEF ProcState
    <2>2. Goto(p, w) /\ disk' = disk /\ indexed' = indexed
      BY <1>3 DEF Truncate, history
    <2> HIDE DEF w
    <2>3. IndexedProc(w, indexed)
      BY <1>0, <2>1 DEF IndexedProc, Fits, Covered
    <2> QED BY <1>0, <2>2, <2>3, GotoIndexed
  <1>4. CASE Fill(p)
    <2> DEFINE w == proc[p]
    <2>1. /\ indexed \subseteq indexed'
          /\ w.pc = "upsert" => KeyOf(w) \in indexed'
          /\ Goto(p, After(w))
          /\ disk'.jobs = w.buf.jobs \/ disk'.jobs = disk.jobs
      BY <1>4 DEF Fill
    <2>2. IndexedProc(w, indexed')
      BY <1>0, <2>1, IndexedMonotone
    <2>3. IndexedProc(After(w), indexed')
      BY <1>0, <2>1, <2>2, AfterIndexed
    <2>4. Completed(disk'.jobs, indexed')
      BY <1>0, <2>1, <2>2, CompletedMonotone DEF IndexedProc
    <2> QED BY <2>1, <2>3, <2>4, GotoIndexed
  <1>5. CASE Crash(p)
    <2>1. Goto(p, Idle) /\ disk' = disk /\ indexed' = indexed
      BY <1>5 DEF Crash, files
    <2> QED BY <1>0, <2>1, IdleIndexed, GotoIndexed
  <1> QED
    BY <1>1, <1>2, <1>3, <1>4, <1>5

LEMMA InitIndexed == Init => IndexInv
  BY BlankCompleted, IdleIndexed DEF Init, IndexInv

LEMMA StepIndexed == TypeInv /\ IndexInv /\ [Next]_vars => IndexInv'
  <1> SUFFICES ASSUME TypeInv, IndexInv, [Next]_vars
               PROVE  IndexInv'
    OBVIOUS
  <1>1. ASSUME NEW p \in Procs, Start(p) \/ Work(p) \/ Crash(p)
        PROVE  IndexInv'
    BY <1>1, StartIndexed, ReadIndexed, LoadIndexed, OtherIndexed DEF Work
  <1>2. CASE UNCHANGED vars
    BY <1>2 DEF vars, IndexInv
  <1> QED
    BY <1>1, <1>2 DEF Next

\* However many commands run, interleave and crash, a job is SUCCEEDED in the
\* manifest only if every chunk of a version of its document has been written
\* to the corpus with a service that the job accepts.
THEOREM NoPrematureSuccess == Spec => []SucceededWasIndexed
  <1>1. IndexInv => SucceededWasIndexed
    BY DEF IndexInv, SucceededWasIndexed
  <1> QED
    BY <1>1, InitIndexed, StepIndexed, TypeCorrect, PTL DEF Spec
=============================================================================
