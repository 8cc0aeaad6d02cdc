------------------------------- MODULE Ingest -------------------------------
(***************************************************************************)
(* `wzkf ingest academic`: fetch the records of a query through the        *)
(* response cache, put the raw and the canonical artifact of each record,  *)
(* and record its document in the corpus, where records of one work from   *)
(* several providers are merged.                                           *)
(*                                                                         *)
(*   src/src/wzkf/harvesters/academic_metadata.py, cli.py                  *)
(*   src/src/wzkf/ingest/fixture_ingestor.py, storage/, pipeline/local.py  *)
(*                                                                         *)
(* A file that is created is empty, or partly written, until it is filled; *)
(* the cache and the corpus are loaded in one step and written in another. *)
(* That the JSON files are torn meanwhile is JobRunner's subject.          *)
(***************************************************************************)
EXTENDS Naturals, Sequences, FiniteSets

CONSTANTS
  Procs,       \* commands that may run at once
  Queries,     \* keys of the response cache: provider, request and config
  Records,     \* what a provider says of a work
  Work,        \* Work[r]: the dedupe key of r, which gives its document id
  Origin,      \* Origin[r]: the provider and external id of r
  Answers,     \* Answers[q]: the sequences of records the provider may answer
  Bad,         \* a response that does not parse
  None,
  MaxCalls,    \* bound, without and with overlaps: where calls stops counting
  MaxCrashes   \* bound, without and with overlaps, on the number of crashes

Works == {Work[r] : r \in Records}
Bodies == Seq(Records) \cup {Bad}
Stores == {"raw", "canonical"}
\* content: the record whose text was chunked; sources: provider_sources;
\* merged: the records in providers, source_urls and pdf_urls.
Document == [content : Records, sources : SUBSET Records, merged : SUBSET Records]

ASSUME ConstantsAssumption ==
  /\ Records \subseteq DOMAIN Work
  /\ Records \subseteq DOMAIN Origin
  /\ Answers \in [Queries -> SUBSET Bodies]
  /\ None \notin Bodies
  /\ None \notin Document
  /\ Bad \notin Seq(Records)
  /\ MaxCalls \in [BOOLEAN -> Nat]    \* for each value of alone
  /\ MaxCrashes \in [BOOLEAN -> Nat]

Corpus == [Works -> Document \cup {None}]
Responses == [Queries -> Bodies \cup {None}]

VARIABLES
  alone,       \* whether commands are run one after the other, chosen for good
  responses,   \* academic-api-responses.json
  file,        \* the artifact of each record in each store
  docs,        \* corpus.json
  proc,        \* the command each process runs
  calls,       \* history: answers received to each query
  finished,    \* history: records of the commands that ended well
  crashes

vars == <<alone, responses, file, docs, proc, calls, finished, crashes>>
disk == <<responses, file, docs>>
history == <<alone, calls, finished, crashes>>

Labels == {"idle", "get", "call", "put", "keep", "parse", "check", "open", "fill",
           "load", "save"}
ProcState == [pc : Labels, query : Queries \cup {None}, body : Bodies \cup {None},
              cache : Responses, rest : Seq(Records), store : Stores, buf : Corpus]
NoDocs == [w \in Works |-> None]
NoResponses == [q \in Queries |-> None]
Idle == [pc |-> "idle", query |-> None, body |-> None, cache |-> NoResponses,
         rest |-> << >>, store |-> "raw", buf |-> NoDocs]

TypeOK ==
  /\ alone \in BOOLEAN
  /\ responses \in Responses
  /\ file \in [Stores \X Records -> {"absent", "partial", "whole"}]
  /\ docs \in Corpus
  /\ proc \in [Procs -> ProcState]
  /\ calls \in [Queries -> 0 .. MaxCalls[alone]]
  /\ finished \subseteq Records
  /\ crashes \in 0 .. MaxCrashes[alone]

Init ==
  /\ alone \in BOOLEAN
  /\ responses = NoResponses
  /\ file = [a \in Stores \X Records |-> "absent"]
  /\ docs = NoDocs
  /\ proc = [p \in Procs |-> Idle]
  /\ calls = [q \in Queries |-> 0]
  /\ finished = {}
  /\ crashes = 0

-----------------------------------------------------------------------------
(* CachedAcademicMetadataClient._fetch *)

Start(p, q) ==
  /\ \A o \in Procs : (alone \/ o = p) => proc[o].pc = "idle"
  /\ proc' = [proc EXCEPT ![p] = [Idle EXCEPT !.pc = "get", !.query = q]]
  /\ UNCHANGED <<disk, history>>

CacheHit(p) ==
  LET cached == responses[proc[p].query] IN
  /\ proc[p].pc = "get"
  /\ cached # None
  /\ proc' = [proc EXCEPT ![p] = [@ EXCEPT !.pc = "parse", !.body = cached]]
  /\ UNCHANGED <<disk, history>>

\* Mutant: the request is sent whatever the cache holds.
AlwaysMiss(p) ==
  /\ proc[p].pc = "get"
  /\ proc' = [proc EXCEPT ![p].pc = "call"]
  /\ UNCHANGED <<disk, history>>

CacheMiss(p) ==
  /\ proc[p].pc = "get"
  /\ responses[proc[p].query] = None
  /\ proc' = [proc EXCEPT ![p].pc = "call"]
  /\ UNCHANGED <<disk, history>>

Answer(p) ==
  LET q == proc[p].query IN
  /\ proc[p].pc = "call"
  /\ \E body \in Answers[q] :
       proc' = [proc EXCEPT ![p] = [@ EXCEPT !.pc = "put", !.body = body]]
  /\ calls' = [calls EXCEPT ![q] = IF @ < MaxCalls[alone] THEN @ + 1 ELSE @]
  /\ UNCHANGED <<alone, disk, finished, crashes>>

\* The answer goes to the cache as it is, before it is parsed, with whatever
\* else the cache held when it was loaded.
LoadToPut(p) ==
  /\ proc[p].pc = "put"
  /\ proc' = [proc EXCEPT ![p] =
       [@ EXCEPT !.pc = "keep", !.cache = [responses EXCEPT ![proc[p].query] = proc[p].body]]]
  /\ UNCHANGED <<disk, history>>

Keep(p) ==
  /\ proc[p].pc = "keep"
  /\ responses' = proc[p].cache
  /\ proc' = [proc EXCEPT ![p] = [@ EXCEPT !.pc = "parse", !.cache = NoResponses]]
  /\ UNCHANGED <<file, docs, history>>

\* The request fails, or the response does not parse: the command ends.
Raise(p) ==
  /\ proc[p].pc = "call" \/ (proc[p].pc = "parse" /\ proc[p].body = Bad)
  /\ proc' = [proc EXCEPT ![p] = Idle]
  /\ UNCHANGED <<disk, history>>

\* What is left to do for the records in rest.
Continue(p, rest) ==
  proc' = [proc EXCEPT ![p] =
    IF rest = << >> THEN Idle
    ELSE [@ EXCEPT !.pc = "check", !.store = "raw", !.rest = rest, !.buf = NoDocs]]

\* Mutant: a command is taken to have recorded the works, not the records.
FinishWorks(p, rest) ==
  finished' =
    IF rest = << >> THEN finished \cup {Work[proc[p].body[i]] : i \in DOMAIN proc[p].body}
    ELSE finished

Finish(p, rest) ==
  finished' =
    IF rest = << >> THEN finished \cup {proc[p].body[i] : i \in DOMAIN proc[p].body}
    ELSE finished

Parse(p) ==
  /\ proc[p].pc = "parse"
  /\ proc[p].body # Bad
  /\ Continue(p, proc[p].body)
  /\ Finish(p, proc[p].body)
  /\ UNCHANGED <<alone, disk, calls, crashes>>

-----------------------------------------------------------------------------
(* RawStore.put, then CanonicalStore.put_text *)

Artifact(p) == <<proc[p].store, Head(proc[p].rest)>>

\* The step after a store has its artifact.
Stored(p) ==
  proc' = [proc EXCEPT ![p] =
    IF @.store = "raw" THEN [@ EXCEPT !.pc = "check", !.store = "canonical"]
    ELSE [@ EXCEPT !.pc = "load"]]

\* Mutant: an artifact that is there is written again.
CheckNothing(p) ==
  /\ proc[p].pc = "check"
  /\ proc' = [proc EXCEPT ![p].pc = "open"]
  /\ UNCHANGED <<disk, history>>

CheckExists(p) ==
  /\ proc[p].pc = "check"
  /\ IF file[Artifact(p)] = "absent" THEN proc' = [proc EXCEPT ![p].pc = "open"]
     ELSE Stored(p)
  /\ UNCHANGED <<disk, history>>

Open(p) ==
  /\ proc[p].pc = "open"
  /\ file' = [file EXCEPT ![Artifact(p)] = "partial"]
  /\ proc' = [proc EXCEPT ![p].pc = "fill"]
  /\ UNCHANGED <<responses, docs, history>>

Fill(p) ==
  /\ proc[p].pc = "fill"
  /\ file' = [file EXCEPT ![Artifact(p)] = "whole"]
  /\ Stored(p)
  /\ UNCHANGED <<responses, docs, history>>

-----------------------------------------------------------------------------
(* LocalKnowledgeFabric._record *)

\* Mutant: the incoming metadata replace what other providers said.
MergeReplacing(existing, r) ==
  IF existing = None THEN [content |-> r, sources |-> {r}, merged |-> {r}]
  ELSE [existing EXCEPT !.sources = {r}, !.merged = {r}]

\* A known work keeps its content; a later record of one origin replaces the
\* earlier one among its sources.
Merge(existing, r) ==
  IF existing = None THEN [content |-> r, sources |-> {r}, merged |-> {r}]
  ELSE [existing EXCEPT !.sources = {s \in @ : Origin[s] # Origin[r]} \cup {r},
                        !.merged = @ \cup {r}]

Load(p) ==
  LET r == Head(proc[p].rest) IN
  /\ proc[p].pc = "load"
  /\ proc' = [proc EXCEPT ![p] =
       [@ EXCEPT !.pc = "save", !.buf = [docs EXCEPT ![Work[r]] = Merge(@, r)]]]
  /\ UNCHANGED <<disk, history>>

\* Mutant: the loop ends at its first record.
SaveFirst(p) ==
  /\ proc[p].pc = "save"
  /\ docs' = proc[p].buf
  /\ Continue(p, << >>)
  /\ Finish(p, << >>)
  /\ UNCHANGED <<alone, responses, file, calls, crashes>>

Save(p) ==
  /\ proc[p].pc = "save"
  /\ docs' = proc[p].buf
  /\ Continue(p, Tail(proc[p].rest))
  /\ Finish(p, Tail(proc[p].rest))
  /\ UNCHANGED <<alone, responses, file, calls, crashes>>

Crash(p) ==
  /\ crashes < MaxCrashes[alone]
  /\ proc[p].pc # "idle"
  /\ proc' = [proc EXCEPT ![p] = Idle]
  /\ crashes' = crashes + 1
  /\ UNCHANGED <<alone, disk, calls, finished>>

-----------------------------------------------------------------------------
Run(p) ==
  \/ CacheHit(p) \/ CacheMiss(p) \/ Answer(p) \/ LoadToPut(p) \/ Keep(p)
  \/ Raise(p) \/ Parse(p)
  \/ CheckExists(p) \/ Open(p) \/ Fill(p)
  \/ Load(p) \/ Save(p)

Next ==
  \E p \in Procs : Run(p) \/ Crash(p) \/ \E q \in Queries : Start(p, q)

Spec == Init /\ [][Next]_vars

\* A command that was started goes on.
FairSpec == Spec /\ \A p \in Procs : WF_vars(Run(p))

-----------------------------------------------------------------------------
(***************************************************************************)
(* Properties.                                                             *)
(***************************************************************************)
Recorded(r) == docs[Work[r]] # None /\ r \in docs[Work[r]].merged
Whole(r) == \A s \in Stores : file[s, r] = "whole"
Origins(d) == {Origin[r] : r \in d.sources}

\* If commands do not overlap, a document that was recorded stays, and no
\* provider, source URL or PDF URL recorded for it is ever lost, through cache
\* hits, crashes and later records of the same work (_record 208-216 and
\* _merge_metadata; src/README.md:223).
SourcesKept ==
  [][alone => \A w \in Works : docs[w] # None =>
       /\ docs'[w] # None
       /\ Origins(docs[w]) \subseteq Origins(docs'[w])
       /\ docs[w].merged \subseteq docs'[w].merged]_vars

\* If commands do not overlap, a query is answered once however often it is
\* run, and once more for each crash at most (_fetch 122-139).
FetchedOnce == alone => \A q \in Queries : calls[q] <= 1 + crashes

\* If commands do not overlap, one that ends without an error has recorded every
\* record of its response, also if earlier runs of it stopped halfway
\* (ingest_academic 189-196).
FinishedIsRecorded == alone => \A r \in finished : Recorded(r)

\* However commands overlap, if none crashes, a recorded record has its raw and
\* canonical artifact at last with the content their names promise, and for
\* good, even if another command is writing them when it is recorded
\* (docs/INSTITUTIONAL_DUE_DILIGENCE.md:21).
RecordedBecomesWhole ==
  \A r \in Records : Recorded(r) ~> (crashes > 0 \/ [](crashes = 0 => Whole(r)))
=============================================================================
