-------------------------------- MODULE Vault ---------------------------------
(***************************************************************************)
(* The concepts of the corpus and the Obsidian notes made of it: commands  *)
(* that share manifests/corpus.json, the note files and the ledger of      *)
(* digests by which a changed-only export skips a note.                    *)
(*                                                                         *)
(*   src/src/wzkf/pipeline/local.py, export/obsidian.py, ontology/store.py *)
(*                                                                         *)
(* A document is the version of it that is recorded, and what the          *)
(* extractor reads in that version is a constant.  The corpus file is read *)
(* and written whole; what a reader sees in the middle of a write of it is *)
(* JobRunner's subject.  Note and ledger files are truncated, then filled. *)
(* A digest stands for the body it is the digest of.                       *)
(***************************************************************************)
EXTENDS Naturals

CONSTANTS
  Docs, Versions, Concepts, Names,
  Procs,         \* commands and API calls
  Texts,         \* the documents there are, each in the versions it had
  Mentions,      \* Mentions[d, v]: the concepts extracted from a document
  InsightName,   \* InsightName[d, v]: the file name its title gives
  ConceptName,
  Place,         \* where a document or a concept comes in an export: sorted ids
  None, Empty, Partial,   \* no file, a truncated one, part of a text
  MaxCrashes,    \* bound on the number of commands that are killed
  MaxFaults      \* bound on those and the commands that begin while another runs

Readings == [doc : Docs, version : Versions]
Findings == [concept : Concepts, evidence : SUBSET Readings]
Bodies == Readings \cup Findings
Damaged == {Empty, Partial}

ASSUME ConstantsAssumption ==
  /\ Texts \subseteq Docs \X Versions
  /\ Mentions \in [Texts -> SUBSET Concepts]
  /\ InsightName \in [Texts -> Names]
  /\ ConceptName \in [Concepts -> Names]
  /\ Docs \cap Concepts = {} /\ Place \in [Docs \cup Concepts -> Nat]
  /\ \A S \in SUBSET (Docs \cup Concepts) :
       S # {} => \E x \in S : \A y \in S \ {x} : Place[x] < Place[y]
  /\ None \notin Versions \cup Concepts \cup Bodies \cup Damaged
  /\ Damaged \cap (Bodies \cup [Names -> Bodies \cup {None}]) = {}
  /\ MaxCrashes \in Nat /\ MaxFaults \in Nat

VARIABLES
  corpus,    \* corpus.json: the version of each document, the ontology
  notes,     \* the text of each note file
  ledger,    \* .export-ledger.json: the digest of each note
  proc,      \* what each command is doing
  fresh,     \* history: the documents are as the last export found them
  overlaps,  \* history: number of commands that began while another ran
  crashes    \* history: number of commands killed

vars == <<corpus, notes, ledger, proc, fresh, overlaps, crashes>>
vault == <<notes, ledger>>

Corpora == [docs : [Docs -> Versions \cup {None}], onto : [Concepts -> SUBSET Readings]]
Ledgers == [Names -> Bodies \cup {None}]
Notes == [of : Docs \cup Concepts, name : Names, body : Bodies]
Commands == {"ingest", "embed", "concepts", "concept", "review", "export", "export all"}
Points == {"idle", "load", "check", "rebuild", "write", "reload", "items", "check items",
           "notes", "ledger", "open note", "fill note", "open ledger", "fill ledger", "done"}
Sequels == {"items", "reload", "notes", "done"}   \* of a rebuild of the ontology

NoOntology == [c \in Concepts |-> {}]
NoCorpus == [docs |-> [d \in Docs |-> None], onto |-> NoOntology]
NoLedger == [n \in Names |-> None]
Idle == [pc |-> "idle", cmd |-> "ingest", then |-> "done", want |-> None, file |-> NoCorpus,
         todo |-> {}, book |-> NoLedger, answer |-> {}]

ProcState ==
  [pc : Points, cmd : Commands, then : Sequels, want : Concepts \cup {None}, file : Corpora,
   todo : SUBSET Notes, book : Ledgers, answer : SUBSET Concepts]

TypeOK ==
  /\ corpus \in Corpora
  /\ notes \in [Names -> Bodies \cup {None} \cup Damaged]
  /\ ledger \in Ledgers \cup Damaged
  /\ proc \in [Procs -> ProcState]
  /\ fresh \in BOOLEAN
  /\ crashes \in 0 .. MaxCrashes /\ overlaps \in 0 .. MaxFaults

Init ==
  /\ corpus = NoCorpus
  /\ notes = [n \in Names |-> None]
  /\ ledger = NoLedger
  /\ proc = [p \in Procs |-> Idle]
  /\ fresh = FALSE
  /\ overlaps = 0
  /\ crashes = 0

Become(p, state) == proc' = [proc EXCEPT ![p] = state]
Goto(p, pc) == Become(p, [proc[p] EXCEPT !.pc = pc])

Text(docs, d) == <<d, docs[d]>>
Recorded(docs) == {d \in Docs : docs[d] # None}
Found(onto) == {c \in Concepts : onto[c] # {}}

-----------------------------------------------------------------------------
(* Pure parts: the extraction, the notes of a corpus. *)
Reading(docs, d) == [doc |-> d, version |-> docs[d]]

Ontology(docs) ==
  [c \in Concepts |->
    {Reading(docs, d) : d \in {e \in Recorded(docs) : c \in Mentions[Text(docs, e)]}}]

Insights(docs) ==
  {[of |-> d, name |-> InsightName[Text(docs, d)], body |-> Reading(docs, d)] :
     d \in Recorded(docs)}
ConceptNotes(onto) ==
  {[of |-> c, name |-> ConceptName[c], body |-> [concept |-> c, evidence |-> onto[c]]] :
     c \in Found(onto)}
NotesOf(docs, onto) == Insights(docs) \cup ConceptNotes(onto)

First(todo) == CHOOSE n \in todo : \A m \in todo : Place[n.of] <= Place[m.of]

-----------------------------------------------------------------------------
(* A command begins and returns. *)
CanBegin(p) ==
  /\ proc[p].pc = "idle"
  /\ IF \A q \in Procs : proc[q].pc = "idle" THEN overlaps' = overlaps
     ELSE overlaps + crashes < MaxFaults /\ overlaps' = overlaps + 1

\* _record: the manifest with the document in it is written back.
RecordLoad(p, d, v) ==
  /\ <<d, v>> \in Texts
  /\ CanBegin(p)
  /\ LET file == [docs |-> [corpus.docs EXCEPT ![d] = v], onto |-> corpus.onto] IN
     Become(p, [Idle EXCEPT !.pc = "write", !.file = file])
  /\ UNCHANGED <<corpus, vault, fresh, crashes>>

\* upsert_embedding: the manifest with an embedding in it is written back.
UpsertLoad(p) ==
  /\ CanBegin(p)
  /\ Become(p, [Idle EXCEPT !.pc = "write", !.cmd = "embed", !.file = corpus])
  /\ UNCHANGED <<corpus, vault, fresh, crashes>>

\* GET /concepts, GET /concepts/{id}
Ask(p) ==
  /\ CanBegin(p)
  /\ \/ Become(p, [Idle EXCEPT !.pc = "load", !.cmd = "concepts"])
     \/ \E c \in Concepts :
          Become(p, [Idle EXCEPT !.pc = "load", !.cmd = "concept", !.want = c])
  /\ UNCHANGED <<corpus, vault, fresh, crashes>>

\* ontology review, export obsidian
BeginRebuild(p) ==
  /\ CanBegin(p)
  /\ \/ Become(p, [Idle EXCEPT !.pc = "rebuild", !.cmd = "review", !.then = "items"])
     \/ \E cmd \in {"export", "export all"} :
          Become(p, [Idle EXCEPT !.pc = "rebuild", !.cmd = cmd, !.then = "notes"])
  /\ UNCHANGED <<corpus, vault, fresh, crashes>>

Return(p) ==
  /\ proc[p].pc = "done"
  /\ Become(p, Idle)
  /\ UNCHANGED <<corpus, vault, fresh, overlaps, crashes>>

-----------------------------------------------------------------------------
(* The manifest. *)
RebuildLoad(p) ==
  /\ proc[p].pc = "rebuild"
  /\ Become(p, [proc[p] EXCEPT !.pc = "write",
                     !.file = [docs |-> corpus.docs, onto |-> Ontology(corpus.docs)]])
  /\ UNCHANGED <<corpus, vault, fresh, overlaps, crashes>>

\* What follows a write is the rest of the command; concepts() has its answer.
Continue(p) ==
  Become(p, [proc[p] EXCEPT !.pc = proc[p].then,
                            !.answer = IF proc[p].cmd = "concepts" /\ proc[p].then = "items"
                                       THEN Found(proc[p].file.onto) ELSE @])

\* Mutant: the ontology is put into the manifest as it is by then.
WriteMerged(p) ==
  /\ proc[p].pc = "write"
  /\ corpus' = IF proc[p].cmd \in {"ingest", "embed"} THEN proc[p].file
               ELSE [corpus EXCEPT !.onto = proc[p].file.onto]
  /\ fresh' = (fresh /\ corpus'.docs = corpus.docs)
  /\ Continue(p)
  /\ UNCHANGED <<vault, overlaps, crashes>>

\* _write_manifest
WriteManifest(p) ==
  /\ proc[p].pc = "write"
  /\ corpus' = proc[p].file
  /\ fresh' = (fresh /\ proc[p].file.docs = corpus.docs)
  /\ Continue(p)
  /\ UNCHANGED <<vault, overlaps, crashes>>

-----------------------------------------------------------------------------
(* concepts, get_concept, concept_review_items *)

ConceptsLoad(p) ==
  /\ proc[p].pc = "load"
  /\ proc[p].cmd = "concepts"
  /\ Become(p, IF Found(corpus.onto) # {}
               THEN [proc[p] EXCEPT !.pc = "items", !.answer = Found(corpus.onto)]
               ELSE [proc[p] EXCEPT !.pc = "check", !.then = "items"])
  /\ UNCHANGED <<corpus, vault, fresh, overlaps, crashes>>

\* Mutant: a concept that is not in the manifest is not found.
GetConceptAsStored(p) ==
  /\ proc[p].pc = "load"
  /\ proc[p].cmd = "concept"
  /\ Become(p, [proc[p] EXCEPT !.pc = "done", !.answer = Found(corpus.onto) \cap {proc[p].want}])
  /\ UNCHANGED <<corpus, vault, fresh, overlaps, crashes>>

GetConceptLoad(p) ==
  /\ proc[p].pc = "load"
  /\ proc[p].cmd = "concept"
  /\ Become(p, IF proc[p].want \in Found(corpus.onto)
               THEN [proc[p] EXCEPT !.pc = "done", !.answer = {proc[p].want}]
               ELSE [proc[p] EXCEPT !.pc = "check", !.then = "reload"])
  /\ UNCHANGED <<corpus, vault, fresh, overlaps, crashes>>

\* A second load: is there any document?
CheckDocuments(p) ==
  /\ proc[p].pc = "check"
  /\ Goto(p, IF Recorded(corpus.docs) # {} THEN "rebuild"
             ELSE IF proc[p].cmd = "concepts" THEN "items" ELSE "done")
  /\ UNCHANGED <<corpus, vault, fresh, overlaps, crashes>>

GetConceptReload(p) ==
  /\ proc[p].pc = "reload"
  /\ Become(p, [proc[p] EXCEPT !.pc = "done", !.answer = Found(corpus.onto) \cap {proc[p].want}])
  /\ UNCHANGED <<corpus, vault, fresh, overlaps, crashes>>

\* No review item is ever recorded: every concept the extractor names has an alias.
ReviewItemsLoad(p) ==
  /\ proc[p].pc = "items"
  /\ Goto(p, IF Found(corpus.onto) # {} THEN "done" ELSE "check items")
  /\ UNCHANGED <<corpus, vault, fresh, overlaps, crashes>>

ReviewItemsCheck(p) ==
  /\ proc[p].pc = "check items"
  /\ Become(p, [proc[p] EXCEPT !.pc = IF Recorded(corpus.docs) # {} THEN "rebuild" ELSE "done",
                               !.then = "done"])
  /\ UNCHANGED <<corpus, vault, fresh, overlaps, crashes>>

-----------------------------------------------------------------------------
(* export_obsidian, after rebuild_ontology *)

\* What is in a file after a command that truncated it has written its text: the
\* text, or a mixture when another command wrote the file since.
Filled(now, text) == IF now \in {Empty, text} THEN {text} ELSE {text, Partial}

\* The documents are loaded again, the concepts are those of the rebuild.
LoadDocuments(p) ==
  /\ proc[p].pc = "notes"
  /\ LET todo == NotesOf(corpus.docs, proc[p].file.onto) IN
     Become(p, [proc[p] EXCEPT !.pc = IF todo = {} THEN "done" ELSE "ledger", !.todo = todo])
  /\ UNCHANGED <<corpus, vault, fresh, overlaps, crashes>>

Skips(p) ==
  LET note == First(proc[p].todo) IN
  /\ proc[p].cmd = "export"
  /\ notes[note.name] # None
  /\ ledger[note.name] = note.body

\* The next note, or the end of the command.
After(p, todo) ==
  IF todo = {} THEN [Idle EXCEPT !.pc = "done", !.cmd = proc[p].cmd]
  ELSE [proc[p] EXCEPT !.pc = "ledger", !.todo = todo, !.book = NoLedger]
Finishes(p, todo) == fresh' = (IF todo = {} THEN corpus.docs = proc[p].file.docs ELSE fresh)

\* Mutant: a note that exists is skipped.
SkipExisting(p) ==
  LET note == First(proc[p].todo)
      todo == proc[p].todo \ {note}
  IN
  /\ proc[p].pc = "ledger"
  /\ ledger \notin Damaged
  /\ proc[p].cmd = "export" /\ notes[note.name] # None
  /\ Become(p, After(p, todo))
  /\ Finishes(p, todo)
  /\ UNCHANGED <<corpus, vault, overlaps, crashes>>

SkipNote(p) ==
  LET todo == proc[p].todo \ {First(proc[p].todo)} IN
  /\ proc[p].pc = "ledger"
  /\ ledger \notin Damaged
  /\ Skips(p)
  /\ Become(p, After(p, todo))
  /\ Finishes(p, todo)
  /\ UNCHANGED <<corpus, vault, overlaps, crashes>>

\* Mutant: whatever is in the ledger is taken for one.
LoadAnything(p) ==
  /\ proc[p].pc = "ledger"
  /\ ledger \in Damaged \/ ~ Skips(p)
  /\ Become(p, [proc[p] EXCEPT !.pc = "open note", !.book = ledger])
  /\ UNCHANGED <<corpus, vault, fresh, overlaps, crashes>>

LoadLedger(p) ==
  /\ proc[p].pc = "ledger"
  /\ ledger \notin Damaged
  /\ ~ Skips(p)
  /\ Become(p, [proc[p] EXCEPT !.pc = "open note", !.book = ledger])
  /\ UNCHANGED <<corpus, vault, fresh, overlaps, crashes>>

\* The ledger is not JSON: the export raises.
LedgerUnreadable(p) ==
  /\ proc[p].pc = "ledger"
  /\ ledger \in Damaged
  /\ Become(p, Idle)
  /\ UNCHANGED <<corpus, vault, fresh, overlaps, crashes>>

OpenNote(p) ==
  /\ proc[p].pc = "open note"
  /\ notes' = [notes EXCEPT ![First(proc[p].todo).name] = Empty]
  /\ Goto(p, "fill note")
  /\ UNCHANGED <<corpus, ledger, fresh, overlaps, crashes>>

FillNote(p) ==
  LET note == First(proc[p].todo) IN
  /\ proc[p].pc = "fill note"
  /\ \E text \in Filled(notes[note.name], note.body) :
       notes' = [notes EXCEPT ![note.name] = text]
  /\ Goto(p, "open ledger")
  /\ UNCHANGED <<corpus, ledger, fresh, overlaps, crashes>>

OpenLedger(p) ==
  /\ proc[p].pc = "open ledger"
  /\ ledger' = Empty
  /\ Goto(p, "fill ledger")
  /\ UNCHANGED <<corpus, notes, fresh, overlaps, crashes>>

\* Mutant: a digest that the ledger has is left as it is.
FillLedgerOnce(p) ==
  LET note == First(proc[p].todo)
      todo == proc[p].todo \ {note}
  IN
  /\ proc[p].pc = "fill ledger"
  /\ ledger' \in Filled(ledger, [proc[p].book EXCEPT ![note.name] =
                                   IF @ = None THEN note.body ELSE @])
  /\ Become(p, After(p, todo))
  /\ Finishes(p, todo)
  /\ UNCHANGED <<corpus, notes, overlaps, crashes>>

\* Mutant: the ledger is written with this note's digest only.
FillLedgerAnew(p) ==
  LET note == First(proc[p].todo)
      todo == proc[p].todo \ {note}
  IN
  /\ proc[p].pc = "fill ledger"
  /\ ledger' \in Filled(ledger, [NoLedger EXCEPT ![note.name] = note.body])
  /\ Become(p, After(p, todo))
  /\ Finishes(p, todo)
  /\ UNCHANGED <<corpus, notes, overlaps, crashes>>

FillLedger(p) ==
  LET note == First(proc[p].todo)
      todo == proc[p].todo \ {note}
  IN
  /\ proc[p].pc = "fill ledger"
  /\ ledger' \in Filled(ledger, [proc[p].book EXCEPT ![note.name] = note.body])
  /\ Become(p, After(p, todo))
  /\ Finishes(p, todo)
  /\ UNCHANGED <<corpus, notes, overlaps, crashes>>

\* A command is killed; a file it was filling may have got part of the text.
Crash(p) ==
  /\ crashes < MaxCrashes /\ overlaps + crashes < MaxFaults
  /\ proc[p].pc # "idle"
  /\ crashes' = crashes + 1
  /\ Become(p, Idle)
  /\ notes' \in {notes} \cup
       (IF proc[p].pc = "fill note"
        THEN {[notes EXCEPT ![First(proc[p].todo).name] = Partial]} ELSE {})
  /\ ledger' \in {ledger} \cup (IF proc[p].pc = "fill ledger" THEN {Partial} ELSE {})
  /\ UNCHANGED <<corpus, fresh, overlaps>>

-----------------------------------------------------------------------------
Begin(p) ==
  \/ \E d \in Docs, v \in Versions : RecordLoad(p, d, v)
  \/ UpsertLoad(p) \/ Ask(p) \/ BeginRebuild(p)
Answer(p) ==
  ConceptsLoad(p) \/ GetConceptLoad(p) \/ CheckDocuments(p) \/ GetConceptReload(p)
    \/ ReviewItemsLoad(p) \/ ReviewItemsCheck(p)
Export(p) ==
  LoadDocuments(p) \/ SkipNote(p) \/ LoadLedger(p) \/ LedgerUnreadable(p) \/ OpenNote(p)
    \/ FillNote(p) \/ OpenLedger(p) \/ FillLedger(p)

Next ==
  \E p \in Procs :
    Begin(p) \/ Return(p) \/ RebuildLoad(p) \/ WriteManifest(p) \/ Answer(p) \/ Export(p)
      \/ Crash(p)

Spec == Init /\ [][Next]_vars

-----------------------------------------------------------------------------
(***************************************************************************)
(* Properties.                                                             *)
(***************************************************************************)
\* The ontology in the manifest names no document the manifest has not, however
\* commands overlap and lose each other's writes (rebuild_ontology 117-134,
\* _record 208-216: each writes back the whole file it loaded).
OntologyWithinCorpus ==
  \A c \in Concepts : \A r \in corpus.onto[c] : corpus.docs[r.doc] # None

\* If commands run one at a time, GET /concepts answers nothing, and
\* GET /concepts/{id} answers 404, only when no recorded document mentions the
\* concept, although neither looks at the documents when the manifest has an
\* answer (concepts 136-140, get_concept 149-155).
MissingIsUnmentioned ==
  \A p \in Procs : overlaps = 0 /\ proc[p].pc = "done" /\ proc[p].answer = {} =>
    LET docs == corpus.docs IN
    \A d \in Recorded(docs) :
      /\ proc[p].cmd = "concepts" => Mentions[Text(docs, d)] = {}
      /\ proc[p].cmd = "concept" => proc[p].want \notin Mentions[Text(docs, d)]

\* A digest in the ledger is that of the note on disk, except of the note that
\* is being written, if commands run one at a time and none is killed
\* (_export_note 48-58): what a changed-only export skips is already there.
Writing(n) ==
  \E p \in Procs : /\ proc[p].pc \in {"fill note", "open ledger"}
                   /\ First(proc[p].todo).name = n
LedgerTrue ==
  overlaps = 0 /\ crashes = 0 /\ ledger \notin Damaged =>
    \A n \in Names : ledger[n] # None => notes[n] = ledger[n] \/ Writing(n)

\* When an export returns, the vault says what the corpus says: each note has
\* the text of the last document or concept of its name.  A forced export makes
\* it so whatever earlier commands that were killed left behind
\* (export_obsidian 157-206), if commands run one at a time.
VaultCurrent ==
  \A p \in Procs :
    /\ overlaps = 0
    /\ proc[p].pc = "done"
    /\ proc[p].cmd = "export all" \/ (proc[p].cmd = "export" /\ crashes = 0)
    => LET all == NotesOf(corpus.docs, corpus.onto) IN
       \A n \in all :
         (\A m \in all : m.name = n.name => Place[m.of] <= Place[n.of])
           => notes[n.name] = n.body

\* A changed-only export of documents that were already exported writes only
\* notes whose name is that of two (_export_note 53; test_obsidian_export.py
\* has it for documents with different titles).
Shared(n) ==
  LET all == NotesOf(corpus.docs, corpus.onto) IN
  \E x, y \in all : x # y /\ x.name = n /\ y.name = n
RewritesOnlyShared ==
  [][\A p \in Procs : \A n \in Names :
       /\ overlaps = 0 /\ crashes = 0 /\ fresh
       /\ proc[p].cmd = "export"
       /\ proc[p].pc = "open note" /\ notes'[n] # notes[n]
       => Shared(n)]_vars
=============================================================================
