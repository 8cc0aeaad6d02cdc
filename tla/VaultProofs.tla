---------------------------- MODULE VaultProofs -----------------------------
(***************************************************************************)
(* For any corpus, any concepts and titles and any number of commands: the *)
(* ontology never leaves the corpus; and, of commands that run one at a    *)
(* time, the ledger holds the digests of the notes that are there, an      *)
(* empty answer is a true one, an export that returns leaves the vault as  *)
(* the corpus says, and a second one rewrites only notes of a shared name. *)
(***************************************************************************)
EXTENDS Vault, TLAPS

Exporting == {"ledger", "open note", "fill note", "open ledger", "fill ledger"}

\* Every version recorded is one there is; evidence is of a recorded document.
Known(docs) == \A d \in Docs : docs[d] # None => Text(docs, d) \in Texts
Backed(file) == \A c \in Concepts : \A r \in file.onto[c] : file.docs[r.doc] # None
Sound(file) == file \in Corpora /\ Known(file.docs) /\ Backed(file)

\* What a command holds; in an export's loop there is a note to write.
Fit(state) ==
  /\ state \in ProcState
  /\ Sound(state.file)
  /\ state.pc \in Exporting => state.todo # {}

Files ==
  /\ Sound(corpus)
  /\ notes \in [Names -> Bodies \cup {None} \cup Damaged]
  /\ ledger \in Ledgers \cup Damaged
  /\ fresh \in BOOLEAN
  /\ crashes \in 0 .. MaxCrashes /\ overlaps \in 0 .. MaxFaults

Commanded == proc \in [Procs -> ProcState] /\ \A p \in Procs : Fit(proc[p])
IInv == Files /\ Commanded

-----------------------------------------------------------------------------
(* The pure parts. *)
LEMMA FirstIn ==
  ASSUME NEW todo \in SUBSET Notes, todo # {}
  PROVE  First(todo) \in todo /\ First(todo) \in Notes
<1> DEFINE Of == {n.of : n \in todo}
<1>1. Of \in SUBSET (Docs \cup Concepts) /\ Of # {} BY DEF Notes
<1>2. PICK x \in Of : \A y \in Of \ {x} : Place[x] < Place[y]
  BY <1>1, ConstantsAssumption
<1>3. PICK n \in todo : n.of = x BY <1>2
<1>4. \A m \in todo : Place[n.of] <= Place[m.of]
  <2> SUFFICES ASSUME NEW m \in todo PROVE Place[n.of] <= Place[m.of] OBVIOUS
  <2>1. m.of \in Of /\ n.of \in Of OBVIOUS
  <2>2. Place[m.of] \in Nat /\ Place[n.of] \in Nat BY <2>1, <1>1, ConstantsAssumption
  <2> QED BY <1>2, <1>3, <2>1, <2>2
<1>5. First(todo) \in todo BY <1>3, <1>4 DEF First
<1> QED BY <1>5

LEMMA OntologySound ==
  ASSUME NEW docs \in [Docs -> Versions \cup {None}], Known(docs)
  PROVE  Sound([docs |-> docs, onto |-> Ontology(docs)])
<1> DEFINE of(c) == {e \in Recorded(docs) : c \in Mentions[Text(docs, e)]}
<1>1. \A c \in Concepts : Ontology(docs)[c] = {Reading(docs, d) : d \in of(c)}
  BY DEF Ontology
<1>2. \A d \in Recorded(docs) : Reading(docs, d) \in Readings /\ Reading(docs, d).doc = d
  BY DEF Recorded, Reading, Readings
<1>3. \A c \in Concepts : \A r \in Ontology(docs)[c] : r \in Readings /\ docs[r.doc] # None
  BY <1>1, <1>2 DEF Recorded
<1>4. Ontology(docs) \in [Concepts -> SUBSET Readings]
  <2>1. Ontology(docs) = [c \in Concepts |-> {Reading(docs, d) : d \in of(c)}] BY DEF Ontology
  <2>2. \A c \in Concepts : {Reading(docs, d) : d \in of(c)} \in SUBSET Readings BY <1>2
  <2> QED BY <2>1, <2>2
<1> QED BY <1>3, <1>4 DEF Sound, Corpora, Backed

LEMMA NotesTyped ==
  ASSUME NEW docs \in [Docs -> Versions \cup {None}], Known(docs),
         NEW onto \in [Concepts -> SUBSET Readings]
  PROVE  NotesOf(docs, onto) \in SUBSET Notes
<1>1. \A d \in Recorded(docs) :
        [of |-> d, name |-> InsightName[Text(docs, d)], body |-> Reading(docs, d)] \in Notes
  BY ConstantsAssumption DEF Recorded, Known, Text, Reading, Readings, Notes, Bodies
<1>2. \A c \in Found(onto) :
        [of |-> c, name |-> ConceptName[c], body |-> [concept |-> c, evidence |-> onto[c]]]
          \in Notes
  BY ConstantsAssumption DEF Found, Findings, Notes, Bodies
<1> QED BY <1>1, <1>2 DEF NotesOf, Insights, ConceptNotes

LEMMA IdleFit == Fit(Idle) /\ Sound(NoCorpus) /\ NoLedger \in Ledgers
<1>1. NoOntology \in [Concepts -> SUBSET Readings] BY DEF NoOntology
<1>2. Sound(NoCorpus)
  BY <1>1 DEF NoCorpus, Sound, Corpora, Known, Backed, NoOntology
<1>3. NoLedger \in Ledgers BY DEF NoLedger, Ledgers
<1> QED
  BY <1>2, <1>3 DEF Fit, Idle, ProcState, Points, Sequels, Commands, Exporting, Sound

-----------------------------------------------------------------------------
(* A step gives one command a fit state. *)
LEMMA BecomeFit ==
  ASSUME Commanded, NEW p \in Procs, NEW state, Fit(state), Become(p, state)
  PROVE  Commanded'
  BY DEF Commanded, Become, Fit

\* A command goes on with what it has loaded.
LEMMA MoveFit ==
  ASSUME NEW state, Fit(state), NEW pc \in Points \ Exporting, NEW then \in Sequels,
         NEW answer \in SUBSET Concepts, NEW file, Sound(file)
  PROVE  Fit([state EXCEPT !.pc = pc, !.then = then, !.answer = answer, !.file = file])
<1> DEFINE next == [state EXCEPT !.pc = pc, !.then = then, !.answer = answer, !.file = file]
<1>1. state \in ProcState /\ file \in Corpora BY DEF Fit, Sound
<1>2. next \in ProcState /\ next.pc = pc /\ next.file = file BY <1>1 DEF ProcState
<1> QED BY <1>2 DEF Fit

\* An export goes on with its notes.
LEMMA WorkFit ==
  ASSUME NEW state, Fit(state), NEW pc \in Points, NEW todo \in SUBSET Notes,
         NEW book \in Ledgers, pc \in Exporting => todo # {}
  PROVE  Fit([state EXCEPT !.pc = pc, !.todo = todo, !.book = book])
<1> DEFINE next == [state EXCEPT !.pc = pc, !.todo = todo, !.book = book]
<1>1. state \in ProcState BY DEF Fit
<1>2. next \in ProcState /\ next.pc = pc /\ next.todo = todo /\ next.file = state.file
  BY <1>1 DEF ProcState
<1> QED BY <1>2 DEF Fit

LEMMA AfterFit ==
  ASSUME NEW p \in Procs, Fit(proc[p]), NEW todo \in SUBSET proc[p].todo
  PROVE  Fit(After(p, todo))
<1>1. proc[p].cmd \in Commands /\ todo \in SUBSET Notes BY DEF Fit, ProcState
<1>2. Fit([Idle EXCEPT !.pc = "done", !.cmd = proc[p].cmd])
  BY <1>1, IdleFit DEF Fit, ProcState, Points, Sequels, Exporting, Idle, Sound
<1>3. ASSUME todo # {}
      PROVE  Fit([proc[p] EXCEPT !.pc = "ledger", !.todo = todo, !.book = NoLedger])
  BY <1>1, <1>3, IdleFit DEF Fit, ProcState, Points, Sequels
<1> QED BY <1>2, <1>3 DEF After

LEMMA InvInit == Init => IInv
<1> SUFFICES ASSUME Init PROVE IInv OBVIOUS
<1>1. Idle \in ProcState BY IdleFit DEF Fit
<1>2. Commanded BY <1>1, IdleFit DEF Init, Commanded
<1>3. 0 \in 0 .. MaxCrashes /\ 0 \in 0 .. MaxFaults BY ConstantsAssumption
<1>4. notes \in [Names -> Bodies \cup {None} \cup Damaged] BY DEF Init
<1>5. Files BY IdleFit, <1>3, <1>4 DEF Init, Files
<1> QED BY <1>2, <1>5 DEF IInv

LEMMA InvStep == IInv /\ [Next]_vars => IInv'
<1> SUFFICES ASSUME IInv, [Next]_vars PROVE IInv' OBVIOUS
<1> USE ConstantsAssumption DEF IInv, vault
<1>0. Corpora = [docs : [Docs -> Versions \cup {None}], onto : [Concepts -> SUBSET Readings]]
  BY DEF Corpora
<1>1. CASE UNCHANGED vars
  BY <1>1 DEF vars, Files, Commanded
<1>2. ASSUME NEW p \in Procs, Begin(p) PROVE IInv'
  <2>0. CanBegin(p) BY <1>2 DEF Begin, RecordLoad, UpsertLoad, Ask, BeginRebuild
  <2>1. overlaps' \in 0 .. MaxFaults BY <2>0 DEF CanBegin, Files
  <2>2. Files' BY <1>2, <2>1 DEF Begin, RecordLoad, UpsertLoad, Ask, BeginRebuild, Files
  <2>3. ASSUME NEW d \in Docs, NEW v \in Versions, RecordLoad(p, d, v) PROVE Commanded'
    <3> DEFINE file == [docs |-> [corpus.docs EXCEPT ![d] = v], onto |-> corpus.onto]
    <3>1. corpus.docs \in [Docs -> Versions \cup {None}]
          /\ corpus.onto \in [Concepts -> SUBSET Readings]
      BY DEF Files, Sound, Corpora
    <3>2. file \in Corpora BY <3>1 DEF Corpora
    <3>3. Known(file.docs) /\ Backed(file)
      <4>1. \A e \in Docs : file.docs[e] = IF e = d THEN v ELSE corpus.docs[e] BY <3>1
      <4>2. <<d, v>> \in Texts /\ v # None BY <2>3, ConstantsAssumption DEF RecordLoad
      <4>3. Known(corpus.docs) /\ Backed(corpus) BY DEF Files, Sound
      <4>4. Known(file.docs) BY <4>1, <4>2, <4>3 DEF Known, Text
      <4>5. ASSUME NEW c \in Concepts, NEW r \in file.onto[c] PROVE file.docs[r.doc] # None
        <5>1. r \in Readings /\ corpus.docs[r.doc] # None BY <3>1, <4>3, <4>5 DEF Backed
        <5> QED BY <4>1, <4>2, <5>1 DEF Readings
      <4> QED BY <4>4, <4>5 DEF Backed
    <3>4. Sound(file) BY <3>2, <3>3 DEF Sound
    <3> HIDE DEF file
    <3>5. Fit([Idle EXCEPT !.pc = "write", !.file = file])
      BY <3>4, IdleFit DEF Fit, ProcState, Points, Sequels, Idle, Exporting, Sound
    <3> QED BY <2>3, <3>5, BecomeFit DEF RecordLoad, file
  <2>4. ASSUME UpsertLoad(p) PROVE Commanded'
    <3>1. Fit([Idle EXCEPT !.pc = "write", !.cmd = "embed", !.file = corpus])
      BY IdleFit DEF Files, Fit, ProcState, Points, Sequels, Commands, Idle, Exporting, Sound
    <3> QED BY <2>4, <3>1, BecomeFit DEF UpsertLoad
  <2>5. ASSUME Ask(p) PROVE Commanded'
    <3>1. /\ Fit([Idle EXCEPT !.pc = "load", !.cmd = "concepts"])
          /\ \A c \in Concepts : Fit([Idle EXCEPT !.pc = "load", !.cmd = "concept", !.want = c])
      BY IdleFit DEF Fit, ProcState, Points, Sequels, Commands, Idle, Exporting
    <3> QED BY <2>5, <3>1, BecomeFit DEF Ask
  <2>6. ASSUME BeginRebuild(p) PROVE Commanded'
    <3>1. /\ Fit([Idle EXCEPT !.pc = "rebuild", !.cmd = "review", !.then = "items"])
          /\ \A cmd \in {"export", "export all"} :
               Fit([Idle EXCEPT !.pc = "rebuild", !.cmd = cmd, !.then = "notes"])
      BY IdleFit DEF Fit, ProcState, Points, Sequels, Commands, Idle, Exporting
    <3> QED BY <2>6, <3>1, BecomeFit DEF BeginRebuild
  <2> QED BY <1>2, <2>2, <2>3, <2>4, <2>5, <2>6 DEF Begin
<1>3. ASSUME NEW p \in Procs, Return(p) PROVE IInv'
  <2>1. Commanded' BY <1>3, IdleFit, BecomeFit DEF Return
  <2> QED BY <1>3, <2>1 DEF Return, Files
<1>s. ASSUME NEW p \in Procs
      PROVE  /\ proc[p] \in ProcState /\ Sound(proc[p].file)
             /\ proc[p].then \in Sequels /\ proc[p].answer \in SUBSET Concepts
             /\ Sequels \subseteq Points \ Exporting
             /\ proc[p] = [pc |-> proc[p].pc, cmd |-> proc[p].cmd, then |-> proc[p].then,
                           want |-> proc[p].want, file |-> proc[p].file, todo |-> proc[p].todo,
                           book |-> proc[p].book, answer |-> proc[p].answer]
  BY DEF Commanded, Fit, ProcState, Sequels, Points, Exporting
<1>f. ASSUME NEW p \in Procs
      PROVE  Fit(proc[p]) /\ proc[p].todo \in SUBSET Notes /\ proc[p].book \in Ledgers
  BY DEF Commanded, ProcState
<1>4. ASSUME NEW p \in Procs, RebuildLoad(p) PROVE IInv'
  <2> DEFINE file == [docs |-> corpus.docs, onto |-> Ontology(corpus.docs)]
  <2>1. Sound(file) BY <1>0, OntologySound DEF Files, Sound
  <2> HIDE DEF file
  <2>2. [proc[p] EXCEPT !.pc = "write", !.file = file] =
          [proc[p] EXCEPT !.pc = "write", !.then = proc[p].then, !.answer = proc[p].answer,
                          !.file = file]
    BY <1>s
  <2>3. "write" \in Points \ Exporting BY DEF Points, Exporting
  <2>4. Fit([proc[p] EXCEPT !.pc = "write", !.file = file])
    <3>1. Fit([proc[p] EXCEPT !.pc = "write", !.then = proc[p].then, !.answer = proc[p].answer,
                              !.file = file])
      BY <2>1, <2>3, <1>s, MoveFit DEF Commanded
    <3> QED BY <2>2, <3>1
  <2>5. Commanded' BY <1>4, <2>4, BecomeFit DEF RebuildLoad, file
  <2> QED BY <1>4, <2>5 DEF RebuildLoad, Files
<1>5. ASSUME NEW p \in Procs, WriteManifest(p) PROVE IInv'
  <2>1. PICK answer \in SUBSET Concepts :
          Become(p, [proc[p] EXCEPT !.pc = proc[p].then, !.answer = answer])
    BY <1>5, <1>s DEF WriteManifest, Continue, Found
  <2>2. [proc[p] EXCEPT !.pc = proc[p].then, !.answer = answer] =
          [proc[p] EXCEPT !.pc = proc[p].then, !.then = proc[p].then, !.answer = answer,
                          !.file = proc[p].file]
    BY <1>s
  <2>5. Fit([proc[p] EXCEPT !.pc = proc[p].then, !.answer = answer])
    <3>1. Fit([proc[p] EXCEPT !.pc = proc[p].then, !.then = proc[p].then, !.answer = answer,
                              !.file = proc[p].file])
      BY <1>s, MoveFit DEF Commanded
    <3> QED BY <2>2, <3>1
  <2>3. Commanded' BY <2>1, <2>5, BecomeFit
  <2>4. Files' BY <1>5, <1>s DEF WriteManifest, Files
  <2> QED BY <2>3, <2>4
<1>6. ASSUME NEW p \in Procs, Answer(p) PROVE IInv'
  <2>1. PICK pc \in Points \ Exporting, then \in Sequels, answer \in SUBSET Concepts :
          Become(p, [proc[p] EXCEPT !.pc = pc, !.then = then, !.answer = answer,
                                    !.file = proc[p].file])
    <3> DEFINE Moves(pc, then, answer) ==
                 [proc[p] EXCEPT !.pc = pc, !.then = then, !.answer = answer,
                                 !.file = proc[p].file]
    <3>1. CASE ConceptsLoad(p)
      <4>1. Become(p, Moves("items", proc[p].then, Found(corpus.onto)))
              \/ Become(p, Moves("check", "items", proc[p].answer))
        BY <1>s, <3>1 DEF ConceptsLoad, Become
      <4> QED BY <1>s, <4>1 DEF Found, Points, Exporting, Sequels
    <3>2. CASE GetConceptLoad(p)
      <4>1. \/ /\ proc[p].want \in Found(corpus.onto)
               /\ Become(p, Moves("done", proc[p].then, {proc[p].want}))
            \/ Become(p, Moves("check", "reload", proc[p].answer))
        BY <1>s, <3>2 DEF GetConceptLoad, Become
      <4>2. CASE Become(p, Moves("check", "reload", proc[p].answer))
        BY <1>s, <4>2 DEF Points, Exporting, Sequels
      <4>3. CASE /\ proc[p].want \in Found(corpus.onto)
                 /\ Become(p, Moves("done", proc[p].then, {proc[p].want}))
        <5>1. {proc[p].want} \in SUBSET Concepts BY <4>3 DEF Found
        <5> QED BY <1>s, <4>3, <5>1 DEF Points, Exporting
      <4> QED BY <4>1, <4>2, <4>3
    <3>3. CASE CheckDocuments(p)
      <4>1. \E pc \in {"rebuild", "items", "done"} :
              Become(p, Moves(pc, proc[p].then, proc[p].answer))
        BY ZenonT(60), <1>s, <3>3 DEF CheckDocuments, Goto, Become
      <4> QED BY <1>s, <4>1 DEF Points, Exporting
    <3>4. CASE GetConceptReload(p)
      <4>1. Become(p, Moves("done", proc[p].then, Found(corpus.onto) \cap {proc[p].want}))
        BY <1>s, <3>4 DEF GetConceptReload, Become
      <4> QED BY <1>s, <4>1 DEF Found, Points, Exporting
    <3>5. CASE ReviewItemsLoad(p)
      <4>1. \E pc \in {"done", "check items"} :
              Become(p, Moves(pc, proc[p].then, proc[p].answer))
        BY <1>s, <3>5 DEF ReviewItemsLoad, Goto, Become
      <4> QED BY <1>s, <4>1 DEF Points, Exporting
    <3>6. CASE ReviewItemsCheck(p)
      <4>1. \E pc \in {"rebuild", "done"} : Become(p, Moves(pc, "done", proc[p].answer))
        BY <1>s, <3>6 DEF ReviewItemsCheck, Become
      <4> QED BY <1>s, <4>1 DEF Points, Exporting, Sequels
    <3> QED BY <1>6, <3>1, <3>2, <3>3, <3>4, <3>5, <3>6 DEF Answer
  <2>2. Fit([proc[p] EXCEPT !.pc = pc, !.then = then, !.answer = answer,
                            !.file = proc[p].file])
    BY <1>s, MoveFit DEF Commanded
  <2>3. Commanded' BY <2>1, <2>2, BecomeFit
  <2>4. Files'
    BY <1>6 DEF Answer, ConceptsLoad, GetConceptLoad, CheckDocuments, GetConceptReload,
       ReviewItemsLoad, ReviewItemsCheck, Files
  <2> QED BY <2>3, <2>4
<1>7. ASSUME NEW p \in Procs, Export(p) PROVE IInv'
  <2> DEFINE todo == proc[p].todo
             note == First(todo)
  <2>1. CASE LoadDocuments(p)
    <3> DEFINE plan == NotesOf(corpus.docs, proc[p].file.onto)
               next == [proc[p] EXCEPT !.pc = IF plan = {} THEN "done" ELSE "ledger", !.todo = plan]
    <3>1. plan \in SUBSET Notes
      BY <1>0, <1>s, NotesTyped DEF Files, Sound
    <3> HIDE DEF plan
    <3>4. next = [proc[p] EXCEPT !.pc = IF plan = {} THEN "done" ELSE "ledger",
                                 !.todo = plan, !.book = proc[p].book]
      BY <1>s
    <3>5. Fit([proc[p] EXCEPT !.pc = IF plan = {} THEN "done" ELSE "ledger",
                              !.todo = plan, !.book = proc[p].book])
      BY <1>f, <3>1, WorkFit DEF Points, Exporting
    <3>2. Fit(next) BY <3>4, <3>5
    <3>3. Commanded' BY <2>1, <3>2, BecomeFit DEF LoadDocuments, plan
    <3> QED BY <2>1, <3>3 DEF LoadDocuments, Files
  <2>2. CASE SkipNote(p)
    <3>1. Commanded' BY <2>2, AfterFit, BecomeFit DEF SkipNote, Commanded
    <3>2. Files' BY <2>2 DEF SkipNote, Finishes, Files
    <3> QED BY <3>1, <3>2
  <2>3. CASE LoadLedger(p)
    <3>1. ledger \in Ledgers BY <2>3 DEF LoadLedger, Files
    <3>2. todo # {} BY <2>3 DEF LoadLedger, Commanded, Fit, Exporting
    <3>5. [proc[p] EXCEPT !.pc = "open note", !.book = ledger] =
            [proc[p] EXCEPT !.pc = "open note", !.todo = todo, !.book = ledger]
      BY <1>s
    <3>6. Fit([proc[p] EXCEPT !.pc = "open note", !.todo = todo, !.book = ledger])
      BY <1>f, <3>1, <3>2, WorkFit DEF Points
    <3>3. Fit([proc[p] EXCEPT !.pc = "open note", !.book = ledger]) BY <3>5, <3>6
    <3>4. Commanded' BY <2>3, <3>3, BecomeFit DEF LoadLedger
    <3> QED BY <2>3, <3>4 DEF LoadLedger, Files
  <2>4. CASE LedgerUnreadable(p)
    <3>1. Commanded' BY <2>4, IdleFit, BecomeFit DEF LedgerUnreadable
    <3> QED BY <2>4, <3>1 DEF LedgerUnreadable, Files
  <2>g. ASSUME NEW pc \in Points, todo # {}
        PROVE  /\ Fit([proc[p] EXCEPT !.pc = pc])
               /\ note \in todo /\ note.name \in Names /\ note.body \in Bodies
    <3>1. todo \in SUBSET Notes BY <1>s DEF ProcState
    <3>2. note \in todo /\ note \in Notes BY <3>1, <2>g, FirstIn
    <3>4. [proc[p] EXCEPT !.pc = pc] =
            [proc[p] EXCEPT !.pc = pc, !.todo = todo, !.book = proc[p].book]
      BY <1>s
    <3>5. Fit([proc[p] EXCEPT !.pc = pc, !.todo = todo, !.book = proc[p].book])
      BY <1>f, <2>g, WorkFit
    <3>3. Fit([proc[p] EXCEPT !.pc = pc]) BY <3>4, <3>5
    <3> QED BY <3>2, <3>3 DEF Notes
  <2> HIDE DEF note
  <2>5. CASE OpenNote(p)
    <3>1. todo # {} BY <2>5 DEF OpenNote, Commanded, Fit, Exporting
    <3>2. Commanded' BY <2>5, <2>g, <3>1, BecomeFit DEF OpenNote, Goto, Points
    <3>3. Files' BY <2>5, <2>g, <3>1 DEF OpenNote, Files, Damaged, Points, note
    <3> QED BY <3>2, <3>3
  <2>6. CASE FillNote(p)
    <3>1. todo # {} BY <2>6 DEF FillNote, Commanded, Fit, Exporting
    <3>2. Commanded' BY <2>6, <2>g, <3>1, BecomeFit DEF FillNote, Goto, Points
    <3>3. PICK text \in Filled(notes[note.name], note.body) :
            notes' = [notes EXCEPT ![note.name] = text]
      BY <2>6 DEF FillNote, note
    <3>4. text \in Bodies \cup Damaged
      BY <2>g, <3>1, <3>3 DEF Filled, Damaged, Points
    <3>5. Files' BY <2>6, <3>3, <3>4 DEF FillNote, Files
    <3> QED BY <3>2, <3>5
  <2>7. CASE OpenLedger(p)
    <3>1. todo # {} BY <2>7 DEF OpenLedger, Commanded, Fit, Exporting
    <3>2. Commanded' BY <2>7, <2>g, <3>1, BecomeFit DEF OpenLedger, Goto, Points
    <3>3. Files' BY <2>7 DEF OpenLedger, Files, Damaged
    <3> QED BY <3>2, <3>3
  <2>8. CASE FillLedger(p)
    <3>1. todo # {} BY <2>8 DEF FillLedger, Commanded, Fit, Exporting
    <3>2. [proc[p].book EXCEPT ![note.name] = note.body] \in Ledgers
      BY <1>s, <2>g, <3>1 DEF ProcState, Ledgers, Points
    <3>3. ledger' \in Ledgers \cup Damaged
      BY <2>8, <3>2 DEF FillLedger, Filled, Damaged, note
    <3>4. Commanded' BY <2>8, AfterFit, BecomeFit DEF FillLedger, Commanded
    <3>5. Files' BY <2>8, <3>3 DEF FillLedger, Finishes, Files
    <3> QED BY <3>4, <3>5
  <2> QED BY <1>7, <2>1, <2>2, <2>3, <2>4, <2>5, <2>6, <2>7, <2>8 DEF Export
<1>8. ASSUME NEW p \in Procs, Crash(p) PROVE IInv'
  <2>1. Commanded' BY <1>8, IdleFit, BecomeFit DEF Crash
  <2>2. notes' \in [Names -> Bodies \cup {None} \cup Damaged]
    <3>1. notes' = notes
            \/ notes' = [notes EXCEPT ![First(proc[p].todo).name] = Partial]
      BY <1>8 DEF Crash
    <3> QED BY <3>1 DEF Files, Damaged
  <2>3. ledger' \in Ledgers \cup Damaged BY <1>8 DEF Crash, Files, Damaged
  <2>4. crashes' \in 0 .. MaxCrashes
    <3>1. crashes < MaxCrashes /\ crashes' = crashes + 1 BY <1>8 DEF Crash
    <3> QED BY <3>1 DEF Files
  <2>5. Files' BY <1>8, <2>2, <2>3, <2>4 DEF Crash, Files
  <2> QED BY <2>1, <2>5
<1> QED BY <1>1, <1>2, <1>3, <1>4, <1>5, <1>6, <1>7, <1>8 DEF Next

-----------------------------------------------------------------------------
(* Commands that run one at a time, none killed. *)
One == overlaps = 0 => \A p, q \in Procs : proc[p].pc # "idle" /\ proc[q].pc # "idle" => p = q

Filling == {"open note", "fill note", "open ledger", "fill ledger"}

\* What an export has loaded is still the ledger, what it has written is there.
Loop ==
  \A p \in Procs :
    LET note == First(proc[p].todo)
        pc == proc[p].pc
    IN
    /\ pc \in Filling \ {"fill ledger"} => ledger = proc[p].book
    /\ pc = "fill ledger" => ledger = Empty
    /\ pc = "fill note" => notes[note.name] = Empty
    /\ pc \in {"open ledger", "fill ledger"} => notes[note.name] = note.body
    /\ pc \in Filling => \A n \in Names : proc[p].book[n] # None =>
         notes[n] = proc[p].book[n] \/ (n = note.name /\ pc # "open note")
Torn == ledger \in Damaged => \E p \in Procs : proc[p].pc = "fill ledger"
Digests ==
  ledger \notin Damaged =>
    \A n \in Names : ledger[n] # None => notes[n] = ledger[n] \/ Writing(n)

Books == Loop /\ Torn /\ Digests
Careful == overlaps = 0 /\ crashes = 0 => Books

LEMMA OneInit == Init => One /\ Careful
<1> SUFFICES ASSUME Init PROVE One /\ Careful OBVIOUS
<1>1. \A p \in Procs : proc[p].pc = "idle" BY DEF Init, Idle
<1>2. ledger \in Ledgers /\ \A n \in Names : ledger[n] = None
  BY IdleFit DEF Init, NoLedger
<1>3. ledger \notin Damaged BY <1>2, ConstantsAssumption DEF Ledgers
<1> QED BY <1>1, <1>2, <1>3 DEF One, Careful, Books, Loop, Torn, Digests, Filling

\* A step of one command, and whether others run.
LEMMA StepOf ==
  ASSUME IInv, Next
  PROVE  \E p \in Procs :
           /\ Begin(p) \/ Return(p) \/ RebuildLoad(p) \/ WriteManifest(p) \/ Answer(p)
                \/ Export(p) \/ Crash(p)
           /\ \E state : Become(p, state)
           /\ overlaps' # 0 \/ overlaps = 0
           /\ Begin(p) => overlaps' # 0 \/ \A q \in Procs : proc[q].pc = "idle"
           /\ ~ Begin(p) => proc[p].pc # "idle"
<1>1. PICK p \in Procs :
        Begin(p) \/ Return(p) \/ RebuildLoad(p) \/ WriteManifest(p) \/ Answer(p)
          \/ Export(p) \/ Crash(p)
  BY DEF Next
<1>2. \E state : Become(p, state)
  BY <1>1 DEF Begin, RecordLoad, UpsertLoad, Ask, BeginRebuild, Return, RebuildLoad,
     WriteManifest, Continue, Answer, ConceptsLoad, GetConceptLoad, CheckDocuments,
     GetConceptReload, ReviewItemsLoad, ReviewItemsCheck, Export, LoadDocuments, SkipNote,
     LoadLedger, LedgerUnreadable, OpenNote, FillNote, OpenLedger, FillLedger, Goto, Crash
<1>3. Begin(p) => CanBegin(p)
  BY DEF Begin, RecordLoad, UpsertLoad, Ask, BeginRebuild
<1>4. CanBegin(p) => (overlaps' # 0 \/ overlaps = 0)
                     /\ (overlaps' # 0 \/ \A q \in Procs : proc[q].pc = "idle")
  BY DEF CanBegin, IInv, Files
<1>5. ~ Begin(p) => overlaps' = overlaps /\ proc[p].pc # "idle"
  BY <1>1 DEF Return, RebuildLoad,
     WriteManifest, Continue, Answer, ConceptsLoad, GetConceptLoad, CheckDocuments,
     GetConceptReload, ReviewItemsLoad, ReviewItemsCheck, Export, LoadDocuments, SkipNote,
     LoadLedger, LedgerUnreadable, OpenNote, FillNote, OpenLedger, FillLedger, Crash
<1> QED BY <1>1, <1>2, <1>3, <1>4, <1>5

\* The commands other than the one that steps are idle.
LEMMA OneStep == IInv /\ One /\ [Next]_vars => One'
<1> SUFFICES ASSUME IInv, One, [Next]_vars PROVE One' OBVIOUS
<1>1. CASE UNCHANGED vars BY <1>1 DEF vars, One
<1>2. CASE Next
  <2>1. PICK p \in Procs :
           /\ \E state : Become(p, state)
           /\ overlaps' # 0 \/ overlaps = 0
           /\ Begin(p) => overlaps' # 0 \/ \A q \in Procs : proc[q].pc = "idle"
           /\ ~ Begin(p) => proc[p].pc # "idle"
    BY <1>2, StepOf
  <2>2. \A q \in Procs \ {p} : proc'[q] = proc[q]
    BY <2>1 DEF Become, IInv, Commanded
  <2> QED BY <2>1, <2>2 DEF One
<1> QED BY <1>1, <1>2

\* A step that touches neither the notes nor the ledger.
LEMMA Aside ==
  ASSUME IInv, Books, UNCHANGED vault, NEW p \in Procs,
         \A q \in Procs \ {p} : proc'[q] = proc[q] /\ proc[q].pc = "idle",
         proc[p].pc \notin Filling, proc'[p].pc \notin Filling
  PROVE  Books'
<1>1. Loop' BY DEF Books, Loop, vault, Filling
<1>2. Torn' BY DEF Books, Torn, vault, Filling
<1>3. \A n : ~ Writing(n) BY DEF Writing, Filling
<1>4. Digests' BY <1>3 DEF Books, Digests, vault
<1> QED BY <1>1, <1>2, <1>4 DEF Books

LEMMA AfterPoint ==
  ASSUME NEW p \in Procs, proc[p] \in ProcState, NEW todo
  PROVE  After(p, todo).pc \in {"done", "ledger"}
<1>1. [Idle EXCEPT !.pc = "done", !.cmd = proc[p].cmd].pc = "done" BY DEF Idle
<1>2. [proc[p] EXCEPT !.pc = "ledger", !.todo = todo, !.book = NoLedger].pc = "ledger"
  BY DEF ProcState
<1> QED BY <1>1, <1>2 DEF After

LEMMA CarefulStep == IInv /\ One /\ Careful /\ [Next]_vars => Careful'
<1> SUFFICES ASSUME IInv, One, Careful, [Next]_vars, overlaps' = 0, crashes' = 0 PROVE Books'
  BY DEF Careful
<1>1. CASE UNCHANGED vars
  BY <1>1 DEF vars, Careful, Books, Loop, Torn, Digests, Writing
<1>2. CASE Next
  <2>1. PICK p \in Procs :
           /\ Begin(p) \/ Return(p) \/ RebuildLoad(p) \/ WriteManifest(p) \/ Answer(p)
                \/ Export(p) \/ Crash(p)
           /\ \E state : Become(p, state)
           /\ overlaps = 0
           /\ Begin(p) => \A q \in Procs : proc[q].pc = "idle"
           /\ ~ Begin(p) => proc[p].pc # "idle"
    BY <1>2, StepOf
  <2>2. \A q \in Procs \ {p} : proc'[q] = proc[q] /\ proc[q].pc = "idle"
    BY <2>1 DEF Become, IInv, Commanded, One
  <2>3. ~ Crash(p) /\ crashes = 0
    <3>1. ~ Crash(p)
      <4>1. Crash(p) => crashes' = crashes + 1 BY DEF Crash
      <4> QED BY <4>1 DEF IInv, Files
    <3>2. crashes' = crashes
      BY <2>1, <3>1 DEF Begin, RecordLoad, UpsertLoad, Ask, BeginRebuild, Return, RebuildLoad,
         WriteManifest, Answer, ConceptsLoad, GetConceptLoad, CheckDocuments,
         GetConceptReload, ReviewItemsLoad, ReviewItemsCheck, Export, LoadDocuments, SkipNote,
         LoadLedger, LedgerUnreadable, OpenNote, FillNote, OpenLedger, FillLedger
    <3> QED BY <3>1, <3>2
  <2>4. Books BY <2>1, <2>3 DEF Careful
  <2>t. proc[p] \in ProcState /\ proc \in [Procs -> ProcState] BY DEF IInv, Commanded
  <2> DEFINE note == First(proc[p].todo)
  <2>n. proc[p].pc \in Filling => note.name \in Names /\ note.body \in Bodies
    <3>1. proc[p].pc \in Filling => proc[p].todo # {} /\ proc[p].todo \in SUBSET Notes
      BY <2>t DEF IInv, Commanded, Fit, Exporting, Filling, ProcState
    <3> QED BY <3>1, FirstIn DEF Notes
  <2>5. CASE Begin(p) \/ Return(p) \/ RebuildLoad(p) \/ WriteManifest(p) \/ Answer(p)
              \/ LoadDocuments(p) \/ SkipNote(p) \/ LedgerUnreadable(p)
    <3>1. proc[p].pc \notin Filling
      BY <2>1, <2>5 DEF Filling, Begin, Idle, RecordLoad, UpsertLoad, Ask, BeginRebuild, CanBegin,
         Return, RebuildLoad, WriteManifest, Answer, ConceptsLoad, GetConceptLoad,
         CheckDocuments, GetConceptReload, ReviewItemsLoad, ReviewItemsCheck, LoadDocuments,
         SkipNote, LedgerUnreadable
    <3>2. UNCHANGED vault
      BY <2>1, <2>5 DEF Begin, RecordLoad, UpsertLoad, Ask, BeginRebuild, Return, RebuildLoad,
         WriteManifest, Answer, ConceptsLoad, GetConceptLoad, CheckDocuments,
         GetConceptReload, ReviewItemsLoad, ReviewItemsCheck, LoadDocuments, SkipNote,
         LedgerUnreadable
    <3>4. proc'[p].pc \notin Filling
      <4>1. CASE Begin(p) \/ Return(p) \/ LedgerUnreadable(p)
        <5>1. \A d \in Docs, v \in Versions : RecordLoad(p, d, v) => proc'[p].pc = "write"
          BY <2>t DEF RecordLoad, Become, Idle
        <5>2. UpsertLoad(p) => proc'[p].pc = "write" BY <2>t DEF UpsertLoad, Become, Idle
        <5>3. Ask(p) => proc'[p].pc = "load" BY <2>t DEF Ask, Become, Idle
        <5>4. BeginRebuild(p) => proc'[p].pc = "rebuild"
          BY <2>t DEF BeginRebuild, Become, Idle
        <5>5. Return(p) \/ LedgerUnreadable(p) => proc'[p].pc = "idle"
          BY <2>t DEF Return, LedgerUnreadable, Become, Idle
        <5> QED BY <4>1, <5>1, <5>2, <5>3, <5>4, <5>5 DEF Begin, Filling
      <4>2. CASE RebuildLoad(p) BY <2>t, <4>2 DEF RebuildLoad, Become, ProcState, Filling
      <4>3. CASE WriteManifest(p)
        BY <2>t, <4>3 DEF WriteManifest, Continue, Become, ProcState, Sequels, Filling
      <4>4. CASE Answer(p)
        <5>1. ConceptsLoad(p) => proc'[p].pc \in {"items", "check"}
          BY <2>t DEF ConceptsLoad, Become, ProcState
        <5>2. GetConceptLoad(p) => proc'[p].pc \in {"done", "check"}
          BY <2>t DEF GetConceptLoad, Become, ProcState
        <5>3. CheckDocuments(p) => proc'[p].pc \in {"rebuild", "items", "done"}
          BY <2>t DEF CheckDocuments, Goto, Become, ProcState
        <5>4. GetConceptReload(p) => proc'[p].pc = "done"
          BY <2>t DEF GetConceptReload, Become, ProcState
        <5>5. ReviewItemsLoad(p) => proc'[p].pc \in {"done", "check items"}
          BY <2>t DEF ReviewItemsLoad, Goto, Become, ProcState
        <5>6. ReviewItemsCheck(p) => proc'[p].pc \in {"rebuild", "done"}
          BY ZenonT(60), <2>t DEF ReviewItemsCheck, Become, ProcState
        <5> QED BY <4>4, <5>1, <5>2, <5>3, <5>4, <5>5, <5>6 DEF Answer, Filling
      <4>5. CASE LoadDocuments(p)
        <5>1. proc'[p].pc \in {"done", "ledger"}
          BY <2>t, <4>5 DEF LoadDocuments, Become, ProcState
        <5> QED BY <5>1 DEF Filling
      <4>6. CASE SkipNote(p) BY <2>t, <4>6, AfterPoint DEF SkipNote, Become, Filling
      <4> QED BY <2>5, <4>1, <4>2, <4>3, <4>4, <4>5, <4>6
    <3> QED BY <2>2, <2>4, <3>1, <3>2, <3>4, Aside
  <2>6. CASE LoadLedger(p)
    <3>1. /\ proc'[p].pc = "open note" /\ proc'[p].book = ledger /\ proc'[p].todo = proc[p].todo
          /\ proc[p].pc = "ledger" /\ ledger \notin Damaged /\ UNCHANGED vault
      BY <2>6, <2>t DEF LoadLedger, Become, ProcState
    <3>2. \A n : ~ Writing(n) BY <2>2, <3>1 DEF Writing
    <3>3. \A n \in Names : ledger[n] # None => notes[n] = ledger[n]
      BY <2>4, <3>1, <3>2 DEF Books, Digests
    <3>4. Loop' BY <2>2, <3>1, <3>3 DEF Loop, vault, Filling
    <3>5. Torn' BY <3>1 DEF Torn, vault
    <3>6. Digests' BY <3>1, <3>3 DEF Digests, vault
    <3> QED BY <3>4, <3>5, <3>6 DEF Books
  <2>7. CASE OpenNote(p)
    <3>1. /\ proc'[p].pc = "fill note" /\ proc'[p].book = proc[p].book
          /\ proc'[p].todo = proc[p].todo /\ proc[p].pc = "open note"
          /\ notes' = [notes EXCEPT ![note.name] = Empty] /\ ledger' = ledger
      BY <2>7, <2>t DEF OpenNote, Goto, Become, ProcState
    <3>2. ledger = proc[p].book
          /\ \A n \in Names : proc[p].book[n] # None => notes[n] = proc[p].book[n]
      BY <2>4, <3>1 DEF Books, Loop, Filling
    <3>3. notes'[note.name] = Empty /\ \A n \in Names \ {note.name} : notes'[n] = notes[n]
      BY <2>n, <3>1 DEF IInv, Files, Filling
    <3>8. First(proc'[p].todo) = note BY <3>1
    <3>9. \A n \in Names : proc'[p].book[n] # None =>
            notes'[n] = proc'[p].book[n] \/ n = note.name
      BY <3>1, <3>2, <3>3
    <3>4. Loop'
      <4> HIDE DEF note
      <4> QED BY ZenonT(60), <2>2, <3>1, <3>2, <3>3, <3>8, <3>9 DEF Loop, Filling
    <3>5. Torn' BY <2>2, <2>4, <3>1 DEF Books, Torn
    <3>6. Writing(note.name)' BY <3>1 DEF Writing
    <3>7. Digests' BY <3>1, <3>2, <3>3, <3>6 DEF Digests, Writing
    <3> QED BY <3>4, <3>5, <3>7 DEF Books
  <2>8. CASE FillNote(p)
    <3>1. /\ proc'[p].pc = "open ledger" /\ proc'[p].book = proc[p].book
          /\ proc'[p].todo = proc[p].todo /\ proc[p].pc = "fill note" /\ ledger' = ledger
      BY <2>8, <2>t DEF FillNote, Goto, Become, ProcState
    <3>2. ledger = proc[p].book /\ notes[note.name] = Empty
          /\ \A n \in Names : proc[p].book[n] # None =>
               notes[n] = proc[p].book[n] \/ n = note.name
      BY <2>4, <3>1 DEF Books, Loop, Filling
    <3>3. notes' = [notes EXCEPT ![note.name] = note.body]
      BY <2>8, <3>2 DEF FillNote, Filled
    <3>4. notes'[note.name] = note.body /\ \A n \in Names \ {note.name} : notes'[n] = notes[n]
      BY <2>n, <3>1, <3>3 DEF IInv, Files, Filling
    <3>8. First(proc'[p].todo) = note BY <3>1
    <3>9. \A n \in Names : proc'[p].book[n] # None =>
            notes'[n] = proc'[p].book[n] \/ n = note.name
      BY <3>1, <3>2, <3>4
    <3>5. Loop'
      <4> HIDE DEF note
      <4> QED BY <2>2, <3>1, <3>2, <3>4, <3>8, <3>9 DEF Loop, Filling
    <3>6. Torn' BY <2>2, <2>4, <3>1 DEF Books, Torn
    <3>7. Digests' BY <3>1, <3>2, <3>4 DEF Digests, Writing
    <3> QED BY <3>5, <3>6, <3>7 DEF Books
  <2>9. CASE OpenLedger(p)
    <3>1. /\ proc'[p].pc = "fill ledger" /\ proc'[p].book = proc[p].book
          /\ proc'[p].todo = proc[p].todo /\ proc[p].pc = "open ledger"
          /\ ledger' = Empty /\ notes' = notes
      BY <2>9, <2>t DEF OpenLedger, Goto, Become, ProcState
    <3>2. notes[note.name] = note.body
          /\ \A n \in Names : proc[p].book[n] # None =>
               notes[n] = proc[p].book[n] \/ n = note.name
      BY <2>4, <3>1 DEF Books, Loop, Filling
    <3>3. Loop' BY ZenonT(60), <2>2, <3>1, <3>2 DEF Loop, Filling
    <3>4. Torn' /\ Digests' BY <3>1 DEF Torn, Digests, Damaged
    <3> QED BY <3>3, <3>4 DEF Books
  <2>10. CASE FillLedger(p)
    <3> DEFINE book == [proc[p].book EXCEPT ![note.name] = note.body]
    <3>1. proc[p].pc = "fill ledger" /\ notes' = notes BY <2>10 DEF FillLedger
    <3>2. ledger = Empty /\ notes[note.name] = note.body
          /\ \A n \in Names : proc[p].book[n] # None =>
               notes[n] = proc[p].book[n] \/ n = note.name
      BY <2>4, <3>1 DEF Books, Loop, Filling
    <3>3. ledger' = book BY <2>10, <3>2 DEF FillLedger, Filled
    <3>4. book \in Ledgers /\ book[note.name] = note.body
          /\ \A n \in Names \ {note.name} : book[n] = proc[p].book[n]
      BY <2>n, <2>t, <3>1 DEF ProcState, Ledgers, Filling
    <3> HIDE DEF book
    <3>5. ledger' \notin Damaged BY <3>3, <3>4, ConstantsAssumption DEF Ledgers
    <3>6. Torn' BY <3>5 DEF Torn
    <3>7. Digests' BY <3>1, <3>2, <3>3, <3>4 DEF Digests
    <3>9. proc'[p].pc \notin Filling
      BY <2>t, <2>10, AfterPoint DEF FillLedger, Become, Filling
    <3>10. Loop' BY <2>2, <3>9 DEF Loop, Filling
    <3> QED BY <3>6, <3>7, <3>10 DEF Books
  <2> QED BY <2>1, <2>3, <2>5, <2>6, <2>7, <2>8, <2>9, <2>10 DEF Export
<1> QED BY <1>1, <1>2

-----------------------------------------------------------------------------
(* What commands that run one at a time know and have done, killed or not. *)
Exports == {"export", "export all"}
Rebuilds == {"concepts", "concept", "review"} \cup Exports

\* What a command does after what, whoever else runs.
Sequel(cmd) ==
  CASE cmd = "concept" -> {"reload"}
    [] cmd \in {"concepts", "review"} -> {"items", "done"}
    [] cmd \in Exports -> {"notes"}
    [] OTHER -> {"done"}
Planned(s) ==
  /\ s.pc \in {"load", "check"} => s.cmd \in {"concepts", "concept"}
  /\ s.pc = "check" => s.then # "done"
  /\ s.pc \in {"check", "rebuild", "write"} => s.then \in Sequel(s.cmd)
  /\ s.pc = "reload" => s.cmd = "concept"
  /\ s.pc \in {"items", "check items"} => s.cmd \in {"concepts", "review"}
  /\ s.pc \in {"notes"} \cup Exporting => s.cmd \in Exports
Plans == \A p \in Procs : Planned(proc[p])

\* What the command s knows of the manifest c: what a rebuild makes of it, that
\* the export's documents are still its documents, what an empty answer means.
Rebuilt(docs) == [docs |-> docs, onto |-> Ontology(docs)]
Mentioned(docs) == UNION {Mentions[Text(docs, d)] : d \in Recorded(docs)}
Answered(s) ==
  \/ s.pc \in {"items", "check items", "done"}
  \/ s.pc \in {"rebuild", "write"} /\ s.then = "done"
Knows(s, c) ==
  /\ s.pc = "write" /\ s.cmd \in Rebuilds => s.file = Rebuilt(c.docs)
  /\ s.pc = "reload" => c = Rebuilt(c.docs)
  /\ s.pc \in {"notes"} \cup Exporting => c = Rebuilt(c.docs) /\ s.file = c
  /\ s.cmd = "concepts" /\ s.answer = {} /\ Answered(s) => Mentioned(c.docs) = {}
  /\ s.cmd = "concept" /\ s.answer = {} /\ s.pc = "done" => s.want \notin Mentioned(c.docs)

\* Of the notes an export has done, the last one of each name is on disk: those
\* it has left come later.
All(c) == NotesOf(c.docs, c.onto)
Earlier(done, todo) == \A n \in done, m \in todo : Place[n.of] < Place[m.of]
Last(n, done) == \A m \in done : m.name = n.name => Place[m.of] <= Place[n.of]
Holds(texts, done, but) ==
  \A n \in done : Last(n, done) /\ n.name \notin but => texts[n.name] = n.body

Wrote(s) == IF s.pc \in {"open ledger", "fill ledger"} THEN {First(s.todo)} ELSE {}
Busy(s) == IF s.pc = "fill note" THEN {First(s.todo).name} ELSE {}
Progress(s, c, texts, killed) ==
  /\ s.pc \in Exporting => s.todo \subseteq All(c) /\ Earlier(All(c) \ s.todo, s.todo)
  /\ s.pc = "fill note" => texts[First(s.todo).name] = Empty
  /\ s.cmd = "export all" \/ killed = 0 =>
       /\ s.pc \in Exporting => Holds(texts, (All(c) \ s.todo) \cup Wrote(s), Busy(s))
       /\ s.pc = "done" /\ s.cmd \in Exports => Holds(texts, All(c), {})

\* If none was killed, the ledger has the digests of what the export has done;
\* and while the documents are as the last export found them, the note of a
\* name no other has is on disk, and so a changed-only export skips it.
Book(s, digests) == IF s.pc \in Filling THEN s.book ELSE digests
Alone(n, all) == \A m \in all : m.name = n.name => m = n
Kept(s, all, texts, digests) ==
  /\ \A n \in all : Alone(n, all) =>
       /\ texts[n.name] = n.body \/ n.name \in Busy(s)
       /\ Book(s, digests)[n.name] = n.body
  /\ s.pc \in Filling /\ s.cmd = "export" => ~ Alone(First(s.todo), all)
Charted(s, c, texts, digests, new) ==
  /\ s.pc \in Exporting => Holds(Book(s, digests), All(c) \ s.todo, {})
  /\ new => Kept(s, All(Rebuilt(c.docs)), texts, digests)

Able(s) == Knows(s, corpus) /\ Progress(s, corpus, notes, crashes)
Kempt(s) == crashes = 0 => Charted(s, corpus, notes, ledger, fresh)
Idling == \A p \in Procs : proc[p].pc = "idle"
Current ==
  overlaps = 0 =>
    /\ \A p \in Procs : Able(proc[p]) /\ (proc[p].pc # "idle" => Kempt(proc[p]))
    /\ Idling => Kempt(Idle)

LEMMA SequelOf ==
  /\ Sequel("ingest") = {"done"} /\ Sequel("embed") = {"done"}
  /\ Sequel("concept") = {"reload"} /\ Sequel("concepts") = {"items", "done"}
  /\ Sequel("review") = {"items", "done"}
  /\ Sequel("export") = {"notes"} /\ Sequel("export all") = {"notes"}
  BY DEF Sequel, Exports

\* The command t goes on as planned, whatever step of s it comes from.
LEMMA PlannedNext ==
  ASSUME NEW s, NEW t, Planned(s), s.cmd \in Commands,
         \/ t.pc \in {"idle", "done"}
         \/ t.pc \in {"rebuild", "write"} /\ t.then \in Sequel(t.cmd)
         \/ t.pc = "load" /\ t.cmd \in {"concepts", "concept"}
         \/ t.pc = "check" /\ t.cmd = "concepts" /\ t.then = "items"
         \/ t.pc = "check" /\ t.cmd = "concept" /\ t.then = "reload"
         \/ t.pc \in {"items", "check items"} /\ t.cmd \in {"concepts", "review"}
         \/ s.pc = "write" /\ t.pc = s.then /\ t.cmd = s.cmd
         \/ /\ s.pc \in {"notes"} \cup Exporting /\ t.cmd = s.cmd
            /\ t.pc \in {"done"} \cup Exporting
  PROVE  Planned(t)
<1>1. CASE s.pc = "write" /\ t.pc = s.then /\ t.cmd = s.cmd
  <2>1. s.then \in Sequel(s.cmd) BY <1>1 DEF Planned
  <2>2. \/ t.pc = "done"
        \/ t.pc = "items" /\ t.cmd \in {"concepts", "review"}
        \/ t.pc = "reload" /\ t.cmd = "concept"
        \/ t.pc = "notes" /\ t.cmd \in Exports
    BY <1>1, <2>1, SequelOf DEF Commands, Exports
  <2> QED BY <2>2 DEF Planned, Exporting
<1>2. CASE /\ s.pc \in {"notes"} \cup Exporting /\ t.cmd = s.cmd
           /\ t.pc \in {"done"} \cup Exporting
  BY <1>2 DEF Planned, Exporting
<1>3. CASE \/ t.pc = "check" /\ t.cmd = "concepts" /\ t.then = "items"
           \/ t.pc = "check" /\ t.cmd = "concept" /\ t.then = "reload"
  BY <1>3, SequelOf DEF Planned, Exporting
<1>4. CASE \/ t.pc \in {"idle", "done"}
           \/ t.pc \in {"rebuild", "write"} /\ t.then \in Sequel(t.cmd)
           \/ t.pc = "load" /\ t.cmd \in {"concepts", "concept"}
           \/ t.pc \in {"items", "check items"} /\ t.cmd \in {"concepts", "review"}
  BY <1>4 DEF Planned, Exporting
<1> QED BY <1>1, <1>2, <1>3, <1>4

LEMMA AfterCommand ==
  ASSUME NEW p \in Procs, proc[p] \in ProcState, NEW todo
  PROVE  /\ After(p, todo).cmd = proc[p].cmd
         /\ todo = {} => After(p, todo).pc = "done"
         /\ todo # {} => /\ After(p, todo).pc = "ledger" /\ After(p, todo).todo = todo
                        /\ After(p, todo).file = proc[p].file
<1>1. LET t == [Idle EXCEPT !.pc = "done", !.cmd = proc[p].cmd] IN
      t.pc = "done" /\ t.cmd = proc[p].cmd
  BY DEF Idle
<1>2. LET t == [proc[p] EXCEPT !.pc = "ledger", !.todo = todo, !.book = NoLedger] IN
      t.pc = "ledger" /\ t.cmd = proc[p].cmd /\ t.todo = todo /\ t.file = proc[p].file
  BY DEF ProcState
<1> QED BY <1>1, <1>2 DEF After

LEMMA PlansStep == IInv /\ Plans /\ [Next]_vars => Plans'
<1> SUFFICES ASSUME IInv, Plans, [Next]_vars PROVE Plans' OBVIOUS
<1>1. CASE UNCHANGED vars BY <1>1 DEF vars, Plans
<1>2. CASE Next
  <2>1. PICK p \in Procs :
           /\ Begin(p) \/ Return(p) \/ RebuildLoad(p) \/ WriteManifest(p) \/ Answer(p)
                \/ Export(p) \/ Crash(p)
           /\ \E state : Become(p, state)
    BY <1>2, StepOf
  <2>2. \A q \in Procs \ {p} : proc'[q] = proc[q]
    BY <2>1 DEF Become, IInv, Commanded
  <2>3. /\ Planned(proc[p]) /\ proc[p] \in ProcState /\ proc \in [Procs -> ProcState]
        /\ proc[p].cmd \in Commands
    BY DEF Plans, IInv, Commanded, ProcState
  <2> DEFINE s == proc[p]
             t == proc'[p]
  <2>5. ASSUME Begin(p)
        PROVE  \/ t.pc \in {"rebuild", "write"} /\ t.then \in Sequel(t.cmd)
               \/ t.pc = "load" /\ t.cmd \in {"concepts", "concept"}
    <3>1. \A d \in Docs, v \in Versions : RecordLoad(p, d, v) =>
            t.pc = "write" /\ t.cmd = "ingest" /\ t.then = "done"
      BY <2>3 DEF RecordLoad, Become, Idle
    <3>2. UpsertLoad(p) => t.pc = "write" /\ t.cmd = "embed" /\ t.then = "done"
      BY <2>3 DEF UpsertLoad, Become, Idle
    <3>3. Ask(p) => t.pc = "load" /\ t.cmd \in {"concepts", "concept"}
      BY <2>3 DEF Ask, Become, Idle
    <3>4. BeginRebuild(p) => /\ t.pc = "rebuild"
                             /\ \/ t.cmd = "review" /\ t.then = "items"
                                \/ t.cmd \in Exports /\ t.then = "notes"
      BY ZenonT(60), <2>3 DEF BeginRebuild, Become, Idle, Exports
    <3> HIDE DEF t
    <3> QED BY <2>5, <3>1, <3>2, <3>3, <3>4, SequelOf DEF Begin, Exports
  <2>6. ASSUME Return(p) \/ LedgerUnreadable(p) \/ Crash(p) PROVE t.pc = "idle"
    <3>1. t = Idle BY <2>3, <2>6 DEF Return, LedgerUnreadable, Crash, Become
    <3> QED BY <3>1 DEF Idle
  <2>7. ASSUME RebuildLoad(p) PROVE t.pc = "write" /\ t.then \in Sequel(t.cmd)
    <3>1. s.pc = "rebuild" /\ t.pc = "write" /\ t.then = s.then /\ t.cmd = s.cmd
      BY <2>3, <2>7 DEF RebuildLoad, Become, ProcState
    <3>2. s.then \in Sequel(s.cmd) BY <2>3, <3>1 DEF Planned
    <3> QED BY <3>1, <3>2
  <2>8. ASSUME WriteManifest(p) PROVE s.pc = "write" /\ t.pc = s.then /\ t.cmd = s.cmd
    BY <2>3, <2>8 DEF WriteManifest, Continue, Become, ProcState
  <2>9. ASSUME Answer(p)
        PROVE  \/ t.pc = "done"
               \/ t.pc = "rebuild" /\ t.then \in Sequel(t.cmd)
               \/ t.pc = "check" /\ t.cmd = "concepts" /\ t.then = "items"
               \/ t.pc = "check" /\ t.cmd = "concept" /\ t.then = "reload"
               \/ t.pc \in {"items", "check items"} /\ t.cmd \in {"concepts", "review"}
    <3>1. ConceptsLoad(p) => /\ t.cmd = "concepts"
                             /\ t.pc = "items" \/ (t.pc = "check" /\ t.then = "items")
      BY <2>3 DEF ConceptsLoad, Become, ProcState
    <3>2. GetConceptLoad(p) => /\ t.cmd = "concept"
                               /\ t.pc = "done" \/ (t.pc = "check" /\ t.then = "reload")
      BY <2>3 DEF GetConceptLoad, Become, ProcState
    <3>3. CheckDocuments(p) => /\ s.pc = "check" /\ t.cmd = s.cmd /\ t.then = s.then
                               /\ \/ t.pc \in {"rebuild", "done"}
                                  \/ t.pc = "items" /\ s.cmd = "concepts"
      BY <2>3 DEF CheckDocuments, Goto, Become, ProcState
    <3>4. GetConceptReload(p) => t.pc = "done"
      BY <2>3 DEF GetConceptReload, Become, ProcState
    <3>5. ReviewItemsLoad(p) => /\ s.pc = "items" /\ t.cmd = s.cmd
                                /\ t.pc \in {"done", "check items"}
      BY ZenonT(60), <2>3 DEF ReviewItemsLoad, Goto, Become, ProcState
    <3>6. ReviewItemsCheck(p) => /\ s.pc = "check items" /\ t.cmd = s.cmd
                                 /\ t.pc \in {"rebuild", "done"} /\ t.then = "done"
      BY ZenonT(60), <2>3 DEF ReviewItemsCheck, Become, ProcState
    <3>7. s.pc \in {"items", "check items"} => s.cmd \in {"concepts", "review"}
      BY <2>3 DEF Planned
    <3>8. s.pc = "check" => s.then \in Sequel(s.cmd) BY <2>3 DEF Planned
    <3> HIDE DEF s, t
    <3> QED
      BY <2>9, <3>1, <3>2, <3>3, <3>4, <3>5, <3>6, <3>7, <3>8, SequelOf DEF Answer
  <2>10. ASSUME \/ LoadDocuments(p) \/ LoadLedger(p) \/ OpenNote(p) \/ FillNote(p)
                \/ OpenLedger(p) \/ SkipNote(p) \/ FillLedger(p)
         PROVE  /\ s.pc \in {"notes"} \cup Exporting /\ t.cmd = s.cmd
                /\ t.pc \in {"done"} \cup Exporting
    <3>1. LoadDocuments(p) => s.pc = "notes" /\ t.cmd = s.cmd /\ t.pc \in {"done", "ledger"}
      BY <2>3 DEF LoadDocuments, Become, ProcState
    <3>2. LoadLedger(p) => s.pc = "ledger" /\ t.cmd = s.cmd /\ t.pc = "open note"
      BY <2>3 DEF LoadLedger, Become, ProcState
    <3>3. OpenNote(p) => s.pc = "open note" /\ t.cmd = s.cmd /\ t.pc = "fill note"
      BY <2>3 DEF OpenNote, Goto, Become, ProcState
    <3>4. FillNote(p) => s.pc = "fill note" /\ t.cmd = s.cmd /\ t.pc = "open ledger"
      BY <2>3 DEF FillNote, Goto, Become, ProcState
    <3>5. OpenLedger(p) => s.pc = "open ledger" /\ t.cmd = s.cmd /\ t.pc = "fill ledger"
      BY <2>3 DEF OpenLedger, Goto, Become, ProcState
    <3>6. SkipNote(p) \/ FillLedger(p) => /\ s.pc \in {"ledger", "fill ledger"}
                                          /\ \E todo : t = After(p, todo)
      BY <2>3 DEF SkipNote, FillLedger, Become
    <3>7. \A todo : After(p, todo).cmd = s.cmd /\ After(p, todo).pc \in {"done", "ledger"}
      BY <2>3, AfterCommand
    <3> HIDE DEF s, t
    <3> QED BY <2>10, <3>1, <3>2, <3>3, <3>4, <3>5, <3>6, <3>7 DEF Exporting
  <2> HIDE DEF s, t
  <2>11. Planned(s) /\ s.cmd \in Commands BY <2>3 DEF s
  <2>12. Planned(t)
    BY <2>1, <2>5, <2>6, <2>7, <2>8, <2>9, <2>10, <2>11, PlannedNext DEF Export
  <2> QED BY <2>2, <2>12 DEF Plans, s, t
<1> QED BY <1>1, <1>2

-----------------------------------------------------------------------------
(* A step of an export, and of what is not one. *)

\* A step that exports nothing.
LEMMA QuietStep ==
  ASSUME NEW p \in Procs, Able(proc[p]), Kempt(proc[p]),
         proc[p].pc \notin Filling, proc'[p].pc \notin Exporting,
         proc'[p].pc = "done" => proc'[p].cmd \notin Exports,
         UNCHANGED vault, crashes' = crashes, fresh' => fresh /\ corpus'.docs = corpus.docs,
         Knows(proc[p], corpus)'
  PROVE  Able(proc[p])' /\ Kempt(proc[p])'
<1>1. proc'[p].pc \notin Filling /\ proc'[p].pc # "fill note" BY DEF Filling, Exporting
<1>2. Able(proc[p])' BY <1>1 DEF Able, Progress
<1>3. ASSUME crashes = 0, fresh'
      PROVE  Kept(proc'[p], All(Rebuilt(corpus'.docs)), notes', ledger')
  <2> DEFINE all == All(Rebuilt(corpus'.docs))
  <2>1. Kept(proc[p], all, notes, ledger)
    BY <1>3 DEF Kempt, Charted
  <2>2. Busy(proc[p]) = {} BY DEF Busy, Filling
  <2> HIDE DEF all
  <2>3. Kept(proc'[p], all, notes', ledger')
    BY <1>1, <2>1, <2>2 DEF Kept, Book, vault
  <2> QED BY <2>3 DEF all
<1>4. Kempt(proc[p])'
  <2> SUFFICES ASSUME crashes' = 0 PROVE Charted(proc[p], corpus, notes, ledger, fresh)'
    BY DEF Kempt
  <2> QED BY <1>3 DEF Charted
<1> QED BY <1>2, <1>4

LEMMA FoundMentioned ==
  ASSUME NEW docs \in [Docs -> Versions \cup {None}], Known(docs)
  PROVE  Found(Ontology(docs)) = Mentioned(docs)
<1>1. \A d \in Recorded(docs) : Mentions[Text(docs, d)] \subseteq Concepts
  BY ConstantsAssumption DEF Recorded, Known
<1>2. \A c \in Concepts :
        Ontology(docs)[c] # {} <=> \E d \in Recorded(docs) : c \in Mentions[Text(docs, d)]
  BY DEF Ontology
<1> QED BY <1>1, <1>2 DEF Found, Mentioned

\* What a command that exports nothing knows after its step.
LEMMA KnowsStep ==
  ASSUME IInv, NEW p \in Procs, Planned(proc[p]), Able(proc[p]),
         \/ Begin(p) \/ Return(p) \/ RebuildLoad(p) \/ WriteManifest(p) \/ Answer(p)
         \/ LedgerUnreadable(p)
  PROVE  /\ Knows(proc[p], corpus)'
         /\ proc[p].pc \notin Filling /\ proc'[p].pc \notin Exporting
         /\ proc'[p].pc = "done" => proc'[p].cmd \notin Exports
         /\ UNCHANGED vault /\ crashes' = crashes
         /\ fresh' => fresh /\ corpus'.docs = corpus.docs
<1> DEFINE s == proc[p]
           t == proc'[p]
           Quiet == UNCHANGED <<corpus, notes, ledger, fresh, crashes>>
           Leaves == /\ UNCHANGED vault /\ crashes' = crashes
                     /\ fresh' => fresh /\ corpus'.docs = corpus.docs
           Goal == /\ Knows(t, corpus') /\ s.pc \notin Filling /\ t.pc \notin Exporting
                   /\ t.pc = "done" => t.cmd \notin Exports
<1>0. /\ s \in ProcState /\ proc \in [Procs -> ProcState] /\ Planned(s) /\ Knows(s, corpus)
      /\ corpus \in Corpora /\ Known(corpus.docs)
  BY DEF IInv, Commanded, Able, Files, Sound
<1>a. Quiet => Leaves BY DEF vault
<1>b. Found(Ontology(corpus.docs)) = Mentioned(corpus.docs)
  BY <1>0, FoundMentioned DEF Corpora
<1>1. CASE Begin(p)
  <2>1. \A d \in Docs, v \in Versions : RecordLoad(p, d, v) =>
          t.pc = "write" /\ t.cmd = "ingest" /\ s.pc = "idle" /\ Quiet
    BY <1>0 DEF RecordLoad, Become, Idle, CanBegin, vault
  <2>2. UpsertLoad(p) => t.pc = "write" /\ t.cmd = "embed" /\ s.pc = "idle" /\ Quiet
    BY <1>0 DEF UpsertLoad, Become, Idle, CanBegin, vault
  <2>3. Ask(p) => t.pc = "load" /\ s.pc = "idle" /\ Quiet
    BY <1>0 DEF Ask, Become, Idle, CanBegin, vault
  <2>4. BeginRebuild(p) => t.pc = "rebuild" /\ t.then # "done" /\ s.pc = "idle" /\ Quiet
    BY <1>0 DEF BeginRebuild, Become, Idle, CanBegin, vault
  <2> HIDE DEF s, t, Quiet
  <2>5. Goal
    BY <1>1, <2>1, <2>2, <2>3, <2>4
    DEF Begin, Knows, Answered, Rebuilds, Exports, Filling, Exporting
  <2>6. Quiet BY <1>1, <2>1, <2>2, <2>3, <2>4 DEF Begin
  <2> QED BY <1>a, <2>5, <2>6 DEF s, t
<1>2. CASE Return(p) \/ LedgerUnreadable(p)
  <2>1. t = Idle /\ s.pc \in {"done", "ledger"} /\ Quiet
    BY <1>0, <1>2 DEF Return, LedgerUnreadable, Become, vault
  <2>2. t.pc = "idle" BY <2>1 DEF Idle
  <2> HIDE DEF s, t, Quiet
  <2>3. Goal BY <2>1, <2>2 DEF Knows, Answered, Filling, Exporting
  <2> QED BY <1>a, <2>1, <2>3 DEF s, t
<1>3. CASE RebuildLoad(p)
  <2>1. /\ s.pc = "rebuild" /\ t.pc = "write" /\ t.then = s.then /\ t.cmd = s.cmd
        /\ t.answer = s.answer /\ t.want = s.want /\ t.file = Rebuilt(corpus.docs)
        /\ Quiet
    BY <1>0, <1>3 DEF RebuildLoad, Become, ProcState, Rebuilt, vault
  <2> HIDE DEF s, t
  <2>2. corpus' = corpus BY <2>1
  <2>3. Goal BY <1>0, <2>1, <2>2 DEF Knows, Answered, Filling, Exporting
  <2> QED BY <1>a, <2>1, <2>3 DEF s, t
<1>4. CASE WriteManifest(p)
  <2>1. /\ s.pc = "write" /\ t.pc = s.then /\ t.then = s.then /\ t.cmd = s.cmd
        /\ t.want = s.want /\ t.file = s.file /\ corpus' = s.file
        /\ t.answer = IF s.cmd = "concepts" /\ s.then = "items" THEN Found(s.file.onto)
                      ELSE s.answer
        /\ Leaves
    BY <1>0, <1>4 DEF WriteManifest, Continue, Become, ProcState, vault
  <2>2. s.then \in Sequel(s.cmd) /\ s.cmd \in Commands
    BY <1>0, <2>1 DEF Planned, ProcState
  <2>3. Rebuilt(corpus.docs).docs = corpus.docs
        /\ Rebuilt(corpus.docs).onto = Ontology(corpus.docs)
    BY DEF Rebuilt
  <2> HIDE DEF s, t
  <2>4. CASE s.cmd \in {"ingest", "embed"}
    <3>1. t.pc = "done" /\ t.cmd \in {"ingest", "embed"} BY <2>1, <2>2, <2>4, SequelOf
    <3>2. Goal BY <2>1, <3>1 DEF Knows, Exports, Filling, Exporting
    <3> QED BY <2>1, <3>2 DEF s, t
  <2>5. CASE s.cmd \in Rebuilds
    <3>1. corpus' = Rebuilt(corpus.docs) /\ corpus'.docs = corpus.docs
      BY <1>0, <2>1, <2>3, <2>5 DEF Knows
    <3>2. CASE s.cmd = "concept"
      <4>1. t.pc = "reload" BY <2>1, <2>2, <3>2, SequelOf
      <4>2. Goal BY <2>1, <3>1, <3>2, <4>1 DEF Knows, Answered, Filling, Exporting
      <4> QED BY <2>1, <4>2 DEF s, t
    <3>3. CASE s.cmd \in {"concepts", "review"} /\ s.then = "items"
      <4>1. s.cmd = "concepts" => t.answer = Mentioned(corpus.docs)
        BY <1>b, <2>1, <2>3, <3>1, <3>3
      <4>2. Goal
        BY <2>1, <3>1, <3>3, <4>1 DEF Knows, Filling, Exporting
      <4> QED BY <2>1, <4>2 DEF s, t
    <3>4. CASE s.cmd \in {"concepts", "review"} /\ s.then = "done"
      <4>1. s.cmd = "concepts" /\ s.answer = {} => Mentioned(corpus.docs) = {}
        BY <1>0, <2>1, <3>4 DEF Knows, Answered
      <4>2. Goal
        BY <2>1, <3>1, <3>4, <4>1 DEF Knows, Exports, Filling, Exporting
      <4> QED BY <2>1, <4>2 DEF s, t
    <3>5. CASE s.cmd \in Exports
      <4>1. t.pc = "notes" BY <2>1, <2>2, <3>5, SequelOf DEF Exports
      <4>2. Goal BY <2>1, <3>1, <3>5, <4>1 DEF Knows, Exports, Filling, Exporting
      <4> QED BY <2>1, <4>2 DEF s, t
    <3>6. s.cmd \in {"concepts", "review"} => s.then \in {"items", "done"}
      BY <2>2, SequelOf
    <3> QED BY <2>5, <3>2, <3>3, <3>4, <3>5, <3>6 DEF Rebuilds
  <2>6. s.cmd \in {"ingest", "embed"} \cup Rebuilds
    BY <2>2 DEF Commands, Rebuilds, Exports
  <2> QED BY <2>4, <2>5, <2>6
<1>5. CASE Answer(p)
  <2> DEFINE Same == t.cmd = s.cmd /\ t.want = s.want
  <2>0. Quiet
    BY <1>5 DEF Answer, ConceptsLoad, GetConceptLoad, CheckDocuments, GetConceptReload,
       ReviewItemsLoad, ReviewItemsCheck, vault
  <2>1. ConceptsLoad(p) =>
          /\ Same /\ s.pc = "load" /\ s.cmd = "concepts"
          /\ t.pc = "check" \/ (t.pc = "items" /\ t.answer # {})
    BY <1>0 DEF ConceptsLoad, Become, ProcState
  <2>2. GetConceptLoad(p) =>
          /\ Same /\ s.pc = "load" /\ s.cmd = "concept"
          /\ t.pc = "check" \/ (t.pc = "done" /\ t.answer # {})
    BY <1>0 DEF GetConceptLoad, Become, ProcState
  <2>3. CheckDocuments(p) =>
          /\ Same /\ s.pc = "check" /\ t.then = s.then
          /\ \/ t.pc = "rebuild"
             \/ Recorded(corpus.docs) = {} /\ t.pc \in {"items", "done"}
    BY <1>0 DEF CheckDocuments, Goto, Become, ProcState
  <2>4. GetConceptReload(p) =>
          /\ Same /\ s.pc = "reload" /\ t.pc = "done"
          /\ t.answer = Found(corpus.onto) \cap {s.want}
    BY <1>0 DEF GetConceptReload, Become, ProcState
  <2>5. ReviewItemsLoad(p) =>
          /\ Same /\ s.pc = "items" /\ t.pc \in {"done", "check items"} /\ t.answer = s.answer
    BY ZenonT(60), <1>0 DEF ReviewItemsLoad, Goto, Become, ProcState
  <2>6. ReviewItemsCheck(p) =>
          /\ Same /\ s.pc = "check items" /\ t.pc \in {"done", "rebuild"} /\ t.then = "done"
          /\ t.answer = s.answer
    BY ZenonT(60), <1>0 DEF ReviewItemsCheck, Become, ProcState
  <2>7. Recorded(corpus.docs) = {} => Mentioned(corpus.docs) = {} BY DEF Mentioned
  <2>8. corpus = Rebuilt(corpus.docs) => Found(corpus.onto) = Mentioned(corpus.docs)
    BY <1>b DEF Rebuilt
  <2>9. corpus' = corpus BY <2>0
  <2> HIDE DEF s, t
  <2>c. Planned(s) /\ Knows(s, corpus) BY <1>0
  <2>10. CASE ConceptsLoad(p) \/ GetConceptLoad(p)
    <3>1. Goal
      BY <2>1, <2>2, <2>9, <2>10 DEF Knows, Answered, Exports, Filling, Exporting
    <3> QED BY <1>a, <2>0, <3>1 DEF s, t
  <2>11. CASE CheckDocuments(p)
    <3>1. s.cmd \in {"concepts", "concept"} /\ s.then # "done" BY <2>3, <2>11, <2>c DEF Planned
    <3>2. Goal
      BY <2>3, <2>7, <2>9, <2>11, <3>1 DEF Knows, Answered, Exports, Filling, Exporting
    <3> QED BY <1>a, <2>0, <3>2 DEF s, t
  <2>12. CASE GetConceptReload(p)
    <3>1. s.cmd = "concept" /\ corpus = Rebuilt(corpus.docs)
      BY <2>4, <2>12, <2>c DEF Planned, Knows
    <3>2. t.answer = {} => t.want \notin Mentioned(corpus.docs)
      BY <2>4, <2>8, <2>12, <3>1
    <3>3. Goal
      BY <2>4, <2>9, <2>12, <3>1, <3>2 DEF Knows, Exports, Filling, Exporting
    <3> QED BY <1>a, <2>0, <3>3 DEF s, t
  <2>13. CASE ReviewItemsLoad(p) \/ ReviewItemsCheck(p)
    <3>1. /\ s.pc \in {"items", "check items"} /\ s.cmd \in {"concepts", "review"}
          /\ Same /\ t.answer = s.answer /\ t.pc \in {"done", "check items", "rebuild"}
      BY <2>5, <2>6, <2>13, <2>c DEF Planned
    <3>2. s.cmd = "concepts" /\ s.answer = {} => Mentioned(corpus.docs) = {}
      BY <2>c, <3>1 DEF Knows, Answered
    <3>3. Goal
      BY <2>9, <3>1, <3>2 DEF Knows, Exports, Filling, Exporting
    <3> QED BY <1>a, <2>0, <3>3 DEF s, t
  <2> QED BY <1>5, <2>10, <2>11, <2>12, <2>13 DEF Answer
<1> QED BY <1>1, <1>2, <1>3, <1>4, <1>5

\* Each document and each concept has one note, and each its own place.
LEMMA NotesOnce ==
  ASSUME NEW docs \in [Docs -> Versions \cup {None}], NEW onto \in [Concepts -> SUBSET Readings]
  PROVE  \A n, m \in NotesOf(docs, onto) : n.of = m.of => n = m
<1>1. \A n \in Insights(docs) :
        /\ n.of \in Docs
        /\ n = [of |-> n.of, name |-> InsightName[Text(docs, n.of)],
                body |-> Reading(docs, n.of)]
  BY DEF Insights, Recorded
<1>2. \A n \in ConceptNotes(onto) :
        /\ n.of \in Concepts
        /\ n = [of |-> n.of, name |-> ConceptName[n.of],
                body |-> [concept |-> n.of, evidence |-> onto[n.of]]]
  BY DEF ConceptNotes, Found
<1> QED BY <1>1, <1>2, ConstantsAssumption DEF NotesOf

LEMMA PlaceOnce ==
  ASSUME NEW x \in Docs \cup Concepts, NEW y \in Docs \cup Concepts, x # y
  PROVE  Place[x] \in Nat /\ Place[y] \in Nat /\ Place[x] # Place[y]
<1>1. Place[x] \in Nat /\ Place[y] \in Nat BY ConstantsAssumption
<1>2. {x, y} \in SUBSET (Docs \cup Concepts) /\ {x, y} # {} OBVIOUS
<1>3. PICK z \in {x, y} : \A w \in {x, y} \ {z} : Place[z] < Place[w]
  BY <1>2, ConstantsAssumption
<1> QED BY <1>1, <1>3

LEMMA FirstEarlier ==
  ASSUME NEW todo \in SUBSET Notes, todo # {}, \A n, m \in todo : n.of = m.of => n = m
  PROVE  \A m \in todo \ {First(todo)} : Place[First(todo).of] < Place[m.of]
<1> DEFINE Of == {n.of : n \in todo}
<1>1. Of \in SUBSET (Docs \cup Concepts) /\ Of # {} BY DEF Notes
<1>2. PICK x \in Of : \A y \in Of \ {x} : Place[x] < Place[y]
  BY <1>1, ConstantsAssumption
<1>3. PICK n \in todo : n.of = x BY <1>2
<1>4. \A m \in todo : Place[n.of] <= Place[m.of]
  <2> SUFFICES ASSUME NEW m \in todo PROVE Place[n.of] <= Place[m.of] OBVIOUS
  <2>1. m.of \in Of /\ n.of \in Of OBVIOUS
  <2>2. Place[m.of] \in Nat /\ Place[n.of] \in Nat BY <2>1, <1>1, ConstantsAssumption
  <2> QED BY <1>2, <1>3, <2>1, <2>2
<1>5. First(todo) \in todo /\ \A m \in todo : Place[First(todo).of] <= Place[m.of]
  BY <1>3, <1>4 DEF First
<1> HIDE DEF Of
<1>6. ASSUME NEW m \in todo, m # First(todo)
      PROVE  Place[First(todo).of] < Place[m.of]
  <2>1. /\ m.of # First(todo).of
        /\ m.of \in Docs \cup Concepts /\ First(todo).of \in Docs \cup Concepts
    BY <1>5, <1>6 DEF Notes
  <2> QED BY <1>5, <2>1, PlaceOnce
<1> QED BY <1>6

\* One more note is done, and it is later than those done before.
LEMMA HoldsMore ==
  ASSUME NEW texts, NEW done \in SUBSET Notes, NEW note \in Notes,
         \A n \in done : Place[n.of] < Place[note.of],
         Holds(texts, done, {note.name}), texts[note.name] = note.body
  PROVE  Holds(texts, done \cup {note}, {})
<1> SUFFICES ASSUME NEW n \in done \cup {note}, Last(n, done \cup {note})
             PROVE  texts[n.name] = n.body
  BY DEF Holds
<1>1. CASE n = note BY <1>1
<1>2. CASE n \in done
  <2>1. Last(n, done) BY DEF Last
  <2>2. n.name # note.name
    <3>1. Place[n.of] < Place[note.of] /\ Place[n.of] \in Nat /\ Place[note.of] \in Nat
      BY <1>2, ConstantsAssumption DEF Notes
    <3>2. ~ (Place[note.of] <= Place[n.of]) BY <3>1
    <3> QED BY <3>2 DEF Last
  <2> QED BY <1>2, <2>1, <2>2 DEF Holds
<1> QED BY <1>1, <1>2

LEMMA HoldsLess ==
  ASSUME NEW texts, NEW done, NEW but, NEW more, but \subseteq more, Holds(texts, done, but)
  PROVE  Holds(texts, done, more)
  BY DEF Holds

\* The last note of a name is the only one, if there is only one.
LEMMA HoldsAlone ==
  ASSUME NEW texts, NEW all \in SUBSET Notes, Holds(texts, all, {}), NEW n \in all, Alone(n, all)
  PROVE  texts[n.name] = n.body
<1>1. Place[n.of] <= Place[n.of] BY ConstantsAssumption DEF Notes
<1>2. Last(n, all) BY <1>1 DEF Last, Alone
<1> QED BY <1>2 DEF Holds

\* Where an export is, before and after its next note.
LEMMA Working ==
  ASSUME IInv, NEW p \in Procs, Able(proc[p]), proc[p].pc \in Exporting
  PROVE  LET note == First(proc[p].todo)
             todo == proc[p].todo \ {note}
             all == All(corpus)
         IN
         /\ all \in SUBSET Notes /\ all = All(Rebuilt(corpus.docs))
         /\ corpus = Rebuilt(corpus.docs) /\ proc[p].file = corpus
         /\ proc[p].todo \subseteq all /\ note \in proc[p].todo /\ note \in Notes
         /\ note.name \in Names /\ note.body \in Bodies
         /\ all \ todo = (all \ proc[p].todo) \cup {note}
         /\ \A n \in all \ proc[p].todo : Place[n.of] < Place[note.of]
         /\ Earlier(all \ todo, todo)
<1> DEFINE note == First(proc[p].todo)
           todo == proc[p].todo \ {note}
           all == All(corpus)
<1>1. /\ corpus.docs \in [Docs -> Versions \cup {None}] /\ Known(corpus.docs)
      /\ corpus.onto \in [Concepts -> SUBSET Readings]
      /\ proc[p].todo # {}
  BY DEF IInv, Files, Sound, Corpora, Commanded, Fit
<1>2. /\ corpus = Rebuilt(corpus.docs) /\ proc[p].file = corpus
      /\ proc[p].todo \subseteq all /\ Earlier(all \ proc[p].todo, proc[p].todo)
  BY DEF Able, Knows, Progress
<1>3. all \in SUBSET Notes /\ \A n, m \in all : n.of = m.of => n = m
  BY <1>1, NotesTyped, NotesOnce DEF All
<1>4. note \in proc[p].todo /\ note \in Notes BY <1>1, <1>2, <1>3, FirstIn
<1>5. \A m \in todo : Place[note.of] < Place[m.of]
  BY <1>1, <1>2, <1>3, FirstEarlier
<1>6. note.name \in Names /\ note.body \in Bodies BY <1>4 DEF Notes
<1>7. all = All(Rebuilt(corpus.docs)) BY <1>2
<1> HIDE DEF note, all
<1>8. /\ all \ todo = (all \ proc[p].todo) \cup {note}
      /\ \A n \in all \ proc[p].todo : Place[n.of] < Place[note.of]
  BY <1>2, <1>4 DEF Earlier
<1>9. Earlier(all \ todo, todo) BY <1>2, <1>5, <1>8 DEF Earlier
<1> QED BY <1>2, <1>3, <1>4, <1>6, <1>7, <1>8, <1>9 DEF note, all

\* Both ways in which an export is done with a note.
LEMMA NoteDone ==
  ASSUME IInv, NEW p \in Procs, Planned(proc[p]), Able(proc[p]), proc[p].pc \in Exporting,
         NEW note, note = First(proc[p].todo), NEW todo, todo = proc[p].todo \ {note},
         NEW done, done = (All(corpus) \ proc[p].todo) \cup {note},
         Become(p, After(p, todo)), Finishes(p, todo),
         corpus' = corpus, notes' = notes, crashes' = crashes,
         proc[p].cmd = "export all" \/ crashes = 0 => Holds(notes, done, {}),
         crashes = 0 => Holds(ledger', done, {}),
         crashes = 0 /\ fresh =>
           \A n \in All(corpus) : Alone(n, All(corpus)) =>
             notes[n.name] = n.body /\ ledger'[n.name] = n.body
  PROVE  Able(proc[p])' /\ Kempt(proc[p])'
<1> DEFINE s == proc[p]
           t == proc'[p]
           all == All(corpus)
<1>1. /\ all \in SUBSET Notes /\ all = All(Rebuilt(corpus.docs))
      /\ corpus = Rebuilt(corpus.docs) /\ s.file = corpus /\ s.todo \subseteq all
      /\ all \ todo = done /\ Earlier(done, todo) /\ todo \subseteq all
  BY Working
<1>2. /\ proc \in [Procs -> ProcState] /\ s \in ProcState /\ t = After(p, todo)
      /\ s.cmd \in Exports
  BY DEF IInv, Commanded, Become, Planned
<1>3. /\ t.cmd = s.cmd
      /\ todo = {} => t.pc = "done"
      /\ todo # {} => t.pc = "ledger" /\ t.todo = todo /\ t.file = s.file
  <2>1. /\ After(p, todo).cmd = s.cmd
        /\ todo = {} => After(p, todo).pc = "done"
        /\ todo # {} => /\ After(p, todo).pc = "ledger" /\ After(p, todo).todo = todo
                       /\ After(p, todo).file = s.file
    BY ONLY <1>2, p \in Procs, AfterCommand
  <2> HIDE DEF t
  <2> QED BY <1>2, <2>1
<1>4. fresh' = (IF todo = {} THEN TRUE ELSE fresh) BY <1>1 DEF Finishes
<1> HIDE DEF s, t, all
<1>5. Knows(t, corpus)
  BY <1>1, <1>2, <1>3 DEF Knows, Answered, Exports, Exporting
<1>6. Wrote(t) = {} /\ Busy(t) = {} /\ t.pc \notin Filling
  BY <1>3 DEF Wrote, Busy, Filling
<1>7. Progress(t, corpus, notes, crashes)
  <2>1. CASE todo = {}
    <3>1. done = all BY <1>1, <2>1
    <3> QED BY <1>3, <2>1, <3>1 DEF Progress, Exporting, all, s
  <2>2. CASE todo # {}
    <3>1. (all \ t.todo) \cup Wrote(t) = done BY <1>1, <1>3, <1>6, <2>2
    <3>2. t.todo \subseteq all /\ Earlier(all \ t.todo, t.todo) BY <1>1, <1>3, <2>2
    <3> QED BY <1>3, <1>6, <2>2, <3>1, <3>2 DEF Progress, all, s
  <2> QED BY <2>1, <2>2
<1>8. ASSUME crashes = 0
      PROVE  Charted(t, corpus, notes, ledger', fresh')
  <2>1. Book(t, ledger') = ledger' BY <1>6 DEF Book
  <2>2. t.pc \in Exporting => Holds(ledger', all \ t.todo, {})
    BY <1>1, <1>3, <1>8 DEF Exporting
  <2>3. ASSUME fresh'
        PROVE  \A n \in all : Alone(n, all) => notes[n.name] = n.body /\ ledger'[n.name] = n.body
    <3>1. CASE todo = {}
      <4>1. done = all BY <1>1, <3>1
      <4>2. Holds(notes, all, {}) /\ Holds(ledger', all, {}) BY <1>8, <4>1
      <4> QED BY ZenonT(60), <1>1, <4>2, HoldsAlone
    <3>2. CASE todo # {} BY <1>4, <1>8, <2>3, <3>2 DEF all
    <3> QED BY <3>1, <3>2
  <2>4. fresh' => Kept(t, all, notes, ledger')
    BY <1>6, <2>1, <2>3 DEF Kept
  <2> QED BY <1>1, <2>1, <2>2, <2>4 DEF Charted, all
<1>9. Able(proc[p])' BY <1>5, <1>7 DEF Able, t
<1>10. Kempt(proc[p])' BY <1>8 DEF Kempt, t
<1> QED BY <1>9, <1>10

\* A note that is skipped is on disk, and its digest is in the ledger.
LEMMA SkipStep ==
  ASSUME IInv, NEW p \in Procs, Planned(proc[p]), Able(proc[p]), Kempt(proc[p]),
         crashes = 0 => Books, \A q \in Procs \ {p} : proc[q].pc = "idle", SkipNote(p)
  PROVE  Able(proc[p])' /\ Kempt(proc[p])'
<1> DEFINE s == proc[p]
           note == First(s.todo)
           todo == s.todo \ {note}
           all == All(corpus)
           done == (all \ s.todo) \cup {note}
<1>1. /\ s.pc = "ledger" /\ ledger \notin Damaged /\ s.cmd = "export"
      /\ ledger[note.name] = note.body
      /\ Become(p, After(p, todo)) /\ Finishes(p, todo)
      /\ corpus' = corpus /\ notes' = notes /\ crashes' = crashes /\ ledger' = ledger
  BY DEF SkipNote, Skips, vault
<1>2. /\ note \in Notes /\ note.name \in Names /\ note.body \in Bodies
      /\ all \in SUBSET Notes /\ all = All(Rebuilt(corpus.docs)) /\ note \in all
      /\ \A n \in all \ s.todo : Place[n.of] < Place[note.of]
  BY <1>1, Working DEF Exporting
<1>3. s.pc \in Exporting /\ Busy(s) = {} /\ Wrote(s) = {} /\ Book(s, ledger) = ledger
  BY <1>1 DEF Exporting, Busy, Wrote, Book, Filling
<1>4. crashes = 0 => notes[note.name] = note.body
  <2>1. note.body # None BY <1>2, ConstantsAssumption
  <2>2. ~ Writing(note.name) BY <1>1 DEF Writing
  <2> QED BY <1>1, <1>2, <2>1, <2>2 DEF Books, Digests
<1> HIDE DEF s, note, todo, all
<1>5. crashes = 0 => Holds(notes, done, {})
  <2>1. crashes = 0 => Holds(notes, all \ s.todo, {})
    <3>1. (all \ s.todo) \cup Wrote(s) = all \ s.todo BY <1>3
    <3> QED BY <1>3, <3>1 DEF Able, Progress, s, all
  <2>2. all \ s.todo \in SUBSET Notes BY <1>2
  <2>3. crashes = 0 => Holds(notes, all \ s.todo, {note.name}) BY <2>1, HoldsLess
  <2> QED BY <1>2, <1>4, <2>2, <2>3, HoldsMore
<1>6. crashes = 0 => Holds(ledger, done, {})
  <2>1. crashes = 0 => Holds(ledger, all \ s.todo, {})
    BY <1>3 DEF Kempt, Charted, s, all
  <2>2. all \ s.todo \in SUBSET Notes BY <1>2
  <2>3. crashes = 0 => Holds(ledger, all \ s.todo, {note.name}) BY <2>1, HoldsLess
  <2> QED BY <1>1, <1>2, <2>2, <2>3, HoldsMore
<1>7. crashes = 0 /\ fresh =>
        \A n \in all : Alone(n, all) => notes[n.name] = n.body /\ ledger[n.name] = n.body
  <2>1. crashes = 0 /\ fresh => Kept(s, all, notes, ledger)
    BY <1>2 DEF Kempt, Charted, s
  <2> QED BY <1>3, <2>1 DEF Kept
<1>8. ledger' = ledger /\ s.cmd # "export all" BY <1>1
<1>9. note = First(proc[p].todo) /\ todo = proc[p].todo \ {note}
      /\ done = (All(corpus) \ proc[p].todo) \cup {note} /\ proc[p].pc \in Exporting
  BY <1>3 DEF note, todo, all, s
<1> HIDE DEF done
<1> QED
  BY ZenonT(60), <1>1, <1>5, <1>6, <1>7, <1>8, <1>9, NoteDone DEF s, all

\* The ledger is loaded for a note that is not skipped: none that is there as the
\* last export left it.
LEMMA LoadStep ==
  ASSUME IInv, NEW p \in Procs, Planned(proc[p]), Able(proc[p]), Kempt(proc[p]), LoadLedger(p)
  PROVE  Able(proc[p])' /\ Kempt(proc[p])'
<1> DEFINE s == proc[p]
           t == proc'[p]
           note == First(s.todo)
           all == All(corpus)
<1>1. /\ s.pc = "ledger" /\ ~ Skips(p) /\ t.pc = "open note" /\ t.book = ledger
      /\ t.todo = s.todo /\ t.cmd = s.cmd /\ t.file = s.file /\ t.answer = s.answer
      /\ corpus' = corpus /\ notes' = notes /\ ledger' = ledger
      /\ fresh' = fresh /\ crashes' = crashes /\ s.cmd \in Exports
  BY DEF LoadLedger, Become, IInv, Commanded, ProcState, vault, Planned, Exporting
<1>2. /\ note \in Notes /\ note.body \in Bodies /\ all = All(Rebuilt(corpus.docs))
      /\ note \in all /\ corpus = Rebuilt(corpus.docs) /\ s.file = corpus
  BY <1>1, Working DEF Exporting
<1>3. Skips(p) <=> /\ s.cmd = "export" /\ notes[note.name] # None
                   /\ ledger[note.name] = note.body
  BY DEF Skips
<1>4. First(t.todo) = note BY <1>1
<1>5. Able(s) /\ Kempt(s) OBVIOUS
<1> HIDE DEF s, t, note, all
<1>6. /\ Busy(s) = {} /\ Busy(t) = {} /\ Wrote(s) = {} /\ Wrote(t) = {}
      /\ Book(s, ledger) = ledger /\ Book(t, ledger) = ledger
  BY <1>1 DEF Busy, Wrote, Book, Filling
<1>7. Knows(t, corpus)
  BY <1>1, <1>2 DEF Knows, Answered, Exports, Exporting
<1>8. Progress(t, corpus, notes, crashes)
  BY <1>1, <1>5, <1>6 DEF Able, Progress, Exporting
<1>9. ASSUME crashes = 0 PROVE Charted(t, corpus, notes, ledger, fresh)
  <2>1. Charted(s, corpus, notes, ledger, fresh) BY <1>5, <1>9 DEF Kempt
  <2>2. t.pc \in Exporting => Holds(Book(t, ledger), All(corpus) \ t.todo, {})
    BY <1>1, <1>6, <2>1 DEF Charted, Exporting
  <2>3. ASSUME fresh PROVE Kept(t, all, notes, ledger)
    <3>1. Kept(s, all, notes, ledger) BY <1>2, <2>1, <2>3 DEF Charted
    <3>2. ASSUME s.cmd = "export", Alone(note, all) PROVE FALSE
      <4>1. notes[note.name] = note.body /\ ledger[note.name] = note.body
        BY <1>2, <1>6, <3>1, <3>2 DEF Kept
      <4>2. note.body # None BY <1>2, ConstantsAssumption
      <4> QED BY <1>1, <1>3, <3>2, <4>1, <4>2
    <3> QED BY <1>1, <1>4, <1>6, <3>1, <3>2 DEF Kept
  <2> QED BY <1>2, <2>2, <2>3 DEF Charted
<1>10. Able(proc[p])' BY <1>1, <1>7, <1>8 DEF Able, t
<1>11. Kempt(proc[p])' BY <1>1, <1>9 DEF Kempt, t
<1> QED BY <1>10, <1>11

\* The notes to export are all there are: none is done.
LEMMA DocumentsStep ==
  ASSUME IInv, NEW p \in Procs, Planned(proc[p]), Able(proc[p]), Kempt(proc[p]),
         LoadDocuments(p)
  PROVE  Able(proc[p])' /\ Kempt(proc[p])'
<1> DEFINE s == proc[p]
           t == proc'[p]
           all == All(corpus)
<1>1. /\ s.pc = "notes" /\ s.cmd \in Exports /\ corpus = Rebuilt(corpus.docs) /\ s.file = corpus
  BY DEF LoadDocuments, Able, Knows, Planned
<1>2. /\ t.pc = (IF all = {} THEN "done" ELSE "ledger") /\ t.todo = all
      /\ t.cmd = s.cmd /\ t.file = s.file
      /\ corpus' = corpus /\ notes' = notes /\ ledger' = ledger
      /\ fresh' = fresh /\ crashes' = crashes
  BY <1>1 DEF LoadDocuments, Become, IInv, Commanded, ProcState, vault, All
<1>3. all = All(Rebuilt(corpus.docs)) BY <1>1
<1>4. Able(s) /\ Kempt(s) OBVIOUS
<1> HIDE DEF s, t
<1>6. /\ Busy(s) = {} /\ Busy(t) = {} /\ Wrote(t) = {} /\ t.pc \notin Filling
      /\ Book(s, ledger) = ledger /\ Book(t, ledger) = ledger
  BY <1>1, <1>2 DEF Busy, Wrote, Book, Filling
<1>7. Knows(t, corpus)
  BY <1>1, <1>2 DEF Knows, Answered, Exports, Exporting
<1>5. /\ all \ t.todo = {} /\ (all \ t.todo) \cup Wrote(t) = {}
      /\ t.pc = "done" => all = {}
  BY <1>2, <1>6
<1>8. Progress(t, corpus, notes, crashes)
  BY <1>2, <1>5 DEF Progress, Earlier, Holds
<1>9. ASSUME crashes = 0 PROVE Charted(t, corpus, notes, ledger, fresh)
  <2>1. Charted(s, corpus, notes, ledger, fresh) BY <1>4, <1>9 DEF Kempt
  <2>2. Holds(Book(t, ledger), all \ t.todo, {}) BY <1>5 DEF Holds
  <2>3. fresh => Kept(s, all, notes, ledger) BY <1>3, <2>1 DEF Charted
  <2>4. fresh => Kept(t, all, notes, ledger) BY <1>6, <2>3 DEF Kept
  <2> QED BY <1>3, <2>2, <2>4 DEF Charted
<1>10. Able(proc[p])' BY <1>2, <1>7, <1>8 DEF Able, t
<1>11. Kempt(proc[p])' BY <1>2, <1>9 DEF Kempt, t
<1> QED BY <1>10, <1>11

\* A step in the middle of writing one note.
LEMMA WriteStep ==
  ASSUME IInv, NEW p \in Procs, Planned(proc[p]), Able(proc[p]), Kempt(proc[p]),
         OpenNote(p) \/ FillNote(p) \/ OpenLedger(p)
  PROVE  /\ proc[p].pc \in Exporting /\ proc[p].cmd \in Exports
         /\ proc[p].pc \in Filling
         /\ OpenNote(p) => proc'[p].pc = "fill note"
         /\ FillNote(p) => proc'[p].pc = "open ledger"
         /\ OpenLedger(p) => proc'[p].pc = "fill ledger"
         /\ proc'[p].todo = proc[p].todo /\ proc'[p].book = proc[p].book
         /\ proc'[p].cmd = proc[p].cmd
         /\ corpus' = corpus /\ fresh' = fresh /\ crashes' = crashes
         /\ Knows(proc[p], corpus)'
         /\ Book(proc[p], ledger)' = Book(proc[p], ledger)
<1> DEFINE s == proc[p]
           t == proc'[p]
<1>0. /\ OpenNote(p) => s.pc = "open note" /\ t.pc = "fill note"
      /\ FillNote(p) => s.pc = "fill note" /\ t.pc = "open ledger"
      /\ OpenLedger(p) => s.pc = "open ledger" /\ t.pc = "fill ledger"
  BY DEF OpenNote, FillNote, OpenLedger, Goto, Become, IInv, Commanded, ProcState
<1>1. /\ t.todo = s.todo /\ t.book = s.book /\ t.cmd = s.cmd /\ t.file = s.file
      /\ corpus' = corpus /\ fresh' = fresh /\ crashes' = crashes
  <2>1. corpus' = corpus /\ fresh' = fresh /\ crashes' = crashes
    BY DEF OpenNote, FillNote, OpenLedger
  <2>2. \E pc : t = [s EXCEPT !.pc = pc]
    BY DEF OpenNote, FillNote, OpenLedger, Goto, Become, IInv, Commanded
  <2>3. s \in ProcState BY DEF IInv, Commanded
  <2> HIDE DEF s, t
  <2> QED BY <2>1, <2>2, <2>3 DEF ProcState
<1>2. s.cmd \in Exports /\ corpus = Rebuilt(corpus.docs) /\ s.file = corpus
  BY <1>0, <1>1 DEF Planned, Able, Knows, Exporting
<1> HIDE DEF s, t
<1>3. Knows(t, corpus) BY <1>0, <1>1, <1>2 DEF Knows, Answered, Exports, Exporting
<1>4. s.pc \in Filling /\ t.pc \in Filling /\ s.pc \in Exporting
  BY <1>0 DEF Filling, Exporting
<1>5. Book(t, ledger') = Book(s, ledger) BY <1>1, <1>4 DEF Book
<1> QED BY <1>0, <1>1, <1>2, <1>3, <1>4, <1>5 DEF s, t

\* The note is truncated; the others of its name are to be overwritten too.
LEMMA OpenStep ==
  ASSUME IInv, NEW p \in Procs, Planned(proc[p]), Able(proc[p]), Kempt(proc[p]), OpenNote(p)
  PROVE  Able(proc[p])' /\ Kempt(proc[p])'
<1> DEFINE s == proc[p]
           t == proc'[p]
           note == First(s.todo)
           all == All(corpus)
<1>1. /\ s.pc \in Exporting /\ s.cmd \in Exports /\ s.pc \in Filling /\ t.pc = "fill note"
      /\ t.todo = s.todo /\ t.cmd = s.cmd
      /\ corpus' = corpus /\ fresh' = fresh /\ crashes' = crashes
      /\ Knows(t, corpus') /\ Book(t, ledger') = Book(s, ledger)
  BY WriteStep
<1>2. /\ note \in Notes /\ note.name \in Names /\ all = All(Rebuilt(corpus.docs))
      /\ s.todo \subseteq all
  BY <1>1, Working
<1>3. /\ s.pc = "open note" /\ notes' = [notes EXCEPT ![note.name] = Empty]
      /\ notes \in [Names -> Bodies \cup {None} \cup Damaged]
  BY DEF OpenNote, IInv, Files
<1>4. /\ notes'[note.name] = Empty
      /\ \A n \in Names \ {note.name} : notes'[n] = notes[n]
  BY <1>2, <1>3
<1>5. Able(s) /\ Kempt(s) OBVIOUS
<1>6. all \in SUBSET Notes BY <1>1, Working
<1>7. \A n \in all : n.name \in Names BY <1>6 DEF Notes
<1>8. First(t.todo) = note BY <1>1
<1> HIDE DEF s, t, note, all
<1>9. /\ Busy(s) = {} /\ Busy(t) = {note.name} /\ Wrote(s) = {} /\ Wrote(t) = {}
  BY <1>1, <1>3, <1>8 DEF Busy, Wrote
<1>10. Progress(t, corpus, notes', crashes)
  <2>1. s.todo \subseteq All(corpus) /\ Earlier(All(corpus) \ s.todo, s.todo)
    BY <1>1, <1>5 DEF Able, Progress
  <2>2. ASSUME s.cmd = "export all" \/ crashes = 0
        PROVE  Holds(notes', (all \ t.todo) \cup Wrote(t), Busy(t))
    <3>1. Holds(notes, (all \ s.todo) \cup Wrote(s), Busy(s))
      BY <1>1, <1>5, <2>2 DEF Able, Progress, all
    <3> QED BY <1>1, <1>4, <1>7, <1>9, <3>1 DEF Holds
  <2> QED BY <1>1, <1>4, <1>8, <2>1, <2>2 DEF Progress, all
<1>11. ASSUME crashes = 0 PROVE Charted(t, corpus, notes', ledger', fresh)
  <2>1. Charted(s, corpus, notes, ledger, fresh) BY <1>5, <1>11 DEF Kempt
  <2>2. Holds(Book(t, ledger'), all \ t.todo, {}) BY <1>1, <2>1 DEF Charted, all
  <2>3. ASSUME fresh PROVE Kept(t, all, notes', ledger')
    <3>1. Kept(s, all, notes, ledger) BY <1>2, <2>1, <2>3 DEF Charted
    <3>2. s.cmd = "export" => ~ Alone(note, all) BY <1>1, <3>1 DEF Kept, note
    <3> QED BY <1>1, <1>4, <1>7, <1>8, <1>9, <3>1, <3>2 DEF Kept
  <2> QED BY <1>2, <2>2, <2>3 DEF Charted, all
<1>12. Able(proc[p])' BY <1>1, <1>10 DEF Able, t
<1>13. Kempt(proc[p])' BY <1>1, <1>11 DEF Kempt, t
<1> QED BY <1>12, <1>13

\* The note is on disk: it is one that is done.
LEMMA FillStep ==
  ASSUME IInv, NEW p \in Procs, Planned(proc[p]), Able(proc[p]), Kempt(proc[p]), FillNote(p)
  PROVE  Able(proc[p])' /\ Kempt(proc[p])'
<1> DEFINE s == proc[p]
           t == proc'[p]
           note == First(s.todo)
           all == All(corpus)
<1>1. /\ s.pc \in Exporting /\ s.cmd \in Exports /\ s.pc \in Filling /\ t.pc = "open ledger"
      /\ t.todo = s.todo /\ t.cmd = s.cmd
      /\ corpus' = corpus /\ fresh' = fresh /\ crashes' = crashes
      /\ Knows(t, corpus') /\ Book(t, ledger') = Book(s, ledger)
  BY WriteStep
<1>2. /\ note \in Notes /\ note.name \in Names /\ all = All(Rebuilt(corpus.docs))
      /\ note \in all /\ all \in SUBSET Notes
      /\ \A n \in all \ s.todo : Place[n.of] < Place[note.of]
      /\ s.todo \subseteq all /\ Earlier(all \ s.todo, s.todo)
  BY <1>1, Working DEF Able, Progress
<1>3. /\ s.pc = "fill note" /\ notes[note.name] = Empty
      /\ notes \in [Names -> Bodies \cup {None} \cup Damaged]
  BY DEF FillNote, Able, Progress, IInv, Files
<1>4. notes' = [notes EXCEPT ![note.name] = note.body]
  BY <1>3 DEF FillNote, Filled
<1>5. /\ notes'[note.name] = note.body
      /\ \A n \in Names \ {note.name} : notes'[n] = notes[n]
  BY <1>2, <1>3, <1>4
<1>6. Able(s) /\ Kempt(s) OBVIOUS
<1>7. \A n \in all : n.name \in Names BY <1>2 DEF Notes
<1>8. First(t.todo) = note BY <1>1
<1> HIDE DEF s, t, note, all
<1>9. /\ Busy(s) = {note.name} /\ Busy(t) = {} /\ Wrote(s) = {} /\ Wrote(t) = {note}
  BY <1>1, <1>3, <1>8 DEF Busy, Wrote, note
<1>10. Progress(t, corpus, notes', crashes)
  <2>2. ASSUME s.cmd = "export all" \/ crashes = 0
        PROVE  Holds(notes', (all \ t.todo) \cup Wrote(t), Busy(t))
    <3>1. Holds(notes, (all \ s.todo) \cup Wrote(s), Busy(s))
      BY <1>1, <1>6, <2>2 DEF Able, Progress, all
    <3>2. Holds(notes', all \ s.todo, {note.name})
      BY <1>5, <1>7, <1>9, <3>1 DEF Holds
    <3>3. all \ s.todo \in SUBSET Notes BY <1>2
    <3>4. Holds(notes', (all \ s.todo) \cup {note}, {})
      BY <1>2, <1>5, <3>2, <3>3, HoldsMore
    <3> QED BY <1>1, <1>9, <3>4
  <2> QED BY <1>1, <1>2, <2>2 DEF Progress, all
<1>11. ASSUME crashes = 0 PROVE Charted(t, corpus, notes', ledger', fresh)
  <2>1. Charted(s, corpus, notes, ledger, fresh) BY <1>6, <1>11 DEF Kempt
  <2>2. Holds(Book(t, ledger'), all \ t.todo, {}) BY <1>1, <2>1 DEF Charted, all
  <2>3. ASSUME fresh PROVE Kept(t, all, notes', ledger')
    <3>1. Kept(s, all, notes, ledger) BY <1>2, <2>1, <2>3 DEF Charted
    <3>2. s.cmd = "export" => ~ Alone(note, all) BY <1>1, <3>1 DEF Kept, note
    <3>3. ASSUME NEW n \in all, Alone(n, all) PROVE notes'[n.name] = n.body
      <4>1. CASE n.name = note.name
        <5>1. n = note BY <1>2, <3>3, <4>1 DEF Alone
        <5> QED BY <1>5, <5>1
      <4>2. CASE n.name # note.name
        <5>1. notes[n.name] = n.body BY <1>9, <3>1, <3>3, <4>2 DEF Kept
        <5> QED BY <1>5, <1>7, <4>2, <5>1
      <4> QED BY <4>1, <4>2
    <3> QED BY <1>1, <1>8, <3>1, <3>2, <3>3 DEF Kept
  <2> QED BY <1>2, <2>2, <2>3 DEF Charted, all
<1>12. Able(proc[p])' BY <1>1, <1>10 DEF Able, t
<1>13. Kempt(proc[p])' BY <1>1, <1>11 DEF Kempt, t
<1> QED BY <1>12, <1>13

\* The ledger is truncated: its digests are the ones the export has loaded.
LEMMA LedgerStep ==
  ASSUME IInv, NEW p \in Procs, Planned(proc[p]), Able(proc[p]), Kempt(proc[p]), OpenLedger(p)
  PROVE  Able(proc[p])' /\ Kempt(proc[p])'
<1> DEFINE s == proc[p]
           t == proc'[p]
           all == All(corpus)
<1>1. /\ s.pc \in Exporting /\ s.cmd \in Exports /\ s.pc \in Filling /\ t.pc = "fill ledger"
      /\ t.todo = s.todo /\ t.cmd = s.cmd
      /\ corpus' = corpus /\ fresh' = fresh /\ crashes' = crashes
      /\ Knows(t, corpus') /\ Book(t, ledger') = Book(s, ledger)
  BY WriteStep
<1>2. s.pc = "open ledger" /\ notes' = notes BY DEF OpenLedger
<1>3. Able(s) /\ Kempt(s) OBVIOUS
<1>4. all = All(Rebuilt(corpus.docs)) BY <1>1, Working
<1> HIDE DEF s, t
<1>5. Busy(s) = {} /\ Busy(t) = {} /\ Wrote(t) = Wrote(s)
  BY <1>1, <1>2 DEF Busy, Wrote
<1>6. Progress(t, corpus, notes, crashes)
  BY <1>1, <1>3, <1>5 DEF Able, Progress
<1>7. ASSUME crashes = 0 PROVE Charted(t, corpus, notes, ledger', fresh)
  <2>1. Charted(s, corpus, notes, ledger, fresh) BY <1>3, <1>7 DEF Kempt
  <2>2. Holds(Book(t, ledger'), All(corpus) \ t.todo, {}) BY <1>1, <2>1 DEF Charted
  <2>3. ASSUME fresh PROVE Kept(t, all, notes, ledger')
    <3>1. Kept(s, all, notes, ledger) BY <1>4, <2>1, <2>3 DEF Charted
    <3> QED BY <1>1, <1>5, <3>1 DEF Kept
  <2> QED BY <1>4, <2>2, <2>3 DEF Charted
<1>8. Able(proc[p])' BY <1>1, <1>2, <1>6 DEF Able, t
<1>9. Kempt(proc[p])' BY <1>1, <1>2, <1>7 DEF Kempt, t
<1> QED BY <1>8, <1>9

\* The ledger has the digest of the note: the export is done with it.
LEMMA DigestStep ==
  ASSUME IInv, NEW p \in Procs, Planned(proc[p]), Able(proc[p]), Kempt(proc[p]),
         crashes = 0 => Books, FillLedger(p)
  PROVE  Able(proc[p])' /\ Kempt(proc[p])'
<1> DEFINE s == proc[p]
           note == First(s.todo)
           todo == s.todo \ {note}
           all == All(corpus)
           done == (all \ s.todo) \cup {note}
           book == [s.book EXCEPT ![note.name] = note.body]
<1>1. /\ s.pc = "fill ledger" /\ Become(p, After(p, todo)) /\ Finishes(p, todo)
      /\ corpus' = corpus /\ notes' = notes /\ crashes' = crashes
      /\ ledger' \in Filled(ledger, book)
  BY DEF FillLedger
<1>2. /\ note \in Notes /\ note.name \in Names /\ note.body \in Bodies
      /\ all \in SUBSET Notes /\ all = All(Rebuilt(corpus.docs)) /\ note \in all
      /\ \A n \in all \ s.todo : Place[n.of] < Place[note.of]
  BY <1>1, Working DEF Exporting
<1>3. /\ s.pc \in Exporting /\ s.pc \in Filling /\ Busy(s) = {} /\ Wrote(s) = {note}
      /\ Book(s, ledger) = s.book
  BY <1>1 DEF Exporting, Filling, Busy, Wrote, Book
<1>4. crashes = 0 => ledger' = book
  <2>1. crashes = 0 => ledger = Empty BY <1>1, <1>3 DEF Books, Loop
  <2> QED BY <1>1, <2>1 DEF Filled
<1>5. /\ book[note.name] = note.body
      /\ \A n \in Names \ {note.name} : book[n] = s.book[n]
  <2>1. s.book \in Ledgers BY DEF IInv, Commanded, ProcState
  <2> QED BY <1>2, <2>1 DEF Ledgers
<1>6. \A n \in all : n.name \in Names BY <1>2 DEF Notes
<1> HIDE DEF s, note, todo, all, book
<1>7. s.cmd = "export all" \/ crashes = 0 => Holds(notes, done, {})
  BY <1>3 DEF Able, Progress, s, all
<1>8. crashes = 0 => Holds(book, done, {})
  <2>1. crashes = 0 => Holds(s.book, all \ s.todo, {})
    BY <1>3 DEF Kempt, Charted, s, all
  <2>2. all \ s.todo \in SUBSET Notes BY <1>2
  <2>3. crashes = 0 => Holds(book, all \ s.todo, {note.name})
    BY <1>5, <1>6, <2>1 DEF Holds
  <2> QED BY <1>2, <1>5, <2>2, <2>3, HoldsMore
<1>9. ASSUME crashes = 0, fresh, NEW n \in all, Alone(n, all)
      PROVE  notes[n.name] = n.body /\ book[n.name] = n.body
  <2>1. Kept(s, all, notes, ledger) BY <1>2, <1>9 DEF Kempt, Charted, s
  <2>2. notes[n.name] = n.body /\ s.book[n.name] = n.body
    BY <1>3, <1>9, <2>1 DEF Kept
  <2>3. n.name = note.name => n = note BY <1>2, <1>9 DEF Alone
  <2> QED BY <1>5, <1>6, <2>2, <2>3
<1>10. note = First(proc[p].todo) /\ todo = proc[p].todo \ {note}
       /\ done = (All(corpus) \ proc[p].todo) \cup {note} /\ proc[p].pc \in Exporting
  BY <1>3 DEF note, todo, all, s
<1> HIDE DEF done
<1>11. /\ crashes = 0 => Holds(ledger', done, {})
       /\ crashes = 0 /\ fresh =>
            \A n \in all : Alone(n, all) => notes[n.name] = n.body /\ ledger'[n.name] = n.body
  BY <1>4, <1>8, <1>9
<1> QED
  BY <1>1, <1>7, <1>10, <1>11, NoteDone DEF s, all

\* A command that runs nothing knows nothing and has nothing left to do.
LEMMA IdleAble ==
  ASSUME NEW s, s.pc = "idle", NEW c, NEW texts, NEW killed
  PROVE  Knows(s, c) /\ Progress(s, c, texts, killed)
  BY DEF Knows, Answered, Progress, Exporting

LEMMA IdleCharted ==
  ASSUME NEW s, NEW t, s.pc = "idle", t.pc = "idle", NEW c, NEW texts, NEW digests, NEW new,
         Charted(s, c, texts, digests, new)
  PROVE  Charted(t, c, texts, digests, new)
<1>1. Busy(s) = Busy(t) /\ Book(s, digests) = Book(t, digests) /\ t.pc \notin Filling
  BY DEF Busy, Book, Filling
<1>2. \A all : Kept(s, all, texts, digests) => Kept(t, all, texts, digests)
  BY <1>1 DEF Kept
<1> QED BY <1>2 DEF Charted, Exporting

LEMMA CurrentInit == Init => Plans /\ Current
<1> SUFFICES ASSUME Init PROVE Plans /\ Current OBVIOUS
<1>1. \A p \in Procs : proc[p].pc = "idle" BY DEF Init, Idle
<1>2. Plans BY <1>1 DEF Plans, Planned, Exporting
<1>3. \A p \in Procs : Able(proc[p]) BY <1>1, IdleAble DEF Able
<1>4. Kempt(Idle) BY DEF Init, Kempt, Charted, Idle, Exporting
<1> QED BY <1>1, <1>2, <1>3, <1>4 DEF Current

\* What the one command that runs has done is right after its step, and when it
\* has returned the files are as the next command needs them.
LEMMA CurrentStep == IInv /\ One /\ Careful /\ Plans /\ Current /\ [Next]_vars => Current'
<1> SUFFICES ASSUME IInv, One, Careful, Plans, Current, [Next]_vars PROVE Current' OBVIOUS
<1>1. CASE UNCHANGED vars
  BY <1>1 DEF vars, Current, Able, Kempt, Idling
<1>2. CASE Next /\ overlaps' = 0
  <2>1. PICK p \in Procs :
           /\ Begin(p) \/ Return(p) \/ RebuildLoad(p) \/ WriteManifest(p) \/ Answer(p)
                \/ Export(p) \/ Crash(p)
           /\ \E state : Become(p, state)
           /\ overlaps = 0
           /\ Begin(p) => \A q \in Procs : proc[q].pc = "idle"
           /\ ~ Begin(p) => proc[p].pc # "idle"
    BY <1>2, StepOf
  <2>2. \A q \in Procs \ {p} : proc'[q] = proc[q] /\ proc[q].pc = "idle"
    BY <2>1 DEF Become, IInv, Commanded, One
  <2>3. Planned(proc[p]) /\ Able(proc[p]) /\ (crashes = 0 => Books)
    BY <2>1 DEF Plans, Current, Careful
  <2>4. Kempt(proc[p])
    <3>1. CASE proc[p].pc # "idle" BY <2>1, <3>1 DEF Current
    <3>2. CASE proc[p].pc = "idle"
      <4>1. Kempt(Idle) BY <2>1, <2>2, <3>2 DEF Current, Idling
      <4>2. Idle.pc = "idle" BY DEF Idle
      <4> QED BY <3>2, <4>1, <4>2, IdleCharted DEF Kempt
    <3> QED BY <3>1, <3>2
  <2>5. Able(proc[p])' /\ Kempt(proc[p])'
    <3>1. CASE \/ Begin(p) \/ Return(p) \/ RebuildLoad(p) \/ WriteManifest(p) \/ Answer(p)
               \/ LedgerUnreadable(p)
      BY <2>3, <2>4, <3>1, KnowsStep, QuietStep
    <3>2. CASE LoadDocuments(p) BY <2>3, <2>4, <3>2, DocumentsStep
    <3>3. CASE SkipNote(p) BY <2>2, <2>3, <2>4, <3>3, SkipStep
    <3>4. CASE LoadLedger(p) BY <2>3, <2>4, <3>4, LoadStep
    <3>5. CASE OpenNote(p) BY <2>3, <2>4, <3>5, OpenStep
    <3>6. CASE FillNote(p) BY <2>3, <2>4, <3>6, FillStep
    <3>7. CASE OpenLedger(p) BY <2>3, <2>4, <3>7, LedgerStep
    <3>8. CASE FillLedger(p) BY <2>3, <2>4, <3>8, DigestStep
    <3>9. CASE Crash(p)
      <4>1. crashes' # 0
        <5>1. crashes' = crashes + 1 BY <3>9 DEF Crash
        <5> QED BY <5>1 DEF IInv, Files
      <4>2. proc'[p].pc = "idle" BY <3>9 DEF Crash, Become, IInv, Commanded, Idle
      <4> QED BY <4>1, <4>2, IdleAble DEF Able, Kempt
    <3> QED BY <2>1, <3>1, <3>2, <3>3, <3>4, <3>5, <3>6, <3>7, <3>8, <3>9 DEF Export
  <2>6. \A q \in Procs : Able(proc[q])'
    <3>1. \A q \in Procs \ {p} : Able(proc[q])' BY <2>2, IdleAble DEF Able
    <3> QED BY <2>5, <3>1
  <2>7. \A q \in Procs : (proc[q].pc # "idle" => Kempt(proc[q]))' BY <2>2, <2>5
  <2>8. (Idling => Kempt(Idle))'
    <3>1. Idle.pc = "idle" BY DEF Idle
    <3> QED BY <2>5, <3>1, IdleCharted DEF Idling, Kempt
  <2> QED BY <2>6, <2>7, <2>8 DEF Current
<1>3. CASE overlaps' # 0 BY <1>3 DEF Current
<1> QED BY <1>1, <1>2, <1>3
-----------------------------------------------------------------------------
(* The theorems. *)
\* Every reachable state satisfies the invariants, for any documents, concepts
\* and titles and any number of commands, crashes and overlaps.
THEOREM Invariance == Spec => [](IInv /\ One /\ Careful)
<1>1. Init => IInv /\ One /\ Careful BY InvInit, OneInit
<1>2. IInv /\ One /\ Careful /\ [Next]_vars => (IInv /\ One /\ Careful)'
  BY InvStep, OneStep, CarefulStep
<1> QED BY <1>1, <1>2, PTL DEF Spec

\* Every reachable state is well typed: what a command holds and leaves in the
\* files is a whole manifest, ledger or note, or a damaged file.
THEOREM TypesHold == Spec => []TypeOK
<1>1. IInv => TypeOK BY DEF IInv, Files, Commanded, Sound, TypeOK
<1> QED BY <1>1, Invariance, PTL

\* The ontology names no document that its manifest has not, however commands
\* overlap and lose each other's writes (rebuild_ontology 117-134).
THEOREM OntologyStaysWithin == Spec => []OntologyWithinCorpus
<1>1. IInv => OntologyWithinCorpus
  BY DEF IInv, Files, Sound, Backed, OntologyWithinCorpus
<1> QED BY <1>1, Invariance, PTL

\* A digest in the ledger is that of the note on disk, if commands run one at a
\* time and none is killed (_export_note 48-58).
THEOREM LedgerAlwaysTrue == Spec => []LedgerTrue
<1>1. Careful => LedgerTrue BY DEF Careful, Books, Digests, LedgerTrue
<1> QED BY <1>1, Invariance, PTL

\* In every reachable state a command that runs alone knows what the manifest
\* says, an export has on disk what it has done, and the vault is as the next
\* export needs it, whatever earlier commands that were killed left behind.
THEOREM CurrencyHolds == Spec => [](Plans /\ Current)
<1>1. Init => IInv /\ One /\ Careful /\ Plans /\ Current BY InvInit, OneInit, CurrentInit
<1>2. IInv /\ One /\ Careful /\ Plans /\ Current /\ [Next]_vars
        => (IInv /\ One /\ Careful /\ Plans /\ Current)'
  BY InvStep, OneStep, CarefulStep, PlansStep, CurrentStep
<1> QED BY <1>1, <1>2, PTL DEF Spec

\* If commands run one at a time, a concept that GET /concepts or
\* GET /concepts/{id} does not know is mentioned by no recorded document, although
\* neither looks at the documents when the manifest has an answer (concepts
\* 136-140, get_concept 149-155).
THEOREM MissingAreUnmentioned == Spec => []MissingIsUnmentioned
<1>1. Current => MissingIsUnmentioned
  <2> SUFFICES ASSUME Current, NEW p \in Procs, overlaps = 0, proc[p].pc = "done",
                      proc[p].answer = {}, NEW d \in Recorded(corpus.docs)
               PROVE  /\ proc[p].cmd = "concepts" => Mentions[Text(corpus.docs, d)] = {}
                      /\ proc[p].cmd = "concept" =>
                           proc[p].want \notin Mentions[Text(corpus.docs, d)]
    BY DEF MissingIsUnmentioned
  <2>1. Knows(proc[p], corpus) BY DEF Current, Able
  <2>2. Mentions[Text(corpus.docs, d)] \subseteq Mentioned(corpus.docs) BY DEF Mentioned
  <2> QED BY <2>1, <2>2 DEF Knows, Answered
<1> QED BY <1>1, CurrencyHolds, PTL

\* When a forced export returns, or a changed-only one after no command was
\* killed, each note has the text of the last document or concept of its name,
\* if commands run one at a time (export_obsidian 157-206).
THEOREM VaultIsCurrent == Spec => []VaultCurrent
<1>1. Current => VaultCurrent
  <2> SUFFICES ASSUME Current, NEW p \in Procs, overlaps = 0, proc[p].pc = "done",
                      proc[p].cmd = "export all" \/ (proc[p].cmd = "export" /\ crashes = 0),
                      NEW n \in All(corpus),
                      \A m \in All(corpus) : m.name = n.name => Place[m.of] <= Place[n.of]
               PROVE  notes[n.name] = n.body
    BY DEF VaultCurrent, All
  <2>1. Progress(proc[p], corpus, notes, crashes) BY DEF Current, Able
  <2>2. Holds(notes, All(corpus), {}) BY <2>1 DEF Progress, Exports
  <2> QED BY <2>2 DEF Holds, Last
<1> QED BY <1>1, CurrencyHolds, PTL

\* A changed-only export of documents that were already exported opens only notes
\* whose name is that of two, if commands run one at a time and none is killed
\* (_export_note 53).
THEOREM OnlySharedRewritten == Spec => RewritesOnlyShared
<1>1. ASSUME IInv, One, Current, [Next]_vars, NEW p \in Procs, NEW n \in Names,
             overlaps = 0, crashes = 0, fresh, proc[p].cmd = "export",
             proc[p].pc = "open note", notes'[n] # notes[n]
      PROVE  Shared(n)
  <2>1. PICK q \in Procs :
           /\ Begin(q) \/ Return(q) \/ RebuildLoad(q) \/ WriteManifest(q) \/ Answer(q)
                \/ Export(q) \/ Crash(q)
           /\ ~ Begin(q) => proc[q].pc # "idle"
    <3>1. Next BY <1>1 DEF vars
    <3> QED BY <1>1, <3>1, StepOf
  <2>2. ~ Begin(q)
    BY <1>1 DEF Begin, RecordLoad, UpsertLoad, Ask, BeginRebuild, vault
  <2>3. q = p BY <1>1, <2>1, <2>2 DEF One
  <2>4. OpenNote(p)
    BY <1>1, <2>1, <2>2, <2>3 DEF Return, RebuildLoad, WriteManifest, Answer, ConceptsLoad,
       GetConceptLoad, CheckDocuments, GetConceptReload, ReviewItemsLoad, ReviewItemsCheck,
       Export, LoadDocuments, SkipNote, LoadLedger, LedgerUnreadable, FillNote, OpenLedger,
       FillLedger, Crash, vault
  <2> DEFINE note == First(proc[p].todo)
             all == All(corpus)
  <2>5. proc[p].pc \in Exporting /\ proc[p].pc \in Filling /\ Able(proc[p]) /\ Kempt(proc[p])
    BY <1>1 DEF Exporting, Filling, Current
  <2>6. note \in all /\ note.name \in Names /\ all = All(Rebuilt(corpus.docs))
    BY <1>1, <2>5, Working
  <2>7. n = note.name
    BY <1>1, <2>4 DEF OpenNote, IInv, Files
  <2>8. ~ Alone(note, all)
    <3>1. Kept(proc[p], all, notes, ledger) BY <1>1, <2>5, <2>6 DEF Kempt, Charted
    <3> QED BY <1>1, <2>5, <3>1 DEF Kept
  <2>9. PICK m \in all : m.name = n /\ m # note BY <2>7, <2>8 DEF Alone
  <2> QED BY <2>6, <2>7, <2>9 DEF Shared, All
<1>2. IInv /\ One /\ Current /\ [Next]_vars =>
        [\A p \in Procs : \A n \in Names :
           /\ overlaps = 0 /\ crashes = 0 /\ fresh
           /\ proc[p].cmd = "export"
           /\ proc[p].pc = "open note" /\ notes'[n] # notes[n]
           => Shared(n)]_vars
  BY <1>1
<1> QED BY <1>2, Invariance, CurrencyHolds, PTL DEF Spec, RewritesOnlyShared
=============================================================================
