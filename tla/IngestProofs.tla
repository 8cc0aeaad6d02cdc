---------------------------- MODULE IngestProofs ----------------------------
(***************************************************************************)
(* For any number of commands, queries, records and works: if commands do  *)
(* not overlap, a query is answered once and once more for each crash,     *)
(* nothing recorded is lost, and a command that ends well recorded all.    *)
(***************************************************************************)
EXTENDS Ingest, RangeLemmas

Loop == {"check", "open", "fill", "load", "save"}

\* A command has the query, the answer and the record its label works on.
Ready(p) ==
  /\ proc[p].pc # "idle" => proc[p].query \in Queries
  /\ proc[p].pc \in {"put", "keep", "parse"} \cup Loop => proc[p].body \in Bodies
  /\ proc[p].pc \in Loop => proc[p].body \in Seq(Records) /\ proc[p].rest # << >>
Shape == TypeOK /\ \A p \in Procs : Ready(p)

\* Without overlaps, what a command loaded is still so, and what it has left
\* to record is all that is missing.
Sync(p) ==
  /\ proc[p].pc = "call" => responses[proc[p].query] = None
  /\ proc[p].pc = "keep" =>
       proc[p].cache = [responses EXCEPT ![proc[p].query] = proc[p].body]
  /\ proc[p].pc = "save" =>
       LET r == Head(proc[p].rest) IN proc[p].buf = [docs EXCEPT ![Work[r]] = Merge(@, r)]
  /\ proc[p].pc \in Loop =>
       \A x \in Range(proc[p].body) : Recorded(x) \/ x \in Range(proc[p].rest)
Solo == \A p, o \in Procs : proc[p].pc # "idle" /\ proc[o].pc # "idle" => p = o

\* A query that was answered is in the cache, or on its way there.
Answered(q) ==
  \/ responses[q] # None
  \/ \E p \in Procs : proc[p].pc \in {"put", "keep"} /\ proc[p].query = q
Counted == \A q \in Queries : calls[q] <= (IF Answered(q) THEN 1 ELSE 0) + crashes

AloneInv ==
  alone => /\ Solo
           /\ \A p \in Procs : Sync(p)
           /\ \A r \in finished : Recorded(r)
           /\ Counted
IInv == Shape /\ AloneInv

-----------------------------------------------------------------------------
(* Merges. *)
LEMMA RecordWork == \A r \in Records : Work[r] \in Works
BY DEF Works

\* A merge adds the record and loses no origin and no merged record.
LEMMA MergeKeeps ==
  ASSUME NEW e \in Document \cup {None}, NEW r \in Records
  PROVE  /\ Merge(e, r) \in Document /\ Merge(e, r) # None
         /\ r \in Merge(e, r).merged
         /\ e # None => /\ e.merged \subseteq Merge(e, r).merged
                        /\ Origins(e) \subseteq Origins(Merge(e, r))
<1>1. CASE e = None BY <1>1, ConstantsAssumption DEF Merge, Document
<1>2. CASE e # None
  <2>1. e \in Document BY <1>2
  <2> DEFINE sources == {s \in e.sources : Origin[s] # Origin[r]} \cup {r}
             merged == e.merged \cup {r}
  <2>2. Merge(e, r) = [e EXCEPT !.sources = sources, !.merged = merged] BY <1>2 DEF Merge
  <2>3. sources \subseteq Records /\ merged \subseteq Records BY <2>1 DEF Document
  <2>4. \A s \in e.sources : \E t \in sources : Origin[t] = Origin[s]
    <3>1. ASSUME NEW s \in e.sources PROVE \E t \in sources : Origin[t] = Origin[s]
      <4>1. CASE Origin[s] = Origin[r]
        <5>1. r \in sources OBVIOUS
        <5> QED BY <4>1, <5>1
      <4>2. CASE Origin[s] # Origin[r]
        <5>1. s \in sources BY <4>2
        <5> QED BY <5>1
      <4> QED BY <4>1, <4>2
    <3> QED BY <3>1
  <2> HIDE DEF sources
  <2>5. Merge(e, r) \in Document /\ Merge(e, r).sources = sources /\ Merge(e, r).merged = merged
    BY <2>1, <2>2, <2>3 DEF Document
  <2>6. Origins(e) \subseteq Origins(Merge(e, r)) BY <2>4, <2>5 DEF Origins
  <2> QED BY <2>5, <2>6, ConstantsAssumption
<1> QED BY <1>1, <1>2

\* The corpus with record r merged.
LEMMA MergeInto ==
  ASSUME docs \in Corpus, NEW r \in Records,
         NEW buf, buf = [docs EXCEPT ![Work[r]] = Merge(@, r)]
  PROVE  /\ buf \in Corpus
         /\ buf[Work[r]] # None /\ r \in buf[Work[r]].merged
         /\ \A w \in Works : docs[w] # None =>
              /\ buf[w] # None
              /\ Origins(docs[w]) \subseteq Origins(buf[w])
              /\ docs[w].merged \subseteq buf[w].merged
<1>1. Work[r] \in Works /\ docs[Work[r]] \in Document \cup {None} BY RecordWork DEF Corpus
<1> DEFINE d == Merge(docs[Work[r]], r)
<1>2. /\ d \in Document /\ d # None /\ r \in d.merged
      /\ docs[Work[r]] # None => /\ docs[Work[r]].merged \subseteq d.merged
                                 /\ Origins(docs[Work[r]]) \subseteq Origins(d)
  BY <1>1, MergeKeeps
<1>3. buf = [docs EXCEPT ![Work[r]] = d] OBVIOUS
<1> HIDE DEF d
<1>4. buf \in Corpus BY <1>1, <1>2, <1>3 DEF Corpus
<1>5. buf[Work[r]] = d /\ \A w \in Works : w # Work[r] => buf[w] = docs[w]
  BY <1>1, <1>3 DEF Corpus
<1> QED BY <1>2, <1>4, <1>5

-----------------------------------------------------------------------------
(* Types. *)
LEMMA IdleState == Idle \in ProcState /\ NoDocs \in Corpus /\ NoResponses \in Responses
BY DEF Idle, ProcState, Labels, Stores, NoDocs, NoResponses, Corpus, Responses

LEMMA InvInit == Init => IInv
<1> SUFFICES ASSUME Init PROVE IInv OBVIOUS
<1>1. TypeOK
  <2>1. MaxCalls[alone] \in Nat /\ MaxCrashes[alone] \in Nat
    BY ConstantsAssumption DEF Init
  <2> QED BY <2>1, IdleState DEF Init, TypeOK
<1>2. \A p \in Procs : proc[p].pc = "idle" BY DEF Init, Idle
<1>3. \A p \in Procs : Ready(p) BY <1>2 DEF Ready, Loop
<1>4. Solo /\ \A p \in Procs : Sync(p) BY <1>2 DEF Solo, Sync, Loop
<1>5. Counted BY DEF Init, Counted
<1> QED BY <1>1, <1>3, <1>4, <1>5 DEF Init, IInv, Shape, AloneInv

\* A step of p that leaves the other processes alone.
LEMMA ProcStep ==
  ASSUME proc \in [Procs -> ProcState], \A o \in Procs : Ready(o),
         NEW p \in Procs, NEW s \in ProcState, proc' = [proc EXCEPT ![p] = s],
         s.pc # "idle" => s.query \in Queries,
         s.pc \in {"put", "keep", "parse"} \cup Loop => s.body \in Bodies,
         s.pc \in Loop => s.body \in Seq(Records) /\ s.rest # << >>
  PROVE  /\ proc' \in [Procs -> ProcState] /\ proc'[p] = s
         /\ \A o \in Procs : o # p => proc'[o] = proc[o]
         /\ \A o \in Procs : Ready(o)'
<1>1. proc' \in [Procs -> ProcState] /\ proc'[p] = s
      /\ \A o \in Procs : o # p => proc'[o] = proc[o]
  OBVIOUS
<1>2. ASSUME NEW o \in Procs PROVE Ready(o)'
  <2>1. CASE o = p BY <1>1, <2>1 DEF Ready
  <2>2. CASE o # p BY <1>1, <2>2 DEF Ready
  <2> QED BY <2>1, <2>2
<1> QED BY <1>1, <1>2

LEMMA BodiesIn == ASSUME NEW q \in Queries, NEW body \in Answers[q] PROVE body \in Bodies
BY ConstantsAssumption

\* A step that leaves the history typed; only proc, disk and calls matter.
LEMMA ShapeStep == Shape /\ [Next]_vars => Shape'
<1> SUFFICES ASSUME Shape, [Next]_vars PROVE Shape' OBVIOUS
<1>t. /\ alone \in BOOLEAN /\ responses \in Responses
      /\ file \in [Stores \X Records -> {"absent", "partial", "whole"}]
      /\ docs \in Corpus /\ calls \in [Queries -> 0 .. MaxCalls[alone]]
      /\ finished \subseteq Records /\ crashes \in 0 .. MaxCrashes[alone]
      /\ proc \in [Procs -> ProcState] /\ \A o \in Procs : Ready(o)
  BY DEF Shape, TypeOK
<1>0. ASSUME proc' \in [Procs -> ProcState], \A o \in Procs : Ready(o)', UNCHANGED <<disk, history>>
      PROVE  Shape'
  BY <1>0, <1>t DEF disk, history, Shape, TypeOK
<1>1. ASSUME NEW p \in Procs, NEW q \in Queries, Start(p, q) PROVE Shape'
  <2> DEFINE s == [Idle EXCEPT !.pc = "get", !.query = q]
  <2>1. s \in ProcState /\ s.pc = "get" /\ s.query = q
    BY IdleState DEF Idle, ProcState, Labels
  <2>2. proc' = [proc EXCEPT ![p] = s] BY <1>1 DEF Start
  <2> HIDE DEF s
  <2>3. proc' \in [Procs -> ProcState] /\ \A o \in Procs : Ready(o)'
    BY <1>t, <2>1, <2>2, ProcStep DEF Loop
  <2> QED BY <1>0, <1>1, <2>3 DEF Start
<1>i. ASSUME NEW p \in Procs, proc' = [proc EXCEPT ![p] = Idle]
      PROVE  proc' \in [Procs -> ProcState] /\ \A o \in Procs : Ready(o)'
  <2>1. Idle \in ProcState /\ Idle.pc = "idle" BY IdleState DEF Idle
  <2> QED BY <1>t, <1>i, <2>1, ProcStep DEF Loop
\* A step of p to another label that works on the same.
<1>p. ASSUME NEW p \in Procs, NEW s \in ProcState, proc' = [proc EXCEPT ![p] = s],
             s.query = proc[p].query, s.body = proc[p].body, s.rest = proc[p].rest,
             proc[p].pc # "idle",
             \/ s.pc \in Loop /\ proc[p].pc \in Loop
             \/ s.pc \in {"keep", "parse"} /\ proc[p].pc \in {"put", "keep"}
             \/ s.pc = "call"
      PROVE  proc' \in [Procs -> ProcState] /\ \A o \in Procs : Ready(o)'
  <2>1. Ready(p) BY <1>t
  <2>2. s.query \in Queries BY <1>p, <2>1 DEF Ready
  <2>3. s.pc \in {"put", "keep", "parse"} \cup Loop => s.body \in Bodies
    BY <1>p, <2>1 DEF Ready, Loop
  <2>4. s.pc \in Loop => s.body \in Seq(Records) /\ s.rest # << >>
    BY <1>p, <2>1 DEF Ready, Loop
  <2> QED BY <1>t, <1>p, <2>2, <2>3, <2>4, ProcStep
<1>2. ASSUME NEW p \in Procs, CacheHit(p) PROVE Shape'
  <2> DEFINE body == responses[proc[p].query]
             s == [proc[p] EXCEPT !.pc = "parse", !.body = body]
  <2>1. proc[p].query \in Queries /\ body \in Bodies
    BY <1>2, <1>t DEF CacheHit, Ready, Responses
  <2>2. s \in ProcState /\ s.pc = "parse" /\ s.query = proc[p].query /\ s.body = body
    BY <1>t, <2>1 DEF ProcState, Labels
  <2>3. proc' = [proc EXCEPT ![p] = s] BY <1>2 DEF CacheHit
  <2> HIDE DEF s
  <2>4. proc' \in [Procs -> ProcState] /\ \A o \in Procs : Ready(o)'
    BY <1>t, <2>1, <2>2, <2>3, ProcStep DEF Loop
  <2> QED BY <1>0, <1>2, <2>4 DEF CacheHit
<1>3. ASSUME NEW p \in Procs, CacheMiss(p) PROVE Shape'
  <2> DEFINE s == [proc[p] EXCEPT !.pc = "call"]
  <2>1. s \in ProcState /\ s.pc = "call" /\ s.query = proc[p].query /\ s.body = proc[p].body
        /\ s.rest = proc[p].rest
    BY <1>t DEF ProcState, Labels
  <2>2. proc' = [proc EXCEPT ![p] = s] BY <1>3, <1>t DEF CacheMiss
  <2> HIDE DEF s
  <2>3. proc' \in [Procs -> ProcState] /\ \A o \in Procs : Ready(o)'
    BY <1>3, <1>p, <2>1, <2>2 DEF CacheMiss
  <2> QED BY <1>0, <1>3, <2>3 DEF CacheMiss
<1>4. ASSUME NEW p \in Procs, Answer(p) PROVE Shape'
  <2> DEFINE q == proc[p].query
  <2>1. q \in Queries BY <1>4, <1>t DEF Answer, Ready
  <2>2. PICK body \in Answers[q] :
          proc' = [proc EXCEPT ![p] = [@ EXCEPT !.pc = "put", !.body = body]]
    BY <1>4 DEF Answer
  <2> DEFINE s == [proc[p] EXCEPT !.pc = "put", !.body = body]
  <2>3. body \in Bodies BY <2>1, BodiesIn
  <2>4. s \in ProcState /\ s.pc = "put" /\ s.query = q /\ s.body = body
    BY <1>t, <2>3 DEF ProcState, Labels
  <2>5. proc' = [proc EXCEPT ![p] = s] BY <2>2
  <2> HIDE DEF s
  <2>6. proc' \in [Procs -> ProcState] /\ \A o \in Procs : Ready(o)'
    BY <1>t, <2>1, <2>3, <2>4, <2>5, ProcStep DEF Loop
  <2>7. calls' \in [Queries -> 0 .. MaxCalls[alone]]
    <3>1. calls[q] \in 0 .. MaxCalls[alone] /\ MaxCalls[alone] \in Nat
      BY <1>t, <2>1, ConstantsAssumption
    <3>2. (IF calls[q] < MaxCalls[alone] THEN calls[q] + 1 ELSE calls[q]) \in 0 .. MaxCalls[alone]
      BY <3>1
    <3> QED BY <1>4, <1>t, <3>2 DEF Answer
  <2> QED BY <1>4, <1>t, <2>6, <2>7 DEF Answer, disk, Shape, TypeOK
<1>5. ASSUME NEW p \in Procs, LoadToPut(p) PROVE Shape'
  <2> DEFINE c == [responses EXCEPT ![proc[p].query] = proc[p].body]
             s == [proc[p] EXCEPT !.pc = "keep", !.cache = c]
  <2>1. proc[p].query \in Queries /\ proc[p].body \in Bodies
    BY <1>5, <1>t DEF LoadToPut, Ready
  <2>2. c \in Responses BY <1>t, <2>1 DEF Responses
  <2>3. proc' = [proc EXCEPT ![p] = s] BY <1>5 DEF LoadToPut
  <2> HIDE DEF c
  <2>4. s \in ProcState /\ s.pc = "keep" /\ s.query = proc[p].query /\ s.body = proc[p].body
        /\ s.rest = proc[p].rest
    BY <1>t, <2>2 DEF ProcState, Labels
  <2> HIDE DEF s
  <2>5. proc' \in [Procs -> ProcState] /\ \A o \in Procs : Ready(o)'
    BY <1>5, <1>p, <2>3, <2>4 DEF LoadToPut
  <2> QED BY <1>0, <1>5, <2>5 DEF LoadToPut
<1>6. ASSUME NEW p \in Procs, Keep(p) PROVE Shape'
  <2> DEFINE s == [proc[p] EXCEPT !.pc = "parse", !.cache = NoResponses]
  <2>1. proc' = [proc EXCEPT ![p] = s] BY <1>6 DEF Keep
  <2>2. s \in ProcState /\ s.pc = "parse" /\ s.query = proc[p].query /\ s.body = proc[p].body
        /\ s.rest = proc[p].rest
    BY <1>t, IdleState DEF ProcState, Labels
  <2> HIDE DEF s
  <2>3. proc' \in [Procs -> ProcState] /\ \A o \in Procs : Ready(o)'
    BY <1>6, <1>p, <2>1, <2>2 DEF Keep
  <2>4. responses' \in Responses BY <1>6, <1>t DEF Keep, ProcState
  <2> QED BY <1>6, <1>t, <2>3, <2>4 DEF Keep, history, Shape, TypeOK
<1>7. ASSUME NEW p \in Procs, Raise(p) PROVE Shape'
  BY <1>0, <1>7, <1>i DEF Raise
\* The loop goes on with the records in rest, or ends.
<1>c. ASSUME NEW p \in Procs, NEW rest \in Seq(Records), Continue(p, rest),
             proc[p].pc \in {"parse", "save"}, proc[p].body \in Seq(Records)
      PROVE  proc' \in [Procs -> ProcState] /\ \A o \in Procs : Ready(o)'
  <2>1. CASE rest = << >>
    <3>1. proc' = [proc EXCEPT ![p] = Idle] BY <1>c, <2>1 DEF Continue
    <3> QED BY <1>i, <3>1
  <2>2. CASE rest # << >>
    <3> DEFINE s == [proc[p] EXCEPT !.pc = "check", !.store = "raw", !.rest = rest, !.buf = NoDocs]
    <3>1. proc' = [proc EXCEPT ![p] = s] BY <1>c, <2>2 DEF Continue
    <3>2. /\ s \in ProcState /\ s.pc = "check" /\ s.query = proc[p].query
          /\ s.body = proc[p].body /\ s.rest = rest
      BY <1>t, <1>c, IdleState DEF ProcState, Labels, Stores
    <3>3. proc[p].query \in Queries BY <1>t, <1>c DEF Ready
    <3> HIDE DEF s
    <3> QED BY <1>t, <1>c, <2>2, <3>1, <3>2, <3>3, ProcStep DEF Loop, Bodies
  <2> QED BY <2>1, <2>2
<1>f. ASSUME NEW p \in Procs, NEW rest, Finish(p, rest), proc[p].body \in Seq(Records)
      PROVE  finished' \subseteq Records
  <2>1. {proc[p].body[i] : i \in DOMAIN proc[p].body} \subseteq Records BY <1>f
  <2> QED BY <1>t, <1>f, <2>1 DEF Finish
<1>8. ASSUME NEW p \in Procs, Parse(p) PROVE Shape'
  <2>1. proc[p].body \in Seq(Records) BY <1>8, <1>t DEF Parse, Ready, Bodies
  <2>2. proc' \in [Procs -> ProcState] /\ \A o \in Procs : Ready(o)'
    BY <1>8, <1>c, <2>1 DEF Parse
  <2>3. finished' \subseteq Records BY <1>8, <1>f, <2>1 DEF Parse
  <2> QED BY <1>8, <1>t, <2>2, <2>3 DEF Parse, disk, Shape, TypeOK
<1>s. ASSUME NEW p \in Procs, Stored(p), proc[p].pc \in Loop
      PROVE  proc' \in [Procs -> ProcState] /\ \A o \in Procs : Ready(o)'
  <2> DEFINE s == IF proc[p].store = "raw"
                  THEN [proc[p] EXCEPT !.pc = "check", !.store = "canonical"]
                  ELSE [proc[p] EXCEPT !.pc = "load"]
  <2>1. proc' = [proc EXCEPT ![p] = s] BY <1>s DEF Stored
  <2>2. s \in ProcState /\ s.pc \in Loop /\ s.query = proc[p].query /\ s.body = proc[p].body
        /\ s.rest = proc[p].rest
    BY <1>t DEF ProcState, Labels, Stores, Loop
  <2>3. proc[p].pc # "idle" BY <1>s DEF Loop
  <2> HIDE DEF s
  <2> QED BY <1>s, <1>p, <2>1, <2>2, <2>3
<1>l. ASSUME NEW p \in Procs, NEW pc \in Loop, proc' = [proc EXCEPT ![p].pc = pc],
             proc[p].pc \in Loop
      PROVE  proc' \in [Procs -> ProcState] /\ \A o \in Procs : Ready(o)'
  <2> DEFINE s == [proc[p] EXCEPT !.pc = pc]
  <2>1. s \in ProcState /\ s.pc = pc /\ s.query = proc[p].query /\ s.body = proc[p].body
        /\ s.rest = proc[p].rest
    BY <1>t DEF ProcState, Labels, Loop
  <2>2. proc' = [proc EXCEPT ![p] = s] BY <1>l, <1>t
  <2>3. proc[p].pc # "idle" BY <1>l DEF Loop
  <2> HIDE DEF s
  <2> QED BY <1>l, <1>p, <2>1, <2>2, <2>3
<1>9. ASSUME NEW p \in Procs, CheckExists(p) PROVE Shape'
  <2>1. proc' \in [Procs -> ProcState] /\ \A o \in Procs : Ready(o)'
    BY <1>9, <1>s, <1>l DEF CheckExists, Loop
  <2> QED BY <1>0, <1>9, <2>1 DEF CheckExists
<1>10. ASSUME NEW p \in Procs, Open(p) \/ Fill(p) PROVE Shape'
  <2>1. proc' \in [Procs -> ProcState] /\ \A o \in Procs : Ready(o)'
    BY <1>10, <1>s, <1>l DEF Open, Fill, Loop
  <2>2. file' \in [Stores \X Records -> {"absent", "partial", "whole"}]
    BY <1>10, <1>t DEF Open, Fill
  <2> QED BY <1>10, <1>t, <2>1, <2>2 DEF Open, Fill, history, Shape, TypeOK
<1>11. ASSUME NEW p \in Procs, Load(p) PROVE Shape'
  <2> DEFINE r == Head(proc[p].rest)
             buf == [docs EXCEPT ![Work[r]] = Merge(@, r)]
             s == [proc[p] EXCEPT !.pc = "save", !.buf = buf]
  <2>1. proc[p].rest \in Seq(Records) /\ proc[p].rest # << >> /\ proc[p].pc = "load"
    BY <1>11, <1>t DEF Load, Ready, ProcState, Loop
  <2>2. r \in Records BY <2>1, RangeTail
  <2>3. buf \in Corpus BY <1>t, <2>2, MergeInto
  <2>4. proc' = [proc EXCEPT ![p] = s] BY <1>11 DEF Load
  <2> HIDE DEF buf
  <2>5. s \in ProcState /\ s.pc = "save" /\ s.query = proc[p].query /\ s.body = proc[p].body
        /\ s.rest = proc[p].rest
    BY <1>t, <2>3 DEF ProcState, Labels
  <2> HIDE DEF s
  <2>6. proc' \in [Procs -> ProcState] /\ \A o \in Procs : Ready(o)'
    BY <1>p, <2>1, <2>4, <2>5 DEF Loop
  <2> QED BY <1>0, <1>11, <2>6 DEF Load
<1>12. ASSUME NEW p \in Procs, Save(p) PROVE Shape'
  <2>1. /\ proc[p].body \in Seq(Records) /\ proc[p].rest \in Seq(Records) /\ proc[p].rest # << >>
        /\ docs' \in Corpus
    BY <1>12, <1>t DEF Save, Ready, ProcState, Loop
  <2>2. Tail(proc[p].rest) \in Seq(Records) BY <2>1, RangeTail
  <2>3. proc' \in [Procs -> ProcState] /\ \A o \in Procs : Ready(o)'
    BY <1>12, <1>c, <2>1, <2>2 DEF Save
  <2>4. finished' \subseteq Records BY <1>12, <1>f, <2>1 DEF Save
  <2> QED BY <1>12, <1>t, <2>1, <2>3, <2>4 DEF Save, Shape, TypeOK
<1>13. ASSUME NEW p \in Procs, Crash(p) PROVE Shape'
  <2>1. proc' \in [Procs -> ProcState] /\ \A o \in Procs : Ready(o)' BY <1>13, <1>i DEF Crash
  <2>2. crashes' \in 0 .. MaxCrashes[alone]
    BY <1>13, <1>t, ConstantsAssumption DEF Crash
  <2> QED BY <1>13, <1>t, <2>1, <2>2 DEF Crash, disk, Shape, TypeOK
<1>14. CASE UNCHANGED vars
  BY <1>t, <1>14 DEF vars, Shape, TypeOK, Ready
<1> QED
  BY <1>1, <1>2, <1>3, <1>4, <1>5, <1>6, <1>7, <1>8, <1>9, <1>10, <1>11, <1>12, <1>13, <1>14
  DEF Next, Run

-----------------------------------------------------------------------------
(* Commands that do not overlap. *)
LEMMA Counters == Shape => calls \in [Queries -> Nat] /\ crashes \in Nat
<1> SUFFICES ASSUME Shape PROVE calls \in [Queries -> Nat] /\ crashes \in Nat
  OBVIOUS
<1>1. MaxCalls[alone] \in Nat /\ MaxCrashes[alone] \in Nat
  BY ConstantsAssumption DEF Shape, TypeOK
<1>2. calls \in [Queries -> 0 .. MaxCalls[alone]] /\ crashes \in 0 .. MaxCrashes[alone]
  BY DEF Shape, TypeOK
<1>3. 0 .. MaxCalls[alone] \subseteq Nat /\ 0 .. MaxCrashes[alone] \subseteq Nat BY <1>1
<1> HIDE DEF Shape
<1> QED BY <1>2, <1>3

LEMMA AloneKept == IInv /\ [Next]_vars => AloneInv'
<1>z. [Next]_vars /\ alone' => alone
  BY DEF Next, Run, vars, history, Start, CacheHit, CacheMiss, Answer, LoadToPut, Keep, Raise,
         Parse, CheckExists, Open, Fill, Load, Save, Crash
<1> SUFFICES ASSUME IInv, [Next]_vars, alone PROVE AloneInv'
  BY <1>z DEF AloneInv
<1>t. /\ docs \in Corpus /\ responses \in Responses /\ proc \in [Procs -> ProcState]
      /\ finished \subseteq Records /\ calls \in [Queries -> Nat] /\ crashes \in Nat
      /\ \A o \in Procs : Ready(o)
  BY Counters DEF IInv, Shape, TypeOK
<1>i. /\ Solo
      /\ \A o \in Procs : Sync(o)
      /\ \A r \in finished : Recorded(r)
      /\ Counted
  BY DEF IInv, AloneInv
\* Only p runs, and only p steps.
<1>a. ASSUME NEW p \in Procs, \A o \in Procs : o # p => proc[o].pc = "idle",
             \A o \in Procs : o # p => proc'[o] = proc[o],
             Sync(p)', \A r \in finished' : Recorded(r)', Counted'
      PROVE  AloneInv'
  <2>1. \A o \in Procs : o # p => Sync(o)' BY <1>a DEF Sync, Loop
  <2>2. Solo' BY <1>a DEF Solo
  <2> QED BY <1>a, <2>1, <2>2 DEF AloneInv
<1>o. ASSUME NEW p \in Procs, proc[p].pc # "idle"
      PROVE  \A o \in Procs : o # p => proc[o].pc = "idle"
  BY <1>o, <1>i DEF Solo
<1>w. ASSUME NEW p \in Procs, \A o \in Procs : o # p => proc[o].pc = "idle",
             NEW q \in Queries, Answered(q)
      PROVE  responses[q] # None \/ (proc[p].pc \in {"put", "keep"} /\ proc[p].query = q)
  BY <1>w DEF Answered
<1>k. ASSUME calls' = calls, crashes' = crashes, \A q \in Queries : Answered(q) => Answered(q)'
      PROVE  Counted'
  <2> SUFFICES ASSUME NEW q \in Queries
               PROVE  calls'[q] <= (IF Answered(q)' THEN 1 ELSE 0) + crashes'
    BY DEF Counted
  <2>1. calls[q] <= (IF Answered(q) THEN 1 ELSE 0) + crashes BY <1>i DEF Counted
  <2>2. CASE Answered(q)
    <3>1. Answered(q)' BY <1>k, <2>2
    <3> QED BY <1>k, <2>1, <2>2, <3>1
  <2>3. CASE ~Answered(q)
    <3>1. calls[q] <= crashes BY <1>t, <2>1, <2>3
    <3>2. CASE Answered(q)' BY <1>t, <1>k, <3>1, <3>2
    <3>3. CASE ~Answered(q)' BY <1>t, <1>k, <3>1, <3>3
    <3> QED BY <3>2, <3>3
  <2> QED BY <2>2, <2>3
<1>r. ASSUME docs' = docs, finished' = finished PROVE \A r \in finished' : Recorded(r)'
  BY <1>r, <1>i DEF Recorded
\* A step of p outside the loop, away from the cache, that keeps the disk.
<1>q. ASSUME NEW p \in Procs, proc[p].pc \notin {"put", "keep"}, UNCHANGED <<disk, history>>,
             \A o \in Procs : o # p => proc[o].pc = "idle",
             \A o \in Procs : o # p => proc'[o] = proc[o], Sync(p)'
      PROVE  AloneInv'
  <2>1. \A q \in Queries : Answered(q) => Answered(q)'
    BY <1>q, <1>w DEF Answered, disk
  <2> QED BY <1>q, <1>a, <1>k, <1>r, <2>1 DEF disk, history
<1>1. ASSUME NEW p \in Procs, NEW q \in Queries, Start(p, q) PROVE AloneInv'
  <2> DEFINE s == [Idle EXCEPT !.pc = "get", !.query = q]
  <2>1. s.pc = "get" BY DEF Idle
  <2>2. proc' = [proc EXCEPT ![p] = s] BY <1>1 DEF Start
  <2> HIDE DEF s
  <2>3. proc'[p].pc = "get" /\ \A o \in Procs : o # p => proc'[o] = proc[o] BY <1>t, <2>1, <2>2
  <2>4. \A o \in Procs : proc[o].pc = "idle" BY <1>1 DEF Start
  <2> QED BY <1>1, <1>q, <2>3, <2>4 DEF Start, Sync, Loop
<1>2. ASSUME NEW p \in Procs, CacheHit(p) PROVE AloneInv'
  <2>1. proc'[p].pc = "parse" /\ \A o \in Procs : o # p => proc'[o] = proc[o]
    BY <1>2, <1>t DEF CacheHit, ProcState
  <2> QED BY <1>2, <1>o, <1>q, <2>1 DEF CacheHit, Sync, Loop
<1>3. ASSUME NEW p \in Procs, CacheMiss(p) PROVE AloneInv'
  <2>1. proc'[p].pc = "call" /\ proc'[p].query = proc[p].query
        /\ \A o \in Procs : o # p => proc'[o] = proc[o]
    BY <1>3, <1>t DEF CacheMiss, ProcState
  <2>2. Sync(p)' BY <1>3, <2>1 DEF CacheMiss, Sync, disk, Loop
  <2> QED BY <1>3, <1>o, <1>q, <2>1, <2>2 DEF CacheMiss
<1>4. ASSUME NEW p \in Procs, Answer(p) PROVE AloneInv'
  <2> DEFINE q == proc[p].query
  <2>1. q \in Queries /\ proc[p].pc = "call" BY <1>4, <1>t DEF Answer, Ready
  <2>2. proc'[p].pc = "put" /\ proc'[p].query = q /\ \A o \in Procs : o # p => proc'[o] = proc[o]
    BY <1>4, <1>t DEF Answer, ProcState
  <2>3. \A o \in Procs : o # p => proc[o].pc = "idle" BY <1>o, <2>1
  <2>4. ~Answered(q)
    <3>1. responses[q] = None BY <1>i, <2>1 DEF Sync
    <3> QED BY <1>w, <2>1, <2>3, <3>1
  <2>6. /\ calls'[q] = calls[q] \/ calls'[q] = calls[q] + 1
        /\ \A x \in Queries : x # q => calls'[x] = calls[x]
    BY <1>4, <1>t, <2>1 DEF Answer
  <2>7. ASSUME NEW x \in Queries
        PROVE  calls'[x] <= (IF Answered(x)' THEN 1 ELSE 0) + crashes'
    <3>1. crashes' = crashes /\ responses' = responses BY <1>4 DEF Answer, disk
    <3>2. calls[x] <= (IF Answered(x) THEN 1 ELSE 0) + crashes BY <1>i DEF Counted
    <3>3. CASE x = q
      <4>1. ~Answered(x) BY <2>4, <3>3
      <4>2. Answered(x)' BY <2>2, <3>3 DEF Answered
      <4>3. calls[x] <= crashes BY <1>t, <3>2, <4>1
      <4>4. calls'[x] <= calls[x] + 1 BY <1>t, <2>6, <3>3
      <4>5. calls'[x] <= 1 + crashes BY <1>t, <2>6, <3>3, <4>3, <4>4
      <4> QED BY <3>1, <4>2, <4>5
    <3>4. CASE x # q
      <4>1. Answered(x) => Answered(x)'
        BY <1>w, <2>1, <2>3, <3>1 DEF Answered
      <4>2. calls'[x] = calls[x] BY <2>6, <3>4
      <4>3. CASE Answered(x)
        <5>1. Answered(x)' BY <4>1, <4>3
        <5> QED BY <3>1, <3>2, <4>2, <4>3, <5>1
      <4>4. CASE ~Answered(x)
        <5>1. calls[x] <= crashes BY <1>t, <3>2, <4>4
        <5>2. CASE Answered(x)' BY <1>t, <3>1, <4>2, <5>1, <5>2
        <5>3. CASE ~Answered(x)' BY <1>t, <3>1, <4>2, <5>1, <5>3
        <5> QED BY <5>2, <5>3
      <4> QED BY <4>3, <4>4
    <3> QED BY <3>3, <3>4
  <2>8. Counted' BY <2>7 DEF Counted
  <2> QED BY <1>4, <1>a, <1>r, <2>2, <2>3, <2>8 DEF Answer, disk, Sync, Loop
<1>5. ASSUME NEW p \in Procs, LoadToPut(p) PROVE AloneInv'
  <2> DEFINE c == [responses EXCEPT ![proc[p].query] = proc[p].body]
             s == [proc[p] EXCEPT !.pc = "keep", !.cache = c]
  <2>1. proc' = [proc EXCEPT ![p] = s] BY <1>5 DEF LoadToPut
  <2> HIDE DEF c
  <2>2. s.pc = "keep" /\ s.query = proc[p].query /\ s.body = proc[p].body /\ s.cache = c
    BY <1>t DEF ProcState
  <2> HIDE DEF s
  <2>3. proc'[p] = s /\ \A o \in Procs : o # p => proc'[o] = proc[o] BY <1>t, <2>1
  <2>4. responses' = responses BY <1>5 DEF LoadToPut, disk
  <2>5. proc'[p].cache = [responses' EXCEPT ![proc'[p].query] = proc'[p].body]
    BY <2>2, <2>3, <2>4 DEF c
  <2>6. Sync(p)' BY <2>2, <2>3, <2>5 DEF Sync, Loop
  <2>7. \A o \in Procs : o # p => proc[o].pc = "idle" BY <1>5, <1>o DEF LoadToPut
  <2>8. \A q \in Queries : Answered(q) => Answered(q)'
    BY <1>w, <2>2, <2>3, <2>4, <2>7 DEF Answered
  <2> QED BY <1>5, <1>a, <1>k, <1>r, <2>3, <2>6, <2>7, <2>8 DEF LoadToPut, disk, history
<1>6. ASSUME NEW p \in Procs, Keep(p) PROVE AloneInv'
  <2>1. proc'[p].pc = "parse" /\ \A o \in Procs : o # p => proc'[o] = proc[o]
    BY <1>6, <1>t DEF Keep, ProcState
  <2>2. proc[p].query \in Queries /\ proc[p].body # None
    BY <1>6, <1>t, ConstantsAssumption DEF Keep, Ready
  <2>3. responses' = [responses EXCEPT ![proc[p].query] = proc[p].body]
    BY <1>6, <1>i DEF Keep, Sync
  <2>4. \A q \in Queries : responses'[q] = IF q = proc[p].query THEN proc[p].body ELSE responses[q]
    BY <1>t, <2>3 DEF Responses
  <2>5. \A o \in Procs : o # p => proc[o].pc = "idle" BY <1>6, <1>o DEF Keep
  <2>6. \A q \in Queries : Answered(q) => Answered(q)'
    BY <1>w, <2>2, <2>4, <2>5 DEF Answered
  <2> QED BY <1>6, <1>a, <1>k, <1>r, <2>1, <2>5, <2>6 DEF Keep, history, Sync, Loop
<1>7. ASSUME NEW p \in Procs, Raise(p) PROVE AloneInv'
  <2>1. proc'[p].pc = "idle" /\ \A o \in Procs : o # p => proc'[o] = proc[o]
    BY <1>7, <1>t DEF Raise, Idle
  <2> QED BY <1>7, <1>o, <1>q, <2>1 DEF Raise, Sync, Loop
\* After p has recorded all of its answer but rest, it goes on with rest.
<1>c. ASSUME NEW p \in Procs, NEW rest, Continue(p, rest), Finish(p, rest),
             proc[p].pc \in {"parse", "save"},
             \A x \in Range(proc[p].body) : Recorded(x)' \/ x \in Range(rest),
             \A r \in finished : Recorded(r)'
      PROVE  /\ Sync(p)' /\ \A o \in Procs : o # p => proc'[o] = proc[o]
             /\ \A r \in finished' : Recorded(r)'
  <2>1. CASE rest = << >>
    <3>1. proc' = [proc EXCEPT ![p] = Idle] BY <1>c, <2>1 DEF Continue
    <3>2. proc'[p].pc = "idle" /\ \A o \in Procs : o # p => proc'[o] = proc[o]
      BY <1>t, <3>1 DEF Idle
    <3>3. finished' = finished \cup Range(proc[p].body) BY <1>c, <2>1 DEF Finish, Range
    <3>4. \A x \in Range(proc[p].body) : Recorded(x)' BY <1>c, <2>1, RangeEmpty
    <3> QED BY <1>c, <3>2, <3>3, <3>4 DEF Sync, Loop
  <2>2. CASE rest # << >>
    <3> DEFINE s == [proc[p] EXCEPT !.pc = "check", !.store = "raw", !.rest = rest, !.buf = NoDocs]
    <3>1. proc' = [proc EXCEPT ![p] = s] BY <1>c, <2>2 DEF Continue
    <3>2. s.pc = "check" /\ s.body = proc[p].body /\ s.rest = rest BY <1>t DEF ProcState
    <3> HIDE DEF s
    <3>3. proc'[p] = s /\ \A o \in Procs : o # p => proc'[o] = proc[o] BY <1>t, <3>1
    <3>4. finished' = finished BY <1>c, <2>2 DEF Finish
    <3>5. \A x \in Range(proc'[p].body) : Recorded(x)' \/ x \in Range(proc'[p].rest)
      BY <1>c, <3>2, <3>3
    <3>6. (\A x \in Range(proc[p].body) : Recorded(x) \/ x \in Range(proc[p].rest))'
      BY <3>5 DEF Range
    <3> QED BY <1>c, <3>2, <3>3, <3>4, <3>6 DEF Sync
  <2> QED BY <2>1, <2>2
<1>8. ASSUME NEW p \in Procs, Parse(p) PROVE AloneInv'
  <2>1. /\ Sync(p)' /\ \A o \in Procs : o # p => proc'[o] = proc[o]
        /\ \A r \in finished' : Recorded(r)'
    <3>1. docs' = docs BY <1>8 DEF Parse, disk
    <3>2. \A r \in finished : Recorded(r)' BY <1>i, <3>1 DEF Recorded
    <3> QED BY <1>8, <1>c, <3>2 DEF Parse
  <2>2. \A o \in Procs : o # p => proc[o].pc = "idle" BY <1>8, <1>o DEF Parse
  <2>3. \A q \in Queries : Answered(q) => Answered(q)'
    BY <1>8, <1>w, <2>2 DEF Parse, Answered, disk
  <2> QED BY <1>8, <1>a, <1>k, <2>1, <2>2, <2>3 DEF Parse
\* A step within the loop that is not a load of the corpus.
<1>l. ASSUME NEW p \in Procs, proc[p].pc \in Loop, proc'[p].pc \in Loop \ {"save"},
             proc'[p].rest = proc[p].rest, proc'[p].body = proc[p].body, docs' = docs
      PROVE  Sync(p)'
  <2>1. \A x \in Range(proc[p].body) : Recorded(x) \/ x \in Range(proc[p].rest)
    BY <1>l, <1>i DEF Sync
  <2>2. (\A x \in Range(proc[p].body) : Recorded(x) \/ x \in Range(proc[p].rest))'
    BY <1>l, <2>1 DEF Range, Recorded
  <2> QED BY <1>l, <2>2 DEF Sync, Loop
<1>s. ASSUME NEW p \in Procs, Stored(p)
      PROVE  /\ proc'[p].pc \in Loop \ {"save"}
             /\ proc'[p].rest = proc[p].rest /\ proc'[p].body = proc[p].body
             /\ \A o \in Procs : o # p => proc'[o] = proc[o]
  <2> DEFINE s == IF proc[p].store = "raw"
                  THEN [proc[p] EXCEPT !.pc = "check", !.store = "canonical"]
                  ELSE [proc[p] EXCEPT !.pc = "load"]
  <2>1. proc' = [proc EXCEPT ![p] = s] BY <1>s DEF Stored
  <2>2. s.pc \in Loop \ {"save"} /\ s.body = proc[p].body /\ s.rest = proc[p].rest
    BY <1>t DEF ProcState, Loop
  <2> HIDE DEF s
  <2> QED BY <1>t, <2>1, <2>2
<1>9. ASSUME NEW p \in Procs, CheckExists(p) \/ Open(p) \/ Fill(p) PROVE AloneInv'
  <2>1. proc[p].pc \in {"check", "open", "fill"} BY <1>9 DEF CheckExists, Open, Fill
  <2>2. /\ proc'[p].pc \in Loop \ {"save"}
        /\ proc'[p].rest = proc[p].rest /\ proc'[p].body = proc[p].body
        /\ \A o \in Procs : o # p => proc'[o] = proc[o]
    <3>1. CASE Stored(p) BY <1>s, <3>1
    <3>2. CASE proc' = [proc EXCEPT ![p].pc = "open"] BY <1>t, <3>2 DEF ProcState, Loop
    <3>3. CASE proc' = [proc EXCEPT ![p].pc = "fill"] BY <1>t, <3>3 DEF ProcState, Loop
    <3> QED BY <1>9, <3>1, <3>2, <3>3 DEF CheckExists, Open, Fill
  <2>3. UNCHANGED <<responses, docs, history>>
    BY <1>9 DEF CheckExists, Open, Fill, disk
  <2>4. Sync(p)' BY <1>l, <2>1, <2>2, <2>3 DEF Loop
  <2>5. \A o \in Procs : o # p => proc[o].pc = "idle" BY <1>o, <2>1
  <2>6. \A q \in Queries : Answered(q) => Answered(q)'
    BY <1>w, <2>1, <2>3, <2>5 DEF Answered
  <2> QED BY <1>a, <1>k, <1>r, <2>2, <2>3, <2>4, <2>5, <2>6 DEF history
<1>10. ASSUME NEW p \in Procs, Load(p) PROVE AloneInv'
  <2> DEFINE r == Head(proc[p].rest)
             buf == [docs EXCEPT ![Work[r]] = Merge(@, r)]
             s == [proc[p] EXCEPT !.pc = "save", !.buf = buf]
  <2>1. proc' = [proc EXCEPT ![p] = s] BY <1>10 DEF Load
  <2> HIDE DEF buf
  <2>2. s.pc = "save" /\ s.rest = proc[p].rest /\ s.body = proc[p].body /\ s.buf = buf
    BY <1>t DEF ProcState
  <2> HIDE DEF s
  <2>3. proc'[p] = s /\ \A o \in Procs : o # p => proc'[o] = proc[o] BY <1>t, <2>1
  <2>4. docs' = docs /\ proc[p].pc = "load" BY <1>10 DEF Load, disk
  <2>5. \A x \in Range(proc[p].body) : Recorded(x) \/ x \in Range(proc[p].rest)
    BY <1>i, <2>4 DEF Sync, Loop
  <2>6. (\A x \in Range(proc[p].body) : Recorded(x) \/ x \in Range(proc[p].rest))'
    BY <2>2, <2>3, <2>4, <2>5 DEF Range, Recorded
  <2>7. proc'[p].buf = [docs' EXCEPT ![Work[Head(proc'[p].rest)]] = Merge(@, Head(proc'[p].rest))]
    BY <2>2, <2>3, <2>4 DEF buf
  <2>8. Sync(p)' BY <2>2, <2>3, <2>6, <2>7 DEF Sync, Merge
  <2> QED BY <1>10, <1>o, <1>q, <2>3, <2>8 DEF Load
<1>11. ASSUME NEW p \in Procs, Save(p) PROVE AloneInv'
  <2>1. proc[p].pc = "save" /\ proc[p].rest \in Seq(Records) /\ proc[p].rest # << >>
    BY <1>11, <1>t DEF Save, Ready, ProcState, Loop
  <2>2. PICK r \in Records :
          r = Head(proc[p].rest) /\ Range(proc[p].rest) = {r} \cup Range(Tail(proc[p].rest))
    BY <2>1, RangeTail
  <2>3. docs' = [docs EXCEPT ![Work[r]] = Merge(@, r)] BY <1>11, <1>i, <2>2 DEF Save, Sync
  <2>4. /\ docs'[Work[r]] # None /\ r \in docs'[Work[r]].merged
        /\ \A w \in Works : docs[w] # None =>
              docs'[w] # None /\ docs[w].merged \subseteq docs'[w].merged
    BY <1>t, <2>2, <2>3, MergeInto
  <2>5. \A x \in Records : Recorded(x) => Recorded(x)' BY <2>4, RecordWork DEF Recorded
  <2>6. Recorded(r)' BY <2>4 DEF Recorded
  <2>7. Range(proc[p].body) \subseteq Records
    <3>1. proc[p].body \in Seq(Records) BY <1>t, <2>1 DEF Ready, Loop
    <3> QED BY <3>1, RangeIn
  <2>8. \A x \in Range(proc[p].body) : Recorded(x) \/ x \in Range(proc[p].rest)
    BY <1>i, <2>1 DEF Sync, Loop
  <2>9. \A x \in Range(proc[p].body) : Recorded(x)' \/ x \in Range(Tail(proc[p].rest))
    BY <2>2, <2>5, <2>6, <2>7, <2>8
  <2>10. \A x \in finished : Recorded(x)' BY <1>t, <1>i, <2>5
  <2>11. /\ Sync(p)' /\ \A o \in Procs : o # p => proc'[o] = proc[o]
         /\ \A x \in finished' : Recorded(x)'
    BY <1>11, <1>c, <2>9, <2>10 DEF Save
  <2>12. \A o \in Procs : o # p => proc[o].pc = "idle" BY <1>o, <2>1
  <2>13. \A q \in Queries : Answered(q) => Answered(q)'
    BY <1>11, <1>w, <2>1, <2>12 DEF Save, Answered
  <2> QED BY <1>11, <1>a, <1>k, <2>11, <2>12, <2>13 DEF Save
<1>12. ASSUME NEW p \in Procs, Crash(p) PROVE AloneInv'
  <2>1. proc'[p].pc = "idle" /\ \A o \in Procs : o # p => proc'[o] = proc[o]
    BY <1>12, <1>t DEF Crash, Idle
  <2>2. crashes' = crashes + 1 /\ calls' = calls BY <1>12 DEF Crash
  <2>3. ASSUME NEW q \in Queries
        PROVE  calls'[q] <= (IF Answered(q)' THEN 1 ELSE 0) + crashes'
    <3>1. calls[q] <= (IF Answered(q) THEN 1 ELSE 0) + crashes BY <1>i DEF Counted
    <3>2. calls[q] <= 1 + crashes
      <4>1. CASE Answered(q) BY <3>1, <4>1
      <4>2. CASE ~Answered(q) BY <1>t, <3>1, <4>2
      <4> QED BY <4>1, <4>2
    <3>3. CASE Answered(q)' BY <1>t, <2>2, <3>2, <3>3
    <3>4. CASE ~Answered(q)' BY <1>t, <2>2, <3>2, <3>4
    <3> QED BY <3>3, <3>4
  <2>4. Counted' BY <2>3 DEF Counted
  <2> QED BY <1>12, <1>a, <1>o, <1>r, <2>1, <2>4 DEF Crash, disk, Sync, Loop
<1>13. CASE UNCHANGED vars
  <2>1. UNCHANGED <<responses, docs, proc, calls, finished, crashes>> BY <1>13 DEF vars
  <2>2. Solo' BY <1>i, <2>1 DEF Solo
  <2>3. \A o \in Procs : Sync(o)' BY <1>i, <2>1 DEF Sync, Recorded
  <2>4. \A x \in finished' : Recorded(x)' BY <1>r, <2>1
  <2>5. Counted' BY <1>k, <2>1 DEF Answered
  <2> QED BY <2>2, <2>3, <2>4, <2>5 DEF AloneInv
<1> QED
  BY <1>1, <1>2, <1>3, <1>4, <1>5, <1>6, <1>7, <1>8, <1>9, <1>10, <1>11, <1>12, <1>13
  DEF Next, Run

-----------------------------------------------------------------------------
\* The types hold always, and when commands do not overlap a command knows what
\* the cache and the corpus hold (_fetch, _record).
THEOREM Invariance == Spec => []IInv
<1>1. IInv /\ [Next]_vars => IInv'
  BY ShapeStep, AloneKept DEF IInv
<1> QED BY InvInit, <1>1, PTL DEF Spec

\* The variables have their types.
THEOREM TypesHold == Spec => []TypeOK
<1>1. IInv => TypeOK BY DEF IInv, Shape
<1> QED BY <1>1, Invariance, PTL

\* A query is answered once, and once more for each crash (_fetch 122-139).
THEOREM QueriesFetchedOnce == Spec => []FetchedOnce
<1>1. IInv => FetchedOnce
  <2> SUFFICES ASSUME IInv, alone, NEW q \in Queries PROVE calls[q] <= 1 + crashes
    BY DEF FetchedOnce
  <2>1. calls[q] \in Nat /\ crashes \in Nat BY Counters DEF IInv
  <2>2. calls[q] <= (IF Answered(q) THEN 1 ELSE 0) + crashes BY DEF IInv, AloneInv, Counted
  <2>3. CASE Answered(q) BY <2>1, <2>2, <2>3
  <2>4. CASE ~Answered(q) BY <2>1, <2>2, <2>4
  <2> QED BY <2>3, <2>4
<1> QED BY Invariance, <1>1, PTL

\* A command that ends without an error has recorded its whole response
\* (ingest_academic 189-196).
THEOREM FinishedRecorded == Spec => []FinishedIsRecorded
<1>1. IInv => FinishedIsRecorded BY DEF IInv, AloneInv, FinishedIsRecorded
<1> QED BY Invariance, <1>1, PTL

\* No step loses a recorded document or what was recorded of it (_record 208-216).
THEOREM NothingLost == Spec => SourcesKept
<1> DEFINE Kept == alone => \A w \in Works : docs[w] # None =>
                     /\ docs'[w] # None
                     /\ Origins(docs[w]) \subseteq Origins(docs'[w])
                     /\ docs[w].merged \subseteq docs'[w].merged
<1>1. IInv /\ [Next]_vars => [Kept]_vars
  <2> SUFFICES ASSUME IInv, [Next]_vars, alone PROVE Kept OBVIOUS
  <2>1. CASE docs' = docs BY <2>1 DEF Origins
  <2>2. CASE \E p \in Procs : Save(p)
    <3>1. PICK p \in Procs : Save(p) BY <2>2
    <3> DEFINE r == Head(proc[p].rest)
    <3>2. proc[p].pc = "save" /\ proc[p].rest \in Seq(Records) /\ proc[p].rest # << >>
          /\ docs \in Corpus
      BY <3>1 DEF Save, IInv, Shape, TypeOK, Ready, ProcState, Loop
    <3>3. r \in Records BY <3>2, RangeTail
    <3>4. docs' = [docs EXCEPT ![Work[r]] = Merge(@, r)]
      BY <3>1 DEF IInv, AloneInv, Save, Sync
    <3> QED BY <3>2, <3>3, <3>4, MergeInto
  <2>3. docs' = docs \/ \E p \in Procs : Save(p)
    BY DEF Next, Run, vars, disk, Start, CacheHit, CacheMiss, Answer, LoadToPut, Keep, Raise,
           Parse, CheckExists, Open, Fill, Load, Crash
  <2> QED BY <2>1, <2>2, <2>3
<1> QED BY Invariance, <1>1, PTL DEF Spec, SourcesKept
=============================================================================
