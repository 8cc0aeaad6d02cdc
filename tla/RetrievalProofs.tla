--------------------------- MODULE RetrievalProofs ----------------------------
(***************************************************************************)
(* What the chunker keeps of a text and what a search finds in it, for     *)
(* every text, target, query and limit.                                    *)
(***************************************************************************)
EXTENDS Retrieval, FiniteSetTheorems, TLAPS

\* The spans follow each other within the first n lines.
Ordered(spans, n) ==
  /\ \A i \in DOMAIN spans : 1 <= spans[i].from /\ spans[i].from <= spans[i].to /\ spans[i].to <= n
  /\ \A i \in DOMAIN spans : i > 1 => spans[i - 1].to < spans[i].from

Reached(n, spans) == \E i \in DOMAIN spans : Covers(spans[i], n)

\* The words up to the end of the last span, and none if there is no span.
WordsThrough(txt, spans) == IF spans = << >> THEN 0 ELSE txt[spans[Len(spans)].to].upto

\* No word stands between two spans, and none before the first.
Gapless(txt, spans) ==
  \A i \in DOMAIN spans :
    WordsBefore(txt, spans[i].from) = IF i = 1 THEN 0 ELSE txt[spans[i - 1].to].upto

Lengthy(txt, spans) ==
  \A i \in DOMAIN spans : WordsBefore(txt, spans[i].from) <= txt[spans[i].to].upto

Counted(txt) ==
  \A n \in 1 .. Len(txt) :
    IF txt[n].kind = "blank"
    THEN txt[n].terms = {} /\ txt[n].upto = WordsBefore(txt, n)
    ELSE txt[n].upto > WordsBefore(txt, n)

\* The buffer starts where the next segment will.
Margin == IF start = 0 THEN line ELSE start

IdleInv ==
  pc = "idle" =>
    /\ text = << >> /\ line = 1 /\ start = 0 /\ fence = "none" /\ segments = << >>
    /\ next = 1 /\ current = Nothing /\ tokens = 0 /\ children = << >>

LinesInv ==
  pc = "lines" =>
    /\ next = 1 /\ current = Nothing /\ tokens = 0 /\ children = << >>
    /\ start < line
    /\ fence # "none" => start # 0
    /\ Ordered(segments, Margin - 1)
    /\ \A n \in 1 .. Margin - 1 : text[n].kind # "blank" => Reached(n, segments)
    /\ Gapless(text, segments) /\ Lengthy(text, segments)
    /\ WordsBefore(text, Margin) = WordsThrough(text, segments)
    /\ WordsBefore(text, Margin) <= WordsBefore(text, line)

SegmentsInv ==
  pc \in {"group", "done"} =>
    /\ Ordered(segments, Len(text))
    /\ Gapless(text, segments) /\ Lengthy(text, segments)

\* The segments from the next on are still to be grouped.
GroupInv ==
  pc = "group" =>
    /\ Ordered(children, Len(text))
    /\ next = 1 => current = Nothing /\ tokens = 0 /\ children = << >>
    /\ next > 1 =>
         /\ 1 <= current.from /\ current.from <= current.to
         /\ current.to = segments[next - 1].to
         /\ tokens = Words(current)
         /\ children # << >> => children[Len(children)].to < current.from
    /\ \A n \in 1 .. Len(text) : text[n].kind # "blank" =>
         \/ Reached(n, children)
         \/ Covers(current, n)
         \/ \E s \in next .. Len(segments) : Covers(segments[s], n)

\* Sized, while the last child is being filled.
SizeInv ==
  pc \in {"group", "done"} =>
    /\ \A c \in DOMAIN children :
         /\ Words(children[c]) > target => \E s \in DOMAIN segments : segments[s] = children[c]
         /\ c > 1 => Words([from |-> children[c - 1].from, to |-> children[c].to]) > target
    /\ current # Nothing =>
         /\ tokens > target => \E s \in DOMAIN segments : segments[s] = current
         /\ children # << >> =>
              Words([from |-> children[Len(children)].from, to |-> current.to]) > target

DoneInv ==
  pc = "done" =>
    /\ Ordered(children, Len(text))
    /\ current = Nothing
    /\ \A n \in 1 .. Len(text) : text[n].kind # "blank" => Reached(n, children)

ChunkInv ==
  /\ ChunkerTypeOK /\ Counted(text)
  /\ IdleInv /\ LinesInv /\ SegmentsInv /\ GroupInv /\ DoneInv

\* The corpus holds what was chunked.
Kept(doc) ==
  /\ Counted(doc.text)
  /\ Ordered(doc.children, Len(doc.text))
  /\ \A n \in 1 .. Len(doc.text) : doc.text[n].kind # "blank" => Reached(n, doc.children)

CorpusInv ==
  /\ \A i \in DOMAIN waiting : waiting[i] \in Texts
  /\ \A d \in DOMAIN documents : Kept(documents[d])

Matching == {r \in AllResults : Overlap(query, r) # {}}
Chosen == {hits[i] : i \in DOMAIN hits}

SearchInv ==
  /\ stage = "idle" => hits = << >> /\ pack = NoPack
  /\ stage # "sort" => scored = {}
  /\ stage # "idle" => pc = "idle" /\ query \in Queries /\ limit \in Limits
  /\ Len(hits) <= limit
  /\ scored \cup Chosen \subseteq AllResults
  /\ \A i, j \in DOMAIN hits : i < j =>
       hits[i] # hits[j] /\ Score(query, hits[i]) >= Score(query, hits[j])
  /\ \A r \in Chosen : Overlap(query, r) # {}
  /\ stage = "sort" =>
       /\ Matching = scored \cup Chosen
       /\ scored \cap Chosen = {}
       /\ \A r \in scored : \A i \in DOMAIN hits : Score(query, hits[i]) >= Score(query, r)
  /\ stage \in {"pack", "answered"} =>
       \A r \in Matching :
         \/ r \in Chosen
         \/ Len(hits) = limit /\ \A i \in DOMAIN hits : Score(query, hits[i]) >= Score(query, r)
  /\ stage = "answered" => pack = [chunks |-> hits, abstain |-> hits = << >>]

IInv == TypeOK /\ ChunkInv /\ SizeInv /\ CorpusInv /\ SearchInv

-----------------------------------------------------------------------------
(* Words and spans. *)
LEMMA WordsAreNat ==
  ASSUME NEW txt \in Seq(Lines), NEW n \in 1 .. Len(txt) + 1
  PROVE  WordsBefore(txt, n) \in Nat /\ (n <= Len(txt) => txt[n].upto \in Nat /\ txt[n] \in Lines)
<1>0. \A m \in 1 .. Len(txt) : txt[m] \in Lines OBVIOUS
<1>1. \A m \in 1 .. Len(txt) : txt[m] \in Lines /\ txt[m].upto \in Nat BY <1>0 DEF Lines
<1>2. CASE n = 1 BY <1>1, <1>2 DEF WordsBefore
<1>3. CASE n # 1
  <2>1. n - 1 \in 1 .. Len(txt) BY <1>3
  <2> QED BY <1>1, <2>1 DEF WordsBefore
<1> QED BY <1>2, <1>3

\* A line has the words before it and its own.
LEMMA WordsGrow ==
  ASSUME NEW txt \in Seq(Lines), Counted(txt), NEW n \in 1 .. Len(txt)
  PROVE  /\ WordsBefore(txt, n + 1) = txt[n].upto
         /\ WordsBefore(txt, n) <= txt[n].upto
         /\ txt[n].kind = "blank" => txt[n].upto = WordsBefore(txt, n)
<1>1. WordsBefore(txt, n) \in Nat /\ txt[n].upto \in Nat BY WordsAreNat
<1>2. WordsBefore(txt, n + 1) = txt[n].upto BY DEF WordsBefore
<1> QED BY <1>1, <1>2 DEF Counted

\* A sequence with one more element.
LEMMA Appended ==
  ASSUME NEW S, NEW q \in Seq(S), NEW x \in S
  PROVE  /\ Append(q, x) \in Seq(S) /\ Len(Append(q, x)) = Len(q) + 1 /\ Append(q, x) # << >>
         /\ \A i \in 1 .. Len(q) : Append(q, x)[i] = q[i]
         /\ Append(q, x)[Len(q) + 1] = x
         /\ DOMAIN Append(q, x) = 1 .. Len(q) + 1 /\ DOMAIN q = 1 .. Len(q)
         /\ Len(q) \in Nat
<1>1. Append(q, x) \in Seq(S) /\ Len(Append(q, x)) = Len(q) + 1 /\ Len(q) \in Nat OBVIOUS
<1>2. /\ \A i \in 1 .. Len(q) : Append(q, x)[i] = q[i]
      /\ Append(q, x)[Len(q) + 1] = x
  OBVIOUS
<1>3. DOMAIN Append(q, x) = 1 .. Len(q) + 1 /\ DOMAIN q = 1 .. Len(q) BY <1>1
<1>4. Append(q, x) # << >> BY <1>1
<1> QED BY <1>1, <1>2, <1>3, <1>4

\* What the flushing of the buffer makes of the segments.
LEMMA Flushing ==
  ASSUME ChunkInv, pc = "lines", NEW last \in 1 .. Len(text),
         last = line - 1 \/ (last = line /\ start # 0)
  PROVE  /\ Flushed(last) \in Seq(Spans)
         /\ Ordered(Flushed(last), last)
         /\ \A n \in 1 .. last : text[n].kind # "blank" => Reached(n, Flushed(last))
         /\ Gapless(text, Flushed(last)) /\ Lengthy(text, Flushed(last))
         /\ WordsThrough(text, Flushed(last)) = WordsBefore(text, last + 1)
<1> USE DEF ChunkInv, LinesInv, Margin
<1>1. text \in Seq(Lines) /\ Counted(text) /\ segments \in Seq(Spans) /\ start \in Nat
      /\ line \in Nat /\ start < line /\ start <= Len(text)
  BY DEF ChunkerTypeOK
<1>2. CASE start = 0
  <2>1. last = line - 1 /\ Flushed(last) = segments BY <1>2 DEF Flushed
  <2> QED BY <1>1, <1>2, <2>1
<1>3. CASE start # 0
  <2> DEFINE seg == [from |-> start, to |-> last]
             segs == Append(segments, seg)
  <2>1. Flushed(last) = segs BY <1>3 DEF Flushed
  <2>2. /\ start \in 1 .. last /\ seg \in Spans /\ seg.from = start /\ seg.to = last
    BY <1>1, <1>3 DEF Spans
  <2>3. /\ segs \in Seq(Spans) /\ Len(segs) = Len(segments) + 1 /\ segs # << >>
        /\ \A i \in 1 .. Len(segments) : segs[i] = segments[i]
        /\ segs[Len(segments) + 1] = seg
        /\ DOMAIN segs = 1 .. Len(segments) + 1 /\ DOMAIN segments = 1 .. Len(segments)
        /\ Len(segments) \in Nat
    BY ONLY <1>1, <2>2, Appended
  <2> HIDE DEF seg, segs
  <2>4. \A i \in 1 .. Len(segments) :
          /\ segments[i].from \in Nat /\ segments[i].to \in Nat
          /\ 1 <= segments[i].from /\ segments[i].from <= segments[i].to
          /\ segments[i].to <= start - 1
    <3>1. \A i \in 1 .. Len(segments) : segments[i] \in Spans BY <1>1
    <3>2. Ordered(segments, start - 1) BY <1>3
    <3> QED BY <3>1, <3>2, <2>3 DEF Ordered, Spans
  <2>5. Ordered(segs, last)
    <3>1. ASSUME NEW i \in 1 .. Len(segments) + 1
          PROVE  1 <= segs[i].from /\ segs[i].from <= segs[i].to /\ segs[i].to <= last
      <4>1. CASE i = Len(segments) + 1 BY ONLY <4>1, <2>2, <2>3
      <4>2. CASE i # Len(segments) + 1
        <5>1. i \in 1 .. Len(segments) /\ segs[i] = segments[i] BY ONLY <3>1, <4>2, <2>3
        <5> QED BY ONLY <5>1, <2>2, <2>4, <1>1
      <4> QED BY <4>1, <4>2
    <3>2. ASSUME NEW i \in 1 .. Len(segments) + 1, i > 1
          PROVE  segs[i - 1].to < segs[i].from
      <4>1. CASE i = Len(segments) + 1
        <5>1. i - 1 \in 1 .. Len(segments) /\ segs[i] = seg /\ segs[i - 1] = segments[i - 1]
          BY <4>1, <3>2, <2>3
        <5>2. segments[i - 1].to < start BY <5>1, <2>4, <1>1
        <5> QED BY <5>1, <5>2, <2>2
      <4>2. CASE i # Len(segments) + 1
        <5>1. i \in 1 .. Len(segments) /\ i - 1 \in 1 .. Len(segments) BY <4>2, <3>2, <2>3
        <5> QED BY <5>1, <3>2, <1>1, <1>3, <2>3 DEF Ordered
      <4> QED BY <4>1, <4>2
    <3> QED BY <3>1, <3>2, <2>3 DEF Ordered
  <2>6. ASSUME NEW n \in 1 .. last, text[n].kind # "blank" PROVE Reached(n, segs)
    <3>1. CASE n < start
      <4>1. PICK i \in 1 .. Len(segments) : Covers(segments[i], n)
        BY <3>1, <2>6, <1>1, <1>3, <2>3 DEF Reached
      <4> QED BY <4>1, <2>3 DEF Reached
    <3>2. CASE n >= start
      <4>1. Covers(segs[Len(segments) + 1], n) BY <3>2, <2>2, <2>3 DEF Covers
      <4> QED BY <4>1, <2>3 DEF Reached
    <3> QED BY <3>1, <3>2, <2>2
  <2>7. Gapless(text, segs)
    <3> SUFFICES ASSUME NEW i \in 1 .. Len(segments) + 1
                 PROVE  WordsBefore(text, segs[i].from) = IF i = 1 THEN 0 ELSE text[segs[i - 1].to].upto
      BY <2>3 DEF Gapless
    <3>1. CASE i = Len(segments) + 1
      <4>1. WordsBefore(text, segs[i].from) = WordsThrough(text, segments)
        BY <3>1, <1>3, <2>2, <2>3
      <4>2. CASE i = 1
        <5>1. segments = << >> BY <3>1, <4>2, <1>1
        <5> QED BY <5>1, <4>1, <4>2 DEF WordsThrough
      <4>3. CASE i # 1
        <5>1. i - 1 = Len(segments) /\ i - 1 \in 1 .. Len(segments) /\ segments # << >>
          BY <3>1, <4>3, <1>1, <2>3
        <5> QED BY <5>1, <4>1, <4>3, <2>3 DEF WordsThrough
      <4> QED BY <4>2, <4>3
    <3>2. CASE i # Len(segments) + 1
      <4>1. i \in 1 .. Len(segments) BY <3>2, <2>3
      <4>2. i # 1 => i - 1 \in 1 .. Len(segments) BY <4>1
      <4>3. WordsBefore(text, segments[i].from) = IF i = 1 THEN 0 ELSE text[segments[i - 1].to].upto
        BY <4>1, <2>3 DEF Gapless
      <4> QED BY <4>1, <4>2, <4>3, <2>3
    <3> QED BY <3>1, <3>2
  <2>8. WordsBefore(text, last + 1) = text[last].upto /\ WordsBefore(text, start) <= text[last].upto
    <3>1. WordsBefore(text, last + 1) = text[last].upto /\ WordsBefore(text, last) <= text[last].upto
      BY <1>1, WordsGrow
    <3>2. WordsBefore(text, start) <= WordsBefore(text, line) BY <1>3
    <3>3. /\ WordsBefore(text, start) \in Nat /\ WordsBefore(text, line) \in Nat
          /\ WordsBefore(text, last) \in Nat /\ text[last].upto \in Nat
      <4>1. start \in 1 .. Len(text) + 1 /\ line \in 1 .. Len(text) + 1 BY <1>1, <1>3 DEF ChunkerTypeOK
      <4> QED BY <4>1, <1>1, WordsAreNat
    <3>4. last = line - 1 => WordsBefore(text, line) = text[last].upto BY <3>1, <1>1
    <3> QED BY <3>1, <3>2, <3>3, <3>4
  <2>9. Lengthy(text, segs)
    <3>1. Lengthy(text, segments) BY <1>3
    <3>2. ASSUME NEW i \in DOMAIN segs
          PROVE  WordsBefore(text, segs[i].from) <= text[segs[i].to].upto
      <4>1. CASE i = Len(segments) + 1 BY ONLY <4>1, <2>2, <2>3, <2>8
      <4>2. CASE i # Len(segments) + 1
        <5>1. i \in DOMAIN segments /\ segs[i] = segments[i] BY ONLY <3>2, <4>2, <2>3
        <5> QED BY ONLY <5>1, <3>1 DEF Lengthy
      <4> QED BY <4>1, <4>2
    <3> QED BY <3>2 DEF Lengthy
  <2>10. WordsThrough(text, segs) = text[last].upto BY <2>2, <2>3 DEF WordsThrough
  <2> QED BY <2>1, <2>3, <2>5, <2>6, <2>7, <2>8, <2>9, <2>10
<1> QED BY <1>2, <1>3

-----------------------------------------------------------------------------
(* Reading the lines. *)
LEMMA StartKeeps ==
  ASSUME ChunkInv, NEW txt \in Texts, Start(txt)
  PROVE  ChunkInv'
<1> USE DEF ChunkInv
<1>1. /\ pc' = "lines" /\ text' = txt
      /\ line = 1 /\ start = 0 /\ fence = "none" /\ segments = << >>
      /\ next = 1 /\ current = Nothing /\ tokens = 0 /\ children = << >>
      /\ UNCHANGED <<target, line, start, fence, segments, next, current, tokens, children>>
  BY DEF Start, IdleInv, reading, grouping
<1>2. txt \in Seq(Lines) /\ Counted(txt) BY TextsAssumption DEF Counted
<1>3. ChunkerTypeOK'
  BY <1>1, <1>2 DEF ChunkerTypeOK, Nothing, Spans
<1>4. LinesInv'
  BY <1>1 DEF LinesInv, Margin, Ordered, Gapless, Lengthy, WordsThrough, WordsBefore
<1> QED BY <1>1, <1>2, <1>3, <1>4 DEF IdleInv, SegmentsInv, GroupInv, DoneInv

\* What a step that reads a line has to establish.
LEMMA ReadKeeps ==
  ASSUME ChunkInv, Reads,
         segments' \in Seq(Spans), fence' \in {"none", "code", "formula"},
         fence' # "none" => start' # 0,
         \/ start' = 0
         \/ start' = line
         \/ start' = start /\ start # 0,
         NEW m, m = IF start' = 0 THEN line + 1 ELSE start',
         Ordered(segments', m - 1),
         \A n \in 1 .. m - 1 : text[n].kind # "blank" => Reached(n, segments'),
         Gapless(text, segments'), Lengthy(text, segments'),
         WordsBefore(text, m) = WordsThrough(text, segments')
  PROVE  ChunkInv'
<1> USE DEF ChunkInv
<1>1. /\ pc = "lines" /\ pc' = "lines" /\ line' = line + 1 /\ text' = text /\ target' = target
      /\ UNCHANGED <<next, current, tokens, children>>
      /\ text \in Seq(Lines) /\ Counted(text) /\ start \in Nat
      /\ line \in 1 .. Len(text) /\ start < line /\ start <= Len(text)
  BY DEF Reads, ChunkerTypeOK, input, grouping, LinesInv
<1>2. next = 1 /\ current = Nothing /\ tokens = 0 /\ children = << >> BY <1>1 DEF LinesInv
<1>3. start' \in 0 .. line /\ start' < line' BY <1>1
<1>4. ChunkerTypeOK'
  <2>1. next' \in 1 .. Len(segments') + 1
    <3>1. Len(segments') \in Nat OBVIOUS
    <3> QED BY <3>1, <1>1, <1>2
  <2> QED BY <2>1, <1>1, <1>3 DEF ChunkerTypeOK
<1>5. WordsBefore(text, m) <= WordsBefore(text, line + 1)
  <2>1. /\ WordsBefore(text, line + 1) = text[line].upto
        /\ WordsBefore(text, line) <= text[line].upto
    BY <1>1, WordsGrow
  <2>2. CASE start' = 0
    <3>1. line + 1 \in 1 .. Len(text) + 1 BY <1>1
    <3>2. WordsBefore(text, line + 1) \in Nat BY <3>1, <1>1, WordsAreNat
    <3> QED BY <2>2, <3>2
  <2>3. CASE start' = line BY <2>1, <2>3, <1>1
  <2>4. CASE start' = start /\ start # 0
    <3>1. start \in 1 .. Len(text) + 1 /\ line \in 1 .. Len(text) + 1 BY <1>1, <2>4
    <3>2. /\ WordsBefore(text, start) \in Nat /\ WordsBefore(text, line) \in Nat
          /\ text[line].upto \in Nat
      BY <3>1, <1>1, WordsAreNat
    <3>3. WordsBefore(text, start) <= WordsBefore(text, line) BY <1>1, <2>4 DEF LinesInv, Margin
    <3>4. m = start BY <2>4
    <3> QED BY <2>1, <3>2, <3>3, <3>4
  <2> QED BY <2>2, <2>3, <2>4
<1>6. Margin' = m BY <1>1 DEF Margin
<1>7. LinesInv'
  <2>1. Gapless(text, segments)' /\ Lengthy(text, segments)' BY <1>1 DEF Gapless, Lengthy
  <2>2. WordsThrough(text, segments)' = WordsThrough(text, segments')
    BY <1>1 DEF WordsThrough
  <2>3. WordsBefore(text, Margin)' = WordsBefore(text, m) /\ WordsBefore(text, line)' = WordsBefore(text, line + 1)
    BY <1>1, <1>6 DEF WordsBefore
  <2>4. Ordered(segments, Margin - 1)' BY <1>6 DEF Ordered
  <2>5. \A n \in 1 .. m - 1 : text'[n].kind # "blank" => Reached(n, segments)'
    BY <1>1 DEF Reached
  <2> QED BY <1>1, <1>2, <1>3, <1>5, <1>6, <2>1, <2>2, <2>3, <2>4, <2>5 DEF LinesInv
<1>8. Counted(text)' BY <1>1 DEF Counted
<1> QED BY <1>1, <1>4, <1>7, <1>8 DEF IdleInv, SegmentsInv, GroupInv, DoneInv

\* The buffer goes on.
LEMMA GoOnKeeps ==
  ASSUME ChunkInv, Reads, start # 0, UNCHANGED <<start, fence, segments>>
  PROVE  ChunkInv'
<1>1. pc = "lines" BY DEF Reads
<1>2. /\ segments \in Seq(Spans) /\ fence \in {"none", "code", "formula"}
      /\ Ordered(segments, start - 1)
      /\ \A n \in 1 .. start - 1 : text[n].kind # "blank" => Reached(n, segments)
      /\ Gapless(text, segments) /\ Lengthy(text, segments)
      /\ WordsBefore(text, start) = WordsThrough(text, segments)
  BY <1>1 DEF ChunkInv, ChunkerTypeOK, LinesInv, Margin
<1>3. start = IF start' = 0 THEN line + 1 ELSE start' OBVIOUS
<1>4. ~ (start' = 0) OBVIOUS
<1> QED BY <1>2, <1>3, <1>4, ReadKeeps

LEMMA FlushedNow ==
  ASSUME ChunkInv, pc = "lines"
  PROVE  LET segs == Flushed(line - 1) IN
         /\ segs \in Seq(Spans)
         /\ Ordered(segs, line - 1)
         /\ \A n \in 1 .. line - 1 : text[n].kind # "blank" => Reached(n, segs)
         /\ Gapless(text, segs) /\ Lengthy(text, segs)
         /\ WordsThrough(text, segs) = WordsBefore(text, line)
<1>1. line \in 1 .. Len(text) + 1 BY DEF ChunkInv, ChunkerTypeOK
<1>2. CASE line > 1
  <2>1. line - 1 \in 1 .. Len(text) /\ line - 1 + 1 = line BY <1>1, <1>2
  <2> QED BY <2>1, Flushing
<1>3. CASE line = 1
  <2>1. start = 0 BY <1>3 DEF ChunkInv, LinesInv, ChunkerTypeOK
  <2> QED BY <1>3, <2>1 DEF ChunkInv, LinesInv, ChunkerTypeOK, Margin, Flushed
<1> QED BY <1>1, <1>2, <1>3

LEMMA ReadLineKeeps ==
  ASSUME ChunkInv, OpenFence \/ InFence \/ TextLine \/ BlankLine
  PROVE  ChunkInv'
<1>1. Reads /\ pc = "lines" BY DEF OpenFence, InFence, TextLine, BlankLine, Reads
<1>2. /\ line \in 1 .. Len(text) /\ line # 0 /\ line + 1 - 1 = line
      /\ fence \in {"none", "code", "formula"} /\ segments \in Seq(Spans)
      /\ (fence # "none" => start # 0) /\ start < line /\ start \in Nat
      /\ text \in Seq(Lines) /\ Counted(text)
  BY <1>1 DEF ChunkInv, ChunkerTypeOK, LinesInv, Reads
<1>3. CASE OpenFence
  <2>1. segments' = Flushed(line - 1) /\ start' = line /\ fence' = Kind BY <1>3 DEF OpenFence
  <2>2. fence' \in {"none", "code", "formula"} BY <1>3 DEF OpenFence, IsFence
  <2>3. line = IF start' = 0 THEN line + 1 ELSE start' BY <2>1, <1>2
  <2> HIDE DEF Flushed
  <2>4. /\ segments' \in Seq(Spans) /\ Ordered(segments', line - 1)
        /\ \A n \in 1 .. line - 1 : text[n].kind # "blank" => Reached(n, segments')
        /\ Gapless(text, segments') /\ Lengthy(text, segments')
        /\ WordsBefore(text, line) = WordsThrough(text, segments')
    BY <1>1, <2>1, FlushedNow
  <2> QED BY <1>1, <1>2, <2>1, <2>2, <2>3, <2>4, ReadKeeps
<1>4. CASE InFence
  <2>1. start # 0 BY <1>4, <1>2 DEF InFence
  <2>2. CASE Kind = fence
    <3>1. segments' = Flushed(line) /\ start' = 0 /\ fence' = "none" BY <1>4, <2>2 DEF InFence
    <3> DEFINE m == line + 1
    <3>2. m = IF start' = 0 THEN line + 1 ELSE start' BY <3>1
    <3>3. /\ segments' \in Seq(Spans) /\ Ordered(segments', m - 1)
          /\ \A n \in 1 .. m - 1 : text[n].kind # "blank" => Reached(n, segments')
          /\ Gapless(text, segments') /\ Lengthy(text, segments')
          /\ WordsBefore(text, m) = WordsThrough(text, segments')
      BY <1>1, <1>2, <2>1, <3>1, Flushing
    <3> HIDE DEF m
    <3> QED BY <1>1, <3>1, <3>2, <3>3, ReadKeeps
  <2>3. CASE Kind # fence
    <3>1. UNCHANGED <<start, fence, segments>> BY <1>4, <2>3 DEF InFence
    <3> QED BY <1>1, <2>1, <3>1, GoOnKeeps
  <2> QED BY <2>2, <2>3
<1>5. CASE TextLine
  <2>1. UNCHANGED <<fence, segments>> /\ fence = "none" BY <1>5 DEF TextLine
  <2>2. CASE start # 0
    <3>1. start' = start BY <1>5, <2>2 DEF TextLine
    <3> QED BY <1>1, <2>1, <2>2, <3>1, GoOnKeeps
  <2>3. CASE start = 0
    <3>1. start' = line BY <1>5, <2>3 DEF TextLine
    <3>2. line = IF start' = 0 THEN line + 1 ELSE start' BY <3>1, <1>2
    <3>3. Flushed(line - 1) = segments BY <2>3 DEF Flushed
    <3>4. /\ segments' \in Seq(Spans) /\ Ordered(segments', line - 1)
          /\ \A n \in 1 .. line - 1 : text[n].kind # "blank" => Reached(n, segments')
          /\ Gapless(text, segments') /\ Lengthy(text, segments')
          /\ WordsBefore(text, line) = WordsThrough(text, segments')
      BY <1>1, <2>1, <3>3, FlushedNow
    <3> QED BY <1>1, <2>1, <3>1, <3>2, <3>4, ReadKeeps
  <2> QED BY <2>2, <2>3
<1>6. CASE BlankLine
  <2>1. segments' = Flushed(line - 1) /\ start' = 0 /\ fence' = fence /\ fence = "none" /\ Kind = "blank"
    BY <1>6 DEF BlankLine
  <2> DEFINE m == line + 1
  <2>2. m = IF start' = 0 THEN line + 1 ELSE start' BY <2>1
  <2>3. /\ segments' \in Seq(Spans) /\ Ordered(segments', line - 1)
        /\ \A n \in 1 .. line - 1 : text[n].kind # "blank" => Reached(n, segments')
        /\ Gapless(text, segments') /\ Lengthy(text, segments')
        /\ WordsBefore(text, line) = WordsThrough(text, segments')
    BY <1>1, <2>1, FlushedNow
  <2>4. text[line].kind = "blank" BY <2>1 DEF Kind
  <2>5. WordsBefore(text, m) = WordsThrough(text, segments')
    BY <1>2, <2>3, <2>4, WordsGrow
  <2>6. Ordered(segments', m - 1)
    <3>1. \A i \in DOMAIN segments' : segments'[i] \in Spans BY <2>3
    <3>2. \A i \in DOMAIN segments' : segments'[i].to \in Nat BY <3>1 DEF Spans
    <3> QED BY <1>2, <2>3, <3>2 DEF Ordered
  <2>7. \A n \in 1 .. m - 1 : text[n].kind # "blank" => Reached(n, segments')
    <3> SUFFICES ASSUME NEW n \in 1 .. line, text[n].kind # "blank" PROVE Reached(n, segments')
      BY <1>2
    <3>1. n \in 1 .. line - 1 BY <2>4, <1>2
    <3> QED BY <3>1, <2>3
  <2> HIDE DEF m
  <2> QED BY <1>1, <2>1, <2>2, <2>3, <2>5, <2>6, <2>7, ReadKeeps
<1> QED BY <1>3, <1>4, <1>5, <1>6

LEMMA EndOfTextKeeps ==
  ASSUME ChunkInv, EndOfText
  PROVE  ChunkInv'
<1> USE DEF ChunkInv
<1>1. /\ pc = "lines" /\ line = Len(text) + 1 /\ segments' = Flushed(Len(text)) /\ start' = 0
      /\ pc' = "group"
      /\ UNCHANGED <<text, target, line, fence, next, current, tokens, children>>
      /\ next = 1 /\ current = Nothing /\ tokens = 0 /\ children = << >>
      /\ text \in Seq(Lines) /\ Counted(text) /\ Len(text) \in Nat /\ line - 1 = Len(text)
  BY DEF EndOfText, LinesInv, ChunkerTypeOK, input, grouping
<1>2. /\ segments' \in Seq(Spans) /\ Ordered(segments', Len(text))
      /\ \A n \in 1 .. Len(text) : text[n].kind # "blank" => Reached(n, segments')
      /\ Gapless(text, segments') /\ Lengthy(text, segments')
  BY <1>1, FlushedNow
<1>3. ChunkerTypeOK'
  <2>1. Len(segments') \in Nat BY <1>2
  <2> QED BY <2>1, <1>1, <1>2 DEF ChunkerTypeOK
<1>4. SegmentsInv' BY <1>1, <1>2 DEF SegmentsInv, Ordered, Gapless, Lengthy
<1>5. GroupInv'
  <2>1. Ordered(children, Len(text))' BY <1>1 DEF Ordered
  <2>2. \A n \in 1 .. Len(text) : text[n].kind # "blank" =>
          \E s \in 1 .. Len(segments') : Covers(segments'[s], n)
    BY <1>2 DEF Reached
  <2> QED BY <1>1, <2>1, <2>2 DEF GroupInv, Covers
<1>6. Counted(text)' BY <1>1 DEF Counted
<1> QED BY <1>1, <1>3, <1>4, <1>5, <1>6 DEF IdleInv, LinesInv, DoneInv

-----------------------------------------------------------------------------
(* Grouping the segments. *)
LEMMA AppendedFollows ==
  ASSUME NEW spans \in Seq(Spans), NEW span \in Spans, NEW n \in Nat,
         Ordered(spans, n), 1 <= span.from, span.from <= span.to, span.to <= n,
         spans # << >> => spans[Len(spans)].to < span.from
  PROVE  /\ Ordered(Append(spans, span), n)
         /\ \A m : Reached(m, spans) \/ Covers(span, m) => Reached(m, Append(spans, span))
<1> DEFINE more == Append(spans, span)
<1>1. /\ DOMAIN spans = 1 .. Len(spans) /\ DOMAIN more = 1 .. Len(spans) + 1
      /\ Len(spans) \in Nat /\ more[Len(spans) + 1] = span
      /\ \A i \in 1 .. Len(spans) : more[i] = spans[i]
  OBVIOUS
<1> HIDE DEF more
<1>2. ASSUME NEW i \in 1 .. Len(spans) + 1
      PROVE  1 <= more[i].from /\ more[i].from <= more[i].to /\ more[i].to <= n
  <2>1. CASE i = Len(spans) + 1 BY <1>1, <2>1
  <2>2. CASE i # Len(spans) + 1
    <3>1. i \in 1 .. Len(spans) BY <1>1, <2>2
    <3> QED BY <3>1, <1>1 DEF Ordered
  <2> QED BY <2>1, <2>2
<1>3. ASSUME NEW i \in 1 .. Len(spans) + 1, i > 1
      PROVE  more[i - 1].to < more[i].from
  <2>1. i - 1 \in 1 .. Len(spans) /\ more[i - 1] = spans[i - 1] BY <1>1, <1>3
  <2>2. CASE i = Len(spans) + 1
    <3>1. i - 1 = Len(spans) /\ more[i] = span BY <1>1, <2>2
    <3>2. spans # << >> BY <2>1, <3>1
    <3> QED BY <2>1, <3>1, <3>2
  <2>3. CASE i # Len(spans) + 1
    <3>1. i \in 1 .. Len(spans) /\ more[i] = spans[i] BY <1>1, <2>3
    <3> QED BY <1>1, <1>3, <2>1, <3>1 DEF Ordered
  <2> QED BY <2>2, <2>3
<1>4. Ordered(more, n) BY <1>1, <1>2, <1>3 DEF Ordered
<1>5. ASSUME NEW m, Reached(m, spans) \/ Covers(span, m) PROVE Reached(m, more)
  <2>1. CASE Reached(m, spans)
    <3>1. PICK i \in 1 .. Len(spans) : Covers(spans[i], m) BY <2>1, <1>1 DEF Reached
    <3> QED BY <3>1, <1>1 DEF Reached
  <2>2. CASE Covers(span, m)
    <3>1. Len(spans) + 1 \in 1 .. Len(spans) + 1 BY <1>1
    <3> QED BY <3>1, <2>2, <1>1 DEF Reached
  <2> QED BY <1>5, <2>1, <2>2
<1> QED BY <1>4, <1>5 DEF more

\* While segments are grouped: what the next one is, and what it adds.
LEMMA NextSegment ==
  ASSUME ChunkInv, pc = "group", NEW seg, seg = segments[next], next <= Len(segments)
  PROVE  /\ seg \in Spans /\ next \in 1 .. Len(segments)
         /\ 1 <= seg.from /\ seg.from <= seg.to /\ seg.to <= Len(text)
         /\ seg.from \in Nat /\ seg.to \in Nat
         /\ Words(seg) \in Nat
         /\ WordsBefore(text, seg.from) \in Nat /\ text[seg.to].upto \in Nat
         /\ next > 1 => /\ current.to < seg.from
                        /\ WordsBefore(text, seg.from) = text[current.to].upto
<1>1. /\ next \in 1 .. Len(segments) /\ segments \in Seq(Spans) /\ text \in Seq(Lines)
      /\ Len(segments) \in Nat /\ Len(text) \in Nat
  BY DEF ChunkInv, ChunkerTypeOK
<1>2. Ordered(segments, Len(text)) /\ Gapless(text, segments) /\ Lengthy(text, segments)
  BY DEF ChunkInv, SegmentsInv
<1>3. seg \in Spans BY <1>1
<1>4. 1 <= seg.from /\ seg.from <= seg.to /\ seg.to <= Len(text)
  BY <1>1, <1>2 DEF Ordered
<1>5. seg.from \in Nat /\ seg.to \in Nat BY <1>3 DEF Spans
<1>6. WordsBefore(text, seg.from) \in Nat /\ text[seg.to].upto \in Nat
  <2>1. seg.from \in 1 .. Len(text) + 1 /\ seg.to \in 1 .. Len(text) + 1 BY <1>1, <1>4, <1>5
  <2> QED BY <2>1, <1>1, <1>4, WordsAreNat
<1>7. WordsBefore(text, seg.from) <= text[seg.to].upto BY <1>1, <1>2 DEF Lengthy
<1>8. Words(seg) \in Nat BY <1>6, <1>7 DEF Words
<1>9. ASSUME next > 1
      PROVE  current.to < seg.from /\ WordsBefore(text, seg.from) = text[current.to].upto
  <2>1. current.to = segments[next - 1].to BY <1>9 DEF ChunkInv, GroupInv
  <2>2. segments[next - 1].to < seg.from BY <1>1, <1>2, <1>9 DEF Ordered
  <2>3. next # 1 BY <1>9, <1>1
  <2>4. WordsBefore(text, seg.from) = text[segments[next - 1].to].upto
    BY <1>1, <1>2, <2>3 DEF Gapless
  <2> QED BY <2>1, <2>2, <2>4
<1> QED BY <1>1, <1>3, <1>4, <1>5, <1>6, <1>8, <1>9

\* The child that is being filled.
LEMMA CurrentChild ==
  ASSUME ChunkInv, pc = "group", next > 1
  PROVE  /\ current \in Spans /\ current # Nothing
         /\ 1 <= current.from /\ current.from <= current.to /\ current.to <= Len(text)
         /\ current.from \in Nat /\ current.to \in Nat
         /\ WordsBefore(text, current.from) \in Nat /\ text[current.to].upto \in Nat
         /\ tokens = text[current.to].upto - WordsBefore(text, current.from)
         /\ children # << >> => children[Len(children)].to < current.from
<1>1. /\ next \in 1 .. Len(segments) + 1 /\ segments \in Seq(Spans) /\ text \in Seq(Lines)
      /\ Len(segments) \in Nat /\ Len(text) \in Nat /\ current \in Spans
  BY DEF ChunkInv, ChunkerTypeOK
<1>2. Ordered(segments, Len(text)) BY DEF ChunkInv, SegmentsInv
<1>3. /\ 1 <= current.from /\ current.from <= current.to
      /\ current.to = segments[next - 1].to
      /\ tokens = Words(current)
      /\ children # << >> => children[Len(children)].to < current.from
  BY DEF ChunkInv, GroupInv
<1>4. next - 1 \in 1 .. Len(segments) BY <1>1
<1>5. current.to <= Len(text) BY <1>1, <1>2, <1>3, <1>4 DEF Ordered
<1>6. current.from \in Nat /\ current.to \in Nat BY <1>1 DEF Spans
<1>7. WordsBefore(text, current.from) \in Nat /\ text[current.to].upto \in Nat
  <2>1. current.from \in 1 .. Len(text) + 1 /\ current.to \in 1 .. Len(text) + 1
    BY <1>1, <1>3, <1>5, <1>6
  <2> QED BY <2>1, <1>1, <1>5, WordsAreNat
<1>8. current # Nothing BY <1>3, <1>6 DEF Nothing
<1> QED BY <1>1, <1>3, <1>5, <1>6, <1>7, <1>8 DEF Words

LEMMA FirstChild ==
  ASSUME ChunkInv, pc = "group"
  PROVE  /\ current = Nothing <=> next = 1
         /\ next = 1 => tokens = 0 /\ children = << >>
         /\ next = 1 \/ next > 1
<1>1. next \in 1 .. Len(segments) + 1 /\ segments \in Seq(Spans) BY DEF ChunkInv, ChunkerTypeOK
<1>2. next = 1 \/ next > 1 BY <1>1
<1> QED BY <1>2, CurrentChild DEF ChunkInv, GroupInv

LEMMA GroupTypes ==
  ASSUME ChunkInv, pc = "group"
  PROVE  /\ text \in Seq(Lines) /\ segments \in Seq(Spans) /\ children \in Seq(Spans)
         /\ target \in Nat /\ tokens \in Nat /\ current \in Spans
         /\ Len(segments) \in Nat /\ Len(text) \in Nat
         /\ next \in 1 .. Len(segments) + 1 /\ next \in Nat
         /\ Ordered(children, Len(text))
BY DEF ChunkInv, ChunkerTypeOK, GroupInv

\* What a step that groups a segment has to establish.
LEMMA GroupKeeps ==
  ASSUME ChunkInv, pc = "group", next <= Len(segments), next' = next + 1,
         UNCHANGED <<input, pc, reading>>,
         NEW seg, seg = segments[next],
         current' \in Spans, tokens' \in Nat, children' \in Seq(Spans),
         Ordered(children', Len(text)),
         1 <= current'.from, current'.from <= current'.to, current'.to = seg.to,
         tokens' = text[current'.to].upto - WordsBefore(text, current'.from),
         children' # << >> => children'[Len(children')].to < current'.from,
         \A n : Reached(n, children) \/ Covers(current, n) \/ Covers(seg, n)
                  => Reached(n, children') \/ n \notin 1 .. Len(text) \/ Covers(current', n)
  PROVE  ChunkInv'
<1>1. /\ pc' = "group"
      /\ text' = text /\ target' = target /\ line' = line /\ start' = start
      /\ fence' = fence /\ segments' = segments
  BY DEF input, reading
<1>2. /\ next \in 1 .. Len(segments) /\ next' > 1 /\ next' \in 1 .. Len(segments) + 1
      /\ next' - 1 = next /\ Len(segments) \in Nat
  <2>1. next \in 1 .. Len(segments) + 1 /\ Len(segments) \in Nat BY GroupTypes
  <2> QED BY <2>1
<1>3. ChunkerTypeOK' BY <1>1, <1>2 DEF ChunkInv, ChunkerTypeOK
<1>4. SegmentsInv' BY <1>1 DEF ChunkInv, SegmentsInv, Ordered, Gapless, Lengthy
<1>5. GroupInv'
  <2>1. Ordered(children, Len(text))' BY <1>1 DEF Ordered
  <2>2. Words(current)' = text[current'.to].upto - WordsBefore(text, current'.from)
    BY <1>1 DEF Words, WordsBefore
  <2>3. \A n \in 1 .. Len(text) : text[n].kind # "blank" =>
          \/ Reached(n, children')
          \/ Covers(current', n)
          \/ \E s \in next' .. Len(segments) : Covers(segments[s], n)
    <3> SUFFICES ASSUME NEW n \in 1 .. Len(text), text[n].kind # "blank",
                        ~ Reached(n, children'), ~ Covers(current', n)
                 PROVE  \E s \in next' .. Len(segments) : Covers(segments[s], n)
      OBVIOUS
    <3>1. ~ Reached(n, children) /\ ~ Covers(current, n) /\ ~ Covers(seg, n) OBVIOUS
    <3>2. PICK s \in next .. Len(segments) : Covers(segments[s], n)
      BY <3>1 DEF ChunkInv, GroupInv
    <3>3. s # next BY <3>1, <3>2
    <3>4. s \in next' .. Len(segments) BY <3>2, <3>3, <1>2
    <3> QED BY <3>2, <3>4
  <2>4. \A n : Reached(n, children)' <=> Reached(n, children') BY DEF Reached
  <2>5. \A n : Covers(current, n)' <=> Covers(current', n) BY DEF Covers
  <2> QED BY <1>1, <1>2, <2>1, <2>2, <2>3, <2>4, <2>5 DEF GroupInv, Covers
<1>6. Counted(text)' BY <1>1 DEF ChunkInv, Counted
<1> QED BY <1>1, <1>3, <1>4, <1>5, <1>6 DEF ChunkInv, IdleInv, LinesInv, DoneInv

LEMMA StillMore ==
  ASSUME NEW a \in Nat, NEW b \in Nat, NEW c \in Nat, NEW t \in Nat, a - c > t, a <= b
  PROVE  b - c > t
OBVIOUS

LEMMA ExtendChildKeeps ==
  ASSUME ChunkInv, SizeInv, ExtendChild
  PROVE  ChunkInv' /\ SizeInv'
<1> DEFINE seg == segments[next]
<1>1. /\ pc = "group" /\ next <= Len(segments) /\ Fits(seg)
      /\ current' = IF current = Nothing THEN seg ELSE [current EXCEPT !.to = seg.to]
      /\ tokens' = tokens + Words(seg)
      /\ next' = next + 1 /\ children' = children
      /\ UNCHANGED <<input, pc, reading>>
  BY DEF ExtendChild
<1>2. /\ seg \in Spans /\ next \in 1 .. Len(segments)
      /\ 1 <= seg.from /\ seg.from <= seg.to /\ seg.to <= Len(text)
      /\ seg.from \in Nat /\ seg.to \in Nat /\ Words(seg) \in Nat
      /\ WordsBefore(text, seg.from) \in Nat /\ text[seg.to].upto \in Nat
      /\ Words(seg) = text[seg.to].upto - WordsBefore(text, seg.from)
      /\ next > 1 => /\ current.to < seg.from
                     /\ WordsBefore(text, seg.from) = text[current.to].upto
  BY <1>1, NextSegment DEF Words
<1> HIDE DEF seg
<1>3. /\ text' = text /\ target' = target /\ segments' = segments /\ pc' = "group"
  BY <1>1 DEF input, reading
<1>4. CASE next = 1
  <2>1. current = Nothing /\ tokens = 0 /\ children = << >> BY <1>1, <1>4, FirstChild
  <2>2. current' = seg /\ tokens' = Words(seg) BY <1>1, <1>2, <2>1
  <2>3. \A n : Reached(n, children) \/ Covers(current, n) \/ Covers(seg, n)
                  => Reached(n, children') \/ n \notin 1 .. Len(text) \/ Covers(current', n)
    BY <1>1, <2>1, <2>2 DEF Covers, Nothing
  <2>4. ChunkInv'
    <3>1. children \in Seq(Spans) /\ Ordered(children, Len(text)) BY <1>1, GroupTypes
    <3> QED BY <1>1, <1>2, <2>1, <2>2, <2>3, <3>1, GroupKeeps DEF seg
  <2>5. \E s \in DOMAIN segments : segments[s] = seg BY <1>2, GroupTypes, <1>1 DEF seg
  <2>6. SizeInv'
    BY <1>1, <1>3, <2>1, <2>2, <2>5 DEF SizeInv
  <2> QED BY <2>4, <2>6
<1>5. CASE next > 1
  <2>1. /\ current \in Spans /\ current # Nothing
        /\ 1 <= current.from /\ current.from <= current.to /\ current.to <= Len(text)
        /\ current.from \in Nat /\ current.to \in Nat
        /\ WordsBefore(text, current.from) \in Nat /\ text[current.to].upto \in Nat
        /\ tokens = text[current.to].upto - WordsBefore(text, current.from)
        /\ children # << >> => children[Len(children)].to < current.from
    BY <1>1, <1>5, CurrentChild
  <2>2. /\ current' = [current EXCEPT !.to = seg.to] /\ current' \in Spans
        /\ current'.from = current.from /\ current'.to = seg.to
    BY <1>1, <1>2, <2>1 DEF Spans
  <2>3. tokens' = text[seg.to].upto - WordsBefore(text, current.from) /\ tokens' \in Nat
    <3>1. tokens \in Nat /\ tokens' = tokens + Words(seg) BY <1>1, GroupTypes
    <3>2. tokens' \in Nat BY <1>2, <3>1
    <3>3. Words(seg) = text[seg.to].upto - text[current.to].upto BY <1>2, <1>5
    <3>4. tokens + Words(seg) = text[seg.to].upto - WordsBefore(text, current.from)
      <4>1. tokens = text[current.to].upto - WordsBefore(text, current.from) BY <2>1
      <4>2. text[current.to].upto \in Nat /\ WordsBefore(text, current.from) \in Nat BY <2>1
      <4>3. text[seg.to].upto \in Nat BY <1>2
      <4> QED BY <3>3, <4>1, <4>2, <4>3
    <3> QED BY <3>1, <3>2, <3>4
  <2>4. \A n : Reached(n, children) \/ Covers(current, n) \/ Covers(seg, n)
                  => Reached(n, children') \/ n \notin 1 .. Len(text) \/ Covers(current', n)
    <3> SUFFICES ASSUME NEW n \in 1 .. Len(text), Covers(current, n) \/ Covers(seg, n)
                 PROVE  Covers(current', n)
      BY <1>1
    <3> QED BY SMTT(30), <1>2, <1>5, <2>1, <2>2 DEF Covers
  <2>5. ChunkInv'
    <3>1. children \in Seq(Spans) /\ Ordered(children, Len(text)) BY <1>1, GroupTypes
    <3>2. 1 <= current'.from /\ current'.from <= current'.to BY SMTT(30), <1>2, <1>5, <2>1, <2>2
    <3> QED BY <1>1, <2>1, <2>2, <2>3, <2>4, <3>1, <3>2, GroupKeeps DEF seg
  <2>6. tokens' <= target BY <1>1, <2>1 DEF Fits
  <2>7. target \in Nat /\ children \in Seq(Spans) BY <1>1, GroupTypes
  <2>8. ASSUME children # << >>
        PROVE  Words([from |-> children[Len(children)].from, to |-> seg.to]) > target
    <3> DEFINE last == children[Len(children)]
    <3>1. Words([from |-> last.from, to |-> current.to]) > target
      BY <1>1, <2>1, <2>8 DEF SizeInv
    <3>2. WordsBefore(text, last.from) \in Nat
      <4>1. Len(children) \in 1 .. Len(children) BY <2>7, <2>8
      <4>2. last \in Spans BY <4>1, <2>7
      <4>3. 1 <= last.from /\ last.from <= last.to /\ last.to <= Len(text)
        BY <1>1, <2>7, <4>1, GroupTypes DEF Ordered
      <4>4. last.from \in Nat /\ last.to \in Nat BY <4>2 DEF Spans
      <4>5. last.from \in 1 .. Len(text) + 1 BY SMTT(30), <4>3, <4>4, <1>1, GroupTypes
      <4> QED BY <4>5, <1>1, GroupTypes, WordsAreNat
    <3> HIDE DEF last
    <3>3. text[current.to].upto <= text[seg.to].upto BY SMTT(30), <1>2, <1>5, <2>1
    <3>4. /\ Words([from |-> last.from, to |-> current.to]) = text[current.to].upto - WordsBefore(text, last.from)
          /\ Words([from |-> last.from, to |-> seg.to]) = text[seg.to].upto - WordsBefore(text, last.from)
      BY DEF Words
    <3>5. text[current.to].upto - WordsBefore(text, last.from) > target BY <3>1, <3>4
    <3>6. text[seg.to].upto - WordsBefore(text, last.from) > target
      BY <1>2, <2>1, <2>7, <3>2, <3>3, <3>5, StillMore
    <3>7. Words([from |-> last.from, to |-> seg.to]) > target BY <3>4, <3>6
    <3> QED BY <3>7 DEF last
  <2>9. SizeInv'
    <3>1. ~ (tokens' > target) BY <2>3, <2>6, <2>7
    <3> QED BY <1>1, <1>3, <2>2, <2>8, <3>1 DEF SizeInv, Words, WordsBefore
  <2> QED BY <2>5, <2>9
<1> QED BY <1>1, <1>4, <1>5, FirstChild

\* A child is finished.
LEMMA ChildFinished ==
  ASSUME ChunkInv, SizeInv, pc = "group", next > 1, NEW more, more = Append(children, current)
  PROVE  /\ more \in Seq(Spans) /\ more # << >> /\ more[Len(more)] = current
         /\ Ordered(more, Len(text))
         /\ \A n : Reached(n, children) \/ Covers(current, n) => Reached(n, more)
         /\ \A c \in DOMAIN more :
              /\ Words(more[c]) > target => \E s \in DOMAIN segments : segments[s] = more[c]
              /\ c > 1 => Words([from |-> more[c - 1].from, to |-> more[c].to]) > target
<1>1. /\ current \in Spans /\ current # Nothing
      /\ 1 <= current.from /\ current.from <= current.to /\ current.to <= Len(text)
      /\ tokens = text[current.to].upto - WordsBefore(text, current.from)
      /\ children # << >> => children[Len(children)].to < current.from
  BY CurrentChild
<1>2. children \in Seq(Spans) /\ Ordered(children, Len(text)) /\ Len(text) \in Nat BY GroupTypes
<1>3. /\ more \in Seq(Spans) /\ Len(more) = Len(children) + 1 /\ more # << >>
      /\ DOMAIN more = 1 .. Len(children) + 1 /\ DOMAIN children = 1 .. Len(children)
      /\ Len(children) \in Nat
      /\ more[Len(children) + 1] = current
      /\ \A c \in 1 .. Len(children) : more[c] = children[c]
  BY <1>1, <1>2
<1>4. Ordered(more, Len(text)) /\ \A n : Reached(n, children) \/ Covers(current, n) => Reached(n, more)
  BY <1>1, <1>2, AppendedFollows
<1>5. /\ \A c \in DOMAIN children :
           /\ Words(children[c]) > target => \E s \in DOMAIN segments : segments[s] = children[c]
           /\ c > 1 => Words([from |-> children[c - 1].from, to |-> children[c].to]) > target
      /\ tokens > target => \E s \in DOMAIN segments : segments[s] = current
      /\ children # << >> =>
           Words([from |-> children[Len(children)].from, to |-> current.to]) > target
  BY <1>1 DEF SizeInv
<1>6. Words(current) = tokens BY <1>1 DEF Words
<1>7. ASSUME NEW c \in 1 .. Len(children) + 1
      PROVE  /\ Words(more[c]) > target => \E s \in DOMAIN segments : segments[s] = more[c]
             /\ c > 1 => Words([from |-> more[c - 1].from, to |-> more[c].to]) > target
  <2>1. CASE c = Len(children) + 1
    <3>1. more[c] = current BY <1>3, <2>1
    <3>2. c > 1 => more[c - 1] = children[Len(children)] /\ children # << >>
      <4>1. ASSUME c > 1 PROVE c - 1 = Len(children) /\ c - 1 \in 1 .. Len(children)
        BY <4>1, <2>1, <1>3
      <4> QED BY <4>1, <1>3
    <3> QED BY <3>1, <3>2, <1>5, <1>6
  <2>2. CASE c # Len(children) + 1
    <3>1. c \in 1 .. Len(children) /\ more[c] = children[c] BY <1>3, <2>2
    <3>2. c > 1 => more[c - 1] = children[c - 1]
      <4>1. ASSUME c > 1 PROVE c - 1 \in 1 .. Len(children) BY <4>1, <3>1, <1>3
      <4> QED BY <4>1, <1>3
    <3> QED BY <3>1, <3>2, <1>3, <1>5
  <2> QED BY <2>1, <2>2
<1> QED BY <1>3, <1>4, <1>7

LEMMA NextChildKeeps ==
  ASSUME ChunkInv, SizeInv, NextChild
  PROVE  ChunkInv' /\ SizeInv'
<1> DEFINE seg == segments[next]
<1>1. /\ pc = "group" /\ next <= Len(segments) /\ ~ Fits(seg)
      /\ current' = seg /\ tokens' = Words(seg)
      /\ next' = next + 1 /\ children' = Append(children, current)
      /\ UNCHANGED <<input, pc, reading>>
  BY DEF NextChild
<1>2. /\ seg \in Spans /\ next \in 1 .. Len(segments)
      /\ 1 <= seg.from /\ seg.from <= seg.to /\ seg.to <= Len(text)
      /\ Words(seg) \in Nat
      /\ WordsBefore(text, seg.from) \in Nat /\ text[seg.to].upto \in Nat
      /\ Words(seg) = text[seg.to].upto - WordsBefore(text, seg.from)
      /\ next > 1 => /\ current.to < seg.from
                     /\ WordsBefore(text, seg.from) = text[current.to].upto
  BY <1>1, NextSegment DEF Words
<1> HIDE DEF seg
<1>3. text' = text /\ target' = target /\ segments' = segments /\ pc' = "group"
  BY <1>1 DEF input, reading
<1>4. next > 1
  <2>1. current # Nothing BY <1>1 DEF Fits
  <2> QED BY <1>1, <2>1, FirstChild
<1>5. /\ children' \in Seq(Spans) /\ children' # << >> /\ children'[Len(children')] = current
      /\ Ordered(children', Len(text))
      /\ \A n : Reached(n, children) \/ Covers(current, n) => Reached(n, children')
      /\ \A c \in DOMAIN children' :
           /\ Words(children'[c]) > target => \E s \in DOMAIN segments : segments[s] = children'[c]
           /\ c > 1 => Words([from |-> children'[c - 1].from, to |-> children'[c].to]) > target
  <2>1. children' = Append(children, current) BY <1>1
  <2> QED BY <1>1, <1>4, <2>1, ChildFinished
<1>6. ChunkInv'
  <2>1. \A n : Reached(n, children) \/ Covers(current, n) \/ Covers(seg, n)
                 => Reached(n, children') \/ n \notin 1 .. Len(text) \/ Covers(current', n)
    BY <1>1, <1>5
  <2>2. children'[Len(children')].to < current'.from BY <1>1, <1>2, <1>4, <1>5
  <2> QED BY <1>1, <1>2, <1>5, <2>1, <2>2, GroupKeeps DEF seg
<1>7. Words([from |-> current.from, to |-> seg.to]) > target
  <2>1. /\ WordsBefore(text, current.from) \in Nat /\ text[current.to].upto \in Nat
        /\ tokens = text[current.to].upto - WordsBefore(text, current.from)
    BY <1>1, <1>4, CurrentChild
  <2>2. target \in Nat /\ tokens \in Nat BY <1>1, GroupTypes
  <2>3. tokens + Words(seg) > target
    <3>1. ~ (tokens + Words(seg) <= target) BY <1>1 DEF Fits
    <3> QED BY <3>1, <2>2, <1>2
  <2>4. Words([from |-> current.from, to |-> seg.to]) = text[seg.to].upto - WordsBefore(text, current.from)
    BY DEF Words
  <2>5. Words(seg) = text[seg.to].upto - text[current.to].upto BY <1>2, <1>4
  <2>6. text[seg.to].upto - WordsBefore(text, current.from) = tokens + Words(seg)
    BY SMTT(30), <1>2, <2>1, <2>5
  <2> QED BY <2>3, <2>4, <2>6
<1>8. \E s \in DOMAIN segments : segments[s] = seg
  <2>1. segments \in Seq(Spans) BY <1>1, GroupTypes
  <2> QED BY <2>1, <1>2 DEF seg
<1>9. SizeInv'
  BY <1>1, <1>3, <1>5, <1>7, <1>8 DEF SizeInv, Words, WordsBefore
<1> QED BY <1>6, <1>9

LEMMA LastChildKeeps ==
  ASSUME ChunkInv, SizeInv, LastChild
  PROVE  ChunkInv' /\ SizeInv'
<1>1. /\ pc = "group" /\ next > Len(segments) /\ pc' = "done" /\ current' = Nothing
      /\ children' = IF current = Nothing THEN children ELSE Append(children, current)
      /\ UNCHANGED <<input, reading, next, tokens>>
  BY DEF LastChild
<1>2. /\ text' = text /\ target' = target /\ line' = line /\ start' = start
      /\ fence' = fence /\ segments' = segments /\ next' = next /\ tokens' = tokens
  BY <1>1 DEF input, reading
<1>3. /\ text \in Seq(Lines) /\ segments \in Seq(Spans) /\ children \in Seq(Spans)
      /\ next \in 1 .. Len(segments) + 1 /\ Len(segments) \in Nat
      /\ Ordered(children, Len(text))
  BY <1>1, GroupTypes
<1>4. \A n \in 1 .. Len(text) : text[n].kind # "blank" => Reached(n, children) \/ Covers(current, n)
  <2>1. next .. Len(segments) = {} BY <1>1, <1>3
  <2> QED BY <1>1, <2>1 DEF ChunkInv, GroupInv
<1>5. /\ children' \in Seq(Spans) /\ Ordered(children', Len(text))
      /\ \A n \in 1 .. Len(text) : text[n].kind # "blank" => Reached(n, children')
      /\ \A c \in DOMAIN children' :
           /\ Words(children'[c]) > target => \E s \in DOMAIN segments : segments[s] = children'[c]
           /\ c > 1 => Words([from |-> children'[c - 1].from, to |-> children'[c].to]) > target
  <2>1. CASE current = Nothing
    <3>1. children' = children BY <1>1, <2>1
    <3>2. \A n \in 1 .. Len(text) : ~ Covers(current, n) BY <2>1, <1>3 DEF Covers, Nothing
    <3>3. \A c \in DOMAIN children :
           /\ Words(children[c]) > target => \E s \in DOMAIN segments : segments[s] = children[c]
           /\ c > 1 => Words([from |-> children[c - 1].from, to |-> children[c].to]) > target
      BY <1>1 DEF SizeInv
    <3> QED BY <1>3, <1>4, <3>1, <3>2, <3>3
  <2>2. CASE current # Nothing
    <3>1. children' = Append(children, current) BY <1>1, <2>2
    <3>2. next > 1 BY <1>1, <2>2, FirstChild
    <3> QED BY <1>1, <1>4, <3>1, <3>2, ChildFinished
  <2> QED BY <2>1, <2>2
<1>6. ChunkerTypeOK' BY <1>1, <1>2, <1>5 DEF ChunkInv, ChunkerTypeOK, Nothing, Spans
<1>7. SegmentsInv' BY <1>1, <1>2 DEF ChunkInv, SegmentsInv, Ordered, Gapless, Lengthy
<1>8. DoneInv'
  <2>1. Ordered(children, Len(text))' BY <1>2, <1>5 DEF Ordered
  <2>2. \A n : Reached(n, children)' <=> Reached(n, children') BY DEF Reached
  <2> QED BY <1>1, <1>2, <1>5, <2>1, <2>2 DEF DoneInv
<1>9. Counted(text)' BY <1>2 DEF ChunkInv, Counted
<1>10. ChunkInv' BY <1>1, <1>6, <1>7, <1>8, <1>9 DEF ChunkInv, IdleInv, LinesInv, GroupInv
<1>11. SizeInv'
  <2>1. \A c : Words(children[c])' = Words(children'[c]) BY <1>2 DEF Words, WordsBefore
  <2>2. \A c : Words([from |-> children[c - 1].from, to |-> children[c].to])' =
                Words([from |-> children'[c - 1].from, to |-> children'[c].to])
    BY <1>2 DEF Words, WordsBefore
  <2>3. current' = Nothing /\ segments' = segments /\ target' = target BY <1>1, <1>2
  <2> QED BY ONLY <1>5, <2>1, <2>2, <2>3 DEF SizeInv
<1> QED BY <1>10, <1>11

-----------------------------------------------------------------------------
(* Asking. *)
LEMMA ResultsTyped ==
  ASSUME documents \in Seq(Documents)
  PROVE  AllResults \subseteq Results
<1> SUFFICES ASSUME NEW d \in DOMAIN documents, NEW c \in DOMAIN documents[d].children
             PROVE  [doc |-> d, child |-> c] \in Results
  BY DEF AllResults
<1>1. d \in 1 .. Len(documents) /\ documents[d] \in Documents OBVIOUS
<1>2. documents[d].children \in Seq(Spans) BY <1>1 DEF Documents
<1>3. c \in Nat \ {0} /\ d \in Nat \ {0} BY <1>1, <1>2
<1> QED BY <1>3 DEF Results

LEMMA ScoreIsNat ==
  ASSUME SearchInv, stage # "idle", NEW r
  PROVE  Score(query, r) \in Nat
<1>1. IsFiniteSet(query) BY RetrievalAssumption DEF SearchInv
<1>2. Overlap(query, r) \subseteq query BY DEF Overlap
<1>3. IsFiniteSet(Overlap(query, r)) BY <1>1, <1>2, FS_Subset
<1> QED BY <1>3, FS_CardinalityType DEF Score

\* Nothing is asked.
LEMMA Quiet ==
  ASSUME stage = "idle", scored = {}, hits = << >>, pack = NoPack, limit \in Nat
  PROVE  SearchInv
BY DEF SearchInv, Chosen

LEMMA SameCorpus ==
  ASSUME documents' = documents
  PROVE  /\ AllResults' = AllResults
         /\ \A r : Overlap(query, r)' = Overlap(query', r)
         /\ \A r : Score(query, r)' = Score(query', r)
         /\ Chosen' = {hits'[i] : i \in DOMAIN hits'}
         /\ Matching' = {r \in AllResults : Overlap(query', r) # {}}
BY DEF AllResults, Overlap, Score, TermsIn, Matching, Chosen

LEMMA AskKeeps ==
  ASSUME TypeOK, SearchInv, NEW asked \in Queries, NEW l \in Limits, Ask(asked, l)
  PROVE  SearchInv'
<1>1. /\ stage = "idle" /\ pc = "idle" /\ query' = asked /\ limit' = l /\ stage' = "sort"
      /\ scored' = {r \in AllResults : Overlap(asked, r) # {}}
      /\ hits' = hits /\ pack' = pack /\ pc' = pc /\ documents' = documents
  BY DEF Ask, chunking, corpus
<1>2. hits' = << >> BY <1>1 DEF SearchInv
<1>3. Chosen' = {} BY <1>1, <1>2, SameCorpus
<1>4. Matching' = scored' BY <1>1, SameCorpus
<1>5. Len(hits') <= limit' BY <1>1, <1>2, RetrievalAssumption
<1>6. scored' \subseteq AllResults' BY <1>1, SameCorpus
<1> QED BY <1>1, <1>2, <1>3, <1>4, <1>5, <1>6 DEF SearchInv

LEMMA NextHitKeeps ==
  ASSUME TypeOK, SearchInv, NextHit
  PROVE  SearchInv'
<1>1. /\ stage = "sort" /\ scored # {} /\ Len(hits) < limit
      /\ pc' = pc /\ documents' = documents /\ stage' = stage /\ query' = query
      /\ limit' = limit /\ pack' = pack
  BY DEF NextHit, Unfinished, chunking, corpus
<1>2. PICK r \in Best : hits' = Append(hits, r) /\ scored' = scored \ {r} BY DEF NextHit
<1>3. /\ r \in scored /\ \A other \in scored : Score(query, other) <= Score(query, r)
      /\ hits \in Seq(Results) /\ scored \subseteq Results /\ limit \in Nat
  BY <1>2 DEF Best, TypeOK
<1>4. /\ pc = "idle" /\ query \in Queries /\ limit \in Limits
      /\ scored \cup Chosen \subseteq AllResults
      /\ \A i, j \in DOMAIN hits : i < j =>
           hits[i] # hits[j] /\ Score(query, hits[i]) >= Score(query, hits[j])
      /\ \A q \in Chosen : Overlap(query, q) # {}
      /\ Matching = scored \cup Chosen /\ scored \cap Chosen = {}
      /\ \A q \in scored : \A i \in DOMAIN hits : Score(query, hits[i]) >= Score(query, q)
  BY <1>1 DEF SearchInv
<1>5. /\ Len(hits) \in Nat /\ hits' \in Seq(Results) /\ Len(hits') = Len(hits) + 1
      /\ DOMAIN hits = 1 .. Len(hits) /\ DOMAIN hits' = 1 .. Len(hits) + 1
      /\ hits'[Len(hits) + 1] = r /\ \A i \in 1 .. Len(hits) : hits'[i] = hits[i]
  BY <1>2, <1>3
<1>6. Chosen' = Chosen \cup {r}
  <2>1. Chosen' = {hits'[i] : i \in 1 .. Len(hits) + 1} BY <1>5 DEF Chosen
  <2>2. Chosen = {hits'[i] : i \in 1 .. Len(hits)} BY <1>5 DEF Chosen
  <2>3. 1 .. Len(hits) + 1 = (1 .. Len(hits)) \cup {Len(hits) + 1} BY <1>5
  <2> QED BY <1>5, <2>1, <2>2, <2>3
<1>7. Matching' = Matching /\ AllResults' = AllResults BY <1>1, SameCorpus DEF Matching
<1>8. r \in Matching BY <1>3, <1>4
<1>9. \A q \in Chosen' : Overlap(query, q)' # {}
  BY <1>1, <1>4, <1>6, <1>8, SameCorpus DEF Matching
<1>10. ASSUME NEW i \in DOMAIN hits', NEW j \in DOMAIN hits', i < j
       PROVE  hits'[i] # hits'[j] /\ Score(query, hits'[i]) >= Score(query, hits'[j])
  <2>1. i \in 1 .. Len(hits) /\ hits'[i] = hits[i] BY <1>5, <1>10
  <2>2. CASE j = Len(hits) + 1
    <3>1. hits[i] \in Chosen BY <2>1, <1>5 DEF Chosen
    <3> QED BY <1>3, <1>4, <1>5, <2>1, <2>2, <3>1
  <2>3. CASE j # Len(hits) + 1
    <3>1. j \in 1 .. Len(hits) /\ hits'[j] = hits[j] BY <1>5, <2>3
    <3> QED BY <1>4, <1>5, <1>10, <2>1, <3>1
  <2> QED BY <2>2, <2>3
<1>11. ASSUME NEW q \in scored', NEW i \in DOMAIN hits'
       PROVE  Score(query, hits'[i]) >= Score(query, q)
  <2>1. q \in scored BY <1>2, <1>11
  <2>2. CASE i = Len(hits) + 1
    <3>1. Score(query, q) \in Nat /\ Score(query, r) \in Nat BY <1>1, ScoreIsNat
    <3>2. Score(query, q) <= Score(query, r) BY <1>3, <2>1
    <3>3. hits'[i] = r BY <1>5, <2>2
    <3> QED BY <3>1, <3>2, <3>3
  <2>3. CASE i # Len(hits) + 1
    <3>1. i \in 1 .. Len(hits) /\ hits'[i] = hits[i] BY <1>5, <2>3
    <3> QED BY <1>4, <1>5, <2>1, <3>1
  <2> QED BY <2>2, <2>3
<1>12. \A a : Score(query, a)' = Score(query, a) BY <1>1, SameCorpus
<1>13. /\ scored' \cup Chosen' \subseteq AllResults'
       /\ Matching' = scored' \cup Chosen' /\ scored' \cap Chosen' = {}
  BY <1>2, <1>3, <1>4, <1>6, <1>7
<1>14. Len(hits') <= limit' BY <1>1, <1>3, <1>5
<1>15. \A i, j \in DOMAIN hits' : i < j =>
         hits'[i] # hits'[j] /\ Score(query, hits[i])' >= Score(query, hits[j])'
  <2>1. \A i : Score(query, hits[i])' = Score(query, hits'[i]) BY <1>1 DEF Score, Overlap, TermsIn
  <2> QED BY <1>10, <2>1
<1>16. \A q \in scored' : \A i \in DOMAIN hits' : Score(query, hits[i])' >= Score(query, q)'
  <2>1. \A i : Score(query, hits[i])' = Score(query, hits'[i]) BY <1>1 DEF Score, Overlap, TermsIn
  <2> QED BY <1>11, <1>12, <2>1
<1> QED BY <1>1, <1>4, <1>9, <1>13, <1>14, <1>15, <1>16 DEF SearchInv

LEMMA SortedKeeps ==
  ASSUME TypeOK, SearchInv, Sorted
  PROVE  SearchInv'
<1>1. /\ stage = "sort" /\ (scored = {} \/ ~ (Len(hits) < limit))
      /\ scored' = {} /\ stage' = "pack"
      /\ pc' = pc /\ documents' = documents /\ query' = query /\ limit' = limit
      /\ hits' = hits /\ pack' = pack
  BY DEF Sorted, Unfinished, chunking, corpus
<1>2. /\ pc = "idle" /\ query \in Queries /\ limit \in Limits /\ Len(hits) <= limit
      /\ scored \cup Chosen \subseteq AllResults
      /\ \A i, j \in DOMAIN hits : i < j =>
           hits[i] # hits[j] /\ Score(query, hits[i]) >= Score(query, hits[j])
      /\ \A q \in Chosen : Overlap(query, q) # {}
      /\ Matching = scored \cup Chosen
      /\ \A q \in scored : \A i \in DOMAIN hits : Score(query, hits[i]) >= Score(query, q)
  BY <1>1 DEF SearchInv
<1>3. Len(hits) \in Nat /\ limit \in Nat BY DEF TypeOK
<1>4. \A r \in Matching :
        \/ r \in Chosen
        \/ Len(hits) = limit /\ \A i \in DOMAIN hits : Score(query, hits[i]) >= Score(query, r)
  BY <1>1, <1>2, <1>3
<1>5. /\ \A a : Overlap(query, a)' = Overlap(query, a) /\ Score(query, a)' = Score(query, a)
      /\ \A i : Score(query, hits[i])' = Score(query, hits[i])
      /\ AllResults' = AllResults /\ Chosen' = Chosen /\ Matching' = Matching
  BY <1>1 DEF AllResults, Overlap, Score, TermsIn, Matching, Chosen
<1> QED BY <1>1, <1>2, <1>4, <1>5 DEF SearchInv

LEMMA BuildPackKeeps ==
  ASSUME TypeOK, SearchInv, BuildPack
  PROVE  SearchInv'
<1>1. /\ stage = "pack" /\ stage' = "answered"
      /\ pack' = [chunks |-> hits, abstain |-> hits = << >>]
      /\ pc' = pc /\ documents' = documents /\ query' = query /\ limit' = limit
      /\ hits' = hits /\ scored' = scored
  BY DEF BuildPack, chunking, corpus
<1>2. /\ \A a : Overlap(query, a)' = Overlap(query, a) /\ Score(query, a)' = Score(query, a)
      /\ \A i : Score(query, hits[i])' = Score(query, hits[i])
      /\ AllResults' = AllResults /\ Chosen' = Chosen /\ Matching' = Matching
  BY <1>1 DEF AllResults, Overlap, Score, TermsIn, Matching, Chosen
<1>3. pack' = [chunks |-> hits', abstain |-> hits' = << >>] BY <1>1
<1> QED BY <1>1, <1>2, <1>3 DEF SearchInv

-----------------------------------------------------------------------------
(* The invariant. *)
LEMMA InitEstablishes ==
  ASSUME Init
  PROVE  IInv
<1> USE DEF Init, ChunkerInit
<1>1. target \in Nat BY TextsAssumption
<1>2. waiting \in Seq(Texts) BY RetrievalAssumption
<1>3. waiting \in Seq(Seq(Lines)) /\ \A i \in DOMAIN waiting : waiting[i] \in Texts
  <2>1. \A txt \in Texts : txt \in Seq(Lines) BY TextsAssumption
  <2>2. Texts \subseteq Seq(Lines) BY <2>1
  <2>3. Len(waiting) \in Nat /\ waiting \in [1 .. Len(waiting) -> Texts] BY <1>2
  <2> QED BY <1>2, <2>2, <2>3
<1>4. ChunkerTypeOK BY <1>1 DEF ChunkerTypeOK, Nothing, Spans
<1>5. TypeOK BY <1>3, <1>4 DEF TypeOK, NoPack, Packs
<1>6. ChunkInv
  BY <1>4 DEF ChunkInv, Counted, IdleInv, LinesInv, SegmentsInv, GroupInv, DoneInv
<1>7. SearchInv BY Quiet
<1> QED BY <1>3, <1>5, <1>6, <1>7 DEF IInv, SizeInv, CorpusInv

\* The chunker's steps.
LEMMA ChunkKeeps ==
  ASSUME ChunkInv, SizeInv, Chunk
  PROVE  ChunkInv' /\ SizeInv'
<1>1. CASE OpenFence \/ InFence \/ TextLine \/ BlankLine
  <2>1. pc' = "lines" BY <1>1 DEF OpenFence, InFence, TextLine, BlankLine, Reads
  <2> QED BY <1>1, <2>1, ReadLineKeeps DEF SizeInv
<1>2. CASE EndOfText
  <2>1. children' = << >> /\ current' = Nothing
    BY <1>2 DEF EndOfText, ChunkInv, LinesInv, grouping
  <2> QED BY <1>2, <2>1, EndOfTextKeeps DEF SizeInv
<1>3. CASE ExtendChild BY <1>3, ExtendChildKeeps
<1>4. CASE NextChild BY <1>4, NextChildKeeps
<1>5. CASE LastChild BY <1>5, LastChildKeeps
<1> QED BY <1>1, <1>2, <1>3, <1>4, <1>5 DEF Chunk, ReadLine, GroupSegment

\* A search leaves the chunker alone.
LEMMA ChunkerRests ==
  ASSUME ChunkInv, SizeInv, UNCHANGED chunking
  PROVE  ChunkInv' /\ SizeInv'
<1>1. /\ text' = text /\ target' = target /\ pc' = pc /\ line' = line /\ start' = start
      /\ fence' = fence /\ segments' = segments /\ next' = next /\ current' = current
      /\ tokens' = tokens /\ children' = children
  BY DEF chunking, input, reading, grouping
<1>2. ChunkerTypeOK' BY <1>1 DEF ChunkInv, ChunkerTypeOK
<1>3. Counted(text)' /\ IdleInv' BY <1>1 DEF ChunkInv, Counted, IdleInv
<1>4. LinesInv'
  <2>1. /\ Ordered(segments, Margin - 1)' <=> Ordered(segments, Margin - 1)
        /\ Margin' = Margin
        /\ \A n : Reached(n, segments)' <=> Reached(n, segments)
        /\ Gapless(text, segments)' <=> Gapless(text, segments)
        /\ Lengthy(text, segments)' <=> Lengthy(text, segments)
        /\ WordsBefore(text, Margin)' = WordsBefore(text, Margin)
        /\ WordsBefore(text, line)' = WordsBefore(text, line)
        /\ WordsThrough(text, segments)' = WordsThrough(text, segments)
    BY <1>1 DEF Margin, Ordered, Reached, Gapless, Lengthy, WordsBefore, WordsThrough
  <2> QED BY <1>1, <2>1 DEF ChunkInv, LinesInv
<1>5. SegmentsInv' BY <1>1 DEF ChunkInv, SegmentsInv, Ordered, Gapless, Lengthy
<1>6. GroupInv' /\ DoneInv'
  <2>1. /\ Ordered(children, Len(text))' <=> Ordered(children, Len(text))
        /\ \A n : Reached(n, children)' <=> Reached(n, children)
        /\ \A n : Covers(current, n)' <=> Covers(current, n)
        /\ \A n, s : Covers(segments[s], n)' <=> Covers(segments[s], n)
        /\ Words(current)' = Words(current)
    BY <1>1 DEF Ordered, Reached, Covers, Words, WordsBefore
  <2> QED BY <1>1, <2>1 DEF ChunkInv, GroupInv, DoneInv
<1>7. SizeInv' BY <1>1 DEF SizeInv, Words, WordsBefore
<1> QED BY <1>2, <1>3, <1>4, <1>5, <1>6, <1>7 DEF ChunkInv

LEMMA CorpusRests ==
  ASSUME CorpusInv, UNCHANGED corpus
  PROVE  CorpusInv'
BY DEF CorpusInv, corpus, Kept, Counted, Ordered, Reached, Covers, WordsBefore

LEMMA StepKeeps ==
  ASSUME IInv, Next
  PROVE  IInv'
<1> USE DEF IInv
<1>1. CASE StartDocument
  <2>1. /\ stage = "idle" /\ waiting # << >> /\ Start(Head(waiting)) /\ waiting' = Tail(waiting)
        /\ documents' = documents /\ UNCHANGED asking
    BY <1>1 DEF StartDocument
  <2>2. waiting \in Seq(Seq(Lines)) /\ \A i \in 1 .. Len(waiting) : waiting[i] \in Texts
    BY DEF TypeOK, CorpusInv
  <2>3. /\ Head(waiting) \in Texts
        /\ waiting' \in Seq(Seq(Lines)) /\ \A i \in DOMAIN waiting' : waiting'[i] \in Texts
    BY <2>1, <2>2
  <2>4. ChunkInv' BY <2>1, <2>3, StartKeeps
  <2>5. SizeInv' BY <2>1 DEF Start, SizeInv
  <2>6. CorpusInv' BY <2>1, <2>3 DEF CorpusInv, Kept, Counted, Ordered, Reached, Covers, WordsBefore
  <2>7. /\ scored' = {} /\ hits' = << >> /\ pack' = NoPack /\ stage' = "idle"
        /\ limit' \in Nat /\ query' = query
    BY <2>1 DEF asking, SearchInv, TypeOK
  <2>8. SearchInv' BY <2>7, Quiet DEF SearchInv, Chosen
  <2>9. TypeOK' BY <2>1, <2>3, <2>4, <2>7 DEF TypeOK, ChunkInv, NoPack, Packs
  <2> QED BY <2>4, <2>5, <2>6, <2>8, <2>9
<1>2. CASE ChunkDocument
  <2>1. Chunk /\ UNCHANGED <<corpus, asking>> BY <1>2 DEF ChunkDocument
  <2>2. ChunkInv' /\ SizeInv' BY <2>1, ChunkKeeps
  <2>3. CorpusInv' BY <2>1, CorpusRests
  <2>4. pc # "idle"
    BY <2>1 DEF Chunk, ReadLine, GroupSegment, OpenFence, InFence, TextLine, BlankLine, Reads,
                EndOfText, ExtendChild, NextChild, LastChild
  <2>5. /\ scored' = {} /\ hits' = << >> /\ pack' = NoPack /\ stage' = "idle"
        /\ limit' \in Nat /\ query' = query
    BY <2>1, <2>4 DEF asking, SearchInv, TypeOK
  <2>6. SearchInv' BY <2>5 DEF SearchInv, Chosen
  <2>7. TypeOK' BY <2>1, <2>2, <2>5 DEF TypeOK, ChunkInv, NoPack, Packs, corpus
  <2> QED BY <2>2, <2>3, <2>6, <2>7
<1>3. CASE Record
  <2> DEFINE doc == [text |-> text, children |-> children]
  <2>1. /\ pc = "done" /\ documents' = Append(documents, doc) /\ waiting' = waiting
        /\ text' = << >> /\ pc' = "idle"
        /\ line' = 1 /\ start' = 0 /\ fence' = "none" /\ segments' = << >>
        /\ next' = 1 /\ current' = Nothing /\ tokens' = 0 /\ children' = << >>
        /\ target' = target /\ UNCHANGED asking
    BY <1>3 DEF Record
  <2>2. /\ text \in Seq(Lines) /\ children \in Seq(Spans) /\ target \in Nat /\ Counted(text)
        /\ Ordered(children, Len(text))
        /\ \A n \in 1 .. Len(text) : text[n].kind # "blank" => Reached(n, children)
    BY <2>1 DEF ChunkInv, ChunkerTypeOK, DoneInv
  <2>3. /\ doc \in Documents /\ Kept(doc) /\ documents \in Seq(Documents)
    BY <2>2 DEF Documents, Kept, TypeOK
  <2> HIDE DEF doc
  <2>4. documents' \in Seq(Documents) BY <2>1, <2>3
  <2>5. \A d \in DOMAIN documents' : Kept(documents'[d])
    <3> SUFFICES ASSUME NEW d \in 1 .. Len(documents) + 1 PROVE Kept(documents'[d])
      BY <2>1, <2>3
    <3>1. CASE d = Len(documents) + 1
      <4>1. documents'[d] = doc BY <3>1, <2>1, <2>3
      <4> QED BY <4>1, <2>3
    <3>2. CASE d # Len(documents) + 1
      <4>1. d \in 1 .. Len(documents) /\ documents'[d] = documents[d] BY <3>2, <2>1, <2>3
      <4> QED BY <4>1, <2>3 DEF CorpusInv
    <3> QED BY <3>1, <3>2
  <2>6. CorpusInv'
    BY <2>1, <2>5 DEF CorpusInv, Kept, Counted, Ordered, Reached, Covers, WordsBefore
  <2>7. ChunkerTypeOK' BY <2>1, <2>2 DEF ChunkerTypeOK, Nothing, Spans
  <2>8. ChunkInv'
    BY <2>1, <2>7 DEF ChunkInv, Counted, IdleInv, LinesInv, SegmentsInv, GroupInv, DoneInv
  <2>9. SizeInv' BY <2>1 DEF SizeInv
  <2>10. /\ scored' = {} /\ hits' = << >> /\ pack' = NoPack /\ stage' = "idle"
         /\ limit' \in Nat /\ query' = query
    BY <2>1 DEF asking, SearchInv, TypeOK
  <2>11. SearchInv' BY <2>10 DEF SearchInv, Chosen
  <2>12. TypeOK' BY <2>1, <2>4, <2>7, <2>10 DEF TypeOK, NoPack, Packs
  <2> QED BY <2>6, <2>8, <2>9, <2>11, <2>12
<1>4. CASE \E asked \in Queries, l \in Limits : Ask(asked, l)
  <2>1. PICK asked \in Queries, l \in Limits : Ask(asked, l) BY <1>4
  <2>2. /\ UNCHANGED chunking /\ UNCHANGED corpus /\ hits' = hits /\ pack' = pack
        /\ query' = asked /\ limit' = l /\ stage' = "sort" /\ scored' \subseteq AllResults
    BY <2>1 DEF Ask
  <2>3. ChunkInv' /\ SizeInv' BY <2>2, ChunkerRests
  <2>4. CorpusInv' BY <2>2, CorpusRests
  <2>5. SearchInv' BY <2>1, AskKeeps
  <2>6. query' \in SUBSET Terms /\ limit' \in Nat BY <2>2, RetrievalAssumption
  <2>7. scored' \subseteq Results BY <2>2, ResultsTyped DEF TypeOK
  <2>8. TypeOK' BY <2>2, <2>3, <2>6, <2>7 DEF TypeOK, ChunkInv, corpus
  <2> QED BY <2>3, <2>4, <2>5, <2>8
<1>5. CASE Search
  <2>1. UNCHANGED chunking /\ UNCHANGED corpus
    BY <1>5 DEF Search, NextHit, Sorted, BuildPack, Answered
  <2>2. ChunkInv' /\ SizeInv' BY <2>1, ChunkerRests
  <2>3. CorpusInv' BY <2>1, CorpusRests
  <2>4. SearchInv'
    <3>1. CASE Answered
      <4>1. /\ stage' = "idle" /\ hits' = << >> /\ pack' = NoPack /\ limit' = 0 /\ scored' = scored
            /\ stage = "answered"
        BY <3>1 DEF Answered
      <4> QED BY <4>1 DEF SearchInv, Chosen
    <3> QED BY <1>5, <3>1, NextHitKeeps, SortedKeeps, BuildPackKeeps DEF Search
  <2>5. TypeOK'
    <3>1. /\ ChunkerTypeOK' /\ waiting' \in Seq(Seq(Lines)) /\ documents' \in Seq(Documents)
      BY <2>1, <2>2 DEF ChunkInv, TypeOK, corpus
    <3>2. CASE NextHit
      <4>1. PICK r \in scored : hits' = Append(hits, r) /\ scored' = scored \ {r}
        BY <3>2 DEF NextHit, Best
      <4>2. UNCHANGED <<stage, query, limit, pack>> BY <3>2 DEF NextHit
      <4> QED BY <3>1, <4>1, <4>2 DEF TypeOK
    <3>3. CASE Sorted BY <3>1, <3>3 DEF TypeOK, Sorted
    <3>4. CASE BuildPack BY <3>1, <3>4 DEF TypeOK, BuildPack, Packs
    <3>5. CASE Answered BY <3>1, <3>5 DEF TypeOK, Answered, NoPack, Packs
    <3> QED BY <1>5, <3>2, <3>3, <3>4, <3>5 DEF Search
  <2> QED BY <2>2, <2>3, <2>4, <2>5
<1> QED BY <1>1, <1>2, <1>3, <1>4, <1>5 DEF Next

LEMMA StutterKeeps ==
  ASSUME IInv, UNCHANGED vars
  PROVE  IInv'
<1>1. /\ UNCHANGED chunking /\ UNCHANGED corpus
      /\ stage' = stage /\ query' = query /\ limit' = limit /\ scored' = scored
      /\ hits' = hits /\ pack' = pack
  BY DEF vars, asking
<1>2. pc' = pc /\ documents' = documents /\ waiting' = waiting BY <1>1 DEF chunking, corpus
<1>3. ChunkInv' /\ SizeInv' BY <1>1, ChunkerRests DEF IInv
<1>4. CorpusInv' BY <1>1, CorpusRests DEF IInv
<1>5. SearchInv'
  <2>1. /\ \A a : Overlap(query, a)' = Overlap(query, a) /\ Score(query, a)' = Score(query, a)
        /\ \A i : Score(query, hits[i])' = Score(query, hits[i])
        /\ AllResults' = AllResults /\ Chosen' = Chosen /\ Matching' = Matching
    BY <1>1, <1>2 DEF AllResults, Overlap, Score, TermsIn, Matching, Chosen
  <2> QED BY <1>1, <1>2, <2>1 DEF IInv, SearchInv
<1>6. TypeOK' BY <1>1, <1>2, <1>3 DEF IInv, ChunkInv, TypeOK
<1> QED BY <1>3, <1>4, <1>5, <1>6 DEF IInv

-----------------------------------------------------------------------------
(* Fences. *)
\* A set of numbers has a least one.
LEMMA Least ==
  ASSUME NEW T \in SUBSET Nat, T # {}
  PROVE  \E n \in T : \A m \in T : n <= m
<1> DEFINE R == StrictSubsetOrdering(Nat)
           U == {0 .. n : n \in T}
<1>1. IsWellFoundedOn(R, FiniteSubsetsOf(Nat)) BY FS_StrictSubsetOrderingWellFounded
<1>2. U \subseteq FiniteSubsetsOf(Nat)
  <2>1. ASSUME NEW n \in T PROVE 0 .. n \in SUBSET Nat /\ IsFiniteSet(0 .. n)
    BY FS_Interval
  <2> QED BY <2>1 DEF FiniteSubsetsOf
<1>3. U # {} OBVIOUS
<1>4. PICK x \in U : \A y \in U : <<y, x>> \notin R
  <2> HIDE DEF R, U
  <2> QED BY <1>1, <1>2, <1>3, WFMin
<1>5. PICK n \in T : x = 0 .. n BY <1>4
<1>6. ASSUME NEW m \in T, m < n PROVE FALSE
  <2>1. 0 .. m \in SUBSET Nat /\ 0 .. n \in SUBSET Nat
        /\ 0 .. m \subseteq 0 .. n /\ 0 .. m # 0 .. n
    <3>1. n \in 0 .. n /\ n \notin 0 .. m BY <1>6
    <3> QED BY <3>1, <1>6
  <2>2. <<0 .. m, 0 .. n>> \in R BY <2>1 DEF StrictSubsetOrdering
  <2> QED BY <1>4, <1>5, <2>2
<1> QED BY <1>6

\* The fence that is open after a line of some kind, if was is open before it.
Toggled(was, kind) ==
  IF was = "none" THEN IF IsFence(kind) THEN kind ELSE "none"
  ELSE IF kind = was THEN "none" ELSE was

\* open[n] is the fence that is open after line n of the text, up to line k.
Opens(open, txt, k) ==
  /\ open = [n \in 0 .. k |-> open[n]]
  /\ open[0] = "none"
  /\ \A n \in 1 .. k : open[n] = Toggled(open[n - 1], txt[n].kind)

\* There is such a function for every text: by the least line that it does not reach.
LEMMA OpensExists ==
  ASSUME NEW txt \in Seq(Lines), NEW k \in Nat
  PROVE  \E open : Opens(open, txt, k)
<1> DEFINE T == {n \in Nat : ~ \E open : Opens(open, txt, n)}
<1> SUFFICES ASSUME T # {} PROVE FALSE OBVIOUS
<1>1. PICK n \in T : \A m \in T : n <= m
  <2>1. T \in SUBSET Nat OBVIOUS
  <2> HIDE DEF T
  <2> QED BY <2>1, Least
<1>2. CASE n = 0
  <2> DEFINE open == [m \in 0 .. 0 |-> "none"]
  <2>1. Opens(open, txt, 0) BY DEF Opens
  <2> QED BY <1>2, <2>1
<1>3. CASE n # 0
  <2>1. n - 1 \in Nat /\ n - 1 \notin T BY <1>1, <1>3
  <2>2. PICK open : Opens(open, txt, n - 1) BY <2>1
  <2> DEFINE longer == [m \in 0 .. n |-> IF m = n THEN Toggled(open[n - 1], txt[n].kind)
                                         ELSE open[m]]
  <2>3. Opens(longer, txt, n)
    <3>1. longer = [m \in 0 .. n |-> longer[m]] OBVIOUS
    <3>2. longer[0] = "none" BY <1>3, <2>2 DEF Opens
    <3>3. ASSUME NEW m \in 1 .. n PROVE longer[m] = Toggled(longer[m - 1], txt[m].kind)
      <4>1. m - 1 \in 0 .. n /\ m - 1 # n /\ m \in 0 .. n OBVIOUS
      <4>2. longer[m - 1] = open[m - 1] BY <4>1
      <4>3. CASE m = n BY <4>2, <4>3
      <4>4. CASE m # n
        <5>1. m \in 1 .. n - 1 BY <4>4
        <5> QED BY <2>2, <4>1, <4>2, <4>4, <5>1 DEF Opens
      <4> QED BY <4>3, <4>4
    <3> HIDE DEF longer
    <3> QED BY <3>1, <3>2, <3>3 DEF Opens
  <2> HIDE DEF longer
  <2> QED BY <2>3
<1> QED BY <1>2, <1>3

\* Inside is that function.
LEMMA InsideOpens == text \in Seq(Lines) => Opens(Inside, text, Len(text))
<1> SUFFICES ASSUME text \in Seq(Lines) PROVE Opens(Inside, text, Len(text)) OBVIOUS
<1>1. PICK open : Opens(open, text, Len(text)) BY OpensExists
<1> DEFINE R(f) == f = [n \in 0 .. Len(text) |->
        IF n = 0 THEN "none"
        ELSE IF f[n - 1] = "none" THEN IF IsFence(text[n].kind) THEN text[n].kind ELSE "none"
        ELSE IF text[n].kind = f[n - 1] THEN "none"
        ELSE f[n - 1]]
<1>2. R(open)
  BY SMTT(30), <1>1 DEF Opens, Toggled
<1>3. Inside = CHOOSE f : R(f)
  BY DEF Inside
<1>4. R(Inside)
  <2> HIDE DEF R
  <2> QED BY <1>2, <1>3
<1>5. \A n \in 0 .. Len(text) : Inside[n] =
        IF n = 0 THEN "none" ELSE Toggled(Inside[n - 1], text[n].kind)
  BY <1>4 DEF Toggled
<1>6. Inside = [n \in 0 .. Len(text) |-> Inside[n]] BY <1>4
<1>7. Len(text) \in Nat /\ 0 \in 0 .. Len(text) OBVIOUS
<1> HIDE DEF R
<1> QED BY <1>5, <1>6, <1>7 DEF Opens

\* A span that neither begins nor ends inside a fence.
Whole(span) ==
  /\ Inside[span.from - 1] = "none"
  /\ Inside[span.to] = "none" \/ span.to = Len(text)
AllWhole(spans) == \A i \in DOMAIN spans : Whole(spans[i])

\* The chunker knows whether a fence is open, and keeps what it has cut whole.
FenceInv ==
  /\ pc = "lines" => /\ Inside[line - 1] = fence
                     /\ start # 0 => Inside[start - 1] = "none"
  /\ AllWhole(segments) /\ AllWhole(children)
  /\ current # Nothing => Whole(current)

LEMMA InsideStep ==
  ASSUME ChunkInv, NEW n \in 1 .. Len(text)
  PROVE  Inside[n] = Toggled(Inside[n - 1], text[n].kind)
BY InsideOpens DEF ChunkInv, ChunkerTypeOK, Opens

LEMMA SameWhole ==
  ASSUME text' = text
  PROVE  Inside' = Inside /\ \A span : Whole(span)' <=> Whole(span)
<1>1. Inside' = Inside BY DEF Inside
<1> QED BY <1>1 DEF Whole

LEMMA AppendedWhole ==
  ASSUME NEW spans \in Seq(Spans), AllWhole(spans), NEW span \in Spans, Whole(span)
  PROVE  AllWhole(Append(spans, span))
<1>1. \A i \in DOMAIN Append(spans, span) :
        \/ Append(spans, span)[i] = span
        \/ i \in DOMAIN spans /\ Append(spans, span)[i] = spans[i]
  BY Appended
<1> QED BY <1>1 DEF AllWhole

\* A segment may end where no fence is open, or where the text ends.
LEMMA FlushedWhole ==
  ASSUME ChunkInv, FenceInv, pc = "lines", NEW last \in Nat,
         Inside[last] = "none" \/ last = Len(text)
  PROVE  AllWhole(Flushed(last))
<1>1. segments \in Seq(Spans) /\ start \in Nat /\ AllWhole(segments)
  BY DEF ChunkInv, ChunkerTypeOK, FenceInv
<1>2. CASE start = 0 BY <1>1, <1>2 DEF Flushed
<1>3. CASE start # 0
  <2> DEFINE span == [from |-> start, to |-> last]
  <2>1. span \in Spans BY <1>1 DEF Spans
  <2>2. Whole(span) BY <1>3 DEF Whole, FenceInv
  <2> HIDE DEF span
  <2>3. AllWhole(Append(segments, span)) BY <1>1, <2>1, <2>2, AppendedWhole
  <2> QED BY <1>3, <2>3 DEF Flushed, span
<1> QED BY <1>2, <1>3

LEMMA ReadWhole ==
  ASSUME ChunkInv, FenceInv, OpenFence \/ InFence \/ TextLine \/ BlankLine
  PROVE  FenceInv'
<1>1. /\ pc = "lines" /\ pc' = "lines" /\ line' = line + 1 /\ text' = text
      /\ current' = current /\ children' = children
      /\ line \in 1 .. Len(text) /\ line' - 1 = line /\ line - 1 \in Nat
      /\ fence \in {"none", "code", "formula"} /\ start \in Nat
  BY DEF OpenFence, InFence, TextLine, BlankLine, Reads, input, grouping, ChunkInv, ChunkerTypeOK
<1>2. /\ Inside[line - 1] = fence /\ Inside[line] = Toggled(fence, Kind)
      /\ start # 0 => Inside[start - 1] = "none"
      /\ AllWhole(segments) /\ AllWhole(children) /\ (current # Nothing => Whole(current))
  BY <1>1, InsideStep DEF FenceInv, Kind
<1>3. /\ Inside[line] = fence'
      /\ start' # 0 => Inside[start' - 1] = "none"
      /\ AllWhole(segments')
  <2>1. CASE OpenFence
    <3>1. /\ segments' = Flushed(line - 1) /\ start' = line /\ fence' = Kind
          /\ fence = "none" /\ IsFence(Kind)
      BY <2>1 DEF OpenFence
    <3> QED BY <1>1, <1>2, <3>1, FlushedWhole DEF Toggled
  <2>2. CASE InFence /\ Kind = fence
    <3>1. segments' = Flushed(line) /\ start' = 0 /\ fence' = "none" /\ fence # "none"
      BY <2>2 DEF InFence
    <3> QED BY <1>1, <1>2, <2>2, <3>1, FlushedWhole DEF Toggled
  <2>3. CASE InFence /\ Kind # fence BY <1>2, <2>3 DEF InFence, Toggled
  <2>4. CASE TextLine
    <3>1. /\ segments' = segments /\ fence' = fence /\ fence = "none" /\ ~ IsFence(Kind)
          /\ start' \in {start, line}
      BY <2>4 DEF TextLine, IsFence
    <3> QED BY <1>2, <3>1 DEF Toggled
  <2>5. CASE BlankLine
    <3>1. /\ segments' = Flushed(line - 1) /\ fence' = fence /\ fence = "none"
          /\ ~ IsFence(Kind) /\ start' = 0
      BY <2>5 DEF BlankLine, IsFence
    <3> QED BY <1>1, <1>2, <3>1, FlushedWhole DEF Toggled
  <2> QED BY <2>1, <2>2, <2>3, <2>4, <2>5
<1> QED BY <1>1, <1>2, <1>3, SameWhole DEF FenceInv, AllWhole

LEMMA EndWhole ==
  ASSUME ChunkInv, FenceInv, EndOfText
  PROVE  FenceInv'
<1>1. /\ pc = "lines" /\ segments' = Flushed(Len(text)) /\ pc' = "group" /\ text' = text
      /\ current' = current /\ children' = children /\ Len(text) \in Nat
  BY DEF EndOfText, input, grouping, ChunkInv, ChunkerTypeOK
<1>2. AllWhole(segments') BY <1>1, FlushedWhole
<1> QED BY <1>1, <1>2, SameWhole DEF FenceInv, AllWhole

\* A child begins and ends where segments do.
LEMMA GroupWhole ==
  ASSUME ChunkInv, FenceInv, GroupSegment
  PROVE  FenceInv'
<1>1. /\ pc = "group" /\ pc' \in {"group", "done"} /\ text' = text /\ segments' = segments
  BY DEF GroupSegment, ExtendChild, NextChild, LastChild, input, reading
<1>2. /\ segments \in Seq(Spans) /\ children \in Seq(Spans) /\ current \in Spans
      /\ next \in 1 .. Len(segments) + 1 /\ Len(segments) \in Nat
  BY <1>1, GroupTypes
<1>3. /\ AllWhole(segments) /\ AllWhole(children) /\ (current # Nothing => Whole(current))
  BY DEF FenceInv
<1>4. next <= Len(segments) => segments[next] \in Spans /\ Whole(segments[next])
  BY <1>2, <1>3 DEF AllWhole
<1>5. current # Nothing => AllWhole(Append(children, current))
  BY <1>2, <1>3, AppendedWhole
<1>6. AllWhole(children') /\ (current' # Nothing => Whole(current'))
  <2>1. CASE ExtendChild
    <3>1. /\ next <= Len(segments) /\ children' = children
          /\ current' = IF current = Nothing THEN segments[next]
                        ELSE [current EXCEPT !.to = segments[next].to]
      BY <2>1 DEF ExtendChild
    <3>2. \A x : [current EXCEPT !.to = x].from = current.from /\ [current EXCEPT !.to = x].to = x
      BY <1>2 DEF Spans
    <3>3. Whole(current') BY <1>3, <1>4, <3>1, <3>2 DEF Whole
    <3> QED BY <1>3, <3>1, <3>3
  <2>2. CASE NextChild
    <3>1. /\ next <= Len(segments) /\ children' = Append(children, current)
          /\ current' = segments[next] /\ current # Nothing
      BY <2>2 DEF NextChild, Fits
    <3> QED BY <1>4, <1>5, <3>1
  <2>3. CASE LastChild
    <3>1. current' = Nothing
          /\ children' = IF current = Nothing THEN children ELSE Append(children, current)
      BY <2>3 DEF LastChild
    <3> QED BY <1>3, <1>5, <3>1
  <2> QED BY <2>1, <2>2, <2>3 DEF GroupSegment
<1> QED BY <1>1, <1>3, <1>6, SameWhole DEF FenceInv, AllWhole

LEMMA FenceInit == Init => FenceInv
BY DEF Init, ChunkerInit, FenceInv, AllWhole

LEMMA FenceStep == IInv /\ IInv' /\ FenceInv /\ [Next]_vars => FenceInv'
<1> SUFFICES ASSUME IInv, IInv', FenceInv, [Next]_vars PROVE FenceInv' OBVIOUS
<1>1. ChunkInv BY DEF IInv
<1>2. CASE StartDocument
  <2>1. /\ pc' = "lines" /\ line' = 1 /\ start' = 0 /\ fence' = "none" /\ segments' = << >>
        /\ current' = Nothing /\ children' = << >>
    BY <1>1, <1>2 DEF StartDocument, Start, reading, grouping, ChunkInv, IdleInv
  <2>2. (text \in Seq(Lines) => Opens(Inside, text, Len(text)))' BY InsideOpens, PTL
  <2>3. text' \in Seq(Lines) BY DEF IInv, ChunkInv, ChunkerTypeOK
  <2>4. Inside'[0] = "none" BY <2>2, <2>3 DEF Opens
  <2> QED BY <2>1, <2>4 DEF FenceInv, AllWhole
<1>3. CASE ChunkDocument
  BY <1>1, <1>3, ReadWhole, EndWhole, GroupWhole DEF ChunkDocument, Chunk, ReadLine
<1>4. CASE Record
  <2>1. pc' = "idle" /\ segments' = << >> /\ current' = Nothing /\ children' = << >>
    BY <1>4 DEF Record
  <2> QED BY <2>1 DEF FenceInv, AllWhole
<1>5. CASE UNCHANGED chunking
  <2>1. /\ text' = text /\ pc' = pc /\ line' = line /\ start' = start /\ fence' = fence
        /\ segments' = segments /\ current' = current /\ children' = children
    BY <1>5 DEF chunking, input, reading, grouping
  <2> QED BY <2>1, SameWhole DEF FenceInv, AllWhole
<1>6. CASE (\E asked \in Queries, l \in Limits : Ask(asked, l)) \/ Search
  BY <1>5, <1>6 DEF Ask, Search, NextHit, Sorted, BuildPack, Answered
<1> QED BY <1>2, <1>3, <1>4, <1>5, <1>6 DEF Next, vars

-----------------------------------------------------------------------------
(* The theorems. *)
\* The invariant of ingests and searches.
THEOREM Invariance == Spec => []IInv
<1>1. Init => IInv BY InitEstablishes
<1>2. IInv /\ [Next]_vars => IInv' BY StepKeeps, StutterKeeps
<1> QED BY <1>1, <1>2, PTL DEF Spec

\* The variables have their types.
THEOREM TypesHold == Spec => []TypeOK
<1>1. IInv => TypeOK BY DEF IInv
<1> QED BY <1>1, Invariance, PTL

\* Whatever the text and the target, no line is lost or doubled.
THEOREM LinesAreKept == Spec => []EveryLineOnce
<1>1. IInv => EveryLineOnce BY DEF IInv, ChunkInv, DoneInv, EveryLineOnce, Ordered, Reached
<1> QED BY <1>1, Invariance, PTL

\* Whatever the text and the target, children are as large as they may be.
THEOREM ChildrenAreSized == Spec => []Sized
<1>1. IInv => Sized BY DEF IInv, SizeInv, Sized
<1> QED BY <1>1, Invariance, PTL

\* Whatever the text and the target, no child begins or ends inside a fence,
\* unless the text ends there (_atomic_segments 107-149).
THEOREM FencesAreWhole == Spec => []FencesWhole
<1>1. Init => IInv /\ FenceInv BY InitEstablishes, FenceInit
<1>2. IInv /\ FenceInv /\ [Next]_vars => (IInv /\ FenceInv)'
  BY StepKeeps, StutterKeeps, FenceStep
<1>3. FenceInv => FencesWhole BY DEF FenceInv, AllWhole, Whole, FencesWhole
<1> QED BY <1>1, <1>2, <1>3, PTL DEF Spec

\* A line that has a term is in a result that has it.
LEMMA LineIsFound ==
  ASSUME IInv, NEW d \in DOMAIN documents, NEW n \in DOMAIN documents[d].text,
         documents[d].text[n].terms \cap query # {}
  PROVE  \E r \in Matching : documents[d].text[n].terms \cap query \subseteq Overlap(query, r)
<1>1. documents[d] \in Documents /\ Kept(documents[d])
  <2>1. d \in 1 .. Len(documents) /\ documents \in Seq(Documents) BY DEF IInv, TypeOK
  <2> QED BY <2>1 DEF IInv, CorpusInv
<1>2. documents[d].text \in Seq(Lines) BY <1>1 DEF Documents
<1>3. n \in 1 .. Len(documents[d].text) BY <1>2
<1>4. documents[d].text[n].kind # "blank" BY <1>1, <1>3 DEF Kept, Counted
<1>5. PICK c \in DOMAIN documents[d].children : Covers(documents[d].children[c], n)
  BY <1>1, <1>3, <1>4 DEF Kept, Reached
<1> DEFINE r == [doc |-> d, child |-> c]
<1>6. r \in AllResults BY <1>5 DEF AllResults
<1>7. documents[d].text[n].terms \subseteq TermsIn(documents[d].text, documents[d].children[c])
  <2>1. documents[d].children[c] \in Spans BY <1>1, <1>5 DEF Documents
  <2>2. n \in documents[d].children[c].from .. documents[d].children[c].to
    BY <1>3, <1>5, <2>1 DEF Covers, Spans
  <2> QED BY <2>2 DEF TermsIn
<1>8. documents[d].text[n].terms \cap query \subseteq Overlap(query, r) BY <1>7 DEF Overlap
<1>9. r \in Matching BY <1>6, <1>8 DEF Matching
<1> QED BY <1>8, <1>9

\* Whatever the corpus and the query, an abstention means that no line has any
\* of its terms.
THEOREM AbstentionIsRight == Spec => []AbstainsRightly
<1>1. ASSUME IInv, stage = "answered"
      PROVE  pack.abstain <=>
               \A d \in DOMAIN documents : \A n \in DOMAIN documents[d].text :
                 documents[d].text[n].terms \cap query = {}
  <2>1. pack = [chunks |-> hits, abstain |-> hits = << >>] BY <1>1 DEF IInv, SearchInv
  <2>2. pack.abstain = (hits = << >>) BY <2>1, Zenon
  <2>3. /\ limit \in Limits /\ hits \in Seq(Results) /\ Chosen \subseteq AllResults
        /\ \A r \in Chosen : Overlap(query, r) # {}
        /\ \A r \in Matching : r \in Chosen \/ Len(hits) = limit
    BY <1>1 DEF IInv, SearchInv, TypeOK
  <2>4. ASSUME hits = << >>, NEW d \in DOMAIN documents, NEW n \in DOMAIN documents[d].text,
               documents[d].text[n].terms \cap query # {}
        PROVE  FALSE
    <3>1. PICK r \in Matching : TRUE BY <1>1, <2>4, LineIsFound
    <3>2. Chosen = {} BY <2>4 DEF Chosen
    <3>3. Len(hits) = 0 /\ limit # 0 BY <2>3, <2>4, RetrievalAssumption
    <3> QED BY <2>3, <3>1, <3>2, <3>3
  <2>5. ASSUME hits # << >>
        PROVE  \E d \in DOMAIN documents : \E n \in DOMAIN documents[d].text :
                 documents[d].text[n].terms \cap query # {}
    <3>1. 1 \in DOMAIN hits BY <2>3, <2>5
    <3>2. hits[1] \in AllResults /\ Overlap(query, hits[1]) # {} BY <2>3, <3>1 DEF Chosen
    <3>3. PICK d \in DOMAIN documents :
             hits[1] \in {[doc |-> d, child |-> c] : c \in DOMAIN documents[d].children}
      BY <3>2 DEF AllResults
    <3>4. PICK c \in DOMAIN documents[d].children : hits[1] = [doc |-> d, child |-> c]
      BY <3>3
    <3>5. documents[d] \in Documents /\ Kept(documents[d])
      <4>1. d \in 1 .. Len(documents) /\ documents \in Seq(Documents) BY <1>1 DEF IInv, TypeOK
      <4> QED BY <1>1, <4>1 DEF IInv, CorpusInv
    <3> DEFINE span == documents[d].children[c]
    <3>6. PICK n \in span.from .. span.to : documents[d].text[n].terms \cap query # {}
      BY <3>2, <3>4 DEF Overlap, TermsIn
    <3>7. n \in DOMAIN documents[d].text
      <4>1. span \in Spans /\ documents[d].text \in Seq(Lines) BY <3>5 DEF Documents
      <4>2. 1 <= span.from /\ span.to <= Len(documents[d].text) BY <3>5 DEF Kept, Ordered
      <4> QED BY <4>1, <4>2 DEF Spans
    <3> QED BY <3>6, <3>7
  <2> QED BY <2>2, <2>4, <2>5
<1>2. IInv => AbstainsRightly BY <1>1 DEF AbstainsRightly
<1> QED BY <1>2, Invariance, PTL

\* Whatever the corpus, the terms of one line are cited together and first.
THEOREM QuotesComeFirst == Spec => []QuoteComesFirst
<1>1. ASSUME IInv, stage = "answered",
             NEW d \in DOMAIN documents, NEW n \in DOMAIN documents[d].text,
             query # {}, query \subseteq documents[d].text[n].terms
      PROVE  pack.chunks # << >> /\ Overlap(query, pack.chunks[1]) = query
  <2>1. /\ pack.chunks = hits /\ limit \in Limits /\ query \in Queries /\ hits \in Seq(Results)
        /\ \A i, j \in DOMAIN hits : i < j => Score(query, hits[i]) >= Score(query, hits[j])
        /\ \A r \in Matching :
             \/ r \in Chosen
             \/ Len(hits) = limit /\ \A i \in DOMAIN hits : Score(query, hits[i]) >= Score(query, r)
    BY <1>1 DEF IInv, SearchInv, TypeOK
  <2>2. IsFiniteSet(query) BY <2>1, RetrievalAssumption
  <2>3. PICK r \in Matching : documents[d].text[n].terms \cap query \subseteq Overlap(query, r)
    BY <1>1, LineIsFound
  <2>4. Overlap(query, r) = query BY <1>1, <2>3 DEF Overlap
  <2>5. hits # << >>
    <3>1. (Chosen = {} /\ Len(hits) = 0 /\ limit # 0) \/ hits # << >>
      BY <2>1, RetrievalAssumption DEF Chosen
    <3> QED BY <2>1, <3>1
  <2>6. 1 \in DOMAIN hits BY <2>1, <2>5
  <2>7. \A a : Score(query, a) \in Nat BY <1>1, ScoreIsNat DEF IInv
  <2>8. Score(query, hits[1]) >= Score(query, r)
    <3>1. CASE r \in Chosen
      <4>1. PICK i \in DOMAIN hits : hits[i] = r BY <3>1 DEF Chosen
      <4>2. CASE i = 1 BY <4>1, <4>2, <2>7
      <4>3. CASE i # 1
        <5>1. 1 < i BY <4>3, <2>1
        <5> QED BY <5>1, <4>1, <2>1, <2>6
      <4> QED BY <4>2, <4>3
    <3> QED BY <2>1, <2>6, <3>1
  <2>9. Overlap(query, hits[1]) \subseteq query BY DEF Overlap
  <2>10. Cardinality(query) <= Cardinality(Overlap(query, hits[1]))
    BY <2>4, <2>7, <2>8 DEF Score
  <2>11. Overlap(query, hits[1]) = query
    <3>1. IsFiniteSet(Overlap(query, hits[1])) BY <2>2, <2>9, FS_Subset
    <3>2. /\ Cardinality(query) \in Nat /\ Cardinality(Overlap(query, hits[1])) \in Nat
      BY <2>2, <3>1, FS_CardinalityType
    <3>3. /\ Cardinality(Overlap(query, hits[1])) <= Cardinality(query)
          /\ Cardinality(query) = Cardinality(Overlap(query, hits[1])) => query = Overlap(query, hits[1])
      BY <2>2, <2>9, FS_Subset
    <3> QED BY <2>10, <3>2, <3>3
  <2> QED BY <2>1, <2>5, <2>11
<1>2. IInv => QuoteComesFirst BY <1>1 DEF QuoteComesFirst
<1> QED BY <1>2, Invariance, PTL

\* Whatever the corpus, the pack has the best there is, in order.
THEOREM PacksAreBest == Spec => []BestOnes
<1>1. ASSUME IInv, stage = "answered"
      PROVE  /\ \A i, j \in DOMAIN pack.chunks : i < j =>
                  /\ pack.chunks[i] # pack.chunks[j]
                  /\ Score(query, pack.chunks[i]) >= Score(query, pack.chunks[j])
             /\ \A r \in AllResults : Overlap(query, r) # {} =>
                  \/ \E i \in DOMAIN pack.chunks : pack.chunks[i] = r
                  \/ /\ Len(pack.chunks) = limit
                     /\ \A i \in DOMAIN pack.chunks : Score(query, pack.chunks[i]) >= Score(query, r)
  <2>1. pack.chunks = hits BY <1>1 DEF IInv, SearchInv
  <2> QED BY <1>1, <2>1 DEF IInv, SearchInv, Matching, Chosen
<1>2. IInv => BestOnes BY <1>1 DEF BestOnes
<1> QED BY <1>2, Invariance, PTL
=============================================================================
