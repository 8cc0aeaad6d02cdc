------------------------------- MODULE Chunker --------------------------------
(***************************************************************************)
(* How a document's text becomes child chunks: its lines are gathered into *)
(* segments (paragraphs, and fenced blocks of code or formula, which are   *)
(* kept whole), the segments into children of about target tokens.  One    *)
(* step is one turn of a loop.                                             *)
(*                                                                         *)
(*   src/src/wzkf/chunking/parent_child.py                                 *)
(*                                                                         *)
(* A line is its kind, the number of words of the text up to its end, and  *)
(* the terms that can be searched for among its own.  A segment or a child *)
(* is its first and its last line: the lines it leaves out in between are  *)
(* blank.  The text is stripped: a blank line neither begins nor ends it.  *)
(***************************************************************************)
EXTENDS Naturals, Sequences

CONSTANTS
  Terms,
  Texts,     \* the texts that are chunked
  Targets    \* child_token_target

Kinds == {"blank", "text", "code", "formula"}   \* code: ```, formula: $$
Lines == [kind : Kinds, upto : Nat, terms : SUBSET Terms]
Spans == [from : Nat, to : Nat]
Nothing == [from |-> 0, to |-> 0]

WordsBefore(txt, n) == IF n <= 1 THEN 0 ELSE txt[n - 1].upto

ASSUME TextsAssumption ==
  /\ Targets \subseteq Nat
  /\ \A txt \in Texts :
       /\ txt \in Seq(Lines)
       /\ \A n \in 1 .. Len(txt) :
            IF txt[n].kind = "blank"
            THEN txt[n].terms = {} /\ txt[n].upto = WordsBefore(txt, n)
            ELSE txt[n].upto > WordsBefore(txt, n)

VARIABLES
  text,      \* the lines
  target,
  pc,
  line,      \* the line that is read next
  start,     \* the first line in the buffer, 0 if it is empty
  fence,     \* the fence_marker, or "none" outside a fence
  segments,
  next,      \* the segment that is grouped next
  current,   \* the lines of the child that is being filled, or Nothing
  tokens,    \* current_tokens
  children

input == <<text, target>>
reading == <<line, start, fence, segments>>
grouping == <<next, current, tokens, children>>
chunking == <<input, pc, reading, grouping>>

ChunkerTypeOK ==
  /\ text \in Seq(Lines) /\ target \in Nat
  /\ pc \in {"idle", "lines", "group", "done"}
  /\ line \in 1 .. Len(text) + 1
  /\ start \in 0 .. Len(text)
  /\ fence \in {"none", "code", "formula"}
  /\ segments \in Seq(Spans)
  /\ next \in 1 .. Len(segments) + 1
  /\ current \in Spans
  /\ tokens \in Nat
  /\ children \in Seq(Spans)

ChunkerInit ==
  /\ text = << >>
  /\ target \in Targets
  /\ pc = "idle"
  /\ line = 1
  /\ start = 0
  /\ fence = "none"
  /\ segments = << >>
  /\ next = 1
  /\ current = Nothing
  /\ tokens = 0
  /\ children = << >>

\* chunk(): everything but the text is as new.
Start(txt) ==
  /\ pc = "idle"
  /\ text' = txt
  /\ pc' = "lines"
  /\ UNCHANGED <<target, reading, grouping>>

Words(span) == text[span.to].upto - WordsBefore(text, span.from)

-----------------------------------------------------------------------------
(* _atomic_segments *)
Kind == text[line].kind
IsFence(kind) == kind \in {"code", "formula"}
\* The lines in the buffer become a segment, if there are any.
Flushed(last) ==
  IF start = 0 THEN segments ELSE Append(segments, [from |-> start, to |-> last])

Reads ==
  /\ pc = "lines"
  /\ line <= Len(text)
  /\ line' = line + 1
  /\ UNCHANGED <<input, pc, grouping>>

\* Mutant: the paragraph before a fence is dropped.
OpenFenceAnew ==
  /\ Reads
  /\ fence = "none" /\ IsFence(Kind)
  /\ start' = line
  /\ fence' = Kind
  /\ UNCHANGED segments

OpenFence ==
  /\ Reads
  /\ fence = "none" /\ IsFence(Kind)
  /\ segments' = Flushed(line - 1)
  /\ start' = line
  /\ fence' = Kind

\* Mutant: a blank line ends a block.
InFenceParagraphs ==
  /\ Reads
  /\ fence # "none"
  /\ IF Kind \in {fence, "blank"}
     THEN start' = 0 /\ fence' = "none" /\ segments' = Flushed(line)
     ELSE UNCHANGED <<start, fence, segments>>

\* Inside a fence only its own marker counts.
InFence ==
  /\ Reads
  /\ fence # "none"
  /\ IF Kind = fence
     THEN start' = 0 /\ fence' = "none" /\ segments' = Flushed(line)
     ELSE UNCHANGED <<start, fence, segments>>

TextLine ==
  /\ Reads
  /\ fence = "none" /\ Kind = "text"
  /\ start' = IF start = 0 THEN line ELSE start
  /\ UNCHANGED <<fence, segments>>

BlankLine ==
  /\ Reads
  /\ fence = "none" /\ Kind = "blank"
  /\ start' = 0
  /\ segments' = Flushed(line - 1)
  /\ UNCHANGED fence

\* A fence that is not closed goes to the end of the text.
EndOfText ==
  /\ pc = "lines"
  /\ line = Len(text) + 1
  /\ segments' = Flushed(Len(text))
  /\ start' = 0
  /\ pc' = "group"
  /\ UNCHANGED <<input, line, fence, grouping>>

-----------------------------------------------------------------------------
(* _make_children *)
Fits(segment) == current = Nothing \/ tokens + Words(segment) <= target

ExtendChild ==
  /\ pc = "group"
  /\ next <= Len(segments)
  /\ LET segment == segments[next] IN
     /\ Fits(segment)
     /\ current' = IF current = Nothing THEN segment ELSE [current EXCEPT !.to = segment.to]
     /\ tokens' = tokens + Words(segment)
  /\ next' = next + 1
  /\ UNCHANGED <<input, pc, reading, children>>

\* Mutant: the count of tokens goes on.
NextChildUncounted ==
  /\ pc = "group"
  /\ next <= Len(segments)
  /\ LET segment == segments[next] IN
     /\ ~ Fits(segment)
     /\ children' = Append(children, current)
     /\ current' = segment
     /\ tokens' = tokens + Words(segment)
  /\ next' = next + 1
  /\ UNCHANGED <<input, pc, reading>>

NextChild ==
  /\ pc = "group"
  /\ next <= Len(segments)
  /\ LET segment == segments[next] IN
     /\ ~ Fits(segment)
     /\ children' = Append(children, current)
     /\ current' = segment
     /\ tokens' = Words(segment)
  /\ next' = next + 1
  /\ UNCHANGED <<input, pc, reading>>

\* Mutant: what is left is no child.
LastChildDropped ==
  /\ pc = "group"
  /\ next > Len(segments)
  /\ pc' = "done"
  /\ UNCHANGED <<input, reading, grouping>>

LastChild ==
  /\ pc = "group"
  /\ next > Len(segments)
  /\ children' = IF current = Nothing THEN children ELSE Append(children, current)
  /\ current' = Nothing
  /\ pc' = "done"
  /\ UNCHANGED <<input, reading, next, tokens>>

ReadLine == OpenFence \/ InFence \/ TextLine \/ BlankLine \/ EndOfText
GroupSegment == ExtendChild \/ NextChild \/ LastChild
Chunk == ReadLine \/ GroupSegment

-----------------------------------------------------------------------------
(***************************************************************************)
(* Properties.                                                             *)
(***************************************************************************)
Covers(span, n) == span.from <= n /\ n <= span.to

\* Every line that is not blank is in one child, and the children are in the
\* order of the text (_make_children 68-100, _atomic_segments 107-149): no text
\* is lost or doubled between paragraphs, fences and children.
EveryLineOnce ==
  pc = "done" =>
    /\ \A n \in 1 .. Len(text) : text[n].kind # "blank" =>
         \E c \in DOMAIN children : Covers(children[c], n)
    /\ \A c \in DOMAIN children : c > 1 => children[c - 1].to < children[c].from

\* The fence that is open after each line, by the markers alone.
Inside ==
  LET open[n \in 0 .. Len(text)] ==
        IF n = 0 THEN "none"
        ELSE IF open[n - 1] = "none" THEN IF IsFence(text[n].kind) THEN text[n].kind ELSE "none"
        ELSE IF text[n].kind = open[n - 1] THEN "none"
        ELSE open[n - 1]
  IN open

\* No child begins or ends inside a fence, however long the block is, unless
\* the text ends there (test_formula_block_is_not_split_when_possible).
FencesWhole ==
  pc = "done" =>
    \A c \in DOMAIN children :
      /\ Inside[children[c].from - 1] = "none"
      /\ Inside[children[c].to] = "none" \/ children[c].to = Len(text)

\* A child has more tokens than the target only if it is one segment, and two
\* children that follow each other would not have fitted into one
\* (_make_children 74-84).
Sized ==
  pc = "done" =>
    \A c \in DOMAIN children :
      /\ Words(children[c]) > target => \E s \in DOMAIN segments : segments[s] = children[c]
      /\ c > 1 => Words([from |-> children[c - 1].from, to |-> children[c].to]) > target
=============================================================================
