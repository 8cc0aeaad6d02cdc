----------------------------- MODULE MCRetrieval ------------------------------
(***************************************************************************)
(* One text or two, of at most MostLines lines together.  A line is one of *)
(* five: a blank one, one of one word with the term "a", one of three      *)
(* words with "a" and "b", and the two fences.  No text has "c".           *)
(***************************************************************************)
EXTENDS Retrieval

CONSTANT MostLines

Forms == {
  [kind |-> "blank", words |-> 0, terms |-> {}],
  [kind |-> "text", words |-> 1, terms |-> {"a"}],
  [kind |-> "text", words |-> 3, terms |-> {"a", "b"}],
  [kind |-> "code", words |-> 1, terms |-> {}],
  [kind |-> "formula", words |-> 1, terms |-> {}]}

\* A text that goes on with a line of that form.
Longer(txt, form) ==
  Append(txt, [kind |-> form.kind, terms |-> form.terms,
               upto |-> form.words + IF txt = << >> THEN 0 ELSE txt[Len(txt)].upto])

Unstripped ==
  LET upto[n \in 0 .. MostLines] ==
        IF n = 0 THEN {<< >>} ELSE {Longer(txt, form) : txt \in upto[n - 1], form \in Forms}
  IN UNION {upto[n] : n \in 1 .. MostLines}

SomeTexts == {txt \in Unstripped : txt[1].kind # "blank" /\ txt[Len(txt)].kind # "blank"}

SomeCorpora ==
  {<<txt>> : txt \in SomeTexts} \cup
  UNION {{<<txt, txt2>> : txt2 \in {t \in SomeTexts : Len(t) + Len(txt) <= MostLines}} : txt \in SomeTexts}

SomeTerms == {"a", "b", "c"}
SomeQueries == {{"a"}, {"a", "b"}, {"b", "c"}, {"c"}}
=============================================================================
