------------------------------ MODULE Retrieval -------------------------------
(***************************************************************************)
(* From the text of documents to the passages that are cited: documents    *)
(* are chunked and recorded, a query is scored against every child of the  *)
(* corpus, the best are kept, and a context pack cites them with the text  *)
(* of their parent, or abstains.                                           *)
(*                                                                         *)
(*   src/src/wzkf/retrieval/hybrid_search.py     HybridSearch              *)
(*   src/src/wzkf/retrieval/context_pack.py      ContextPackBuilder        *)
(*   src/src/wzkf/pipeline/local.py              search, context_pack      *)
(*                                                                         *)
(* A result is the document and the index of the child it cites.  Children *)
(* of one score are ordered by a hash: here in any order.                  *)
(***************************************************************************)
EXTENDS Chunker, FiniteSets

CONSTANTS
  Queries,   \* the sets of terms that are asked for
  Limits,
  Corpora    \* the sequences of texts that are ingested

ASSUME RetrievalAssumption ==
  /\ Queries \subseteq SUBSET Terms
  /\ \A asked \in Queries : IsFiniteSet(asked)
  /\ Limits \subseteq Nat \ {0}
  /\ Corpora \subseteq Seq(Texts)

VARIABLES
  waiting,   \* the texts that are still to be ingested
  documents, \* the manifest: the text and the children of each document
  stage,
  query,
  limit,
  scored,    \* the results that are not sorted yet
  hits,      \* the results that are, the best first
  pack       \* the context pack, or the empty one

asking == <<stage, query, limit, scored, hits, pack>>
corpus == <<waiting, documents>>
vars == <<chunking, corpus, asking>>

Documents == [text : Seq(Lines), children : Seq(Spans)]
Results == [doc : Nat \ {0}, child : Nat \ {0}]
Packs == [chunks : Seq(Results), abstain : BOOLEAN]
NoPack == [chunks |-> << >>, abstain |-> FALSE]

\* The variables have their types.
TypeOK ==
  /\ ChunkerTypeOK
  /\ waiting \in Seq(Seq(Lines))
  /\ documents \in Seq(Documents)
  /\ stage \in {"idle", "sort", "pack", "answered"}
  /\ query \in SUBSET Terms
  /\ limit \in Nat
  /\ scored \subseteq Results
  /\ hits \in Seq(Results)
  /\ pack \in Packs

Init ==
  /\ ChunkerInit
  /\ waiting \in Corpora
  /\ documents = << >>
  /\ stage = "idle"
  /\ query = {}
  /\ limit = 0
  /\ scored = {}
  /\ hits = << >>
  /\ pack = NoPack

-----------------------------------------------------------------------------
(* ingest: chunk and record a document.  A search reads the manifest once, so *)
(* it comes before an ingest or after it.                                     *)
StartDocument ==
  /\ stage = "idle"
  /\ waiting # << >>
  /\ Start(Head(waiting))
  /\ waiting' = Tail(waiting)
  /\ UNCHANGED <<documents, asking>>

ChunkDocument ==
  /\ Chunk
  /\ UNCHANGED <<corpus, asking>>

\* Mutant: the next document is read from where this one ended.
RecordAndReadOn ==
  /\ pc = "done"
  /\ documents' = Append(documents, [text |-> text, children |-> children])
  /\ text' = << >>
  /\ pc' = "idle"
  /\ segments' = << >>
  /\ next' = 1 /\ current' = Nothing /\ tokens' = 0 /\ children' = << >>
  /\ UNCHANGED <<line, start, fence, target, waiting, asking>>

Record ==
  /\ pc = "done"
  /\ documents' = Append(documents, [text |-> text, children |-> children])
  /\ text' = << >>
  /\ pc' = "idle"
  /\ line' = 1 /\ start' = 0 /\ fence' = "none" /\ segments' = << >>
  /\ next' = 1 /\ current' = Nothing /\ tokens' = 0 /\ children' = << >>
  /\ UNCHANGED <<target, waiting, asking>>

-----------------------------------------------------------------------------
(* _all_results, search *)
\* A result for every child of the manifest.
AllResults == UNION {
  {[doc |-> d, child |-> c] : c \in DOMAIN documents[d].children} : d \in DOMAIN documents}

TermsIn(txt, span) == UNION {txt[n].terms : n \in span.from .. span.to}
Overlap(asked, r) == asked \cap TermsIn(documents[r.doc].text, documents[r.doc].children[r.child])
Score(asked, r) == Cardinality(Overlap(asked, r))

\* Mutant: a result has to have all the terms.
AskAll(asked, l) ==
  /\ stage = "idle" /\ pc = "idle"
  /\ query' = asked
  /\ limit' = l
  /\ scored' = {r \in AllResults : asked \subseteq Overlap(asked, r)}
  /\ stage' = "sort"
  /\ UNCHANGED <<chunking, corpus, hits, pack>>

Ask(asked, l) ==
  /\ stage = "idle" /\ pc = "idle"
  /\ query' = asked
  /\ limit' = l
  /\ scored' = {r \in AllResults : Overlap(asked, r) # {}}
  /\ stage' = "sort"
  /\ UNCHANGED <<chunking, corpus, hits, pack>>

Unfinished == scored # {} /\ Len(hits) < limit
Best == {r \in scored : \A other \in scored : Score(query, other) <= Score(query, r)}

\* Mutant: the limit cuts off before the results are sorted.
NextHitUnsorted ==
  /\ stage = "sort"
  /\ Unfinished
  /\ \E r \in scored : hits' = Append(hits, r) /\ scored' = scored \ {r}
  /\ UNCHANGED <<chunking, corpus, stage, query, limit, pack>>

NextHit ==
  /\ stage = "sort"
  /\ Unfinished
  /\ \E r \in Best : hits' = Append(hits, r) /\ scored' = scored \ {r}
  /\ UNCHANGED <<chunking, corpus, stage, query, limit, pack>>

Sorted ==
  /\ stage = "sort"
  /\ ~ Unfinished
  /\ scored' = {}
  /\ stage' = "pack"
  /\ UNCHANGED <<chunking, corpus, query, limit, hits, pack>>

-----------------------------------------------------------------------------
(* ContextPackBuilder.build *)
BuildPack ==
  /\ stage = "pack"
  /\ pack' = [chunks |-> hits, abstain |-> hits = << >>]
  /\ stage' = "answered"
  /\ UNCHANGED <<chunking, corpus, query, limit, scored, hits>>

Answered ==
  /\ stage = "answered"
  /\ stage' = "idle" /\ query' = {} /\ limit' = 0
  /\ hits' = << >> /\ pack' = NoPack
  /\ UNCHANGED <<chunking, corpus, scored>>

Search == NextHit \/ Sorted \/ BuildPack \/ Answered

Next ==
  \/ StartDocument \/ ChunkDocument \/ Record
  \/ \E asked \in Queries, l \in Limits : Ask(asked, l)
  \/ Search

Spec == Init /\ [][Next]_vars

-----------------------------------------------------------------------------
(***************************************************************************)
(* Properties.                                                             *)
(***************************************************************************)
\* A context pack abstains exactly when no line of any document has a term of
\* the query (context_pack.py 50, hybrid_search.py 52-54): no passage is out of
\* reach because of where the chunker cut, or in which child it fell.
AbstainsRightly ==
  stage = "answered" =>
    (pack.abstain <=>
       \A d \in DOMAIN documents : \A n \in DOMAIN documents[d].text :
         documents[d].text[n].terms \cap query = {})

\* Terms that stand in one line are cited together: the first chunk of the pack
\* has them all (hybrid_search.py 51-55, parent_child.py 68-87).
QuoteComesFirst ==
  stage = "answered" =>
    \A d \in DOMAIN documents : \A n \in DOMAIN documents[d].text :
      (query # {} /\ query \subseteq documents[d].text[n].terms) =>
        pack.chunks # << >> /\ Overlap(query, pack.chunks[1]) = query

\* A pack has as many chunks as the limit lets it, the better before the worse,
\* and no result that was left out beats one of them (hybrid_search.py 55).
BestOnes ==
  stage = "answered" =>
    /\ \A i, j \in DOMAIN pack.chunks : i < j =>
         /\ pack.chunks[i] # pack.chunks[j]
         /\ Score(query, pack.chunks[i]) >= Score(query, pack.chunks[j])
    /\ \A r \in AllResults : Overlap(query, r) # {} =>
         \/ \E i \in DOMAIN pack.chunks : pack.chunks[i] = r
         \/ /\ Len(pack.chunks) = limit
            /\ \A i \in DOMAIN pack.chunks : Score(query, pack.chunks[i]) >= Score(query, r)
=============================================================================
