------------------------------ MODULE MCIngest ------------------------------
(* Instances of Ingest for TLC. *)
EXTENDS Ingest, TLC

CONSTANTS q1, q2, a1, a2, b1, lob

\* Two OpenAlex entries, W1 and W2, have the DOI of the work lob; a1 and a2 are
\* W1 at two times, b1 is W2.
MCWork == (a1 :> lob) @@ (a2 :> lob) @@ (b1 :> lob)
MCOrigin == (a1 :> "openalex W1") @@ (a2 :> "openalex W1") @@ (b1 :> "openalex W2")

\* The first search finds W1 or gets an error page; the second, made at another
\* time, finds both entries, W2 only, or nothing.
MCAnswers == (q1 :> {<<a1>>, Bad}) @@ (q2 :> {<<b1>>, <<a2, b1>>, << >>})

\* What is stated of a crash, or of the number of calls, is stated of commands
\* that do not overlap.
MCMaxCalls == [only \in BOOLEAN |-> IF only THEN 3 ELSE 0]
MCMaxCrashes == [only \in BOOLEAN |-> IF only THEN 1 ELSE 0]
=============================================================================
