---------------------------- MODULE MCLiveSmoke -----------------------------
(* Instances of LiveSmoke for TLC. *)
EXTENDS LiveSmoke, TLC

CONSTANTS d1, d2, d3, v1, v2, x, y

Item(d, v) == [doc |-> d, version |-> v]

\* Both contents mention x, the second one y as well.
MCMentions == (v1 :> {x}) @@ (v2 :> {x, y})

\* A transcript d1 and a paper d2, one of which changes.
TwoDocs == {<<Item(d1, v1), Item(d2, v1)>>, <<Item(d1, v2), Item(d2, v1)>>,
            <<Item(d1, v1), Item(d2, v2)>>}

\* The paper is found by two providers, which describe it differently.
OneDoi == {<<Item(d1, v1), Item(d2, v1), Item(d2, v2)>>}

NoItems == {}

\* A document of another command.
Other == {Item(d3, v1)}

\* Both instances have one sample, as RerunPreserves needs.
ASSUME SampleAssumption == OneSample
=============================================================================
