------------------------------- MODULE MCVault --------------------------------
(***************************************************************************)
(* An instance of Vault for TLC: d2 has the title that d1 had in its first *)
(* version, and only the second version of d1 mentions the concept.        *)
(***************************************************************************)
EXTENDS Vault, TLC

CONSTANTS d1, d2, v1, v2, c1, n1, n2, n3, p1, p2

Recordable == {<<d1, v1>>, <<d1, v2>>, <<d2, v1>>}
Extracted == <<d1, v1>> :> {} @@ <<d1, v2>> :> {c1} @@ <<d2, v1>> :> {c1}
Titles == <<d1, v1>> :> n1 @@ <<d1, v2>> :> n2 @@ <<d2, v1>> :> n1
ConceptTitles == c1 :> n3
Order == d1 :> 1 @@ d2 :> 2 @@ c1 :> 3
AnyProc == Permutations(Procs)
=============================================================================
