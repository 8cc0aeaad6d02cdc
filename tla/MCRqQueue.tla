----------------------------- MODULE MCRqQueue ------------------------------
(* Instances of RqQueue for TLC. *)
EXTENDS RqQueue

CONSTANTS j1, j2, c1, c2, w1, w2, r1
=============================================================================
