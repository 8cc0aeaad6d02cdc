---------------------------- MODULE JobLifecycle ----------------------------
(***************************************************************************)
(* What the job queue promises to whoever enqueues: a job is submitted     *)
(* once, claimed once, and settled at most once; it succeeds only when the *)
(* corpus holds an embedding for every chunk of a version of its document, *)
(* and embeddings are added only for a claimed job and never disappear.    *)
(* A claimed job whose command crashed stays claimed.                      *)
(*                                                                         *)
(*   JobStatus and LocalJobQueue   src/src/wzkf/jobs/queue.py              *)
(*   KnowledgeJobRunner            src/src/wzkf/jobs/runner.py             *)
(***************************************************************************)
CONSTANTS
  Jobs,        \* the jobs that can be submitted
  Coverings    \* Coverings[j]: the sets of keys each of which completes job j

VARIABLES status, searchable
vars == <<status, searchable>>

Init ==
  /\ status = [j \in Jobs |-> "ABSENT"]
  /\ searchable = {}

Move(j, from, to) ==
  /\ status[j] = from
  /\ status' = [status EXCEPT ![j] = to]

Submit(j) == Move(j, "ABSENT", "PENDING") /\ UNCHANGED searchable
Claim(j) == Move(j, "PENDING", "RUNNING") /\ UNCHANGED searchable

Index(j) ==
  /\ status[j] = "RUNNING"
  /\ \E k \in UNION Coverings[j] : searchable' = searchable \cup {k}
  /\ UNCHANGED status

Succeed(j) ==
  /\ \E keys \in Coverings[j] : keys \subseteq searchable
  /\ Move(j, "RUNNING", "SUCCEEDED")
  /\ UNCHANGED searchable

GiveUp(j) ==
  /\ \E outcome \in {"FAILED", "SKIPPED"} : Move(j, "RUNNING", outcome)
  /\ UNCHANGED searchable

Next == \E j \in Jobs : Submit(j) \/ Claim(j) \/ Index(j) \/ Succeed(j) \/ GiveUp(j)

Spec == Init /\ [][Next]_vars
=============================================================================
