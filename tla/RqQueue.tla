------------------------------- MODULE RqQueue -------------------------------
(***************************************************************************)
(* Two queues for one job: enqueue_embedding_job first puts the job in     *)
(* manifests/jobs.json and then pushes an RQ task whose id is derived from *)
(* the job's; an RQ worker runs run_embedding_job, and `wzkf process all`  *)
(* may take the same job from the manifest.                                *)
(*                                                                         *)
(*   src/src/wzkf/jobs/rq_worker.py, runner.py, queue.py                   *)
(*                                                                         *)
(* A read-modify-write of jobs.json is one step here; what happens inside  *)
(* one is JobRunner's subject.  Redis and RQ are modelled from their use:  *)
(* a list of task ids, and a record for each id that is kept for a day     *)
(* after the task ended (result_ttl, failure_ttl) and while it is queued.  *)
(***************************************************************************)
EXTENDS Naturals, Sequences, FiniteSets

CONSTANTS
  Jobs,        \* local jobs, each with its document, input hash and model
  Clients,     \* commands that call enqueue_embedding_job
  Workers,     \* RQ workers
  Runners,     \* commands that run the manifest's PENDING jobs themselves
  None,        \* no job
  MaxQueued,   \* bound on the length of the RQ list
  MaxCrashes   \* bound on the number of worker and runner crashes

ASSUME ConstantsAssumption ==
  /\ None \notin Jobs
  /\ Workers \cap Runners = {}
  /\ MaxQueued \in Nat
  /\ MaxCrashes \in Nat

Statuses == {"ABSENT", "PENDING", "RUNNING", "SUCCEEDED", "FAILED"}
Settled == {"SUCCEEDED", "FAILED"}
Records == {"NONE", "QUEUED", "STARTED", "FINISHED"}
Executors == Workers \cup Runners

VARIABLES
  local,      \* jobs.json: the status of each job
  queue,      \* the RQ list
  record,     \* the RQ record of each job's task
  client,     \* [pc, job] of each enqueueing command
  exec,       \* [pc, job] of each worker and runner
  alone,      \* chosen once: one command at a time enqueues, no runner works
  promised,   \* history: jobs some enqueue command has returned
  dropped,    \* history: jobs whose worker crashed since their last push
  crashes     \* history: number of crashes

vars == <<local, queue, record, client, exec, alone, promised, dropped, crashes>>
redis == <<queue, record>>
history == <<alone, promised, dropped, crashes>>

ClientState == [pc : {"idle", "fetch", "push"}, job : Jobs \cup {None}]
ExecState == [pc : {"idle", "build", "fail", "get", "claim", "embed"},
              job : Jobs \cup {None}]
Idle == [pc |-> "idle", job |-> None]
At(pc, j) == [pc |-> pc, job |-> j]

TypeOK ==
  /\ local \in [Jobs -> Statuses]
  /\ queue \in Seq(Jobs) /\ Len(queue) <= MaxQueued
  /\ record \in [Jobs -> Records]
  /\ client \in [Clients -> ClientState]
  /\ exec \in [Executors -> ExecState]
  /\ alone \in BOOLEAN
  /\ promised \subseteq Jobs
  /\ dropped \subseteq Jobs
  /\ crashes \in 0 .. MaxCrashes

Init ==
  /\ local = [j \in Jobs |-> "ABSENT"]
  /\ queue = << >>
  /\ record = [j \in Jobs |-> "NONE"]
  /\ client = [c \in Clients |-> Idle]
  /\ exec = [e \in Executors |-> Idle]
  /\ alone \in BOOLEAN
  /\ promised = {}
  /\ dropped = {}
  /\ crashes = 0

Queued(j) == \E i \in DOMAIN queue : queue[i] = j

-----------------------------------------------------------------------------
(* enqueue_embedding_job *)
CanEnqueue(c) ==
  /\ client[c].pc = "idle"
  /\ alone => \A d \in Clients : client[d].pc = "idle"

\* Mutant: the local job is left to the task.
PushUnbacked(c, j) ==
  /\ CanEnqueue(c)
  /\ client' = [client EXCEPT ![c] = At("fetch", j)]
  /\ UNCHANGED <<local, redis, exec, history>>

\* Mutant: a job that is in the manifest is taken for pushed.
TrustLocal(c, j) ==
  /\ CanEnqueue(c)
  /\ IF local[j] = "ABSENT"
     THEN /\ local' = [local EXCEPT ![j] = "PENDING"]
          /\ client' = [client EXCEPT ![c] = At("fetch", j)]
          /\ UNCHANGED promised
     ELSE /\ promised' = promised \cup {j}
          /\ UNCHANGED <<local, client>>
  /\ UNCHANGED <<redis, exec, alone, dropped, crashes>>

LocalEnqueue(c, j) ==
  /\ CanEnqueue(c)
  /\ local' = [local EXCEPT ![j] = IF @ = "ABSENT" THEN "PENDING" ELSE @]
  /\ client' = [client EXCEPT ![c] = At("fetch", j)]
  /\ UNCHANGED <<redis, exec, history>>

\* Mutant: the RQ record is not looked up.
FetchNothing(c) ==
  /\ client[c].pc = "fetch"
  /\ client' = [client EXCEPT ![c] = At("push", client[c].job)]
  /\ UNCHANGED <<local, redis, exec, history>>

FetchJob(c) ==
  LET j == client[c].job IN
  /\ client[c].pc = "fetch"
  /\ IF record[j] = "NONE"
     THEN /\ client' = [client EXCEPT ![c] = At("push", j)]
          /\ UNCHANGED promised
     ELSE /\ client' = [client EXCEPT ![c] = Idle]
          /\ promised' = promised \cup {j}
  /\ UNCHANGED <<local, redis, exec, alone, dropped, crashes>>

Push(c) ==
  LET j == client[c].job IN
  /\ client[c].pc = "push"
  /\ Len(queue) < MaxQueued
  /\ queue' = Append(queue, j)
  /\ record' = [record EXCEPT ![j] = "QUEUED"]
  /\ client' = [client EXCEPT ![c] = Idle]
  /\ promised' = promised \cup {j}
  /\ dropped' = dropped \ {j}
  /\ UNCHANGED <<local, exec, alone, crashes>>

\* Redis cannot be reached, or the command is killed.
EnqueueFails(c) ==
  /\ client[c].pc # "idle"
  /\ client' = [client EXCEPT ![c] = Idle]
  /\ UNCHANGED <<local, redis, exec, history>>

-----------------------------------------------------------------------------
(* The RQ worker's loop. *)
Dequeue(w) ==
  /\ exec[w].pc = "idle"
  /\ queue # << >>
  /\ record[Head(queue)] # "NONE"
  /\ queue' = Tail(queue)
  /\ record' = [record EXCEPT ![Head(queue)] = "STARTED"]
  /\ exec' = [exec EXCEPT ![w] = At("build", Head(queue))]
  /\ UNCHANGED <<local, client, history>>

\* An id whose record has expired is thrown away.
DequeueDangling(w) ==
  /\ exec[w].pc = "idle"
  /\ queue # << >>
  /\ record[Head(queue)] = "NONE"
  /\ queue' = Tail(queue)
  /\ UNCHANGED <<local, record, client, exec, history>>

\* A day after a task ended, or was abandoned by its worker.
Expire(j) ==
  /\ record[j] \in {"STARTED", "FINISHED"}
  /\ \A w \in Workers : exec[w].job # j
  /\ record' = [record EXCEPT ![j] = "NONE"]
  /\ UNCHANGED <<local, queue, client, exec, history>>

-----------------------------------------------------------------------------
(* run_embedding_job and run_job. *)

\* The executor is done with its job; a worker's task has ended.
Done(e) ==
  /\ exec' = [exec EXCEPT ![e] = Idle]
  /\ record' = IF e \in Workers THEN [record EXCEPT ![exec[e].job] = "FINISHED"]
               ELSE record

BuildService(w) ==
  /\ exec[w].pc = "build"
  /\ \E pc \in {"get", "fail"} : exec' = [exec EXCEPT ![w].pc = pc]
  /\ UNCHANGED <<local, redis, client, history>>

\* Mutant: the task ends without a mark.
FailUnmarked(w) ==
  /\ exec[w].pc = "fail"
  /\ Done(w)
  /\ UNCHANGED <<local, queue, client, history>>

\* The service cannot be built: the job is marked whatever its status is.
MarkFailed(w) ==
  LET j == exec[w].job IN
  /\ exec[w].pc = "fail"
  /\ local' = IF local[j] # "ABSENT" THEN [local EXCEPT ![j] = "FAILED"] ELSE local
  /\ Done(w)
  /\ UNCHANGED <<queue, client, history>>

\* run_pending comes to a job that was PENDING when it made its list.
TakePending(r, j) ==
  /\ ~ alone
  /\ exec[r].pc = "idle"
  /\ local[j] # "ABSENT"
  /\ exec' = [exec EXCEPT ![r] = At("get", j)]
  /\ UNCHANGED <<local, redis, client, history>>

\* Mutant: a job is run whatever its status is.
GetAnyJob(e) ==
  /\ exec[e].pc = "get"
  /\ exec' = [exec EXCEPT ![e].pc = "claim"]
  /\ UNCHANGED <<local, redis, client, history>>

GetJob(e) ==
  /\ exec[e].pc = "get"
  /\ IF local[exec[e].job] = "PENDING"
     THEN exec' = [exec EXCEPT ![e].pc = "claim"] /\ UNCHANGED record
     ELSE Done(e)
  /\ UNCHANGED <<local, queue, client, history>>

ClaimJob(e) ==
  /\ exec[e].pc = "claim"
  /\ local' = [local EXCEPT ![exec[e].job] = "RUNNING"]
  /\ exec' = [exec EXCEPT ![e].pc = "embed"]
  /\ UNCHANGED <<redis, client, history>>

\* Mutant: the manifest is given RQ's word for the end of a task.
SettleAsTask(e) ==
  /\ exec[e].pc = "embed"
  /\ local' = [local EXCEPT ![exec[e].job] = "FINISHED"]
  /\ Done(e)
  /\ UNCHANGED <<queue, client, history>>

Settle(e) ==
  /\ exec[e].pc = "embed"
  /\ \E status \in Settled : local' = [local EXCEPT ![exec[e].job] = status]
  /\ Done(e)
  /\ UNCHANGED <<queue, client, history>>

Crash(e) ==
  /\ crashes < MaxCrashes
  /\ exec[e].pc # "idle"
  /\ exec' = [exec EXCEPT ![e] = Idle]
  /\ dropped' = dropped \cup {exec[e].job}
  /\ crashes' = crashes + 1
  /\ UNCHANGED <<local, redis, client, alone, promised>>

-----------------------------------------------------------------------------
Enqueue(c) ==
  (\E j \in Jobs : LocalEnqueue(c, j)) \/ FetchJob(c) \/ Push(c) \/ EnqueueFails(c)
RunJob(e) == GetJob(e) \/ ClaimJob(e) \/ Settle(e)
Work(w) ==
  Dequeue(w) \/ DequeueDangling(w) \/ BuildService(w) \/ MarkFailed(w) \/ RunJob(w)

Next ==
  \/ \E c \in Clients : Enqueue(c)
  \/ \E w \in Workers : Work(w)
  \/ \E r \in Runners : RunJob(r) \/ \E j \in Jobs : TakePending(r, j)
  \/ \E e \in Executors : Crash(e)
  \/ \E j \in Jobs : Expire(j)

Spec == Init /\ [][Next]_vars

\* Workers are up (work-rq without --burst) and runners finish what they began.
FairSpec ==
  /\ Spec
  /\ \A w \in Workers : WF_vars(Work(w))
  /\ \A r \in Runners : WF_vars(RunJob(r))

-----------------------------------------------------------------------------
(***************************************************************************)
(* Properties.                                                             *)
(***************************************************************************)
Holders(j) == {w \in Workers : exec[w].job = j}
HasTask(j) ==
  \/ Queued(j) /\ record[j] # "NONE"
  \/ \E e \in Executors : exec[e].job = j

\* A task, or a runner's list, never names a job the manifest does not have
\* (enqueue_embedding_job 42-57 writes the manifest before it pushes).
TaskHasJob ==
  \A j \in Jobs :
    record[j] # "NONE" \/ Queued(j) \/ Holders(j) # {} => local[j] # "ABSENT"

\* Once an enqueue command has returned, its job is settled, RUNNING or has a
\* task, even if earlier commands for it died between the two queues and the
\* record of an earlier task has expired; unless a worker crashed with it
\* (enqueue_embedding_job 54-67, run_embedding_job 90-98).
Delivered ==
  \A j \in promised : local[j] = "PENDING" => HasTask(j) \/ j \in dropped

\* If one command at a time enqueues, there is one RQ task for one local job,
\* through failed enqueues, retries, expired records and crashes
\* (test_rq_worker.py, test_rq_enqueue_creates_one_rq_job_for_one_local_job).
OneTask ==
  alone =>
    /\ \A i, k \in DOMAIN queue : queue[i] = queue[k] => i = k
    /\ \A j \in Jobs : Queued(j) => Holders(j) = {}
    /\ \A v, w \in Workers : exec[v].job = exec[w].job /\ exec[v].job # None => v = w

\* A job is claimed only when it is PENDING, so two workers never both run it
\* (run_job 40-45), if one command at a time enqueues and no runner works.
ClaimedOnce ==
  [][alone => \A j \in Jobs :
       local'[j] = "RUNNING" => local[j] \in {"PENDING", "RUNNING"}]_vars

\* A task that runs again leaves a job that SUCCEEDED as it is
\* (test_rq_embedding_task_runs_local_job_once_without_duplicate_cost).
SuccessIsFinal ==
  [][\A j \in Jobs : local[j] = "SUCCEEDED" => local'[j] = "SUCCEEDED"]_vars

\* Every job an enqueue command has returned is settled at last, with workers
\* up and none crashing.
EventuallySettled ==
  \A j \in Jobs : (j \in promised) ~> (local[j] \in Settled \/ crashes > 0)
=============================================================================
