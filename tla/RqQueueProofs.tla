--------------------------- MODULE RqQueueProofs ----------------------------
(***************************************************************************)
(* For any number of clients, workers, runners, jobs and crashes, a job    *)
(* that an enqueue command returned is never left PENDING with no task,    *)
(* unless a worker crashed with it.                                        *)
(***************************************************************************)
EXTENDS RqQueue, TLAPS

\* An idle actor holds no job, a busy one does; a runner has no task.
Equipped ==
  /\ \A c \in Clients : client[c].pc = "idle" <=> client[c].job = None
  /\ \A e \in Executors : exec[e].pc = "idle" <=> exec[e].job = None
  /\ \A r \in Runners : exec[r].pc \notin {"build", "fail"}

\* Whoever names a job names one that is in the manifest.
Named(j) ==
  \/ record[j] # "NONE" \/ Queued(j) \/ j \in promised
  \/ \E c \in Clients : client[c].job = j
  \/ \E e \in Executors : exec[e].job = j
NamedIsKnown == \A j \in Jobs : Named(j) => local[j] # "ABSENT"

\* A record says QUEUED only while the list has the id.
QueuedIsListed == \A j \in Jobs : record[j] = "QUEUED" => Queued(j)

\* A task that left the list is with a worker until the job is not PENDING.
LeftIsWorked ==
  \A j \in Jobs :
    record[j] \in {"STARTED", "FINISHED"} /\ local[j] = "PENDING"
      => Holders(j) # {} \/ j \in dropped

TypeInv == TypeOK /\ Equipped
IInv == TypeInv /\ NamedIsKnown /\ QueuedIsListed /\ LeftIsWorked /\ Delivered

-----------------------------------------------------------------------------
(* The RQ list. *)
LEMMA AppendKeeps ==
  ASSUME NEW S, NEW q \in Seq(S), NEW x \in S, NEW y
  PROVE  (\E i \in DOMAIN Append(q, x) : Append(q, x)[i] = y)
           <=> (y = x \/ \E i \in DOMAIN q : q[i] = y)
<1>1. Append(q, x) \in Seq(S) /\ Len(Append(q, x)) = Len(q) + 1
      /\ Append(q, x)[Len(q) + 1] = x
      /\ \A i \in 1 .. Len(q) : Append(q, x)[i] = q[i]
  OBVIOUS
<1>2. DOMAIN q = 1 .. Len(q) /\ DOMAIN Append(q, x) = 1 .. Len(q) + 1 /\ Len(q) \in Nat
  OBVIOUS
<1>3. ASSUME NEW i \in DOMAIN Append(q, x), Append(q, x)[i] = y
      PROVE  y = x \/ \E k \in DOMAIN q : q[k] = y
  <2>1. i = Len(q) + 1 \/ i \in 1 .. Len(q) BY <1>2, <1>3
  <2> QED BY <1>1, <1>2, <1>3, <2>1
<1>4. ASSUME y = x \/ \E k \in DOMAIN q : q[k] = y
      PROVE  \E i \in DOMAIN Append(q, x) : Append(q, x)[i] = y
  <2>1. CASE y = x
    <3>1. Len(q) + 1 \in DOMAIN Append(q, x) BY <1>2
    <3> QED BY <1>1, <2>1, <3>1
  <2>2. CASE \E k \in DOMAIN q : q[k] = y
    <3>1. PICK k \in DOMAIN q : q[k] = y BY <2>2
    <3>2. k \in DOMAIN Append(q, x) BY <1>2
    <3> QED BY <1>1, <1>2, <3>1, <3>2
  <2> QED BY <1>4, <2>1, <2>2
<1> QED BY <1>3, <1>4

LEMMA TailKeeps ==
  ASSUME NEW S, NEW q \in Seq(S), q # << >>, NEW y
  PROVE  /\ Head(q) \in S
         /\ (\E i \in DOMAIN Tail(q) : Tail(q)[i] = y) => \E i \in DOMAIN q : q[i] = y
         /\ (\E i \in DOMAIN q : q[i] = y)
              => y = Head(q) \/ \E i \in DOMAIN Tail(q) : Tail(q)[i] = y
<1>1. Tail(q) \in Seq(S) /\ Len(q) \in Nat \ {0} /\ Len(Tail(q)) = Len(q) - 1
      /\ Head(q) = q[1] /\ Head(q) \in S
      /\ \A i \in 1 .. Len(q) - 1 : Tail(q)[i] = q[i + 1]
  OBVIOUS
<1>2. DOMAIN q = 1 .. Len(q) /\ DOMAIN Tail(q) = 1 .. Len(q) - 1 BY <1>1
<1>3. ASSUME NEW i \in DOMAIN Tail(q), Tail(q)[i] = y PROVE \E k \in DOMAIN q : q[k] = y
  <2>1. i + 1 \in DOMAIN q /\ q[i + 1] = y BY <1>1, <1>2, <1>3
  <2> QED BY <2>1
<1>4. ASSUME NEW i \in DOMAIN q, q[i] = y
      PROVE  y = Head(q) \/ \E k \in DOMAIN Tail(q) : Tail(q)[k] = y
  <2>1. CASE i = 1 BY <1>1, <1>4, <2>1
  <2>2. CASE i # 1
    <3>1. i - 1 \in DOMAIN Tail(q) /\ Tail(q)[i - 1] = y BY <1>1, <1>2, <1>4, <2>2
    <3> QED BY <3>1
  <2> QED BY <2>1, <2>2
<1> QED BY <1>1, <1>3, <1>4

\* The tail of a list without repetitions has none, and has lost the head.
TailDistinct(q) ==
  /\ \A i, k \in DOMAIN Tail(q) : Tail(q)[i] = Tail(q)[k] => i = k
  /\ \A i \in DOMAIN Tail(q) : Tail(q)[i] # Head(q)

LEMMA TailDistinctLemma ==
  ASSUME NEW S, NEW q \in Seq(S), q # << >>,
         \A i, k \in DOMAIN q : q[i] = q[k] => i = k
  PROVE  TailDistinct(q)
<1>1. Tail(q) \in Seq(S) /\ Len(q) \in Nat \ {0} /\ Len(Tail(q)) = Len(q) - 1
      /\ Head(q) = q[1]
      /\ \A i \in 1 .. Len(q) - 1 : Tail(q)[i] = q[i + 1]
  OBVIOUS
<1>2. DOMAIN q = 1 .. Len(q) /\ DOMAIN Tail(q) = 1 .. Len(q) - 1 BY <1>1
<1> QED BY <1>1, <1>2 DEF TailDistinct

LEMMA PushQueues ==
  ASSUME queue \in Seq(Jobs), NEW x \in Jobs, queue' = Append(queue, x)
  PROVE  \A k : Queued(k)' <=> k = x \/ Queued(k)
<1>1. \A k : (\E i \in DOMAIN Append(queue, x) : Append(queue, x)[i] = k)
               <=> (k = x \/ \E i \in DOMAIN queue : queue[i] = k)
  BY AppendKeeps
<1> QED BY <1>1 DEF Queued

LEMMA PopUnqueues ==
  ASSUME queue \in Seq(Jobs), queue # << >>, queue' = Tail(queue)
  PROVE  /\ Head(queue) \in Jobs
         /\ Queued(Head(queue))
         /\ \A k : Queued(k)' => Queued(k)
         /\ \A k : Queued(k) => k = Head(queue) \/ Queued(k)'
<1>1. Head(queue) \in Jobs /\ 1 \in DOMAIN queue /\ queue[1] = Head(queue) OBVIOUS
<1>2. \A k :
        /\ (\E i \in DOMAIN Tail(queue) : Tail(queue)[i] = k)
             => \E i \in DOMAIN queue : queue[i] = k
        /\ (\E i \in DOMAIN queue : queue[i] = k)
             => k = Head(queue) \/ \E i \in DOMAIN Tail(queue) : Tail(queue)[i] = k
  BY TailKeeps
<1> QED BY <1>1, <1>2 DEF Queued

-----------------------------------------------------------------------------
(* Types. *)
LEMMA TypeInit == Init => TypeInv
<1> SUFFICES ASSUME Init PROVE TypeInv OBVIOUS
<1> USE ConstantsAssumption
<1>1. << >> \in Seq(Jobs) /\ Len(<< >>) = 0 OBVIOUS
<1> QED
  BY <1>1 DEF Init, TypeInv, TypeOK, Equipped, Idle, ClientState, ExecState, Statuses,
              Records, Executors

LEMMA TypeStep == TypeInv /\ [Next]_vars => TypeInv'
<1> SUFFICES ASSUME TypeInv, [Next]_vars PROVE TypeInv' OBVIOUS
<1> USE ConstantsAssumption DEF TypeInv, TypeOK, Equipped, Idle, At, ClientState, ExecState,
        Statuses, Settled, Records, Executors, redis, history
<1>1. ASSUME NEW c \in Clients, NEW j \in Jobs, LocalEnqueue(c, j) PROVE TypeInv'
  BY <1>1 DEF LocalEnqueue
<1>2. ASSUME NEW c \in Clients, FetchJob(c) PROVE TypeInv'
  BY <1>2 DEF FetchJob
<1>3. ASSUME NEW c \in Clients, Push(c) PROVE TypeInv'
  <2>1. client[c].job \in Jobs BY <1>3 DEF Push
  <2>2. Append(queue, client[c].job) \in Seq(Jobs)
        /\ Len(Append(queue, client[c].job)) = Len(queue) + 1 /\ Len(queue) \in Nat
    BY <2>1
  <2>3. queue' \in Seq(Jobs) /\ Len(queue') <= MaxQueued BY <1>3, <2>2 DEF Push
  <2> QED BY <1>3, <2>1, <2>3 DEF Push
<1>4. ASSUME NEW c \in Clients, EnqueueFails(c) PROVE TypeInv'
  BY <1>4 DEF EnqueueFails
<1>5. ASSUME NEW w \in Workers, Dequeue(w) PROVE TypeInv'
  <2>1. Head(queue) \in Jobs /\ Tail(queue) \in Seq(Jobs) /\ Len(Tail(queue)) = Len(queue) - 1
        /\ Len(queue) \in Nat
    BY <1>5 DEF Dequeue
  <2>2. queue' \in Seq(Jobs) /\ Len(queue') <= MaxQueued BY <1>5, <2>1 DEF Dequeue
  <2> QED BY <1>5, <2>1, <2>2 DEF Dequeue
<1>6. ASSUME NEW w \in Workers, DequeueDangling(w) PROVE TypeInv'
  <2>1. Tail(queue) \in Seq(Jobs) /\ Len(Tail(queue)) = Len(queue) - 1 /\ Len(queue) \in Nat
    BY <1>6 DEF DequeueDangling
  <2>2. queue' \in Seq(Jobs) /\ Len(queue') <= MaxQueued BY <1>6, <2>1 DEF DequeueDangling
  <2> QED BY <1>6, <2>2 DEF DequeueDangling
<1>7. ASSUME NEW w \in Workers, BuildService(w) PROVE TypeInv'
  BY <1>7 DEF BuildService
<1>8. ASSUME NEW w \in Workers, MarkFailed(w) PROVE TypeInv'
  BY <1>8 DEF MarkFailed, Done
<1>9. ASSUME NEW e \in Executors, GetJob(e) PROVE TypeInv'
  <2>1. CASE local[exec[e].job] = "PENDING" BY <1>9, <2>1 DEF GetJob
  <2>2. CASE local[exec[e].job] # "PENDING"
    <3>1. /\ exec' = [exec EXCEPT ![e] = Idle] /\ exec[e].job \in Jobs
          /\ record' = record \/ record' = [record EXCEPT ![exec[e].job] = "FINISHED"]
          /\ UNCHANGED <<local, queue, client, alone, promised, dropped, crashes>>
      BY <1>9, <2>2 DEF GetJob, Done
    <3>2. record' \in [Jobs -> Records] BY <3>1
    <3> QED BY <3>1, <3>2
  <2> QED BY <2>1, <2>2
<1>10. ASSUME NEW e \in Executors, ClaimJob(e) PROVE TypeInv'
  BY <1>10 DEF ClaimJob
<1>11. ASSUME NEW e \in Executors, Settle(e) PROVE TypeInv'
  BY <1>11 DEF Settle, Done
<1>12. ASSUME NEW r \in Runners, NEW j \in Jobs, TakePending(r, j) PROVE TypeInv'
  BY <1>12 DEF TakePending
<1>13. ASSUME NEW e \in Executors, Crash(e) PROVE TypeInv'
  BY <1>13 DEF Crash
<1>14. ASSUME NEW j \in Jobs, Expire(j) PROVE TypeInv'
  BY <1>14 DEF Expire
<1>15. CASE UNCHANGED vars
  BY <1>15 DEF vars
<1> QED
  BY <1>1, <1>2, <1>3, <1>4, <1>5, <1>6, <1>7, <1>8, <1>9, <1>10, <1>11, <1>12, <1>13, <1>14,
     <1>15 DEF Next, Enqueue, Work, RunJob, Executors

-----------------------------------------------------------------------------
(* The invariant. *)
LEMMA InvInit == Init => IInv
<1> SUFFICES ASSUME Init PROVE IInv OBVIOUS
<1>1. TypeInv BY TypeInit
<1> QED
  BY <1>1, ConstantsAssumption DEF Init, IInv, NamedIsKnown, Named, QueuedIsListed, LeftIsWorked, Delivered,
              Queued, Idle, Executors

LEMMA InvStep == IInv /\ [Next]_vars => IInv'
<1> SUFFICES ASSUME IInv, [Next]_vars PROVE IInv' OBVIOUS
<1>t. TypeInv' BY TypeStep DEF IInv
<1> DEFINE Rest == NamedIsKnown /\ QueuedIsListed /\ LeftIsWorked /\ Delivered
<1> SUFFICES Rest' BY <1>t DEF IInv
<1> USE ConstantsAssumption DEF IInv, TypeInv, TypeOK, Equipped, Idle, At, ClientState,
        ExecState, Statuses, Settled, Records, Executors, redis, history, NamedIsKnown, Named,
        QueuedIsListed, LeftIsWorked, Delivered, Holders, HasTask
<1>1. ASSUME NEW c \in Clients, NEW j \in Jobs, LocalEnqueue(c, j) PROVE Rest'
  BY <1>1 DEF LocalEnqueue, Queued
<1>2. ASSUME NEW c \in Clients, FetchJob(c) PROVE Rest'
  BY <1>2 DEF FetchJob, Queued
<1>3. ASSUME NEW c \in Clients, Push(c) PROVE Rest'
  <2> DEFINE j == client[c].job
  <2>1. j \in Jobs /\ local[j] # "ABSENT" BY <1>3 DEF Push
  <2>2. \A k : Queued(k)' <=> k = j \/ Queued(k) BY <1>3, <2>1, PushQueues DEF Push
  <2> QED BY <1>3, <2>1, <2>2 DEF Push
<1>4. ASSUME NEW c \in Clients, EnqueueFails(c) PROVE Rest'
  BY <1>4 DEF EnqueueFails, Queued
<1>5. ASSUME NEW w \in Workers, Dequeue(w) PROVE Rest'
  <2> DEFINE j == Head(queue)
  <2>1. j \in Jobs /\ Queued(j) BY <1>5, PopUnqueues DEF Dequeue
  <2>2. \A k : (Queued(k)' => Queued(k)) /\ (Queued(k) => k = j \/ Queued(k)')
    BY <1>5, PopUnqueues DEF Dequeue
  <2> QED BY <1>5, <2>1, <2>2 DEF Dequeue
<1>6. ASSUME NEW w \in Workers, DequeueDangling(w) PROVE Rest'
  <2>1. \A k : (Queued(k)' => Queued(k)) /\ (Queued(k) => k = Head(queue) \/ Queued(k)')
    BY <1>6, PopUnqueues DEF DequeueDangling
  <2> QED BY <1>6, <2>1 DEF DequeueDangling
<1>7. ASSUME NEW w \in Workers, BuildService(w) PROVE Rest'
  BY <1>7 DEF BuildService, Queued
<1>8. ASSUME NEW w \in Workers, MarkFailed(w) PROVE Rest'
  BY <1>8 DEF MarkFailed, Done, Queued
<1>9. ASSUME NEW e \in Executors, GetJob(e) PROVE Rest'
  <2>1. CASE local[exec[e].job] = "PENDING"
    <3>1. \A f \in Executors : exec'[f].job = exec[f].job BY <1>9, <2>1 DEF GetJob
    <3>2. UNCHANGED <<local, queue, record, client, promised, dropped>>
      BY <1>9, <2>1 DEF GetJob
    <3>3. \A k : Holders(k)' = Holders(k) BY <3>1 DEF Holders
    <3>4. \A k : (HasTask(k)' <=> HasTask(k)) /\ (Named(k)' <=> Named(k))
      BY <3>1, <3>2 DEF HasTask, Named, Queued
    <3>5. \A k : Queued(k)' <=> Queued(k) BY <3>2 DEF Queued
    <3> HIDE DEF HasTask, Named, Holders
    <3> QED BY <3>2, <3>3, <3>4, <3>5
  <2>2. CASE local[exec[e].job] # "PENDING"
    <3>1. QueuedIsListed' BY <1>9, <2>2 DEF GetJob, Done, Queued
    <3>2. NamedIsKnown' BY <1>9, <2>2 DEF GetJob, Done, Queued
    <3>3. LeftIsWorked'
      <4> SUFFICES ASSUME NEW k \in Jobs, record'[k] \in {"STARTED", "FINISHED"},
                          local'[k] = "PENDING", k \notin dropped'
                   PROVE  Holders(k)' # {}
        BY DEF LeftIsWorked
      <4>1. k # exec[e].job /\ record'[k] = record[k] BY <1>9, <2>2 DEF GetJob, Done
      <4>2. PICK w \in Workers : exec[w].job = k BY <1>9, <4>1 DEF GetJob
      <4>3. exec'[w].job = k BY <1>9, <2>2, <4>1, <4>2 DEF GetJob, Done
      <4> QED BY <4>3
    <3>4. Delivered'
      <4> SUFFICES ASSUME NEW k \in promised', local'[k] = "PENDING", k \notin dropped'
                   PROVE  HasTask(k)'
        BY DEF Delivered
      <4>1. HasTask(k) /\ k # exec[e].job BY <1>9, <2>2 DEF GetJob
      <4>2. CASE Queued(k) /\ record[k] # "NONE" BY <1>9, <2>2, <4>2 DEF GetJob, Done, Queued
      <4>3. CASE \E f \in Executors : exec[f].job = k
        BY <1>9, <2>2, <4>1, <4>3 DEF GetJob, Done
      <4> QED BY <4>1, <4>2, <4>3
    <3> QED BY <3>1, <3>2, <3>3, <3>4
  <2> QED BY <2>1, <2>2
<1>10. ASSUME NEW e \in Executors, ClaimJob(e) PROVE Rest'
  BY <1>10 DEF ClaimJob, Queued
<1>11. ASSUME NEW e \in Executors, Settle(e) PROVE Rest'
  BY <1>11 DEF Settle, Done, Queued
<1>12. ASSUME NEW r \in Runners, NEW j \in Jobs, TakePending(r, j) PROVE Rest'
  BY <1>12 DEF TakePending, Queued
<1>13. ASSUME NEW e \in Executors, Crash(e) PROVE Rest'
  BY <1>13 DEF Crash, Queued
<1>14. ASSUME NEW j \in Jobs, Expire(j) PROVE Rest'
  BY <1>14 DEF Expire, Queued
<1>15. CASE UNCHANGED vars
  BY <1>15 DEF vars, Queued
<1> QED
  BY <1>1, <1>2, <1>3, <1>4, <1>5, <1>6, <1>7, <1>8, <1>9, <1>10, <1>11, <1>12, <1>13, <1>14,
     <1>15 DEF Next, Enqueue, Work, RunJob, vars

-----------------------------------------------------------------------------
(* One enqueueing command at a time and no local runner. *)
OneClient ==
  \A c, d \in Clients : client[c].pc # "idle" /\ client[d].pc # "idle" => c = d

\* The record of an id says where its task is: in the list, with a worker, or
\* nowhere; only then is another one pushed.
Placed ==
  /\ \A j \in Jobs : Queued(j) => record[j] = "QUEUED"
  /\ \A w \in Workers : exec[w].job # None => record[exec[w].job] = "STARTED"
  /\ \A c \in Clients : client[c].pc = "push" => record[client[c].job] = "NONE"

Distinct ==
  /\ \A i, k \in DOMAIN queue : queue[i] = queue[k] => i = k
  /\ \A v, w \in Workers : exec[v].job = exec[w].job /\ exec[v].job # None => v = w

\* What an executor has read of its job, and done to it, is still so.
Claims ==
  /\ \A r \in Runners : exec[r].pc = "idle"
  /\ \A w \in Workers : exec[w].pc = "claim" => local[exec[w].job] = "PENDING"

Single == alone => OneClient /\ Placed /\ Distinct /\ Claims

LEMMA SingleInit == Init => Single
  BY ConstantsAssumption DEF Init, Single, OneClient, Placed, Distinct, Claims, Queued, Idle,
     Executors

LEMMA SingleStep == TypeInv /\ Single /\ [Next]_vars => Single'
<1> SUFFICES ASSUME TypeInv, Single, [Next]_vars, alone' PROVE (OneClient /\ Placed /\ Distinct /\ Claims)'
  BY DEF Single
<1> DEFINE Goal == OneClient /\ Placed /\ Distinct /\ Claims
<1>a. alone' = alone
  BY DEF Next, vars, Enqueue, Work, RunJob, LocalEnqueue, FetchJob, Push, EnqueueFails,
     Dequeue, DequeueDangling, BuildService, MarkFailed, GetJob, ClaimJob, Settle, TakePending,
     Crash, Expire, history
<1>b. Goal BY <1>a DEF Single
<1> SUFFICES Goal' OBVIOUS
<1> USE ConstantsAssumption, <1>a, <1>b DEF TypeInv, TypeOK, Equipped, Idle, At, ClientState,
        ExecState, Statuses, Settled, Records, Executors, redis, history, OneClient, Placed,
        Distinct, Claims
<1>1. ASSUME NEW c \in Clients, NEW j \in Jobs, LocalEnqueue(c, j) PROVE Goal'
  BY <1>1 DEF LocalEnqueue, CanEnqueue, Queued
<1>2. ASSUME NEW c \in Clients, FetchJob(c) PROVE Goal'
  BY <1>2 DEF FetchJob, Queued
<1>3. ASSUME NEW c \in Clients, Push(c) PROVE Goal'
  <2> DEFINE j == client[c].job
  <2>1. j \in Jobs /\ record[j] = "NONE" /\ ~ Queued(j) BY <1>3 DEF Push
  <2>2. \A k : Queued(k)' <=> k = j \/ Queued(k) BY <1>3, <2>1, PushQueues DEF Push
  <2>3. OneClient' BY <1>3 DEF Push
  <2>4. Placed' BY <1>3, <2>1, <2>2 DEF Push
  <2>5. Distinct'
    <3>1. Append(queue, j) \in Seq(Jobs) /\ Len(Append(queue, j)) = Len(queue) + 1
          /\ Len(queue) \in Nat /\ Append(queue, j)[Len(queue) + 1] = j
          /\ \A i \in 1 .. Len(queue) : Append(queue, j)[i] = queue[i]
      BY <2>1
    <3>2. \A i \in 1 .. Len(queue) : queue[i] # j BY <2>1 DEF Queued
    <3>3. DOMAIN queue' = 1 .. Len(queue) + 1 /\ DOMAIN queue = 1 .. Len(queue)
      BY <1>3, <3>1 DEF Push
    <3>4. \A i, k \in DOMAIN queue' : queue'[i] = queue'[k] => i = k
      BY <1>3, <3>1, <3>2, <3>3 DEF Push
    <3> QED BY <1>3, <3>4 DEF Push
  <2> QED BY <1>3, <2>3, <2>4, <2>5 DEF Push
<1>4. ASSUME NEW c \in Clients, EnqueueFails(c) PROVE Goal'
  BY <1>4 DEF EnqueueFails, Queued
<1>5. ASSUME NEW w \in Workers, Dequeue(w) PROVE Goal'
  <2> DEFINE j == Head(queue)
  <2>1. j \in Jobs /\ Queued(j) /\ record[j] = "QUEUED" BY <1>5, PopUnqueues DEF Dequeue
  <2>2. TailDistinct(queue) BY <1>5, TailDistinctLemma DEF Dequeue
  <2>3. \A k : Queued(k)' => Queued(k) /\ k # j
    BY <1>5, <2>2, PopUnqueues DEF Dequeue, TailDistinct, Queued
  <2>4. OneClient' BY <1>5 DEF Dequeue
  <2>5. Placed'
    <3>1. \A k \in Jobs : Queued(k)' => record'[k] = "QUEUED"
      BY <1>5, <2>1, <2>3 DEF Dequeue
    <3>2. \A v \in Workers : exec'[v].job # None => record'[exec'[v].job] = "STARTED"
      BY <1>5, <2>1 DEF Dequeue
    <3>3. \A c \in Clients : client'[c].pc = "push" => record'[client'[c].job] = "NONE"
      BY <1>5, <2>1 DEF Dequeue
    <3> QED BY <3>1, <3>2, <3>3
  <2>6. Distinct' BY <1>5, <2>1, <2>2 DEF Dequeue, TailDistinct
  <2> QED BY <1>5, <2>4, <2>5, <2>6 DEF Dequeue
<1>6. ASSUME NEW w \in Workers, DequeueDangling(w) PROVE Goal'
  <2>1. Queued(Head(queue)) /\ Head(queue) \in Jobs BY <1>6, PopUnqueues DEF DequeueDangling
  <2> QED BY <1>6, <2>1 DEF DequeueDangling
<1>7. ASSUME NEW w \in Workers, BuildService(w) PROVE Goal'
  BY <1>7 DEF BuildService, Queued
<1>8. ASSUME NEW w \in Workers, MarkFailed(w) PROVE Goal'
  BY <1>8 DEF MarkFailed, Done, Queued
<1>9. ASSUME NEW e \in Executors, GetJob(e) PROVE Goal'
  <2>1. e \in Workers BY <1>9 DEF GetJob
  <2>2. CASE local[exec[e].job] = "PENDING"
    <3>1. /\ exec' = [exec EXCEPT ![e].pc = "claim"]
          /\ UNCHANGED <<local, queue, record, client>>
      BY <1>9, <2>2 DEF GetJob
    <3>2. OneClient' /\ Claims' BY <2>1, <2>2, <3>1
    <3>3. Placed' BY <2>1, <3>1 DEF Queued
    <3>4. Distinct' BY <2>1, <3>1
    <3> QED BY <3>2, <3>3, <3>4
  <2>3. CASE local[exec[e].job] # "PENDING"
    <3>1. /\ exec' = [exec EXCEPT ![e] = Idle]
          /\ record' = [record EXCEPT ![exec[e].job] = "FINISHED"]
          /\ exec[e].job \in Jobs
          /\ UNCHANGED <<local, queue, client>>
      BY <1>9, <2>1, <2>3 DEF GetJob, Done
    <3>2. OneClient' /\ Claims' BY <2>1, <3>1
    <3>3. Placed' BY <2>1, <3>1 DEF Queued
    <3>4. Distinct' BY <2>1, <3>1
    <3> QED BY <3>2, <3>3, <3>4
  <2> QED BY <2>2, <2>3
<1>10. ASSUME NEW e \in Executors, ClaimJob(e) PROVE Goal'
  BY <1>10 DEF ClaimJob, Queued
<1>11. ASSUME NEW e \in Executors, Settle(e) PROVE Goal'
  BY <1>11 DEF Settle, Done, Queued
<1>12. ASSUME NEW r \in Runners, NEW j \in Jobs, TakePending(r, j) PROVE Goal'
  BY <1>12 DEF TakePending
<1>13. ASSUME NEW e \in Executors, Crash(e) PROVE Goal'
  BY <1>13 DEF Crash, Queued
<1>14. ASSUME NEW j \in Jobs, Expire(j) PROVE Goal'
  BY <1>14 DEF Expire, Queued
<1>15. CASE UNCHANGED vars
  BY <1>15 DEF vars, Queued
<1> QED
  BY <1>1, <1>2, <1>3, <1>4, <1>5, <1>6, <1>7, <1>8, <1>9, <1>10, <1>11, <1>12, <1>13, <1>14,
     <1>15 DEF Next, Enqueue, Work, RunJob

-----------------------------------------------------------------------------
(* The theorems. *)
\* Every reachable state satisfies the invariant, for any number of clients,
\* workers, runners, jobs and crashes.
THEOREM Invariance == Spec => [](IInv /\ Single)
<1>1. Init => IInv /\ Single BY InvInit, SingleInit
<1>2. IInv /\ Single /\ [Next]_vars => (IInv /\ Single)'
  BY InvStep, SingleStep DEF IInv
<1> QED BY <1>1, <1>2, PTL DEF Spec

\* Every reachable state is well typed: the RQ list stays within its bound.
THEOREM TypesHold == Spec => []TypeOK
<1>1. IInv => TypeOK BY DEF IInv, TypeInv
<1> QED BY <1>1, Invariance, PTL

\* A job that an enqueue command returned has a task until it is claimed or
\* settled (enqueue_embedding_job 42-67), whatever the other clients, workers
\* and local runners do.
THEOREM DeliveredAlways == Spec => []Delivered
<1>1. IInv => Delivered BY DEF IInv
<1> QED BY <1>1, Invariance, PTL

\* run_embedding_job never finds its job missing (90-98).
THEOREM TasksHaveJobs == Spec => []TaskHasJob
<1>1. IInv => TaskHasJob
  BY ConstantsAssumption DEF IInv, NamedIsKnown, Named, TaskHasJob, Holders, Executors
<1> QED BY <1>1, Invariance, PTL

\* If one command at a time enqueues, a job never has two RQ tasks
\* (enqueue_embedding_job 54-67), however enqueues fail and workers crash.
THEOREM OneTaskEach == Spec => []OneTask
<1>1. IInv /\ Single => OneTask
  <2> SUFFICES ASSUME IInv, Single, alone PROVE OneTask BY DEF OneTask
  <2>1. Placed /\ Distinct BY DEF Single
  <2>2. ASSUME NEW j \in Jobs, Queued(j) PROVE Holders(j) = {}
    BY <2>1, <2>2, ConstantsAssumption DEF Placed, Holders
  <2> QED BY <2>1, <2>2 DEF Distinct, OneTask
<1>2. ~ alone => OneTask BY DEF OneTask
<1> QED BY <1>1, Invariance, PTL

\* If one command at a time enqueues and no local runner works, no step claims
\* a job that is settled (run_job 40-45).
THEOREM ClaimedOnceEach == Spec => ClaimedOnce
<1> DEFINE Fresh == alone => \A j \in Jobs :
                      local'[j] = "RUNNING" => local[j] \in {"PENDING", "RUNNING"}
<1>1. IInv /\ Single /\ [Next]_vars => [Fresh]_vars
  <2> SUFFICES ASSUME IInv, Single, [Next]_vars, alone, NEW j \in Jobs,
                      local'[j] = "RUNNING", local[j] # "RUNNING"
               PROVE  local[j] = "PENDING"
    OBVIOUS
  <2>1. PICK e \in Executors : ClaimJob(e)
    BY DEF IInv, TypeInv, TypeOK, Statuses, Settled, Next, vars, Enqueue, Work, RunJob, LocalEnqueue,
       FetchJob, Push, EnqueueFails, Dequeue, DequeueDangling, BuildService, MarkFailed,
       GetJob, Settle, TakePending, Crash, Expire, history, redis, Executors
  <2>2. Claims BY DEF Single
  <2> QED BY <2>1, <2>2 DEF ClaimJob, Claims, Executors, IInv, TypeInv, TypeOK
<1> QED BY <1>1, Invariance, PTL DEF Spec, ClaimedOnce
=============================================================================
