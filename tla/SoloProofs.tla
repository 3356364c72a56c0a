----------------------------- MODULE SoloProofs ------------------------------
(***************************************************************************)
(* What a single worker keeps for any number of independent jobs: no job   *)
(* is run before its time or again after it succeeded, the dead-letter     *)
(* queue holds exactly the failed jobs, and every success of a recurring   *)
(* job has one successor.                                                  *)
(*                                                                         *)
(* Nothing in the code says that a job has one entry in one queue.  It has *)
(* as long as nobody can add a second one: two workers can promote a job   *)
(* twice, a child is enqueued by its creator and by the completion of its  *)
(* parent, two clients can retry the same dead letter, and a command that  *)
(* raises after a success makes a finished job run again.  Solo rules out  *)
(* these four.                                                             *)
(***************************************************************************)
EXTENDS JobServiceProofs, FiniteSetTheorems

USE DEF queueVars, redisVars, localVars, history, StoreTypeOK, SchedulerTypeOK

Solo ==
  /\ \A v, w \in Workers : v = w
  /\ \A j \in Jobs : DependsOn[j] = {}
  /\ ~Faults
  /\ "retry" \in Requests => \A c, d \in Clients : c = d

(***************************************************************************)
(* The inductive invariant.                                                *)
(***************************************************************************)
AskLabels == {"enqueue", "enq_later", "enq_sched", "enq_zadd"}

PromoteLabels == {"promote_get", "promote_zrem", "promote_zadd", "promote_save"}

RunLabels == {"get", "lock", "contended", "start", "run", "recheck", "complete",
              "retry_save", "dlq_save"}

ClientLabels ==
  AskLabels \cup {"idle", "enq_save", "cancel_save", "cancel_remove", "dlq_retry_save"}

WorkerLabels ==
  AskLabels \cup PromoteLabels \cup RunLabels \cup
  {"idle", "pop", "enq_save", "dependents", "recur", "tail", "release"}

ArgLabels ==
  (ClientLabels \ {"idle"}) \cup {"promote_zrem", "promote_zadd", "promote_save"}

(* The ways in which p can be about to give j an entry in a queue, or to   *)
(* end the run that took it out of one.                                    *)
Asks(p, j) == pc[p] \in AskLabels /\ arg[p].id = j

Moves(p, j) == pc[p] = "promote_zadd" /\ arg[p].id = j

Promotes(p, j) ==
  \/ j \in todo[p]
  \/ pc[p] = "promote_zrem" /\ arg[p].id = j
  \/ Moves(p, j)

Runs(p, j) == pc[p] \in RunLabels /\ job[p].id = j

Brings(p, j) == Asks(p, j) \/ Promotes(p, j) \/ Runs(p, j)

(* The worker is about to write back the copy of j with which it queued it.*)
Saves(p, j) ==
  p \in Workers /\ pc[p] \in {"enq_save", "promote_save"} /\ arg[p].id = j

(* A client is about to write back a dead letter as pending.               *)
Redoes(p, j) == pc[p] = "dlq_retry_save" /\ arg[p].id = j

(* A job is in one queue, or somebody is bringing it there, never both.    *)
OneEntry(j) ==
  /\ heap[j] # 0 => sched[j] = "out" /\ \A p \in Procs : ~Brings(p, j)
  /\ sched[j] # "out" =>
       \A p \in Procs : ~Asks(p, j) /\ ~Runs(p, j) /\ ~Moves(p, j)
  /\ \A p, q \in Procs : Brings(p, j) /\ Brings(q, j) => p = q
  /\ heap[j] # 0 \/ sched[j] # "out" => j \in Created

(* A job ahead of its time is kept from the heap.                          *)
Delayed(j) == j \in ahead =>
  /\ j \in Created
  /\ heap[j] = 0 /\ sched[j] # "due" /\ store[j].status # "failed"
  /\ \A p \in Procs : /\ ~Promotes(p, j) /\ ~Runs(p, j)
                      /\ Asks(p, j) => arg[p].future /\ pc[p] # "enq_zadd"

(* A job that succeeded has left the queues for good.                      *)
Ran(j) == j \in succeeded =>
  /\ j \in Created
  /\ heap[j] = 0 /\ sched[j] = "out" /\ store[j].status # "failed"
  /\ \A p \in Procs : /\ ~Asks(p, j) /\ ~Promotes(p, j)
                      /\ Runs(p, j) => pc[p] \in {"recheck", "complete"}

(* So has one that failed, until it is retried.                            *)
Dead(j) ==
  /\ store[j].status = "failed" =>
       /\ heap[j] = 0 /\ sched[j] = "out"
       /\ \A p \in Procs : ~Brings(p, j) /\ ~Saves(p, j)
  /\ \A p \in Procs : Redoes(p, j) => store[j].status = "failed"

Honest(d) ==
  /\ d.in_dlq <=> d.status = "failed"
  /\ d.in_dlq => d.retries = MaxRetries \/ d.id \in Unhandled

Fine(j) ==
  /\ OneEntry(j) /\ Delayed(j) /\ Ran(j) /\ Dead(j)
  /\ Honest(store[j])
  /\ dependents[j] = {}

(* What p has in its hands exists, and p knows what state it is in.        *)
Tidy(p) ==
  /\ p \in Clients =>
       /\ pc[p] \in ClientLabels /\ job[p].id \notin Jobs /\ todo[p] = {}
       /\ back[p] = "idle"
       /\ pc[p] = "dlq_retry_save" => "retry" \in Requests
  /\ p \in Workers =>
       /\ pc[p] \in WorkerLabels
       /\ job[p].id \in Jobs <=> pc[p] \notin {"idle", "pop"} \cup PromoteLabels
       /\ pc[p] \in AskLabels \cup {"enq_save"} => back[p] \in {"tail", "release"}
       /\ pc[p] = "dlq_save" => job[p].retries = MaxRetries \/ job[p].id \in Unhandled
       /\ todo[p] # {} => pc[p] \in PromoteLabels
  /\ Honest(job[p]) /\ Honest(arg[p])
  /\ arg[p].id \in Jobs <=> pc[p] \in ArgLabels
  /\ arg[p].id \in Jobs => arg[p].id \in Created \ todo[p]
  /\ arg[p].id \in Jobs /\ pc[p] # "promote_zrem" => arg[p].status # "absent"
  /\ arg[p].status # "failed"
  /\ job[p].id \in Jobs => job[p].id \in Created
  /\ job[p].id \in Jobs /\ pc[p] # "get" => job[p].status # "absent"
  /\ job[p].status = "failed" => pc[p] = "release"
  /\ todo[p] \subseteq Created

SInv ==
  /\ \A j \in Jobs : Fine(j)
  /\ \A p \in Procs : Tidy(p)

(***************************************************************************)
(* Steps of one coroutine.                                                 *)
(***************************************************************************)
(* A step of p touches nothing that another coroutine has in its hands.    *)
Elsewhere(p) ==
  \A q \in Procs \ {p} :
    /\ pc'[q] = pc[q] /\ back'[q] = back[q]
    /\ job'[q] = job[q] /\ arg'[q] = arg[q] /\ todo'[q] = todo[q]

(* Redis says of j what it said before, or takes it out of the queues.     *)
SameRedis(j) ==
  /\ heap'[j] \in {heap[j], 0} /\ sched'[j] \in {sched[j], "out"}
  /\ dependents'[j] = dependents[j]
  /\ j \in ahead' <=> j \in ahead
  /\ j \in succeeded' <=> j \in succeeded
  /\ store'[j].status = "failed" => store[j].status = "failed"
  /\ store[j].status = "failed" =>
       store'[j].status = "failed" \/ \A q \in Procs : ~Redoes(q, j)'
  /\ Honest(store'[j])
  /\ j \in Created => j \in Created'

(* p is about to do nothing with j that it was not about to do.            *)
NoNewRole(p, j) ==
  /\ Asks(p, j)' => /\ Asks(p, j)
                    /\ j \in ahead => arg'[p].future /\ pc'[p] # "enq_zadd"
  /\ Promotes(p, j)' => Promotes(p, j)
  /\ Moves(p, j)' => Moves(p, j) \/ sched'[j] = "out"
  /\ Runs(p, j)' => /\ Runs(p, j)
                    /\ j \in succeeded => pc'[p] \in {"recheck", "complete"}
  /\ Saves(p, j)' => Saves(p, j) \/ store[j].status # "failed"
  /\ Redoes(p, j)' => Redoes(p, j)

(* Then what is said of j stays true.                                      *)
LEMMA Unmoved ==
  ASSUME SInv, NEW p \in Procs, Elsewhere(p), NEW j \in Jobs,
         SameRedis(j), NoNewRole(p, j)
  PROVE  Fine(j)'
<1> USE DEF Asks, Promotes, Moves, Runs, Saves, Redoes, Brings
<1>1. Fine(j)
  BY DEF SInv
<1>2. \A q \in Procs \ {p} :
        pc'[q] = pc[q] /\ arg'[q] = arg[q] /\ job'[q] = job[q] /\ todo'[q] = todo[q]
  BY DEF Elsewhere
<1>3. \A q \in Procs : Brings(q, j)' => Brings(q, j)
  BY <1>2 DEF NoNewRole
<1>4. OneEntry(j)'
  BY <1>1, <1>2, <1>3 DEF Fine, OneEntry, SameRedis, NoNewRole
<1>5. Delayed(j)'
  BY <1>1, <1>2 DEF Fine, Delayed, SameRedis, NoNewRole
<1>6. Ran(j)'
  BY <1>1, <1>2 DEF Fine, Ran, SameRedis, NoNewRole
<1>7. Dead(j)'
  BY <1>1, <1>2, <1>3 DEF Fine, Dead, SameRedis, NoNewRole
<1>8. Honest(store[j])' /\ dependents'[j] = {}
  BY <1>1 DEF Fine, SameRedis, Honest
<1> QED
  BY <1>4, <1>5, <1>6, <1>7, <1>8 DEF Fine

(* What the others have in their hands is not disturbed.                   *)
LEMMA OthersTidy ==
  ASSUME NEW p \in Procs, NEW q \in Procs \ {p}, Tidy(q), Elsewhere(p),
         Created \subseteq Created'
  PROVE  Tidy(q)'
<1>1. /\ pc'[q] = pc[q] /\ back'[q] = back[q]
      /\ job'[q] = job[q] /\ arg'[q] = arg[q] /\ todo'[q] = todo[q]
  BY DEF Elsewhere
<1>2. Honest(job[q])' /\ Honest(arg[q])'
  BY <1>1 DEF Tidy, Honest
<1> QED
  BY <1>1, <1>2 DEF Tidy

(* A step of p keeps SInv if it leaves every job fine and p itself tidy.   *)
LEMMA AllFine ==
  ASSUME SInv, NEW p \in Procs, Elsewhere(p), Created \subseteq Created',
         Tidy(p)', \A j \in Jobs : Fine(j)'
  PROVE  SInv'
BY OthersTidy DEF SInv

(* The labels and documents in the hands of p.                             *)
LEMMA Held ==
  ASSUME TypeOK, SInv, NEW p \in Procs
  PROVE  /\ Tidy(p)
         /\ job[p] \in Document /\ arg[p] \in Document
         /\ NoDocument \in Document /\ Honest(NoDocument)
         /\ NoDocument.id = NoJob /\ NoJob \notin Jobs
         /\ NoDocument.status = "absent"
         /\ \A j \in Jobs : /\ store[j] \in Document /\ store[j].id = j
                            /\ Absent(j) \in Document /\ Absent(j).id = j
                            /\ Absent(j).status = "absent" /\ Honest(Absent(j))
         /\ pc \in [Procs -> Labels] /\ job \in [Procs -> Document]
         /\ arg \in [Procs -> Document] /\ todo \in [Procs -> SUBSET Jobs]
         /\ DOMAIN back = Procs /\ store \in [Jobs -> Document]
         /\ heap \in [Jobs -> 0 .. 3] /\ DOMAIN sched = Jobs
         /\ p \in Workers \/ p \in Clients
         /\ ~(p \in Workers /\ p \in Clients)
<1>1. NoDocument \in Document /\ NoDocument.id = NoJob /\ NoDocument.status = "absent"
  BY AbsentDocuments DEF NoDocument
<1>2. \A j \in Jobs : Absent(j) \in Document /\ Absent(j).id = j /\ Absent(j).status = "absent"
  BY AbsentDocuments
<1>3. \A j : ~Absent(j).in_dlq
  BY DEF Absent, NewJob
<1>4. Honest(NoDocument) /\ \A j \in Jobs : Honest(Absent(j))
  BY <1>1, <1>2, <1>3 DEF Honest, NoDocument
<1> QED
  BY <1>1, <1>2, <1>4, StoreAssumption DEF SInv, TypeOK, Procs

(* p writes no document and adds nothing to a queue.                       *)
LEMMA QuietKeeps ==
  ASSUME SInv, NEW p \in Procs, Elsewhere(p), Tidy(p)',
         UNCHANGED <<store, dependents, ahead, succeeded>>,
         \A j \in Jobs : heap'[j] \in {heap[j], 0} /\ sched'[j] \in {sched[j], "out"},
         \A j \in Jobs : NoNewRole(p, j)
  PROVE  SInv'
<1>1. Created' = Created
  BY DEF Created
<1>2. ASSUME NEW j \in Jobs PROVE Fine(j)'
  <2>1. Honest(store'[j])
    BY DEF SInv, Fine, Honest
  <2>2. SameRedis(j)
    BY <1>1, <2>1 DEF SameRedis
  <2> QED
    BY <2>2, Unmoved
<1> QED
  BY <1>1, <1>2, AllFine

(* p writes one document back, as one that has not failed.                 *)
LEMMA SaveKeeps ==
  ASSUME Solo, TypeOK, SInv, NEW p \in Procs, Elsewhere(p), Tidy(p)',
         NEW d \in Document, SaveJob(d), d.id \in Created,
         d.status \notin {"absent", "failed"}, Honest(d),
         store[d.id].status = "failed" => p \in Clients,
         pc'[p] # "dlq_retry_save",
         UNCHANGED <<dependents, heap, sched, ahead, succeeded>>,
         \A j \in Jobs : NoNewRole(p, j)
  PROVE  SInv'
<1>1. /\ d.id \in Jobs /\ store'[d.id] = d
      /\ \A j \in Jobs \ {d.id} : store'[j] = store[j]
  BY DEF Created, SaveJob, TypeOK
<1>2. Created' = Created
  BY <1>1 DEF Created
<1>3. ASSUME NEW q \in Procs, Redoes(q, d.id)', p \in Clients PROVE FALSE
  <2>1. q # p
    BY <1>3 DEF Redoes
  <2>2. pc[q] = "dlq_retry_save" /\ Tidy(q)
    BY <1>3, <2>1 DEF Redoes, Elsewhere, SInv
  <2>3. q \in Clients /\ "retry" \in Requests
    BY <2>2 DEF Tidy, WorkerLabels, AskLabels, PromoteLabels, RunLabels, Procs
  <2> QED
    BY <1>3, <2>1, <2>3 DEF Solo
<1>4. ASSUME NEW j \in Jobs PROVE Fine(j)'
  <2>1. Honest(store'[j])
    BY <1>1 DEF SInv, Fine, Honest
  <2>2. SameRedis(j)
    <3>1. CASE j = d.id
      <4>1. store[j].status = "failed" => \A q \in Procs : ~Redoes(q, j)'
        BY <1>3, <3>1 DEF Redoes
      <4> QED
        BY <1>1, <1>2, <2>1, <3>1, <4>1 DEF SameRedis
    <3>2. CASE j # d.id
      BY <1>1, <1>2, <2>1, <3>2 DEF SameRedis
    <3> QED
      BY <3>1, <3>2
  <2> QED
    BY <2>2, Unmoved
<1> QED
  BY <1>2, <1>4, AllFine

(* p brings j, and nobody else does.                                       *)
LEMMA Alone ==
  ASSUME SInv, NEW p \in Procs, Elsewhere(p), NEW j \in Jobs, Brings(p, j)
  PROVE  /\ heap[j] = 0 /\ store[j].status # "failed"
         /\ \A q \in Procs \ {p} : /\ ~Asks(q, j)' /\ ~Promotes(q, j)' /\ ~Moves(q, j)'
                                  /\ ~Runs(q, j)' /\ ~Brings(q, j)'
         /\ \A q \in Procs \ {p} : ~Redoes(q, j)'
<1> USE DEF Brings, Asks, Promotes, Moves, Runs, Saves, Redoes
<1>1. OneEntry(j) /\ Dead(j)
  BY DEF SInv, Fine
<1>2. heap[j] = 0 /\ store[j].status # "failed"
  BY <1>1 DEF OneEntry, Dead
<1>3. \A q \in Procs \ {p} : ~Brings(q, j)
  BY <1>1 DEF OneEntry
<1> QED
  BY <1>1, <1>2, <1>3 DEF Elsewhere, Dead

(* p has brought j to its queue.                                           *)
LEMMA EntryMade ==
  ASSUME SInv, NEW p \in Procs, Elsewhere(p), NEW j \in Jobs, Brings(p, j),
         ~Brings(p, j)', ~Redoes(p, j)', j \notin succeeded', j \in Created',
         store'[j] = store[j], dependents'[j] = dependents[j],
         j \in ahead' => j \in ahead,
         heap'[j] = 0 \/ sched'[j] = "out",
         j \in ahead => heap'[j] = 0 /\ sched'[j] # "due"
  PROVE  Fine(j)'
<1> USE DEF Brings, Asks, Promotes, Moves, Runs, Saves, Redoes
<1>1. Fine(j) /\ store[j].status # "failed"
  BY Alone DEF SInv
<1>2. \A q \in Procs : ~Brings(q, j)' /\ ~Redoes(q, j)'
  BY Alone
<1>3. OneEntry(j)'
  BY <1>1, <1>2 DEF OneEntry
<1>4. Delayed(j)' /\ Ran(j)'
  BY <1>1, <1>2 DEF Delayed, Ran
<1>5. Dead(j)'
  BY <1>1, <1>2 DEF Dead
<1>6. Honest(store[j])' /\ dependents'[j] = {}
  BY <1>1 DEF Fine, Honest
<1> QED
  BY <1>3, <1>4, <1>5, <1>6 DEF Fine

(* enqueue: a job ahead of its time is scheduled, any other, having no     *)
(* parents, goes to the heap.                                              *)
LEMMA EnqueueKeeps ==
  ASSUME Solo, TypeOK, SInv, NEW p \in Procs, EnqueueStep(p), UNCHANGED history
  PROVE  SInv'
<1> USE DEF ArgLabels, ClientLabels, WorkerLabels, AskLabels, PromoteLabels, RunLabels
<1>1. Tidy(p) /\ (p \in Workers \/ p \in Clients)
  BY Held
<1>9. PICK j \in Jobs \cup {NoJob} : j = arg[p].id
  BY Held DEF Document
<1>2. CASE Enqueue(p)
  <2>1. Elsewhere(p) /\ UNCHANGED <<redisVars, history, job, arg, todo, back>>
    BY <1>2, Held DEF Elsewhere, Enqueue, CheckDependencies, Goto
  <2>2. pc[p] = "enqueue" /\ j \in Jobs
    BY <1>1, <1>9, <1>2 DEF Enqueue, Tidy
  <2>3. pc'[p] = IF arg[p].future THEN "enq_later" ELSE "enq_zadd"
    BY <1>1, <1>9, <1>2, <2>2, Held DEF Enqueue, CheckDependencies, Goto, Solo
  <2>4. Tidy(p)'
    BY <1>1, <1>9, <2>1, <2>2, <2>3 DEF Tidy, Honest, Created
  <2>5. ASSUME NEW k \in Jobs PROVE NoNewRole(p, k)
    <3>1. Asks(p, k) /\ k \in ahead => arg[p].future
      BY DEF SInv, Fine, Delayed
    <3> QED
      BY <2>1, <2>2, <2>3, <3>1
         DEF NoNewRole, Asks, Promotes, Moves, Runs, Saves, Redoes
  <2> QED
    BY <2>1, <2>4, <2>5, QuietKeeps
<1>3. CASE EnqueueLaterSave(p)
  <2>1. /\ Elsewhere(p) /\ UNCHANGED <<dependents, queueVars, localVars, history>>
        /\ SaveJob(arg[p]) /\ pc[p] = "enq_later" /\ pc'[p] = "enq_sched"
    BY <1>3, Held DEF Elsewhere, EnqueueLaterSave, Goto
  <2>2. /\ j \in Jobs /\ j \in Created /\ arg[p] \in Document /\ Honest(arg[p])
        /\ arg[p].status \notin {"absent", "failed"}
    BY <1>1, <1>9, <2>1, Held DEF Tidy
  <2>3. store[j].status # "failed"
    BY <1>9, <2>1, <2>2 DEF SInv, Fine, Dead, Brings, Asks
  <2>4. Tidy(p)'
    BY <1>1, <1>9, <2>1, <2>2, Held DEF Tidy, Honest, Created, SaveJob
  <2>5. ASSUME NEW k \in Jobs PROVE NoNewRole(p, k)
    <3>1. Asks(p, k) /\ k \in ahead => arg[p].future
      BY DEF SInv, Fine, Delayed
    <3> QED
      BY <2>1, <3>1 DEF NoNewRole, Asks, Promotes, Moves, Runs, Saves, Redoes
  <2> QED
    BY <1>9, <2>1, <2>2, <2>3, <2>4, <2>5, SaveKeeps
<1>4. CASE EnqueueLaterZadd(p)
  <2>1. /\ Elsewhere(p) /\ UNCHANGED <<store, dependents, heap, lock, ahead, job, todo, history>>
        /\ sched' = [sched EXCEPT ![j] = IF arg[p].future THEN "future" ELSE "due"]
        /\ pc[p] = "enq_sched" /\ pc'[p] = back[p] /\ arg'[p] = NoDocument
        /\ back'[p] = "idle"
    BY <1>4, <1>9, Held DEF Elsewhere, EnqueueLaterZadd, Return, Goto
  <2>2. j \in Jobs /\ j \in Created /\ Created' = Created
    BY <1>1, <1>9, <2>1 DEF Tidy, Created
  <2>3. Tidy(p)'
    BY <1>1, <1>9, <2>1, <2>2, Held DEF Tidy, Honest
  <2>4. ASSUME NEW k \in Jobs PROVE NoNewRole(p, k)
    BY <1>1, <1>9, <2>1, Held DEF Tidy, NoNewRole, Asks, Promotes, Moves, Runs, Saves, Redoes
  <2>5. ASSUME NEW k \in Jobs PROVE Fine(k)'
    <3>1. CASE k # j
      <4>1. SameRedis(k)
        BY <1>9, <2>1, <2>2, <3>1 DEF SameRedis, SInv, Fine, Honest
      <4> QED
        BY <2>1, <2>4, <4>1, Unmoved
    <3>2. CASE k = j
      <4>1. Asks(p, j) /\ Brings(p, j) /\ Fine(j)
        BY <1>9, <2>1, <2>2 DEF SInv, Asks, Brings
      <4>2. /\ j \notin succeeded /\ heap[j] = 0
            /\ j \in ahead => arg[p].future
        BY <1>9, <4>1 DEF Fine, Ran, Delayed, OneEntry
      <4>3. ~Brings(p, j)' /\ ~Redoes(p, j)'
        BY <1>1, <1>9, <2>1, Held DEF Tidy, Brings, Asks, Promotes, Moves, Runs, Redoes
      <4>4. heap'[j] = 0 /\ (j \in ahead => sched'[j] = "future")
        BY <2>1, <2>2, <4>2, Held
      <4>5. Fine(j)'
        BY <2>1, <2>2, <4>1, <4>2, <4>3, <4>4, EntryMade
      <4> QED
        BY <3>2, <4>5
    <3> QED
      BY <3>1, <3>2
  <2> QED
    BY <2>1, <2>2, <2>3, <2>5, AllFine
<1>5. CASE EnqueueDeps(p)
  BY <1>1, <1>9, <1>5 DEF EnqueueDeps, ReadMet, ReadUnmet, Tidy
<1>6. CASE EnqueueZadd(p)
  <2>1. /\ Elsewhere(p) /\ UNCHANGED <<store, dependents, sched, lock, ahead, localVars, history>>
        /\ heap' = [heap EXCEPT ![j] = Priority[j]]
        /\ pc[p] = "enq_zadd" /\ pc'[p] = "enq_save"
    BY <1>6, <1>9, Held DEF Elsewhere, EnqueueZadd, Goto
  <2>2. j \in Jobs /\ j \in Created /\ Created' = Created
    BY <1>1, <1>9, <2>1 DEF Tidy, Created
  <2>3. Tidy(p)'
    BY <1>1, <1>9, <2>1, <2>2, Held DEF Tidy, Honest
  <2>4. ASSUME NEW k \in Jobs, k # j PROVE Fine(k)'
    <3>1. SameRedis(k) /\ NoNewRole(p, k)
      BY <1>1, <1>9, <2>1, <2>2, <2>4 DEF SameRedis, SInv, Fine, Honest, Tidy,
         NoNewRole, Asks, Promotes, Moves, Runs, Saves, Redoes
    <3> QED
      BY <2>1, <3>1, Unmoved
  <2>5. Fine(j)'
    <3>1. Asks(p, j) /\ Brings(p, j) /\ Fine(j)
      BY <1>9, <2>1, <2>2 DEF SInv, Asks, Brings
    <3>2. j \notin succeeded /\ sched[j] = "out" /\ j \notin ahead
      BY <2>1, <3>1 DEF Fine, Ran, Delayed, OneEntry
    <3>3. ~Brings(p, j)' /\ ~Redoes(p, j)'
      BY <1>1, <1>9, <2>1 DEF Tidy, Brings, Asks, Promotes, Moves, Runs, Redoes
    <3> QED
      BY <2>1, <2>2, <3>1, <3>2, <3>3, EntryMade
  <2> QED
    BY <2>1, <2>2, <2>3, <2>4, <2>5, AllFine
<1>7. CASE EnqueueSave(p)
  <2>1. /\ Elsewhere(p) /\ UNCHANGED <<dependents, queueVars, job, todo, history>>
        /\ SaveJob(arg[p]) /\ pc[p] = "enq_save" /\ pc'[p] = back[p]
        /\ arg'[p] = NoDocument /\ back'[p] = "idle"
    BY <1>7, Held DEF Elsewhere, EnqueueSave, Return, Goto
  <2>2. /\ j \in Jobs /\ j \in Created /\ arg[p] \in Document /\ Honest(arg[p])
        /\ arg[p].status \notin {"absent", "failed"}
    BY <1>1, <1>9, <2>1, Held DEF Tidy
  <2>3. store[j].status = "failed" => p \in Clients
    BY <1>1, <1>9, <2>1, <2>2 DEF SInv, Fine, Dead, Saves
  <2>4. Tidy(p)'
    BY <1>1, <1>9, <2>1, <2>2, Held DEF Tidy, Honest, Created, SaveJob
  <2>5. pc'[p] # "dlq_retry_save"
    BY <1>1, <1>9, <2>1, Held DEF Tidy
  <2>6. ASSUME NEW k \in Jobs PROVE NoNewRole(p, k)
    BY <1>1, <1>9, <2>1, Held DEF Tidy, NoNewRole, Asks, Promotes, Moves, Runs, Saves, Redoes
  <2> QED
    BY <1>9, <2>1, <2>2, <2>3, <2>4, <2>5, <2>6, SaveKeeps
<1> QED
  BY <1>2, <1>3, <1>4, <1>5, <1>6, <1>7 DEF EnqueueStep

(* dequeue: an entry is moved, taken out for a run, or put back.           *)
LEMMA DequeueKeeps ==
  ASSUME Solo, TypeOK, SInv, NEW w \in Workers, DequeueStep(w) \/ ReleaseLock(w),
         UNCHANGED history
  PROVE  SInv'
<1> USE DEF ArgLabels, ClientLabels, WorkerLabels, AskLabels, PromoteLabels, RunLabels
<1>1. Tidy(w) /\ w \in Procs /\ w \notin Clients
  BY Held DEF Procs
<1>2. PICK j \in Jobs \cup {NoJob} : j = arg[w].id
  BY <1>1, Held DEF Document
<1>3. PICK k \in Jobs \cup {NoJob} : k = job[w].id
  BY <1>1, Held DEF Document
<1>4. CASE PromoteScan(w)
  <2>1. /\ Elsewhere(w) /\ UNCHANGED <<redisVars, history, job, arg, back>>
        /\ pc[w] = "idle" /\ todo'[w] = DueEntries
        /\ pc'[w] = IF DueEntries = {} THEN "pop" ELSE "promote_get"
    BY <1>1, <1>4, Held DEF Elsewhere, PromoteScan, NextDue, Goto
  <2>2. Created' = Created /\ todo[w] = {}
    BY <1>1, <2>1 DEF Created, Tidy
  <2>3. DueEntries \subseteq Created
    BY DEF DueEntries, SInv, Fine, OneEntry
  <2>4. Tidy(w)'
    BY <1>1, <2>1, <2>2, <2>3 DEF Tidy, Honest
  <2>5. ASSUME NEW i \in Jobs PROVE Fine(i)'
    <3>1. Fine(i)
      BY DEF SInv
    <3>2. CASE sched[i] # "due"
      <4>1. SameRedis(i) /\ NoNewRole(w, i)
        BY <2>1, <2>2, <3>1, <3>2 DEF SameRedis, Fine, Honest, DueEntries,
           NoNewRole, Asks, Promotes, Moves, Runs, Saves, Redoes
      <4> QED
        BY <1>1, <2>1, <4>1, Unmoved
    <3>3. CASE sched[i] = "due"
      <4> USE DEF Brings, Asks, Promotes, Moves, Runs, Saves, Redoes
      <4>1. /\ heap[i] = 0 /\ i \notin ahead /\ i \notin succeeded
            /\ store[i].status # "failed"
            /\ \A q \in Procs : ~Asks(q, i) /\ ~Runs(q, i) /\ ~Moves(q, i)
        BY <3>1, <3>3 DEF Fine, OneEntry, Delayed, Ran, Dead
      <4>2. \A q \in Procs \ {w} : ~Promotes(q, i)
        BY <1>1 DEF SInv, Tidy, Procs, Solo
      <4>3. \A q \in Procs \ {w} : ~Brings(q, i)' /\ ~Asks(q, i)' /\ ~Runs(q, i)' /\ ~Moves(q, i)'
        BY <2>1, <4>1, <4>2 DEF Elsewhere
      <4>4. ~Asks(w, i)' /\ ~Runs(w, i)' /\ ~Moves(w, i)'
        BY <2>1
      <4>5. OneEntry(i)'
        BY <2>1, <2>2, <3>1, <4>1, <4>3, <4>4 DEF Fine, OneEntry
      <4>6. Dead(i)'
        BY <2>1, <3>1, <4>1 DEF Fine, Dead, Elsewhere
      <4> QED
        BY <2>1, <3>1, <4>1, <4>5, <4>6 DEF Fine, Delayed, Ran, Honest
    <3> QED
      BY <3>2, <3>3
  <2> QED
    BY <1>1, <2>1, <2>2, <2>4, <2>5, AllFine
<1>5. CASE PromoteGet(w)
  <2>1. PICK i \in todo[w] : /\ arg' = [arg EXCEPT ![w] = store[i]]
                             /\ todo' = [todo EXCEPT ![w] = @ \ {i}]
    BY <1>5 DEF PromoteGet
  <2>2. /\ Elsewhere(w) /\ UNCHANGED <<redisVars, history, job, back>>
        /\ pc[w] = "promote_get" /\ pc'[w] = "promote_zrem"
        /\ arg'[w] = store[i] /\ todo'[w] = todo[w] \ {i}
        /\ i \in Jobs /\ store[i].id = i
    BY <1>1, <1>5, <2>1, Held DEF Elsewhere, PromoteGet, Goto
  <2>3. i \in Created /\ Honest(store[i]) /\ store[i].status # "failed"
    BY <1>1, <2>2 DEF SInv, Fine, Dead, Brings, Promotes, Tidy
  <2>4. Tidy(w)'
    BY <1>1, <2>2, <2>3 DEF Tidy, Honest, Created
  <2>5. ASSUME NEW h \in Jobs PROVE NoNewRole(w, h)
    BY <2>2 DEF NoNewRole, Asks, Promotes, Moves, Runs, Saves, Redoes
  <2> QED
    BY <1>1, <2>2, <2>4, <2>5, QuietKeeps
<1>6. CASE PromoteZrem(w)
  <2>1. /\ Elsewhere(w) /\ UNCHANGED <<store, dependents, heap, lock, ahead, history, job, todo, back>>
        /\ pc[w] = "promote_zrem" /\ sched' = [sched EXCEPT ![j] = "out"]
    BY <1>1, <1>2, <1>6, Held DEF Elsewhere, PromoteZrem, Unschedule, Goto
  <2>2. j \in Created /\ j \in Jobs /\ Created' = Created
    BY <1>1, <1>2, <2>1 DEF Tidy, Created
  <2>3. PICK a \in Document : a = [arg[w] EXCEPT !.future = FALSE]
    BY <1>1, Passes, Held
  <2>4. a.id = j /\ a.status = arg[w].status /\ Honest(a)
    BY <1>1, <1>2, <2>3, Held DEF Document, Tidy, Honest
  <2>5. \/ /\ arg'[w] = NoDocument
           /\ pc'[w] = IF todo[w] = {} THEN "pop" ELSE "promote_get"
        \/ arg'[w] = a /\ pc'[w] = "promote_zadd" /\ a.status # "absent"
    BY <1>1, <1>6, <2>3, <2>4, Held DEF PromoteZrem, NextDue, Goto
  <2>6. Tidy(w)'
    <3>1. CASE arg'[w] = NoDocument
      BY <1>1, <2>1, <2>2, <2>5, <3>1, Held DEF Tidy, Honest
    <3>2. CASE arg'[w] = a
      BY <1>1, <1>2, <2>1, <2>2, <2>4, <2>5, <3>2, Held DEF Tidy, Honest
    <3> QED
      BY <2>5, <3>1, <3>2
  <2>7. ASSUME NEW h \in Jobs PROVE NoNewRole(w, h)
    BY <1>1, <1>2, <2>1, <2>2, <2>4, <2>5, Held
       DEF NoNewRole, Asks, Promotes, Moves, Runs, Saves, Redoes
  <2>8. \A h \in Jobs : sched'[h] \in {sched[h], "out"}
    BY <1>1, <2>1, Held
  <2> QED
    BY <1>1, <2>1, <2>6, <2>7, <2>8, QuietKeeps
<1>7. CASE PromoteZadd(w)
  <2>1. /\ Elsewhere(w) /\ UNCHANGED <<store, dependents, sched, lock, ahead, localVars, history>>
        /\ heap' = [heap EXCEPT ![j] = Priority[j]]
        /\ pc[w] = "promote_zadd" /\ pc'[w] = "promote_save"
    BY <1>1, <1>2, <1>7, Held DEF Elsewhere, PromoteZadd, Goto
  <2>2. j \in Jobs /\ j \in Created \ todo[w] /\ Created' = Created
    BY <1>1, <1>2, <2>1 DEF Tidy, Created
  <2>3. Tidy(w)'
    BY <1>1, <2>1, <2>2 DEF Tidy, Honest
  <2>4. ASSUME NEW h \in Jobs, h # j PROVE Fine(h)'
    <3>1. SameRedis(h) /\ NoNewRole(w, h)
      BY <1>2, <2>1, <2>2, <2>4 DEF SameRedis, SInv, Fine, Honest,
         NoNewRole, Asks, Promotes, Moves, Runs, Saves, Redoes
    <3> QED
      BY <1>1, <2>1, <3>1, Unmoved
  <2>5. Fine(j)'
    <3>1. Moves(w, j) /\ Promotes(w, j) /\ Brings(w, j) /\ Fine(j)
      BY <1>2, <2>1, <2>2 DEF SInv, Moves, Promotes, Brings
    <3>2. j \notin succeeded /\ sched[j] = "out" /\ j \notin ahead
      BY <1>1, <3>1 DEF Fine, Ran, Delayed, OneEntry
    <3>3. ~Brings(w, j)' /\ ~Redoes(w, j)'
      BY <2>1, <2>2 DEF Brings, Asks, Promotes, Moves, Runs, Redoes
    <3> QED
      BY <1>1, <2>1, <2>2, <3>1, <3>2, <3>3, EntryMade
  <2> QED
    BY <1>1, <2>1, <2>2, <2>3, <2>4, <2>5, AllFine
<1>8. CASE PromoteSave(w)
  <2>1. /\ Elsewhere(w) /\ UNCHANGED <<dependents, queueVars, job, todo, back, history>>
        /\ SaveJob(arg[w]) /\ pc[w] = "promote_save" /\ arg'[w] = NoDocument
        /\ pc'[w] = IF todo[w] = {} THEN "pop" ELSE "promote_get"
    BY <1>1, <1>8, Held DEF Elsewhere, PromoteSave, NextDue, Goto
  <2>2. /\ j \in Jobs /\ j \in Created /\ arg[w] \in Document /\ Honest(arg[w])
        /\ arg[w].status \notin {"absent", "failed"}
    BY <1>1, <1>2, <2>1, Held DEF Tidy
  <2>3. store[j].status # "failed"
    BY <1>1, <1>2, <2>1, <2>2 DEF SInv, Fine, Dead, Saves
  <2>4. Tidy(w)'
    BY <1>1, <1>2, <2>1, <2>2, Held DEF Tidy, Honest, Created, SaveJob
  <2>5. ASSUME NEW h \in Jobs PROVE NoNewRole(w, h)
    BY <1>1, <2>1, Held DEF NoNewRole, Asks, Promotes, Moves, Runs, Saves, Redoes
  <2> QED
    BY <1>1, <1>2, <2>1, <2>2, <2>3, <2>4, <2>5, SaveKeeps
<1>9. CASE PopEmpty(w)
  <2>1. /\ Elsewhere(w) /\ UNCHANGED <<redisVars, localVars, history>>
        /\ pc[w] = "pop" /\ pc'[w] = "idle"
    BY <1>1, <1>9, Held DEF Elsewhere, PopEmpty, Goto
  <2>2. Tidy(w)'
    BY <1>1, <2>1 DEF Tidy, Honest, Created
  <2>3. ASSUME NEW h \in Jobs PROVE NoNewRole(w, h)
    BY <2>1 DEF NoNewRole, Asks, Promotes, Moves, Runs, Saves, Redoes
  <2> QED
    BY <1>1, <2>1, <2>2, <2>3, QuietKeeps
<1>10. CASE Pop(w)
  <2>1. PICK i \in Jobs : /\ heap[i] # 0 /\ heap' = [heap EXCEPT ![i] = 0]
                          /\ job' = [job EXCEPT ![w] = Absent(i)]
    BY <1>10 DEF Pop, First
  <2>2. /\ Elsewhere(w)
        /\ UNCHANGED <<store, dependents, sched, lock, ahead, history, arg, todo, back>>
        /\ pc[w] = "pop" /\ pc'[w] = "get" /\ job'[w] = Absent(i)
        /\ job'[w].id = i /\ job'[w].status = "absent" /\ Honest(Absent(i))
    BY <1>1, <1>10, <2>1, Held DEF Elsewhere, Pop, Goto
  <2>3. Created' = Created /\ i \in Created
    BY <2>1, <2>2 DEF Created, SInv, Fine, OneEntry
  <2>4. Tidy(w)'
    BY <1>1, <2>2, <2>3 DEF Tidy, Honest
  <2>5. ASSUME NEW h \in Jobs, h # i PROVE Fine(h)'
    <3>1. SameRedis(h) /\ NoNewRole(w, h)
      BY <2>1, <2>2, <2>3, <2>5 DEF SameRedis, SInv, Fine, Honest,
         NoNewRole, Asks, Promotes, Moves, Runs, Saves, Redoes
    <3> QED
      BY <1>1, <2>2, <3>1, Unmoved
  <2>6. Fine(i)'
    <3> USE DEF Brings, Asks, Promotes, Moves, Runs, Saves, Redoes
    <3>1. /\ Fine(i) /\ sched[i] = "out" /\ i \notin ahead /\ i \notin succeeded
          /\ store[i].status # "failed" /\ \A q \in Procs : ~Brings(q, i)
      BY <2>1 DEF SInv, Fine, OneEntry, Delayed, Ran, Dead
    <3>2. heap'[i] = 0
      BY <1>1, <2>1, Held
    <3>3. \A q \in Procs \ {w} : ~Brings(q, i)'
      BY <2>2, <3>1 DEF Elsewhere
    <3>4. OneEntry(i)'
      BY <2>2, <3>1, <3>2, <3>3 DEF OneEntry
    <3>5. Dead(i)'
      BY <2>2, <3>1 DEF Dead, Fine, Elsewhere
    <3> QED
      BY <2>2, <3>1, <3>4, <3>5 DEF Fine, Delayed, Ran, Honest
  <2> QED
    BY <1>1, <2>2, <2>3, <2>4, <2>5, <2>6, AllFine
<1>11. CASE DequeueGet(w)
  <2>1. /\ k \in Jobs /\ k \in Created /\ pc[w] = "get" /\ DependsOn[k] = {}
        /\ store[k].id = k /\ store[k].status # "absent"
    BY <1>1, <1>3, <1>11, Held DEF DequeueGet, Tidy, Solo, Created
  <2>2. Honest(store[k]) /\ store[k].status # "failed"
    BY <1>1, <1>3, <2>1 DEF SInv, Fine, Dead, Brings, Runs
  <2>3. /\ Elsewhere(w) /\ UNCHANGED <<redisVars, history, arg, todo, back>>
        /\ \/ job'[w] = NoDocument /\ pc'[w] = "pop"
           \/ job'[w] = store[k] /\ pc'[w] = "lock"
    BY <1>1, <1>3, <1>11, <2>1, Held DEF Elsewhere, DequeueGet, CheckDependencies, Goto
  <2>4. Tidy(w)'
    BY <1>1, <2>1, <2>2, <2>3, Held DEF Tidy, Honest, Created
  <2>5. ASSUME NEW h \in Jobs PROVE NoNewRole(w, h)
    <3>1. Runs(w, h) => h \notin succeeded
      BY <1>1, <2>1 DEF SInv, Fine, Ran, Runs
    <3> QED
      BY <1>1, <1>3, <2>1, <2>3, <3>1, Held
         DEF NoNewRole, Asks, Promotes, Moves, Runs, Saves, Redoes
  <2> QED
    BY <1>1, <2>3, <2>4, <2>5, QuietKeeps
<1>12. CASE DequeueDeps(w) \/ RequeueBlocked(w)
  BY <1>1, <1>12 DEF DequeueDeps, RequeueBlocked, Requeue, Tidy
<1>13. CASE RequeueContended(w)
  <2>1. PICK q \in 1 .. Priority[k] : heap' = [heap EXCEPT ![k] = q]
    BY <1>3, <1>13 DEF RequeueContended, Requeue
  <2>2. /\ Elsewhere(w)
        /\ UNCHANGED <<store, dependents, sched, lock, ahead, history, arg, todo, back>>
        /\ pc[w] = "contended" /\ pc'[w] = "pop" /\ job'[w] = NoDocument
    BY <1>1, <1>13, Held DEF Elsewhere, RequeueContended, Requeue, Goto
  <2>3. k \in Jobs /\ k \in Created /\ Created' = Created
    BY <1>1, <1>3, <2>2 DEF Tidy, Created
  <2>4. Tidy(w)'
    BY <1>1, <2>2, <2>3, Held DEF Tidy, Honest
  <2>5. ASSUME NEW h \in Jobs, h # k PROVE Fine(h)'
    <3>1. SameRedis(h) /\ NoNewRole(w, h)
      BY <1>3, <2>1, <2>2, <2>3, <2>5 DEF SameRedis, SInv, Fine, Honest,
         NoNewRole, Asks, Promotes, Moves, Runs, Saves, Redoes
    <3> QED
      BY <1>1, <2>2, <3>1, Unmoved
  <2>6. Fine(k)'
    <3>1. Runs(w, k) /\ Brings(w, k) /\ Fine(k)
      BY <1>3, <2>2, <2>3 DEF SInv, Runs, Brings
    <3>2. k \notin succeeded /\ sched[k] = "out" /\ k \notin ahead
      BY <1>1, <2>2, <3>1 DEF Fine, Ran, Delayed, OneEntry
    <3>3. ~Brings(w, k)' /\ ~Redoes(w, k)'
      BY <1>1, <2>2, <2>3 DEF Brings, Asks, Promotes, Moves, Runs, Redoes, Tidy
    <3> QED
      BY <1>1, <2>2, <2>3, <3>1, <3>2, <3>3, EntryMade
  <2> QED
    BY <1>1, <2>2, <2>3, <2>4, <2>5, <2>6, AllFine
<1>14. CASE ReleaseLock(w)
  <2>1. /\ Elsewhere(w) /\ UNCHANGED <<store, dependents, heap, sched, ahead, arg, todo, back, history>>
        /\ pc[w] = "release" /\ pc'[w] = "idle" /\ job'[w] = NoDocument
    BY <1>1, <1>14, Held DEF Elsewhere, ReleaseLock, Goto
  <2>2. Tidy(w)'
    BY <1>1, <2>1, Held DEF Tidy, Honest, Created
  <2>3. ASSUME NEW h \in Jobs PROVE NoNewRole(w, h)
    BY <2>1 DEF NoNewRole, Asks, Promotes, Moves, Runs, Saves, Redoes
  <2> QED
    BY <1>1, <2>1, <2>2, <2>3, QuietKeeps
<1> QED
  BY <1>4, <1>5, <1>6, <1>7, <1>8, <1>9, <1>10, <1>11, <1>12, <1>13, <1>14
     DEF DequeueStep

(* process_job handles the one entry of its job: the run ends with none,   *)
(* or with the job scheduled again.                                        *)
LEMMA RunKeeps ==
  ASSUME Solo, TypeOK, Sound, SInv, NEW w \in Workers,
         \/ Acquire(w) \/ Start(w) \/ HandlerReturns(w) \/ HandlerRaises(w)
         \/ Recheck(w) \/ Complete(w) \/ GetDependents(w)
         \/ Finish(w) \/ ScheduleRetry(w) \/ MoveToDlq(w)
  PROVE  SInv'
<1> USE DEF ArgLabels, ClientLabels, WorkerLabels, AskLabels, PromoteLabels, RunLabels
<1>1. Tidy(w) /\ w \in Procs /\ w \notin Clients
  BY Held DEF Procs
<1>2. PICK k \in Jobs : k = job[w].id
  BY <1>1, Held DEF Tidy, Acquire, AcquireLock, Start, HandlerReturns, HandlerRaises,
     Recheck, Complete, GetDependents, Finish, ScheduleRetry, MoveToDlq
<1>3. /\ k \in Created /\ job[w] \in Document /\ Honest(job[w]) /\ arg[w].id \notin Jobs
      /\ todo[w] = {} /\ job[w].status # "absent"
  BY <1>1, <1>2, Held DEF Tidy, Acquire, AcquireLock, Start, HandlerReturns, HandlerRaises,
     Recheck, Complete, GetDependents, Finish, ScheduleRetry, MoveToDlq
<1>4. Fine(k) /\ (pc[w] \in RunLabels => Runs(w, k) /\ Brings(w, k))
  BY <1>2 DEF SInv, Runs, Brings
<1>5. pc[w] \in RunLabels =>
        /\ heap[k] = 0 /\ sched[k] = "out" /\ k \notin ahead /\ store[k].status # "failed"
        /\ k \in succeeded => pc[w] \in {"recheck", "complete"}
  BY <1>1, <1>4 DEF Fine, OneEntry, Delayed, Ran, Dead
(* Steps that leave Redis alone but for the lock.                          *)
<1>6. ASSUME NEW label, Elsewhere(w), pc'[w] = label,
             UNCHANGED <<store, dependents, heap, sched, ahead, succeeded, job, arg, back>>,
             todo'[w] = {},
             \/ label \in {"recur", "tail", "release"}
             \/ /\ label \in RunLabels \ {"get"} /\ pc[w] \in RunLabels
                /\ k \in succeeded => label \in {"recheck", "complete"},
             label = "dlq_save" => job[w].retries = MaxRetries \/ k \in Unhandled,
             job[w].status = "failed" => label = "release"
      PROVE  SInv'
  <2>1. Tidy(w)'
    BY <1>1, <1>2, <1>3, <1>6, Held DEF Tidy, Honest, Created
  <2>2. ASSUME NEW h \in Jobs PROVE NoNewRole(w, h)
    BY <1>2, <1>6 DEF NoNewRole, Asks, Promotes, Moves, Runs, Saves, Redoes
  <2> QED
    BY <1>1, <1>6, <2>1, <2>2, QuietKeeps
(* Steps that write the document at hand.                                  *)
<1>7. ASSUME NEW label, NEW d \in Document, SaveJob(d), d.id = k, Elsewhere(w),
             UNCHANGED <<dependents, heap, sched, ahead, succeeded, arg, todo, back>>,
             pc[w] \in RunLabels, pc'[w] = label, job'[w] = d, Honest(d),
             d.status \notin {"absent", "failed"},
             \/ label = "run" /\ k \notin succeeded
             \/ label = "dependents"
      PROVE  SInv'
  <2>1. Tidy(w)'
    BY <1>1, <1>2, <1>3, <1>7, Held DEF Tidy, Honest, Created, SaveJob
  <2>2. ASSUME NEW h \in Jobs PROVE NoNewRole(w, h)
    BY <1>2, <1>7 DEF NoNewRole, Asks, Promotes, Moves, Runs, Saves, Redoes
  <2>3. store[d.id].status # "failed" /\ d.id \in Created /\ pc'[w] # "dlq_retry_save"
    BY <1>3, <1>5, <1>7
  <2> QED
    BY <1>1, <1>7, <2>1, <2>2, <2>3, SaveKeeps
<1>8. CASE Acquire(w)
  <2>1. PICK label \in {"start", "contended", "dlq_save"} :
          /\ pc' = [pc EXCEPT ![w] = label]
          /\ label = "dlq_save" => k \in Unhandled
    BY <1>2, <1>8 DEF Acquire, AcquireLock, Goto
  <2>2. /\ Elsewhere(w) /\ pc[w] = "lock" /\ pc'[w] = label
        /\ UNCHANGED <<store, dependents, heap, sched, ahead, succeeded, job, arg, back>>
        /\ todo'[w] = {}
    BY <1>1, <1>3, <1>8, <2>1, Held DEF Acquire, AcquireLock, Elsewhere
  <2>3. k \notin succeeded /\ job[w].status # "failed"
    BY <1>1, <1>5, <2>2 DEF Tidy
  <2> QED
    BY <1>6, <2>1, <2>2, <2>3
<1>9. CASE Start(w)
  <2>1. PICK d \in Document : d = [job[w] EXCEPT !.status = "processing"]
    BY <1>3, Updates DEF Status
  <2>2. d.id = k /\ d.status = "processing" /\ Honest(d)
    BY <1>1, <1>2, <1>3, <1>9, <2>1 DEF Document, Honest, Tidy, Start
  <2>3. /\ SaveJob(d) /\ Elsewhere(w) /\ pc[w] = "start" /\ pc'[w] = "run" /\ job'[w] = d
        /\ UNCHANGED <<dependents, heap, sched, ahead, succeeded, arg, todo, back>>
    BY <1>1, <1>9, <2>1, Held DEF Start, Elsewhere, Goto
  <2>4. k \notin succeeded /\ d.status \notin {"absent", "failed"}
    BY <1>5, <2>2, <2>3
  <2> QED
    BY <1>7, <2>2, <2>3, <2>4
<1>10. CASE HandlerReturns(w)
  <2>1. /\ Elsewhere(w) /\ pc[w] = "run" /\ pc'[w] = "recheck"
        /\ UNCHANGED <<redisVars, localVars>> /\ succeeded' = succeeded \cup {k}
    BY <1>1, <1>2, <1>10, Held DEF HandlerReturns, Elsewhere, Goto
  <2>2. Tidy(w)' /\ Created' = Created
    BY <1>1, <1>2, <1>3, <2>1, Held DEF Tidy, Honest, Created
  <2>3. ASSUME NEW h \in Jobs PROVE Fine(h)'
    <3>1. NoNewRole(w, h)
      BY <2>1 DEF NoNewRole, Asks, Promotes, Moves, Runs, Saves, Redoes
    <3>2. CASE h # k
      <4>1. SameRedis(h)
        BY <2>1, <2>2, <3>2 DEF SameRedis, SInv, Fine, Honest
      <4> QED
        BY <1>1, <2>1, <3>1, <4>1, Unmoved
    <3>3. CASE h = k
      <4> USE DEF Brings, Asks, Promotes, Moves, Runs, Saves, Redoes
      <4>1. \A q \in Procs \ {w} : ~Brings(q, k)'
        BY <1>1, <1>4, <2>1, Alone
      <4>2. OneEntry(k)' /\ Delayed(k)' /\ Dead(k)'
        BY <1>4, <1>5, <2>1, <2>2, <4>1 DEF Fine, OneEntry, Delayed, Dead, Elsewhere
      <4>3. heap'[k] = 0 /\ sched'[k] = "out" /\ store'[k].status # "failed" /\ k \in Created'
        BY <1>3, <1>5, <2>1, <2>2
      <4>4. ~Asks(w, k)' /\ ~Promotes(w, k)' /\ pc'[w] = "recheck"
        BY <1>1, <1>3, <2>1
      <4>5. Ran(k)'
        BY <4>1, <4>3, <4>4 DEF Ran
      <4> QED
        BY <1>4, <2>1, <3>3, <4>2, <4>5 DEF Fine, Honest
    <3> QED
      BY <3>2, <3>3
  <2> QED
    BY <1>1, <2>1, <2>2, <2>3, AllFine
<1>11. CASE HandlerRaises(w)
  <2>1. job[w].retries < MaxRetries \/ job[w].retries = MaxRetries
    BY <1>3, StoreAssumption DEF Document
  <2>2. PICK label \in {"retry_save", "dlq_save"} :
          /\ pc' = [pc EXCEPT ![w] = label]
          /\ label = "dlq_save" => job[w].retries = MaxRetries
    BY <1>11, <2>1 DEF HandlerRaises, OnException, Goto
  <2>3. /\ Elsewhere(w) /\ pc[w] = "run" /\ pc'[w] = label /\ todo'[w] = {}
        /\ UNCHANGED <<store, dependents, heap, sched, ahead, succeeded, job, arg, back>>
    BY <1>1, <1>3, <1>11, <2>2, Held DEF HandlerRaises, Elsewhere
  <2>4. k \notin succeeded /\ job[w].status # "failed"
    BY <1>1, <1>5, <2>3 DEF Tidy
  <2> QED
    BY <1>6, <2>2, <2>3, <2>4
<1>12. CASE Recheck(w) \/ Finish(w)
  <2>1. PICK label \in {"release", "complete"} :
          pc' = [pc EXCEPT ![w] = label] /\ (Finish(w) => label = "release")
    BY <1>12 DEF Recheck, Finish, Goto
  <2>2. /\ Elsewhere(w) /\ pc'[w] = label /\ pc[w] \in {"recheck", "tail"}
        /\ pc[w] = "tail" => label = "release"
        /\ UNCHANGED <<store, dependents, heap, sched, ahead, succeeded, job, arg, back>>
        /\ todo'[w] = {}
    BY <1>1, <1>3, <1>12, <2>1, Held DEF Recheck, Finish, Elsewhere
  <2>3. job[w].status # "failed"
    BY <1>1, <2>2 DEF Tidy
  <2> QED
    BY <1>6, <2>1, <2>2, <2>3
<1>13. CASE Complete(w)
  <2>1. PICK d \in Document : d = [job[w] EXCEPT !.status = "completed"]
    BY <1>3, Updates DEF Status
  <2>2. d.id = k /\ d.status = "completed" /\ Honest(d)
    BY <1>1, <1>2, <1>3, <1>13, <2>1 DEF Document, Honest, Tidy, Complete
  <2>3. /\ SaveJob(d) /\ Elsewhere(w) /\ pc[w] = "complete" /\ pc'[w] = "dependents"
        /\ job'[w] = d
        /\ UNCHANGED <<dependents, heap, sched, ahead, succeeded, arg, todo, back>>
    BY <1>1, <1>13, <2>1, Held DEF Complete, Elsewhere, Goto
  <2> QED
    BY <1>5, <1>7, <2>2, <2>3
<1>14. CASE GetDependents(w)
  <2>1. dependents[k] = {}
    BY <1>4 DEF Fine
  <2>2. PICK label \in {"recur", "tail"} : label = NextDependent(w, {})
    BY DEF NextDependent
  <2>3. /\ Elsewhere(w) /\ pc'[w] = label /\ pc[w] = "dependents" /\ todo'[w] = {}
        /\ UNCHANGED <<store, dependents, heap, sched, ahead, succeeded, job, arg, back>>
    BY <1>1, <1>2, <1>14, <2>1, <2>2, Held DEF GetDependents, Elsewhere, Goto
  <2>4. job[w].status # "failed"
    BY <1>1, <2>3 DEF Tidy
  <2> QED
    BY <1>6, <2>2, <2>3, <2>4
<1>15. CASE ScheduleRetry(w)
  <2>1. job[w].retries < MaxRetries /\ Runs(w, k) /\ Brings(w, k)
    BY <1>1, <1>2, <1>15 DEF ScheduleRetry, Sound, Local, Runs, Brings
  <2>2. PICK d \in Document : d = Rescheduled(job[w]) /\ d.id = k /\ d.status = "pending"
    BY <1>2, <1>3, <2>1, RetryUpdate
  <2>3. Honest(d) /\ d.future
    BY <1>1, <1>3, <1>15, <2>2 DEF Document, Honest, Tidy, ScheduleRetry, Rescheduled
  <2>4. /\ Elsewhere(w) /\ SaveJob(d) /\ ahead' = ahead \cup {k}
        /\ pc[w] = "retry_save" /\ pc'[w] = "enqueue" /\ job'[w] = d /\ arg'[w] = d
        /\ back'[w] = "release"
        /\ UNCHANGED <<dependents, heap, sched, todo, succeeded>>
    BY <1>1, <1>15, <2>2, Held DEF ScheduleRetry, CallEnqueue, Elsewhere, Goto
  <2>5. /\ store'[k] = d /\ \A h \in Jobs \ {k} : store'[h] = store[h]
        /\ Created \subseteq Created'
    BY <1>1, <2>2, <2>4, Held DEF SaveJob, Created
  <2>6. Tidy(w)'
    BY <1>1, <1>3, <2>2, <2>3, <2>4, <2>5, Held DEF Tidy, Honest
  <2>7. ASSUME NEW h \in Jobs, h # k PROVE Fine(h)'
    <3>1. SameRedis(h) /\ NoNewRole(w, h)
      BY <1>2, <2>2, <2>4, <2>5, <2>7 DEF SameRedis, SInv, Fine, Honest,
         NoNewRole, Asks, Promotes, Moves, Runs, Saves, Redoes
    <3> QED
      BY <1>1, <2>4, <3>1, Unmoved
  <2>8. Fine(k)'
    <3> USE DEF Brings, Asks, Promotes, Moves, Runs, Saves, Redoes
    <3>1. \A q \in Procs \ {w} : ~Brings(q, k)' /\ ~Promotes(q, k)' /\ ~Runs(q, k)' /\ ~Asks(q, k)'
      BY <1>1, <2>1, <2>4, Alone
    <3>2. ~Promotes(w, k)' /\ ~Runs(w, k)' /\ arg'[w].future /\ pc'[w] = "enqueue"
      BY <1>3, <2>3, <2>4
    <3>3. /\ heap'[k] = 0 /\ sched'[k] = "out" /\ store'[k].status = "pending"
          /\ k \notin succeeded' /\ k \in Created'
      BY <1>3, <1>5, <2>2, <2>4, <2>5
    <3>4. OneEntry(k)' /\ Delayed(k)' /\ Ran(k)'
      BY <3>1, <3>2, <3>3 DEF OneEntry, Delayed, Ran
    <3>5. \A q \in Procs : ~Redoes(q, k)'
      BY <1>1, <2>1, <2>4, Alone
    <3>6. Dead(k)'
      BY <3>3, <3>5 DEF Dead
    <3> QED
      BY <1>4, <2>3, <2>4, <2>5, <3>4, <3>6 DEF Fine, Honest
  <2> QED
    BY <1>1, <2>4, <2>5, <2>6, <2>7, <2>8, AllFine
<1>16. CASE MoveToDlq(w)
  <2>1. pc[w] = "dlq_save" /\ Runs(w, k) /\ Brings(w, k)
    BY <1>2, <1>16 DEF MoveToDlq, Runs, Brings
  <2>2. PICK d \in Document : d = DeadLettered(job[w]) /\ d.id = k /\ d.status = "failed"
    BY <1>2, <1>3, FailedUpdate
  <2>3. Honest(d)
    BY <1>1, <1>2, <1>3, <2>1, <2>2 DEF Document, Honest, Tidy, DeadLettered
  <2>4. /\ Elsewhere(w) /\ SaveJob(d) /\ pc'[w] = "release" /\ job'[w] = d
        /\ UNCHANGED <<dependents, heap, sched, ahead, arg, todo, back, succeeded>>
    BY <1>1, <1>16, <2>2, Held DEF MoveToDlq, Elsewhere, Goto
  <2>5. /\ store'[k] = d /\ \A h \in Jobs \ {k} : store'[h] = store[h]
        /\ Created \subseteq Created'
    BY <1>1, <2>2, <2>4, Held DEF SaveJob, Created
  <2>6. Tidy(w)'
    BY <1>1, <1>3, <2>1, <2>2, <2>3, <2>4, <2>5, Held DEF Tidy, Honest
  <2>7. ASSUME NEW h \in Jobs, h # k PROVE Fine(h)'
    <3>1. SameRedis(h) /\ NoNewRole(w, h)
      BY <1>2, <2>2, <2>4, <2>5, <2>7 DEF SameRedis, SInv, Fine, Honest,
         NoNewRole, Asks, Promotes, Moves, Runs, Saves, Redoes
    <3> QED
      BY <1>1, <2>4, <3>1, Unmoved
  <2>8. Fine(k)'
    <3> USE DEF Brings, Asks, Promotes, Moves, Runs, Saves, Redoes
    <3>1. \A q \in Procs \ {w} : ~Brings(q, k)'
      BY <1>1, <2>1, <2>4, Alone
    <3>2. ~Brings(w, k)' /\ ~Saves(w, k)' /\ ~Redoes(w, k)'
      BY <1>3, <2>4
    <3>3. \A q \in Procs : ~Brings(q, k)' /\ ~Saves(q, k)'
      BY <3>1, <3>2 DEF Solo, Procs
    <3>4. /\ heap'[k] = 0 /\ sched'[k] = "out" /\ store'[k].status = "failed"
          /\ k \notin succeeded' /\ k \notin ahead'
      BY <1>5, <2>1, <2>2, <2>4, <2>5
    <3>5. OneEntry(k)' /\ Delayed(k)' /\ Ran(k)' /\ Dead(k)'
      BY <3>3, <3>4 DEF OneEntry, Delayed, Ran, Dead
    <3> QED
      BY <1>4, <2>3, <2>4, <2>5, <3>5 DEF Fine, Honest
  <2> QED
    BY <1>1, <2>4, <2>5, <2>6, <2>7, <2>8, AllFine
<1> QED
  BY <1>8, <1>9, <1>10, <1>11, <1>12, <1>13, <1>14, <1>15, <1>16

(* A fresh document is in nobody's hands and in no queue.                  *)
LEMMA Unknown ==
  ASSUME SInv, NEW j \in Jobs \ Created
  PROVE  /\ heap[j] = 0 /\ sched[j] = "out" /\ j \notin ahead /\ j \notin succeeded
         /\ \A p \in Procs : arg[p].id # j /\ job[p].id # j /\ j \notin todo[p]
BY DEF SInv, Fine, OneEntry, Delayed, Ran, Tidy

(* p creates k, and is the first to have it.                               *)
LEMMA CreateKeeps ==
  ASSUME Solo, TypeOK, SInv, NEW p \in Procs, Elsewhere(p),
         NEW k \in Jobs \ Created, NEW later \in BOOLEAN,
         SaveJob(NewJob(k, later)), arg'[p] = NewJob(k, later), pc'[p] = "enqueue",
         back'[p] = IF p \in Workers THEN "tail" ELSE "idle",
         pc[p] = IF p \in Workers THEN "recur" ELSE "idle",
         ahead' = IF later THEN ahead \cup {k} ELSE ahead,
         UNCHANGED <<dependents, heap, sched, job, todo, succeeded>>
  PROVE  SInv'
<1> USE DEF ArgLabels, ClientLabels, WorkerLabels, AskLabels, PromoteLabels, RunLabels
<1>1. Tidy(p) /\ Fine(k)
  BY Held DEF SInv
<1>2. PICK d \in Document : /\ d = NewJob(k, later) /\ d.id = k /\ d.status = "pending"
                           /\ ~d.in_dlq /\ d.future = later
  BY NewDocuments DEF NewJob
<1>3. /\ store'[k] = d /\ \A h \in Jobs \ {k} : store'[h] = store[h]
      /\ Created' = Created \cup {k} /\ Honest(d)
  BY <1>2, Held DEF SaveJob, Created, Honest
<1>4. /\ heap[k] = 0 /\ sched[k] = "out" /\ k \notin ahead /\ k \notin succeeded
      /\ \A q \in Procs : arg[q].id # k /\ job[q].id # k /\ k \notin todo[q]
  BY Unknown
<1>5. Tidy(p)'
  BY <1>1, <1>2, <1>3, <1>4, Held DEF Tidy, Honest
<1>6. ASSUME NEW h \in Jobs, h # k PROVE Fine(h)'
  <2>1. SameRedis(h) /\ NoNewRole(p, h)
    BY <1>1, <1>2, <1>3, <1>6, Held DEF SameRedis, SInv, Fine, Honest, Tidy,
       NoNewRole, Asks, Promotes, Moves, Runs, Saves, Redoes
  <2> QED
    BY <2>1, Unmoved
<1>7. Fine(k)'
  <2> USE DEF Brings, Asks, Promotes, Moves, Runs, Saves, Redoes
  <2>1. \A q \in Procs : /\ ~Promotes(q, k)' /\ ~Runs(q, k)' /\ ~Redoes(q, k)'
                         /\ Asks(q, k)' => q = p
    BY <1>4 DEF Elsewhere
  <2>2. pc'[p] = "enqueue" /\ arg'[p].future = later
    BY <1>2
  <2>3. OneEntry(k)' /\ Delayed(k)' /\ Ran(k)' /\ Dead(k)'
    BY <1>2, <1>3, <1>4, <2>1, <2>2 DEF OneEntry, Delayed, Ran, Dead
  <2> QED
    BY <1>1, <1>3, <2>3 DEF Fine, Honest
<1> QED
  BY <1>3, <1>5, <1>6, <1>7, AllFine

(* The successor of a recurring job takes an unused identifier.            *)
LEMMA RecurKeeps ==
  ASSUME Solo, TypeOK, SInv, NEW w \in Workers, Recur(w)
  PROVE  SInv'
<1> USE DEF ArgLabels, ClientLabels, WorkerLabels, AskLabels, PromoteLabels, RunLabels
<1>1. Tidy(w) /\ w \in Procs /\ pc[w] = "recur"
  BY Held DEF Procs, Recur
<1>2. CASE \E k \in Spare \ Created : /\ SaveJob(NewJob(k, TRUE))
                                     /\ ahead' = ahead \cup {k}
                                     /\ CallEnqueue(w, NewJob(k, TRUE), "tail")
  <2>1. PICK k \in Jobs \ Created : /\ SaveJob(NewJob(k, TRUE))
                                   /\ ahead' = ahead \cup {k}
                                   /\ CallEnqueue(w, NewJob(k, TRUE), "tail")
    BY <1>2, ServiceAssumption
  <2>2. /\ Elsewhere(w) /\ arg'[w] = NewJob(k, TRUE) /\ pc'[w] = "enqueue"
        /\ back'[w] = "tail" /\ UNCHANGED <<dependents, heap, sched, job, todo, succeeded>>
    <3>1. UNCHANGED <<dependents, heap, sched, job, todo, succeeded>>
      BY <1>1 DEF Recur
    <3> QED
      BY <1>1, <2>1, <3>1, Held DEF Elsewhere, CallEnqueue, Goto
  <2> QED
    BY <1>1, <2>1, <2>2, CreateKeeps
<1>3. CASE Goto(w, "tail") /\ UNCHANGED <<store, ahead, arg, back>>
  <2>1. /\ Elsewhere(w) /\ pc'[w] = "tail"
        /\ UNCHANGED <<store, dependents, heap, sched, ahead, arg, back, job, todo, succeeded>>
    BY <1>1, <1>3, Held DEF Elsewhere, Goto, Recur
  <2>2. Tidy(w)'
    BY <1>1, <2>1 DEF Tidy, Honest, Created
  <2>3. ASSUME NEW h \in Jobs PROVE NoNewRole(w, h)
    BY <2>1 DEF NoNewRole, Asks, Promotes, Moves, Runs, Saves, Redoes
  <2> QED
    BY <1>1, <2>1, <2>2, <2>3, QuietKeeps
<1> QED
  BY <1>2, <1>3 DEF Recur

(* Requests.                                                               *)
LEMMA RequestKeeps ==
  ASSUME Solo, TypeOK, SInv, NEW c \in Clients,
         \/ CreateSave(c) \/ CreateRegister(c)
         \/ CancelGet(c) \/ CancelSave(c) \/ CancelRemove(c)
         \/ RetryGet(c) \/ RetrySave(c)
  PROVE  SInv'
<1> USE DEF ArgLabels, ClientLabels, WorkerLabels, AskLabels, PromoteLabels, RunLabels
<1>1. Tidy(c) /\ c \in Procs /\ c \notin Workers
  BY Held DEF Procs
<1>2. PICK j \in Jobs \cup {NoJob} : j = arg[c].id
  BY <1>1, Held DEF Document
<1>3. CASE CreateSave(c)
  <2>1. PICK k \in Jobs \ Created, later \in Delays :
          /\ SaveJob(NewJob(k, later))
          /\ ahead' = IF later THEN ahead \cup {k} ELSE ahead
          /\ IF DependsOn[k] = {}
               THEN CallEnqueue(c, NewJob(k, later), "idle")
               ELSE /\ arg' = [arg EXCEPT ![c] = NewJob(k, later)]
                    /\ Goto(c, "register")
                    /\ UNCHANGED back
    BY <1>3 DEF CreateSave
  <2>2. later \in BOOLEAN /\ CallEnqueue(c, NewJob(k, later), "idle")
    BY <2>1, ServiceAssumption DEF Solo
  <2>3. /\ Elsewhere(c) /\ arg'[c] = NewJob(k, later) /\ pc[c] = "idle" /\ pc'[c] = "enqueue"
        /\ back'[c] = "idle" /\ UNCHANGED <<dependents, heap, sched, job, todo, succeeded>>
    BY <1>1, <1>3, <2>2, Held DEF Elsewhere, CallEnqueue, Goto, CreateSave
  <2> QED
    BY <1>1, <2>1, <2>2, <2>3, CreateKeeps
<1>4. CASE CreateRegister(c)
  BY <1>1, <1>4 DEF CreateRegister, Tidy
<1>5. CASE CancelGet(c)
  <2>1. PICK k \in Created :
          /\ store[k].status \notin {"completed", "failed", "cancelled"}
          /\ arg' = [arg EXCEPT ![c] = [store[k] EXCEPT !.status = "cancelled"]]
    BY <1>5 DEF CancelGet
  <2>2. PICK d \in Document : d = [store[k] EXCEPT !.status = "cancelled"]
    BY Updates, Held, <1>1 DEF Created, Status
  <2>3. k \in Jobs /\ d.id = k /\ d.status = "cancelled" /\ Honest(d)
    BY <1>1, <2>1, <2>2, Held DEF Document, Created, SInv, Fine, Honest
  <2>4. /\ Elsewhere(c) /\ UNCHANGED <<redisVars, job, todo, back, history>>
        /\ pc[c] = "idle" /\ pc'[c] = "cancel_save" /\ arg'[c] = d
    BY <1>1, <1>5, <2>1, <2>2, Held DEF Elsewhere, CancelGet, Goto
  <2>5. Tidy(c)'
    BY <1>1, <2>1, <2>3, <2>4 DEF Tidy, Honest, Created
  <2>6. ASSUME NEW h \in Jobs PROVE NoNewRole(c, h)
    BY <1>1, <2>4 DEF NoNewRole, Asks, Promotes, Moves, Runs, Saves, Redoes
  <2> QED
    BY <1>1, <2>4, <2>5, <2>6, QuietKeeps
<1>6. CASE CancelSave(c)
  <2>1. /\ Elsewhere(c) /\ UNCHANGED <<dependents, queueVars, localVars, history>>
        /\ SaveJob(arg[c]) /\ pc[c] = "cancel_save" /\ pc'[c] = "cancel_remove"
    BY <1>1, <1>6, Held DEF Elsewhere, CancelSave, Goto
  <2>2. /\ j \in Jobs /\ j \in Created /\ arg[c] \in Document /\ Honest(arg[c])
        /\ arg[c].status \notin {"absent", "failed"}
    BY <1>1, <1>2, <2>1, Held DEF Tidy
  <2>3. Tidy(c)'
    BY <1>1, <1>2, <2>1, <2>2, Held DEF Tidy, Honest, Created, SaveJob
  <2>4. ASSUME NEW h \in Jobs PROVE NoNewRole(c, h)
    BY <1>1, <2>1 DEF NoNewRole, Asks, Promotes, Moves, Runs, Saves, Redoes
  <2> QED
    BY <1>1, <1>2, <2>1, <2>2, <2>3, <2>4, SaveKeeps
<1>7. CASE CancelRemove(c)
  <2>1. /\ Elsewhere(c) /\ UNCHANGED <<store, dependents, ahead, job, todo, back, history>>
        /\ pc[c] = "cancel_remove" /\ pc'[c] = "idle" /\ arg'[c] = NoDocument
        /\ \A h \in Jobs : heap'[h] \in {heap[h], 0} /\ sched'[h] \in {sched[h], "out"}
    BY <1>1, <1>7, Held DEF Elsewhere, CancelRemove, Remove, Goto
  <2>2. Tidy(c)'
    BY <1>1, <2>1, Held DEF Tidy, Honest, Created
  <2>3. ASSUME NEW h \in Jobs PROVE NoNewRole(c, h)
    BY <1>1, <2>1, Held DEF NoNewRole, Asks, Promotes, Moves, Runs, Saves, Redoes
  <2> QED
    BY <1>1, <2>1, <2>2, <2>3, QuietKeeps
<1>8. CASE RetryGet(c)
  <2>1. PICK k \in Created : /\ store[k].in_dlq
                             /\ arg' = [arg EXCEPT ![c] = Retried(store[k])]
    BY <1>8 DEF RetryGet, Retriable
  <2>2. PICK d \in Document : d = Retried(store[k]) /\ d.id = k /\ d.status = "pending"
    BY DlqUpdate, Held, <1>1 DEF Created
  <2>3. k \in Jobs /\ Honest(d) /\ store[k].status = "failed"
    BY <1>1, <2>1, <2>2, Held DEF Document, Created, SInv, Fine, Honest, Retried
  <2>4. /\ Elsewhere(c) /\ UNCHANGED <<redisVars, job, todo, back, history>>
        /\ pc[c] = "idle" /\ pc'[c] = "dlq_retry_save" /\ arg'[c] = d
        /\ "retry" \in Requests
    BY <1>1, <1>8, <2>1, <2>2, Held DEF Elsewhere, RetryGet, Goto
  <2>5. Tidy(c)' /\ Created' = Created
    BY <1>1, <2>1, <2>2, <2>3, <2>4 DEF Tidy, Honest, Created
  <2>6. ASSUME NEW h \in Jobs, h # k PROVE Fine(h)'
    <3>1. SameRedis(h) /\ NoNewRole(c, h)
      BY <1>1, <2>2, <2>4, <2>5, <2>6
         DEF SameRedis, SInv, Fine, Honest, NoNewRole, Asks, Promotes, Moves, Runs, Saves, Redoes
    <3> QED
      BY <1>1, <2>4, <3>1, Unmoved
  <2>7. Fine(k)'
    <3> USE DEF Brings, Asks, Promotes, Moves, Runs, Saves, Redoes
    <3>1. /\ Fine(k) /\ heap[k] = 0 /\ sched[k] = "out" /\ k \notin ahead /\ k \notin succeeded
          /\ \A q \in Procs : ~Brings(q, k) /\ ~Saves(q, k)
      BY <2>3 DEF SInv, Fine, Dead, Delayed, Ran
    <3>2. \A q \in Procs : ~Brings(q, k)' /\ ~Saves(q, k)'
      BY <1>1, <2>4, <3>1 DEF Elsewhere
    <3>3. OneEntry(k)' /\ Delayed(k)' /\ Ran(k)' /\ Dead(k)'
      BY <2>3, <2>4, <3>1, <3>2 DEF OneEntry, Delayed, Ran, Dead
    <3> QED
      BY <2>4, <3>1, <3>3 DEF Fine, Honest
  <2> QED
    BY <1>1, <2>4, <2>5, <2>6, <2>7, AllFine
<1>9. CASE RetrySave(c)
  <2>1. /\ Elsewhere(c) /\ UNCHANGED <<dependents, queueVars, job, todo, history>>
        /\ SaveJob(arg[c]) /\ pc[c] = "dlq_retry_save" /\ pc'[c] = "enqueue"
        /\ arg' = arg /\ back'[c] = "idle"
    BY <1>1, <1>9, Held DEF Elsewhere, RetrySave, CallEnqueue, Goto
  <2>2. /\ j \in Jobs /\ j \in Created /\ arg[c] \in Document /\ Honest(arg[c])
        /\ arg[c].status \notin {"absent", "failed"} /\ Redoes(c, j)
    BY <1>1, <1>2, <2>1, Held DEF Tidy, Redoes
  <2>3. /\ store'[j] = arg[c] /\ \A h \in Jobs \ {j} : store'[h] = store[h]
        /\ Created' = Created
    BY <1>1, <1>2, <2>1, <2>2, Held DEF SaveJob, Created
  <2>4. Tidy(c)'
    BY <1>1, <1>2, <2>1, <2>2, <2>3, Held DEF Tidy, Honest
  <2>5. ASSUME NEW h \in Jobs, h # j PROVE Fine(h)'
    <3>1. SameRedis(h) /\ NoNewRole(c, h)
      BY <1>1, <1>2, <2>1, <2>3, <2>5
         DEF SameRedis, SInv, Fine, Honest, NoNewRole, Asks, Promotes, Moves, Runs, Saves, Redoes
    <3> QED
      BY <1>1, <2>1, <3>1, Unmoved
  <2>6. Fine(j)'
    <3>1. /\ Fine(j) /\ heap[j] = 0 /\ sched[j] = "out" /\ j \notin ahead /\ j \notin succeeded
          /\ store[j].status = "failed" /\ \A q \in Procs : ~Brings(q, j)
      BY <1>1, <2>2 DEF SInv, Fine, Dead, Delayed, Ran
    <3> USE DEF Brings, Asks, Promotes, Moves, Runs, Saves, Redoes
    <3>2. \A q \in Procs \ {c} : ~Brings(q, j)'
      BY <2>1, <3>1 DEF Elsewhere
    <3>3. \A q \in Procs : ~Redoes(q, j)'
      <4>1. ASSUME NEW q \in Procs, q # c, pc[q] = "dlq_retry_save" PROVE FALSE
        BY <1>1, <2>1, <4>1 DEF SInv, Tidy, Procs, Solo
      <4> QED
        BY <2>1, <4>1 DEF Elsewhere
    <3>4. ~Promotes(c, j)' /\ ~Runs(c, j)'
      BY <1>1, <2>1 DEF Tidy
    <3>5. OneEntry(j)'
      BY <2>1, <2>2, <2>3, <3>1, <3>2, <3>4 DEF OneEntry
    <3>6. Delayed(j)' /\ Ran(j)' /\ Dead(j)'
      BY <2>1, <2>2, <2>3, <3>1, <3>3 DEF Delayed, Ran, Dead
    <3> QED
      BY <2>1, <2>2, <2>3, <3>1, <3>5, <3>6 DEF Fine, Honest
  <2> QED
    BY <1>1, <2>1, <2>3, <2>4, <2>5, <2>6, AllFine
<1> QED
  BY <1>3, <1>4, <1>5, <1>6, <1>7, <1>8, <1>9

(* Time.                                                                   *)
LEMMA TimeKeeps ==
  ASSUME TypeOK, SInv, NEW i \in Jobs, Time(i)
  PROVE  SInv'
<1>1. CASE LockExpires(i)
  <2>1. UNCHANGED <<pc, store, dependents, heap, sched, ahead, localVars, history>>
    BY <1>1 DEF Time, LockExpires
  <2>2. ASSUME NEW j \in Jobs PROVE Fine(j)'
    BY <2>1 DEF SInv, Fine, OneEntry, Delayed, Ran, Dead, Honest, Created,
       Brings, Asks, Promotes, Moves, Runs, Saves, Redoes
  <2>3. ASSUME NEW p \in Procs PROVE Tidy(p)'
    BY <2>1 DEF SInv, Tidy, Honest, Created
  <2> QED
    BY <2>2, <2>3 DEF SInv
<1>2. CASE Due(i)
  <2> DEFINE Pass(d) == IF d.id = i THEN [d EXCEPT !.future = FALSE] ELSE d
  <2>1. ASSUME NEW d \in Document
        PROVE  /\ Pass(d).id = d.id /\ Pass(d).status = d.status
               /\ Pass(d).retries = d.retries /\ Pass(d).in_dlq = d.in_dlq
               /\ d.id # i => Pass(d).future = d.future
    BY DEF Document
  <2> HIDE DEF Pass
  <2>2. /\ UNCHANGED <<pc, dependents, heap, todo, back, succeeded>>
        /\ ahead' = ahead \ {i} /\ store' = [store EXCEPT ![i].future = FALSE]
        /\ sched' = [sched EXCEPT ![i] = IF @ = "future" THEN "due" ELSE @]
        /\ job' = [p \in Procs |-> Pass(job[p])]
        /\ arg' = [p \in Procs |-> Pass(arg[p])]
    BY <1>2 DEF Time, Due, Pass
  <2>3. \A p \in Procs :
          /\ job'[p].id = job[p].id /\ job'[p].status = job[p].status
          /\ job'[p].retries = job[p].retries /\ job'[p].in_dlq = job[p].in_dlq
          /\ arg'[p].id = arg[p].id /\ arg'[p].status = arg[p].status
          /\ arg'[p].retries = arg[p].retries /\ arg'[p].in_dlq = arg[p].in_dlq
          /\ arg[p].id # i => arg'[p].future = arg[p].future
    BY <2>1, <2>2 DEF TypeOK
  <2>4. \A j \in Jobs :
          /\ store'[j].id = store[j].id /\ store'[j].status = store[j].status
          /\ store'[j].retries = store[j].retries /\ store'[j].in_dlq = store[j].in_dlq
          /\ sched'[j] = "out" <=> sched[j] = "out"
          /\ j # i => sched'[j] = sched[j]
    BY <2>2 DEF TypeOK, Document
  <2>5. Created' = Created
    BY <2>4 DEF Created
  <2>6. ASSUME NEW j \in Jobs PROVE Fine(j)'
    <3> USE DEF Brings, Asks, Promotes, Moves, Runs, Saves, Redoes
    <3>1. Fine(j)
      BY DEF SInv
    <3>2. OneEntry(j)'
      BY <2>2, <2>3, <2>4, <2>5, <3>1 DEF Fine, OneEntry
    <3>3. Ran(j)' /\ Dead(j)'
      BY <2>2, <2>3, <2>4, <2>5, <3>1 DEF Fine, Ran, Dead
    <3>4. Delayed(j)'
      BY <2>2, <2>3, <2>4, <2>5, <3>1 DEF Fine, Delayed
    <3>5. Honest(store[j])' /\ dependents'[j] = {}
      BY <2>2, <2>4, <3>1 DEF Fine, Honest
    <3> QED
      BY <3>2, <3>3, <3>4, <3>5 DEF Fine
  <2>7. ASSUME NEW p \in Procs PROVE Tidy(p)'
    <3>1. Tidy(p) /\ Honest(job[p])' /\ Honest(arg[p])'
      BY <2>3 DEF SInv, Tidy, Honest
    <3> QED
      BY <2>2, <2>3, <2>5, <3>1 DEF Tidy
  <2> QED
    BY <2>6, <2>7 DEF SInv
<1> QED
  BY <1>1, <1>2 DEF Time

(* At first there are no jobs.                                             *)
LEMMA InitSolo == Init => SInv
<1> SUFFICES ASSUME Init PROVE SInv
  OBVIOUS
<1>1. /\ \A j \in Jobs : /\ store[j] = Absent(j) /\ heap[j] = 0 /\ sched[j] = "out"
                         /\ dependents[j] = {}
      /\ \A p \in Procs : /\ pc[p] = "idle" /\ back[p] = "idle" /\ todo[p] = {}
                          /\ job[p] = NoDocument /\ arg[p] = NoDocument
      /\ ahead = {} /\ succeeded = {}
  BY DEF Init, StoreInit, SchedulerInit
<1>2. /\ NoDocument.id = NoJob /\ NoJob \notin Jobs /\ NoDocument.status = "absent"
      /\ Honest(NoDocument)
      /\ \A j \in Jobs : Absent(j).status = "absent" /\ Honest(Absent(j))
  BY StoreAssumption DEF NoDocument, Absent, NewJob, Honest
<1>3. ASSUME NEW j \in Jobs PROVE Fine(j)
  BY <1>1, <1>2 DEF Fine, OneEntry, Delayed, Ran, Dead, Brings, Asks, Promotes, Moves,
     Runs, Saves, Redoes, AskLabels, RunLabels
<1>4. ASSUME NEW p \in Procs PROVE Tidy(p)
  BY <1>1, <1>2 DEF Tidy, ArgLabels, ClientLabels, WorkerLabels, AskLabels, PromoteLabels,
     RunLabels
<1> QED
  BY <1>3, <1>4 DEF SInv

(* Every step keeps SInv.                                                  *)
LEMMA StepSolo ==
  ASSUME Solo, TypeOK, Sound, SInv, [Next]_vars
  PROVE  SInv'
<1>1. CASE UNCHANGED vars
  <2>1. UNCHANGED <<pc, store, dependents, heap, sched, ahead, localVars, succeeded>>
    BY <1>1 DEF vars
  <2>2. ASSUME NEW j \in Jobs PROVE Fine(j)'
    BY <2>1 DEF SInv, Fine, OneEntry, Delayed, Ran, Dead, Honest, Created,
       Brings, Asks, Promotes, Moves, Runs, Saves, Redoes
  <2>3. ASSUME NEW p \in Procs PROVE Tidy(p)'
    BY <2>1 DEF SInv, Tidy, Honest, Created
  <2> QED
    BY <2>2, <2>3 DEF SInv
<1>2. ASSUME NEW w \in Workers, WorkerStep(w) PROVE SInv'
  <2>1. w \in Procs /\ Tidy(w)
    BY DEF Procs, SInv
  <2>2. CASE UnlockGet(w) \/ UnlockDeps(w)
    BY <2>1, <2>2 DEF UnlockGet, UnlockDeps, Tidy, WorkerLabels, AskLabels, PromoteLabels,
       RunLabels
  <2>3. CASE EnqueueStep(w) /\ UNCHANGED history
    BY <2>1, <2>3, EnqueueKeeps
  <2>4. CASE (DequeueStep(w) \/ ReleaseLock(w)) /\ UNCHANGED history
    BY <2>4, DequeueKeeps
  <2>5. CASE Recur(w)
    BY <2>5, RecurKeeps
  <2>6. CASE \/ Acquire(w) \/ Start(w) \/ HandlerReturns(w) \/ HandlerRaises(w)
             \/ Recheck(w) \/ Complete(w) \/ GetDependents(w)
             \/ Finish(w) \/ ScheduleRetry(w) \/ MoveToDlq(w)
    BY <2>6, RunKeeps
  <2> QED
    BY <1>2, <2>2, <2>3, <2>4, <2>5, <2>6 DEF WorkerStep, ProcessStep
<1>3. ASSUME NEW c \in Clients, Arrive(c) \/ RequestStep(c) PROVE SInv'
  <2>1. CASE EnqueueStep(c) /\ UNCHANGED history
    BY <2>1, EnqueueKeeps DEF Procs
  <2> QED
    BY <1>3, <2>1, RequestKeeps DEF Arrive, RequestStep
<1>4. ASSUME NEW j \in Jobs, Time(j) PROVE SInv'
  BY <1>4, TimeKeeps
<1>5. /\ \A w \in Workers : ~RaiseInTry(w)
      /\ \A p \in Procs : ~Abort(p)
  BY DEF Solo, RaiseInTry, Abort
<1> QED
  BY <1>1, <1>2, <1>3, <1>4, <1>5 DEF Next

(* SInv is an invariant.                                                   *)
LEMMA SoloAlways ==
  ASSUME Solo
  PROVE  Spec => [](TypeOK /\ Sound /\ SInv)
<1>1. Init => SInv
  BY InitSolo
<1>2. SInv /\ (TypeOK /\ Sound) /\ [Next]_vars => SInv'
  BY StepSolo
<1>3. Spec => [](TypeOK /\ Sound)
  BY SoundAlways
<1> QED
  BY <1>1, <1>2, <1>3, PTL DEF Spec

(* Section 4.1, scheduled_at: with one worker and independent jobs, no run *)
(* starts before the instant last set for its job.                         *)
THEOREM NothingRunsEarly ==
  ASSUME Solo
  PROVE  Spec => []NeverEarly
<1>1. ASSUME TypeOK, SInv, NEW w \in Workers, pc[w] = "start", job[w].id \in ahead PROVE FALSE
  <2>1. PICK j \in Jobs : j = job[w].id
    BY <1>1 DEF TypeOK
  <2>2. Runs(w, j) /\ j \in ahead /\ w \in Procs
    BY <1>1, <2>1 DEF Runs, RunLabels, Procs
  <2> QED
    BY <1>1, <2>2 DEF SInv, Fine, Delayed
<1>2. TypeOK /\ SInv => NeverEarly
  BY <1>1 DEF NeverEarly
<1> QED
  BY <1>2, SoloAlways, PTL

(* A job whose handler has succeeded is not started again.                 *)
THEOREM SuccessIsLast ==
  ASSUME Solo
  PROVE  Spec => []RunsOnce
<1>1. ASSUME TypeOK, SInv, NEW w \in Workers, pc[w] \in {"start", "run"},
             job[w].id \in succeeded
      PROVE  FALSE
  <2>1. PICK j \in Jobs : j = job[w].id
    BY <1>1 DEF TypeOK
  <2>2. Runs(w, j) /\ j \in succeeded /\ w \in Procs
    BY <1>1, <2>1 DEF Runs, RunLabels, Procs
  <2> QED
    BY <1>1, <2>2 DEF SInv, Fine, Ran
<1>2. TypeOK /\ SInv => RunsOnce
  BY <1>1 DEF RunsOnce
<1> QED
  BY <1>2, SoloAlways, PTL

(* Section 7.2: the dead-letter queue is the set of the failed jobs, and   *)
(* each of them has used up its retries or has no handler.                 *)
THEOREM DlqHoldsTheFailed ==
  ASSUME Solo
  PROVE  Spec => []DlqMeansFailed
<1>1. TypeOK /\ SInv => DlqMeansFailed
  BY DEF TypeOK, SInv, Fine, Honest, DlqMeansFailed
<1> QED
  BY <1>1, SoloAlways, PTL

(***************************************************************************)
(* Section 9.2: every success of a recurring job begets one successor.     *)
(*                                                                         *)
(* With two clients one of them can overwrite, when it ends its enqueue,   *)
(* the cancel of the other for which a result was discarded; then nothing  *)
(* tells that success from one that has its successor.                     *)
(***************************************************************************)
Alike ==
  /\ Solo
  /\ \A b, c \in Clients : b = c
  /\ IsFiniteSet(Spare)
  /\ \A j \in Recurring, k \in Spare : Priority[j] = Priority[k]

(* From the return of the handler to the birth of the successor.           *)
Late == {"recheck", "complete", "dependents", "recur"}

Finishes(j) == \E w \in Workers : pc[w] \in Late /\ job[w].id = j

AtMostSpare(n) == IF n < Cardinality(Spare) THEN n ELSE Cardinality(Spare)

(* R are the successes that have begotten.                                 *)
Begot(R) ==
  /\ R \subseteq succeeded \cap Recurring
  /\ \A j \in R : ~Finishes(j)
  /\ \A j \in (succeeded \cap Recurring) \ R : Finishes(j) \/ store[j].status = "cancelled"
  /\ Cardinality(Created \cap Spare) = AtMostSpare(Cardinality(R))

(* A worker writes back no job that succeeded but the one it finishes, and *)
(* never writes a cancel.                                                  *)
Prepared(w) ==
  /\ arg[w].id \notin succeeded
  /\ job[w].status # "cancelled"
  /\ arg[w].status = "cancelled" => pc[w] = "promote_zrem"
  /\ pc[w] \in Late => job[w].id \in succeeded
  /\ pc[w] = "recur" => job[w].id \in Recurring

(* A client that writes back a job other than as cancelled has no cancel   *)
(* to undo.                                                                *)
Unhurried(c) ==
  /\ pc[c] \in EnqueueLabels \cup {"dlq_retry_save"} =>
       arg[c].status # "cancelled" /\ store[arg[c].id].status # "cancelled"
  /\ pc[c] = "cancel_save" => arg[c].status = "cancelled"

RInv ==
  /\ IsFiniteSet(succeeded)
  /\ \E R \in SUBSET Jobs : Begot(R)
  /\ \A w \in Workers : Prepared(w)
  /\ \A c \in Clients : Unhurried(c)

(* The account stays balanced while no success is added or accounted for.  *)
LEMMA BegotKept ==
  ASSUME NEW R \in SUBSET Jobs, Begot(R), succeeded' = succeeded,
         Created' \cap Spare = Created \cap Spare,
         \A j \in succeeded \cap Recurring :
           /\ Finishes(j)' => Finishes(j)
           /\ Finishes(j) => Finishes(j)' \/ store'[j].status = "cancelled"
           /\ store[j].status = "cancelled" => store'[j].status = "cancelled" \/ Finishes(j)
  PROVE  Begot(R)'
<1>1. Cardinality(Created' \cap Spare) = AtMostSpare(Cardinality(R))
  BY DEF Begot
<1>2. \A j \in R : ~Finishes(j)'
  BY DEF Begot
<1>3. \A j \in (succeeded \cap Recurring) \ R : Finishes(j)' \/ store'[j].status = "cancelled"
  BY DEF Begot
<1> QED
  BY <1>1, <1>2, <1>3 DEF Begot, AtMostSpare

(* A step of the worker that neither ends a run nor begets a successor.    *)
LEMMA WorkerKeepsAccount ==
  ASSUME Alike, TypeOK, SInv, RInv, NEW w \in Workers, Elsewhere(w), Prepared(w)',
         succeeded' = succeeded,
         \/ store' = store
         \/ \E d \in Document :
              /\ SaveJob(d) /\ d.id \in Created /\ d.status \notin {"absent", "cancelled"}
              /\ d.id \in succeeded => pc[w] \in Late /\ job[w].id = d.id,
         pc'[w] \in Late => pc[w] \in Late /\ job'[w].id = job[w].id,
         pc[w] \in Late => \/ pc'[w] \in Late
                           \/ job[w].id \notin Recurring
                           \/ store'[job[w].id].status = "cancelled"
  PROVE  RInv'
<1>1. w \in Procs /\ w \notin Clients /\ \A v \in Workers : v = w
  BY StoreAssumption DEF Procs, Alike, Solo
<1>2. Created' = Created
  BY DEF Created, SaveJob, TypeOK
<1>3. \A j \in succeeded :
        store[j].status = "cancelled" => store'[j].status = "cancelled" \/ Finishes(j)
  BY <1>1 DEF SaveJob, TypeOK, Finishes
<1>4. ASSUME NEW j \in succeeded \cap Recurring
      PROVE  /\ Finishes(j)' => Finishes(j)
             /\ Finishes(j) => Finishes(j)' \/ store'[j].status = "cancelled"
  BY <1>1 DEF Finishes
<1>5. PICK R \in SUBSET Jobs : Begot(R)
  BY DEF RInv
<1>6. Begot(R)'
  BY <1>2, <1>3, <1>4, <1>5, BegotKept
<1>7. ASSUME NEW c \in Clients PROVE Unhurried(c)'
  <2>1. /\ Unhurried(c) /\ c \in Procs \ {w}
        /\ pc[c] \in EnqueueLabels \cup {"dlq_retry_save"} => arg[c].id \in Jobs
    BY <1>1, Held DEF RInv, Procs, Tidy, EnqueueLabels, ArgLabels, ClientLabels, AskLabels
  <2>2. \A j \in Jobs : store[j].status # "cancelled" => store'[j].status # "cancelled"
    BY DEF SaveJob, TypeOK
  <2> QED
    BY <2>1, <2>2 DEF Unhurried, Elsewhere
<1> QED
  BY <1>1, <1>6, <1>7 DEF RInv

(* A step of the client.                                                   *)
LEMMA ClientKeepsAccount ==
  ASSUME Alike, TypeOK, SInv, RInv, NEW c \in Clients, Elsewhere(c), Unhurried(c)',
         succeeded' = succeeded, Created' \cap Spare = Created \cap Spare,
         \A j \in Created : store[j].status = "cancelled" => store'[j].status = "cancelled"
  PROVE  RInv'
<1>1. c \in Procs /\ c \notin Workers /\ \A b \in Clients : b = c
  BY StoreAssumption DEF Procs, Alike, Solo
<1>2. \A w \in Workers : /\ pc'[w] = pc[w] /\ job'[w] = job[w] /\ arg'[w] = arg[w]
                        /\ w \in Procs
  BY <1>1 DEF Elsewhere, Procs
<1>3. \A j : Finishes(j)' <=> Finishes(j)
  BY <1>2 DEF Finishes
<1>4. PICK R \in SUBSET Jobs : Begot(R)
  BY DEF RInv
<1>5. succeeded \subseteq Created
  BY DEF TypeOK, SInv, Fine, Ran
<1>6. Begot(R)'
  BY <1>3, <1>4, <1>5, BegotKept
<1>7. \A w \in Workers : Prepared(w)'
  BY <1>2 DEF RInv, Prepared
<1> QED
  BY <1>1, <1>6, <1>7 DEF RInv

(* enqueue, called by the worker or the client.                            *)
LEMMA EnqueueBalanced ==
  ASSUME Alike, TypeOK, SInv, RInv, NEW p \in Procs, EnqueueStep(p), UNCHANGED history
  PROVE  RInv'
<1> USE DEF ArgLabels, ClientLabels, WorkerLabels, AskLabels, PromoteLabels, RunLabels
<1>1. Tidy(p) /\ (p \in Workers \/ p \in Clients) /\ Solo
  BY Held DEF Alike
<1>2. PICK j \in Jobs : j = arg[p].id
  BY <1>1, Held DEF Tidy, EnqueueStep, Enqueue, EnqueueLaterSave, EnqueueLaterZadd,
     EnqueueDeps, EnqueueZadd, EnqueueSave, ReadMet, ReadUnmet
<1>3. j \in Created /\ arg[p].status # "absent" /\ pc[p] \in AskLabels \cup {"enq_save"}
  BY <1>1, <1>2, Held DEF Tidy, EnqueueStep, Enqueue, EnqueueLaterSave, EnqueueLaterZadd,
     EnqueueDeps, EnqueueZadd, EnqueueSave
<1>4. /\ Elsewhere(p) /\ UNCHANGED <<job, succeeded>>
      /\ \/ arg'[p] = arg[p] /\ pc'[p] \in AskLabels \cup {"enq_save"}
         \/ arg'[p] = NoDocument /\ pc'[p] = back[p]
      /\ store' = store \/ SaveJob(arg[p])
  BY <1>1, <1>2, <1>3, Held DEF Elsewhere, EnqueueStep, Enqueue, EnqueueLaterSave,
     EnqueueLaterZadd, EnqueueDeps, EnqueueZadd, EnqueueSave, CheckDependencies,
     ReadMet, ReadUnmet, Return, Goto, Solo
<1>5. CASE p \in Workers
  <2>1. Prepared(p) /\ succeeded \subseteq Jobs
    BY <1>5 DEF RInv, TypeOK
  <2>2. Prepared(p)'
    BY <1>1, <1>3, <1>4, <1>5, <2>1, Held DEF Prepared, Tidy, Late
  <2>3. pc[p] \notin Late /\ pc'[p] \notin Late
    BY <1>1, <1>3, <1>4, <1>5 DEF Tidy, Late
  <2>4. arg[p].status # "cancelled" /\ j \notin succeeded /\ arg[p] \in Document
    BY <1>2, <1>3, <2>1, Held DEF Prepared
  <2> QED
    BY <1>2, <1>3, <1>4, <1>5, <2>2, <2>3, <2>4, WorkerKeepsAccount
<1>6. CASE p \in Clients
  <2>1. Unhurried(p) /\ store[j].status # "cancelled"
    BY <1>2, <1>3, <1>6 DEF RInv, Unhurried, EnqueueLabels
  <2>2. \A k \in Jobs : \/ store'[k] = store[k]
                        \/ k = j /\ store'[k] = arg[p]
    BY <1>2, <1>4 DEF SaveJob, TypeOK
  <2>3. Created' = Created
    BY <1>3, <2>2 DEF Created
  <2>4. \A k \in Created : store[k].status = "cancelled" => store'[k].status = "cancelled"
    BY <2>1, <2>2 DEF Created
  <2>5. arg[p].status # "cancelled"
    BY <1>2, <1>3, <1>6 DEF RInv, Unhurried, EnqueueLabels
  <2>6. Unhurried(p)'
    BY <1>1, <1>2, <1>4, <1>6, <2>1, <2>2, <2>5 DEF Unhurried, Tidy, EnqueueLabels
  <2> QED
    BY <1>4, <1>6, <2>3, <2>4, <2>6, ClientKeepsAccount
<1> QED
  BY <1>1, <1>5, <1>6

(* dequeue writes back only jobs that are due.                             *)
LEMMA DequeueBalanced ==
  ASSUME Alike, TypeOK, SInv, RInv, NEW w \in Workers, DequeueStep(w) \/ ReleaseLock(w),
         UNCHANGED history
  PROVE  RInv'
<1> USE DEF ArgLabels, ClientLabels, WorkerLabels, AskLabels, PromoteLabels, RunLabels, Late
<1>1. /\ Tidy(w) /\ w \in Procs /\ w \notin Clients /\ Solo /\ Prepared(w) /\ succeeded \subseteq Jobs
      /\ arg[w] \in Document /\ job[w] \in Document /\ NoDocument \in Document
      /\ NoDocument.id \notin succeeded /\ NoDocument.status = "absent"
  BY Held DEF Procs, Alike, RInv, TypeOK
<1>2. CASE DequeueStep(w) /\ ~PromoteSave(w)
  <2>1. Elsewhere(w) /\ UNCHANGED <<store, succeeded>>
    <3>1. CASE PromoteScan(w) \/ PromoteGet(w) \/ PromoteZrem(w) \/ PromoteZadd(w)
      BY <1>1, <1>2, <3>1, Held DEF Elsewhere, PromoteScan, PromoteGet, PromoteZrem, PromoteZadd, Goto
    <3>2. CASE PopEmpty(w) \/ Pop(w) \/ RequeueBlocked(w) \/ RequeueContended(w)
      BY <1>1, <1>2, <3>2, Held DEF Elsewhere, PopEmpty, Pop, RequeueBlocked, RequeueContended, Requeue, Goto
    <3>3. CASE DequeueGet(w) \/ DequeueDeps(w)
      BY <1>1, <1>2, <3>3, Held DEF Elsewhere, DequeueGet, DequeueDeps, ReadMet, ReadUnmet,
         CheckDependencies, Goto
    <3> QED
      BY <1>2, <3>1, <3>2, <3>3 DEF DequeueStep
  <2>2. pc[w] \in PromoteLabels \cup {"idle", "pop", "get", "contended"}
    BY <1>1, <1>2 DEF DequeueStep, PromoteScan, PromoteGet, PromoteZrem,
       PromoteZadd, PopEmpty, Pop, DequeueGet, DequeueDeps, RequeueBlocked,
       RequeueContended, Requeue, Tidy
  <2>3. pc'[w] \in PromoteLabels \cup {"idle", "pop", "get", "lock"}
    <3>1. CASE DequeueGet(w)
      <4>1. job[w].id \in Jobs /\ store[job[w].id].id = job[w].id
        BY <1>1, <3>1, Held DEF DequeueGet, Tidy
      <4>2. DependsOn[store[job[w].id].id] = {}
        BY <1>1, <4>1 DEF Solo
      <4> QED
        BY <1>1, <3>1, <4>2, Held DEF DequeueGet, CheckDependencies, Goto
    <3>2. CASE DequeueDeps(w) \/ RequeueBlocked(w)
      BY <1>1, <3>2 DEF DequeueDeps, RequeueBlocked, Requeue, Tidy
    <3>3. CASE \/ PromoteScan(w) \/ PromoteGet(w) \/ PromoteZrem(w) \/ PromoteZadd(w)
               \/ PopEmpty(w) \/ Pop(w) \/ RequeueContended(w)
      BY <1>1, <1>2, <3>3, Held DEF PromoteScan, PromoteGet, PromoteZrem, PromoteZadd,
         PromoteSave,
         PopEmpty, Pop, RequeueContended, Requeue, Goto, NextDue
    <3> QED
      BY <1>2, <3>1, <3>2, <3>3 DEF DequeueStep
  <2>4. job'[w].status # "cancelled"
    <3>1. job[w].status # "cancelled" /\ \A j \in Jobs : Absent(j).status # "cancelled"
      BY <1>1, Held DEF Prepared
    <3>2. CASE Pop(w)
      BY <1>1, <3>1, <3>2, Held DEF Pop
    <3>3. CASE DequeueGet(w)
      BY <1>1, <3>1, <3>3, Held DEF DequeueGet
    <3>4. CASE RequeueBlocked(w) \/ RequeueContended(w)
      BY <1>1, <3>1, <3>4, Held DEF RequeueBlocked, RequeueContended, Requeue
    <3>5. CASE \/ PromoteScan(w) \/ PromoteGet(w) \/ PromoteZrem(w) \/ PromoteZadd(w)
               \/ PopEmpty(w) \/ DequeueDeps(w)
      BY <3>1, <3>5 DEF PromoteScan, PromoteGet, PromoteZrem, PromoteZadd, PopEmpty,
         DequeueDeps
    <3> QED
      BY <1>2, <3>2, <3>3, <3>4, <3>5 DEF DequeueStep
  <2>5. CASE PromoteGet(w)
    <3>1. PICK i \in todo[w] : arg' = [arg EXCEPT ![w] = store[i]]
      BY <2>5 DEF PromoteGet
    <3>2. i \in Jobs /\ i \notin succeeded /\ arg'[w].id = i /\ pc'[w] = "promote_zrem"
      BY <1>1, <2>5, <3>1, Held DEF SInv, Fine, Ran, Promotes, PromoteGet, Goto
    <3> QED
      BY <1>1, <2>1, <2>2, <2>3, <2>4, <3>2, WorkerKeepsAccount DEF Prepared
  <2>6. CASE PromoteZrem(w)
    <3>1. [arg[w] EXCEPT !.future = FALSE].id = arg[w].id
          /\ [arg[w] EXCEPT !.future = FALSE].status = arg[w].status
      BY <1>1, Passes
    <3>2. arg'[w].id \notin succeeded /\ arg'[w].status # "cancelled"
      BY <1>1, <2>6, <3>1, Held DEF PromoteZrem, Prepared
    <3> QED
      BY <1>1, <2>1, <2>2, <2>3, <2>4, <3>2, WorkerKeepsAccount DEF Prepared
  <2>7. CASE ~PromoteGet(w) /\ ~PromoteZrem(w)
    <3>1. arg' = arg /\ pc[w] # "promote_zrem"
      BY <1>1, <1>2, <2>7 DEF DequeueStep, PromoteScan, PromoteZadd, PopEmpty, Pop, DequeueGet,
         DequeueDeps, RequeueBlocked, RequeueContended, Requeue
    <3> QED
      BY <1>1, <2>1, <2>2, <2>3, <2>4, <3>1, WorkerKeepsAccount DEF Prepared
  <2> QED
    BY <2>5, <2>6, <2>7
<1>3. CASE PromoteSave(w)
  <2>1. /\ Elsewhere(w) /\ UNCHANGED <<job, succeeded>> /\ SaveJob(arg[w])
        /\ pc[w] = "promote_save" /\ arg'[w] = NoDocument /\ pc'[w] \in {"pop", "promote_get"}
    BY <1>1, <1>3, Held DEF Elsewhere, PromoteSave, NextDue, Goto
  <2>2. arg[w].id \in Created /\ arg[w].status \notin {"absent", "cancelled"}
    BY <1>1, <2>1 DEF Tidy, Prepared
  <2>3. Prepared(w)'
    BY <1>1, <2>1 DEF Prepared
  <2> QED
    BY <1>1, <2>1, <2>2, <2>3, WorkerKeepsAccount DEF Prepared
<1>4. CASE ReleaseLock(w)
  <2>1. /\ Elsewhere(w) /\ UNCHANGED <<store, succeeded, arg>>
        /\ pc[w] = "release" /\ pc'[w] = "idle" /\ job'[w] = NoDocument
    BY <1>1, <1>4, Held DEF Elsewhere, ReleaseLock, Goto
  <2>2. Prepared(w)'
    BY <1>1, <2>1 DEF Prepared
  <2> QED
    BY <1>1, <2>1, <2>2, WorkerKeepsAccount
<1> QED
  BY <1>2, <1>3, <1>4

(* A run writes back its own job, and ends with the successor of a success *)
(* unless the job is found cancelled.                                      *)
LEMMA RunBalanced ==
  ASSUME Alike, TypeOK, Sound, SInv, RInv, NEW w \in Workers,
         \/ Acquire(w) \/ Start(w) \/ HandlerRaises(w)
         \/ Recheck(w) \/ Complete(w) \/ GetDependents(w)
         \/ Finish(w) \/ ScheduleRetry(w) \/ MoveToDlq(w)
  PROVE  RInv'
<1> USE DEF ArgLabels, ClientLabels, WorkerLabels, AskLabels, PromoteLabels, RunLabels, Late
<1>1. Tidy(w) /\ w \in Procs /\ w \notin Clients /\ Prepared(w) /\ succeeded \subseteq Jobs
  BY Held DEF Procs, RInv, TypeOK
<1>2. PICK k \in Jobs : k = job[w].id
  BY <1>1, Held DEF Tidy, Acquire, AcquireLock, Start, HandlerRaises,
     Recheck, Complete, GetDependents, Finish, ScheduleRetry, MoveToDlq
<1>3. /\ k \in Created /\ job[w] \in Document /\ arg[w].id \notin Jobs
      /\ arg[w].status # "cancelled" /\ job[w].status \notin {"absent", "cancelled"}
  BY <1>1, <1>2, Held DEF Tidy, Prepared, Acquire, AcquireLock, Start, HandlerRaises,
     Recheck, Complete, GetDependents, Finish, ScheduleRetry, MoveToDlq
<1>4. pc[w] \in RunLabels \ Late => k \notin succeeded
  BY <1>1, <1>2 DEF SInv, Fine, Ran, Runs
<1>5. CASE Acquire(w) \/ HandlerRaises(w) \/ Finish(w)
  <2>1. /\ Elsewhere(w) /\ UNCHANGED <<store, succeeded, job, arg>>
        /\ pc[w] \notin Late /\ pc'[w] \notin Late
    BY <1>1, <1>5, Held DEF Acquire, AcquireLock, HandlerRaises, OnException, Finish,
       Elsewhere, Goto
  <2>2. Prepared(w)'
    BY <1>1, <1>3, <2>1 DEF Prepared
  <2> QED
    BY <1>1, <2>1, <2>2, WorkerKeepsAccount
<1>6. CASE Recheck(w)
  <2>1. /\ Elsewhere(w) /\ UNCHANGED <<store, succeeded, job, arg>> /\ pc[w] = "recheck"
        /\ \/ pc'[w] = "complete"
           \/ pc'[w] = "release" /\ store[job[w].id].status = "cancelled"
    BY <1>1, <1>6, Held DEF Recheck, Elsewhere, Goto
  <2>2. Prepared(w)'
    BY <1>1, <1>3, <2>1 DEF Prepared
  <2> QED
    BY <1>1, <2>1, <2>2, WorkerKeepsAccount
<1>7. CASE Start(w) \/ Complete(w)
  <2>1. PICK s \in {"processing", "completed"}, label \in {"run", "dependents"} :
          /\ SaveJob([job[w] EXCEPT !.status = s])
          /\ job' = [job EXCEPT ![w] = [job[w] EXCEPT !.status = s]]
          /\ pc' = [pc EXCEPT ![w] = label]
          /\ label = IF pc[w] \in Late THEN "dependents" ELSE "run"
    BY <1>7 DEF Start, Complete, Goto
  <2>2. PICK d \in Document : d = [job[w] EXCEPT !.status = s]
    BY <1>3, Updates DEF Status
  <2>3. d.id = k /\ d.status = s
    BY <1>2, <1>3, <2>2 DEF Document
  <2>4. /\ Elsewhere(w) /\ UNCHANGED <<succeeded, arg>> /\ pc[w] \in {"start", "complete"}
        /\ SaveJob(d) /\ pc'[w] = label /\ job'[w] = d
    BY <1>1, <1>7, <2>1, <2>2, Held DEF Start, Complete, Elsewhere
  <2>5. Prepared(w)'
    BY <1>1, <1>2, <1>3, <2>1, <2>3, <2>4 DEF Prepared
  <2> QED
    BY <1>1, <1>2, <1>3, <1>4, <2>1, <2>3, <2>4, <2>5, WorkerKeepsAccount
<1>8. CASE GetDependents(w)
  <2>1. dependents[k] = {}
    BY DEF SInv, Fine
  <2>2. /\ Elsewhere(w) /\ UNCHANGED <<store, succeeded, job, arg>> /\ pc[w] = "dependents"
        /\ \/ pc'[w] = "recur" /\ k \in Recurring
           \/ pc'[w] = "tail" /\ k \notin Recurring
    BY <1>1, <1>2, <1>8, <2>1, Held DEF GetDependents, NextDependent, Elsewhere, Goto
  <2>3. Prepared(w)'
    BY <1>1, <1>2, <1>3, <2>2 DEF Prepared
  <2> QED
    BY <1>1, <1>2, <2>2, <2>3, WorkerKeepsAccount
<1>9. CASE ScheduleRetry(w)
  <2>1. job[w].retries < MaxRetries /\ k \notin succeeded /\ pc[w] = "retry_save"
    BY <1>1, <1>4, <1>9 DEF ScheduleRetry, Sound, Local
  <2>2. PICK d \in Document : d = Rescheduled(job[w]) /\ d.id = k /\ d.status = "pending"
    BY <1>2, <1>3, <2>1, RetryUpdate
  <2>3. /\ Elsewhere(w) /\ SaveJob(d) /\ pc'[w] = "enqueue" /\ job'[w] = d /\ arg'[w] = d
        /\ UNCHANGED succeeded
    BY <1>1, <1>9, <2>2, Held DEF ScheduleRetry, CallEnqueue, Elsewhere, Goto
  <2>4. Prepared(w)'
    BY <2>1, <2>2, <2>3 DEF Prepared
  <2> QED
    BY <1>1, <1>3, <2>1, <2>2, <2>3, <2>4, WorkerKeepsAccount
<1>10. CASE MoveToDlq(w)
  <2>1. k \notin succeeded /\ pc[w] = "dlq_save"
    BY <1>4, <1>10 DEF MoveToDlq
  <2>2. PICK d \in Document : d = DeadLettered(job[w]) /\ d.id = k /\ d.status = "failed"
    BY <1>2, <1>3, FailedUpdate
  <2>3. /\ Elsewhere(w) /\ SaveJob(d) /\ pc'[w] = "release" /\ job'[w] = d
        /\ UNCHANGED <<succeeded, arg>>
    BY <1>1, <1>10, <2>2, Held DEF MoveToDlq, Elsewhere, Goto
  <2>4. Prepared(w)'
    BY <1>1, <1>3, <2>1, <2>2, <2>3 DEF Prepared
  <2> QED
    BY <1>1, <1>3, <2>1, <2>2, <2>3, <2>4, WorkerKeepsAccount
<1> QED
  BY <1>5, <1>6, <1>7, <1>8, <1>9, <1>10

(* The handler returns: a success with no successor yet.                   *)
LEMMA SuccessBalanced ==
  ASSUME Alike, TypeOK, SInv, RInv, NEW w \in Workers, HandlerReturns(w)
  PROVE  RInv'
<1> USE DEF ArgLabels, ClientLabels, WorkerLabels, AskLabels, PromoteLabels, RunLabels, Late
<1>1. /\ Tidy(w) /\ w \in Procs /\ w \notin Clients /\ Prepared(w) /\ succeeded \subseteq Jobs
      /\ \A v \in Workers : v = w
  BY Held DEF Procs, RInv, TypeOK, Alike, Solo
<1>2. PICK k \in Jobs : k = job[w].id
  BY <1>1, Held DEF Tidy, HandlerReturns
<1>3. /\ UNCHANGED <<store, job, arg>> /\ succeeded' = succeeded \cup {k}
      /\ pc[w] = "run" /\ pc'[w] = "recheck" /\ Elsewhere(w)
  BY <1>1, <1>2, Held DEF HandlerReturns, Goto, Elsewhere
<1>4. k \notin succeeded
  BY <1>1, <1>2, <1>3 DEF SInv, Fine, Ran, Runs
<1>5. PICK R \in SUBSET Jobs : Begot(R)
  BY DEF RInv
<1>6. \A j : Finishes(j)' <=> j = k
  BY <1>1, <1>2, <1>3 DEF Finishes
<1>7. \A j : ~Finishes(j)
  BY <1>1, <1>3 DEF Finishes
<1>8. Created' = Created
  BY <1>3 DEF Created
<1>9. Begot(R)'
  <2>1. R \subseteq succeeded' \cap Recurring /\ \A j \in R : ~Finishes(j)'
    BY <1>3, <1>4, <1>5, <1>6 DEF Begot
  <2>2. \A j \in (succeeded' \cap Recurring) \ R : Finishes(j)' \/ store'[j].status = "cancelled"
    BY <1>3, <1>5, <1>6, <1>7 DEF Begot
  <2>3. Cardinality(Created' \cap Spare) = AtMostSpare(Cardinality(R))
    BY <1>5, <1>8 DEF Begot
  <2> QED
    BY <2>1, <2>2, <2>3 DEF Begot, AtMostSpare
<1>10. IsFiniteSet(succeeded')
  BY <1>3, FS_AddElement DEF RInv
<1>11. Prepared(w)'
  BY <1>1, <1>2, <1>3 DEF Prepared, Tidy
<1>12. ASSUME NEW c \in Clients PROVE Unhurried(c)'
  BY <1>1, <1>3 DEF RInv, Unhurried, Elsewhere, Procs
<1> QED
  BY <1>1, <1>9, <1>10, <1>11, <1>12 DEF RInv

(* _schedule_recurring: the success has its successor, unless Spare is     *)
(* used up.                                                                *)
LEMMA RecurBalanced ==
  ASSUME Alike, TypeOK, SInv, RInv, NEW w \in Workers, Recur(w)
  PROVE  RInv'
<1> USE DEF ArgLabels, ClientLabels, WorkerLabels, AskLabels, PromoteLabels, RunLabels, Late
<1>1. /\ Tidy(w) /\ w \in Procs /\ w \notin Clients /\ Prepared(w) /\ succeeded \subseteq Jobs
      /\ \A v \in Workers : v = w
      /\ pc[w] = "recur" /\ IsFiniteSet(Spare) /\ Spare \subseteq Jobs
  BY Held, ServiceAssumption DEF Procs, RInv, TypeOK, Alike, Solo, Recur
<1>2. PICK k \in Jobs : k = job[w].id
  BY <1>1, Held DEF Tidy
<1>3. k \in succeeded \cap Recurring
  BY <1>1, <1>2 DEF Prepared
<1>4. PICK R \in SUBSET Jobs : Begot(R)
  BY DEF RInv
<1>5. k \notin R
  BY <1>1, <1>2, <1>4 DEF Begot, Finishes
<1>6. IsFiniteSet(R) /\ Cardinality(R \cup {k}) = Cardinality(R) + 1
  <2>1. IsFiniteSet(succeeded) /\ R \in SUBSET succeeded
    BY <1>4 DEF RInv, Begot
  <2>2. IsFiniteSet(R)
    BY <2>1, FS_Subset
  <2> QED
    BY <1>5, <2>2, FS_AddElement
<1>7. /\ Cardinality(R) \in Nat /\ Cardinality(Spare) \in Nat
      /\ IsFiniteSet(Created \cap Spare) /\ Cardinality(Created \cap Spare) \in Nat
  <2>1. IsFiniteSet(Created \cap Spare)
    BY <1>1, FS_Subset
  <2> QED
    BY <1>1, <1>6, <2>1, FS_CardinalityType
<1>8. /\ Elsewhere(w) /\ UNCHANGED <<job, succeeded>>
      /\ \/ \E i \in Spare \ Created : /\ SaveJob(NewJob(i, TRUE)) /\ pc'[w] = "enqueue"
                                      /\ arg'[w] = NewJob(i, TRUE)
         \/ Spare \subseteq Created /\ UNCHANGED <<store, arg>> /\ pc'[w] = "tail"
  <2>1. \A i \in Spare : DependsOn[i] = DependsOn[k] /\ Priority[i] = Priority[k]
    BY <1>1, <1>3 DEF Alike, Solo
  <2>2. Elsewhere(w) /\ UNCHANGED <<job, succeeded>>
    <3>1. UNCHANGED <<job, todo, succeeded>>
      BY <1>1 DEF Recur
    <3>2. /\ \E x : pc' = [pc EXCEPT ![w] = x]
          /\ arg' = arg \/ \E x : arg' = [arg EXCEPT ![w] = x]
          /\ back' = back \/ \E x : back' = [back EXCEPT ![w] = x]
      BY <1>1 DEF Recur, CallEnqueue, Goto
    <3> QED
      BY <1>1, <3>1, <3>2, Held DEF Elsewhere
  <2>3. CASE \E i \in Spare \ Created : SaveJob(NewJob(i, TRUE)) /\ CallEnqueue(w, NewJob(i, TRUE), "tail")
    BY <1>1, <2>2, <2>3, Held DEF CallEnqueue, Goto
  <2>4. CASE Spare \subseteq Created /\ UNCHANGED <<store, arg>> /\ Goto(w, "tail")
    BY <1>1, <2>2, <2>4, Held DEF Goto
  <2> QED
    BY <1>2, <2>1, <2>3, <2>4 DEF Recur
<1>9. /\ Cardinality(Created' \cap Spare) = AtMostSpare(Cardinality(R) + 1)
      /\ \A j \in Created : store'[j] = store[j]
      /\ Prepared(w)'
  <2>1. CASE Spare \subseteq Created /\ UNCHANGED <<store, arg>> /\ pc'[w] = "tail"
    <3>1. Created' = Created /\ Created \cap Spare = Spare
      BY <2>1 DEF Created
    <3>2. Cardinality(Spare) = AtMostSpare(Cardinality(R))
      BY <1>4, <3>1 DEF Begot
    <3>3. Cardinality(Spare) = AtMostSpare(Cardinality(R) + 1)
      BY <1>7, <3>2 DEF AtMostSpare
    <3> QED
      BY <1>1, <1>8, <2>1, <3>1, <3>3 DEF Prepared
  <2>2. ASSUME NEW i \in Spare \ Created, SaveJob(NewJob(i, TRUE)), pc'[w] = "enqueue",
               arg'[w] = NewJob(i, TRUE)
        PROVE  /\ Cardinality(Created' \cap Spare) = AtMostSpare(Cardinality(R) + 1)
               /\ \A j \in Created : store'[j] = store[j]
               /\ Prepared(w)'
    <3>1. i \in Jobs /\ NewJob(i, TRUE).id = i /\ NewJob(i, TRUE).status = "pending"
      BY <1>1, NewDocuments
    <3>2. Created' = Created \cup {i} /\ \A j \in Created : store'[j] = store[j]
      <4>1. /\ store'[i] = NewJob(i, TRUE)
            /\ \A j \in Jobs \ {i} : store'[j] = store[j]
        BY <2>2, <3>1 DEF SaveJob, TypeOK
      <4> QED
        BY <2>2, <3>1, <4>1 DEF Created
    <3>3. Created' \cap Spare = (Created \cap Spare) \cup {i}
      BY <3>2
    <3>4. Cardinality(Created' \cap Spare) = Cardinality(Created \cap Spare) + 1
      BY <1>7, <3>3, FS_AddElement
    <3>5. (Created \cap Spare) \cup {i} \in SUBSET Spare
      OBVIOUS
    <3>6. Cardinality(Created \cap Spare) + 1 <= Cardinality(Spare)
      BY <1>1, <3>3, <3>4, <3>5, FS_Subset
    <3>7. Cardinality(Created \cap Spare) = AtMostSpare(Cardinality(R))
      BY <1>4 DEF Begot
    <3>8. Cardinality(Created' \cap Spare) = AtMostSpare(Cardinality(R) + 1)
      BY <1>7, <3>4, <3>6, <3>7 DEF AtMostSpare
    <3>9. i \notin succeeded
      BY <3>1 DEF SInv, Fine, Ran
    <3> QED
      BY <1>1, <1>8, <2>2, <3>1, <3>2, <3>8, <3>9 DEF Prepared
  <2> QED
    BY <1>8, <2>1, <2>2
<1>10. \A j : ~Finishes(j)' /\ (Finishes(j) <=> j = k)
  BY <1>1, <1>2, <1>8 DEF Finishes
<1>11. Begot(R \cup {k})'
  <2>1. R \cup {k} \subseteq succeeded' \cap Recurring
    BY <1>3, <1>4, <1>8 DEF Begot
  <2>2. \A j \in (succeeded' \cap Recurring) \ (R \cup {k}) : store'[j].status = "cancelled"
    <3>1. succeeded \subseteq Created
      BY DEF TypeOK, SInv, Fine, Ran
    <3> QED
      BY <1>4, <1>8, <1>9, <1>10, <3>1 DEF Begot
  <2> QED
    BY <1>6, <1>9, <1>10, <2>1, <2>2 DEF Begot, AtMostSpare
<1>12. ASSUME NEW c \in Clients PROVE Unhurried(c)'
  <2>1. /\ Unhurried(c) /\ c \in Procs \ {w}
        /\ pc[c] \in EnqueueLabels \cup {"dlq_retry_save"} => arg[c].id \in Created
    BY <1>1, Held DEF RInv, Procs, Tidy, EnqueueLabels
  <2> QED
    BY <1>8, <1>9, <2>1 DEF Unhurried, Elsewhere
<1> QED
  BY <1>1, <1>8, <1>9, <1>11, <1>12 DEF RInv

(* Requests.                                                               *)
LEMMA RequestBalanced ==
  ASSUME Alike, TypeOK, SInv, RInv, NEW c \in Clients,
         \/ CreateSave(c) \/ CreateRegister(c)
         \/ CancelGet(c) \/ CancelSave(c) \/ CancelRemove(c)
         \/ RetryGet(c) \/ RetrySave(c)
  PROVE  RInv'
<1> USE DEF ArgLabels, ClientLabels, WorkerLabels, AskLabels, PromoteLabels, RunLabels, EnqueueLabels
<1>1. Tidy(c) /\ c \in Procs /\ c \notin Workers /\ Unhurried(c)
  BY Held DEF Procs, RInv
<1>2. CASE CreateSave(c)
  <2>1. PICK k \in Jobs \ (Created \cup Spare), later \in Delays :
          /\ SaveJob(NewJob(k, later))
          /\ IF DependsOn[k] = {}
               THEN CallEnqueue(c, NewJob(k, later), "idle")
               ELSE /\ arg' = [arg EXCEPT ![c] = NewJob(k, later)]
                    /\ Goto(c, "register")
                    /\ UNCHANGED back
    BY <1>2 DEF CreateSave
  <2>2. /\ CallEnqueue(c, NewJob(k, later), "idle")
        /\ NewJob(k, later).id = k /\ NewJob(k, later).status = "pending"
    BY <2>1, ServiceAssumption, NewDocuments DEF Alike, Solo
  <2>3. /\ Elsewhere(c) /\ arg'[c] = NewJob(k, later) /\ pc'[c] = "enqueue"
        /\ UNCHANGED succeeded
    BY <1>1, <1>2, <2>2, Held DEF Elsewhere, CallEnqueue, Goto, CreateSave
  <2>4. /\ store'[k] = NewJob(k, later)
        /\ \A j \in Jobs \ {k} : store'[j] = store[j]
    BY <2>1, <2>2 DEF SaveJob, TypeOK
  <2>5. /\ Created' \cap Spare = Created \cap Spare
        /\ \A j \in Created : store'[j] = store[j]
    BY <2>1, <2>2, <2>4 DEF Created
  <2>6. Unhurried(c)'
    BY <2>2, <2>3, <2>4 DEF Unhurried
  <2> QED
    BY <2>3, <2>5, <2>6, ClientKeepsAccount
<1>3. CASE CreateRegister(c)
  BY <1>1, <1>3 DEF CreateRegister, Tidy
<1>4. CASE CancelGet(c)
  <2>1. PICK k \in Created : arg' = [arg EXCEPT ![c] = [store[k] EXCEPT !.status = "cancelled"]]
    BY <1>4 DEF CancelGet
  <2>2. [store[k] EXCEPT !.status = "cancelled"].status = "cancelled"
    BY <2>1, Held, Updates, <1>1 DEF Created, Status
  <2>3. /\ Elsewhere(c) /\ UNCHANGED <<store, succeeded>> /\ pc'[c] = "cancel_save"
        /\ arg'[c].status = "cancelled"
    BY <1>1, <1>4, <2>1, <2>2, Held DEF Elsewhere, CancelGet, Goto
  <2> QED
    BY <2>3, ClientKeepsAccount DEF Unhurried, Created
<1>5. CASE CancelSave(c)
  <2>1. /\ Elsewhere(c) /\ UNCHANGED succeeded /\ SaveJob(arg[c])
        /\ pc[c] = "cancel_save" /\ pc'[c] = "cancel_remove"
    BY <1>1, <1>5, Held DEF Elsewhere, CancelSave, Goto
  <2>2. PICK j \in Jobs : j = arg[c].id /\ j \in Created /\ arg[c].status = "cancelled"
    BY <1>1, <2>1 DEF Tidy, Unhurried
  <2>3. /\ store'[j] = arg[c]
        /\ \A k \in Jobs \ {j} : store'[k] = store[k]
    BY <2>1, <2>2 DEF SaveJob, TypeOK
  <2>4. /\ Created' = Created
        /\ \A k \in Created : store[k].status = "cancelled" => store'[k].status = "cancelled"
    BY <2>2, <2>3 DEF Created
  <2> QED
    BY <2>1, <2>4, ClientKeepsAccount DEF Unhurried
<1>6. CASE CancelRemove(c)
  <2>1. /\ Elsewhere(c) /\ UNCHANGED <<store, succeeded>> /\ pc'[c] = "idle"
    BY <1>1, <1>6, Held DEF Elsewhere, CancelRemove, Goto
  <2> QED
    BY <2>1, ClientKeepsAccount DEF Unhurried, Created
<1>7. CASE RetryGet(c)
  <2>1. PICK k \in Created : store[k].in_dlq /\ arg' = [arg EXCEPT ![c] = Retried(store[k])]
    BY <1>7 DEF RetryGet, Retriable
  <2>2. Retried(store[k]).id = k /\ Retried(store[k]).status = "pending"
    BY <1>1, <2>1, DlqUpdate, Held DEF Created
  <2>3. store[k].status = "failed"
    BY <2>1 DEF SInv, Fine, Honest, Created
  <2>4. /\ Elsewhere(c) /\ UNCHANGED <<store, succeeded>> /\ pc'[c] = "dlq_retry_save"
        /\ arg'[c] = Retried(store[k])
    BY <1>1, <1>7, <2>1, Held DEF Elsewhere, RetryGet, Goto
  <2> QED
    BY <2>2, <2>3, <2>4, ClientKeepsAccount DEF Unhurried, Created
<1>8. CASE RetrySave(c)
  <2>1. /\ Elsewhere(c) /\ UNCHANGED succeeded /\ SaveJob(arg[c])
        /\ pc[c] = "dlq_retry_save" /\ pc'[c] = "enqueue" /\ arg' = arg
    BY <1>1, <1>8, Held DEF Elsewhere, RetrySave, CallEnqueue, Goto
  <2>2. PICK j \in Jobs : /\ j = arg[c].id /\ j \in Created
                         /\ arg[c].status \notin {"absent", "cancelled"}
                         /\ store[j].status # "cancelled"
    BY <1>1, <2>1 DEF Tidy, Unhurried
  <2>3. /\ store'[j] = arg[c]
        /\ \A k \in Jobs \ {j} : store'[k] = store[k]
    BY <2>1, <2>2 DEF SaveJob, TypeOK
  <2>4. /\ Created' = Created
        /\ \A k \in Created : store[k].status = "cancelled" => store'[k].status = "cancelled"
    BY <2>2, <2>3 DEF Created
  <2>5. Unhurried(c)'
    BY <2>1, <2>2, <2>3 DEF Unhurried
  <2> QED
    BY <2>1, <2>4, <2>5, ClientKeepsAccount
<1> QED
  BY <1>2, <1>3, <1>4, <1>5, <1>6, <1>7, <1>8

(* Time and stuttering: identifiers, statuses and labels stay.             *)
LEMMA StillBalanced ==
  ASSUME TypeOK, SInv, RInv, UNCHANGED <<pc, succeeded>>,
         \A j \in Jobs : store'[j].status = store[j].status,
         \A p \in Procs : /\ job'[p].id = job[p].id /\ job'[p].status = job[p].status
                          /\ arg'[p].id = arg[p].id /\ arg'[p].status = arg[p].status
  PROVE  RInv'
<1>1. Created' = Created
  BY DEF Created
<1>2. \A j : Finishes(j)' <=> Finishes(j)
  BY DEF Finishes, Procs
<1>3. PICK R \in SUBSET Jobs : Begot(R)
  BY DEF RInv
<1>4. succeeded \subseteq Jobs
  BY DEF TypeOK
<1>5. Begot(R)'
  BY <1>1, <1>2, <1>3, <1>4, BegotKept
<1>6. \A w \in Workers : Prepared(w)'
  BY DEF RInv, Prepared, Procs
<1>7. ASSUME NEW c \in Clients PROVE Unhurried(c)'
  <2>1. Unhurried(c) /\ c \in Procs /\ (pc[c] \in EnqueueLabels \cup {"dlq_retry_save"} => arg[c].id \in Jobs)
    BY Held DEF RInv, Procs, Tidy, EnqueueLabels, ArgLabels, ClientLabels, AskLabels
  <2> QED
    BY <2>1 DEF Unhurried
<1> QED
  BY <1>5, <1>6, <1>7 DEF RInv

(* At first nothing has succeeded.                                         *)
LEMMA InitBalanced ==
  ASSUME Alike, Init
  PROVE  RInv
<1>1. /\ \A j \in Jobs : store[j] = Absent(j)
      /\ \A p \in Procs : pc[p] = "idle" /\ job[p] = NoDocument /\ arg[p] = NoDocument
      /\ succeeded = {}
  BY DEF Init, StoreInit, SchedulerInit
<1>2. NoDocument.status = "absent" /\ \A j \in Jobs : Absent(j).status = "absent"
  BY AbsentDocuments DEF NoDocument
<1>3. Created = {} /\ Created \cap Spare = {}
  BY <1>1, <1>2 DEF Created
<1>4. Cardinality({}) = 0 /\ Cardinality(Spare) \in Nat /\ IsFiniteSet({})
  BY FS_EmptySet, FS_CardinalityType DEF Alike
<1>5. Cardinality(Created \cap Spare) = AtMostSpare(Cardinality({}))
  BY <1>3, <1>4 DEF AtMostSpare
<1>6. Begot({})
  BY <1>1, <1>5 DEF Begot
<1> QED
  BY <1>1, <1>2, <1>4, <1>6 DEF RInv, Prepared, Unhurried, Late, Procs, EnqueueLabels

(* Every step keeps the account.                                           *)
LEMMA StepBalanced ==
  ASSUME Alike, TypeOK, Sound, SInv, RInv, [Next]_vars
  PROVE  RInv'
<1>1. CASE UNCHANGED vars
  BY <1>1, StillBalanced DEF vars
<1>2. ASSUME NEW w \in Workers, WorkerStep(w) PROVE RInv'
  <2>1. w \in Procs /\ Tidy(w)
    BY DEF Procs, SInv
  <2>2. CASE UnlockGet(w) \/ UnlockDeps(w)
    BY <2>1, <2>2 DEF UnlockGet, UnlockDeps, Tidy, WorkerLabels, AskLabels, PromoteLabels,
       RunLabels
  <2>3. CASE EnqueueStep(w) /\ UNCHANGED history
    BY <2>1, <2>3, EnqueueBalanced
  <2>4. CASE (DequeueStep(w) \/ ReleaseLock(w)) /\ UNCHANGED history
    BY <2>4, DequeueBalanced
  <2>5. CASE Recur(w)
    BY <2>5, RecurBalanced
  <2>6. CASE HandlerReturns(w)
    BY <2>6, SuccessBalanced
  <2>7. CASE \/ Acquire(w) \/ Start(w) \/ HandlerRaises(w)
             \/ Recheck(w) \/ Complete(w) \/ GetDependents(w)
             \/ Finish(w) \/ ScheduleRetry(w) \/ MoveToDlq(w)
    BY <2>7, RunBalanced
  <2> QED
    BY <1>2, <2>2, <2>3, <2>4, <2>5, <2>6, <2>7 DEF WorkerStep, ProcessStep
<1>3. ASSUME NEW c \in Clients, Arrive(c) \/ RequestStep(c) PROVE RInv'
  <2>1. CASE EnqueueStep(c) /\ UNCHANGED history
    BY <2>1, EnqueueBalanced DEF Procs
  <2> QED
    BY <1>3, <2>1, RequestBalanced DEF Arrive, RequestStep
<1>4. ASSUME NEW i \in Jobs, Time(i) PROVE RInv'
  <2>1. CASE LockExpires(i) /\ UNCHANGED history
    BY <2>1, StillBalanced DEF LockExpires
  <2>2. CASE Due(i) /\ UNCHANGED history
    <3>1. \A d \in Document : [d EXCEPT !.future = FALSE].id = d.id
                              /\ [d EXCEPT !.future = FALSE].status = d.status
      BY Passes
    <3>2. /\ UNCHANGED <<pc, succeeded>>
          /\ \A j \in Jobs : store'[j].status = store[j].status
      BY <2>2, <3>1 DEF Due, TypeOK
    <3>3. \A p \in Procs : /\ job'[p].id = job[p].id /\ job'[p].status = job[p].status
                           /\ arg'[p].id = arg[p].id /\ arg'[p].status = arg[p].status
      BY <2>2, <3>1 DEF Due, TypeOK
    <3> QED
      BY <3>2, <3>3, StillBalanced
  <2> QED
    BY <1>4, <2>1, <2>2 DEF Time
<1>5. /\ \A w \in Workers : ~RaiseInTry(w)
      /\ \A p \in Procs : ~Abort(p)
  BY DEF Alike, Solo, RaiseInTry, Abort
<1> QED
  BY <1>1, <1>2, <1>3, <1>4, <1>5 DEF Next

(* Section 9.2: every successful run of a recurring job has begotten one   *)
(* successor and nothing else has, unless its result was discarded for a   *)
(* cancel that still stands.                                               *)
THEOREM SuccessorsAreCounted ==
  ASSUME Alike
  PROVE  Spec => []RecurrenceConserved
<1>1. Init => RInv
  BY InitBalanced
<1>2. RInv /\ (TypeOK /\ Sound /\ SInv) /\ [Next]_vars => RInv'
  BY StepBalanced
<1>3. Spec => [](TypeOK /\ Sound /\ SInv)
  BY SoloAlways DEF Alike
<1>4. ASSUME RInv, \A w \in Workers : ~Executing(w) PROVE RecurrenceConserved
  <2> DEFINE runs == succeeded \cap Recurring
             kept == {j \in runs : store[j].status # "cancelled"}
  <2>1. PICK R \in SUBSET Jobs : Begot(R)
    BY <1>4 DEF RInv
  <2>2. \A j : ~Finishes(j)
    BY <1>4 DEF Finishes, Late, Executing, DequeueLabels
  <2>3. R \in SUBSET runs /\ kept \in SUBSET R
    BY <2>1, <2>2 DEF Begot
  <2>4. IsFiniteSet(runs)
    BY <1>4, FS_Subset DEF RInv
  <2>5. IsFiniteSet(R) /\ Cardinality(R) <= Cardinality(runs)
    BY <2>3, <2>4, FS_Subset
  <2>6. IsFiniteSet(kept) /\ Cardinality(kept) <= Cardinality(R)
    BY <2>3, <2>5, FS_Subset
  <2>7. {Cardinality(runs), Cardinality(R), Cardinality(kept), Cardinality(Spare)} \subseteq Nat
    BY <2>4, <2>5, <2>6, FS_CardinalityType DEF Alike
  <2>8. Cardinality(Created \cap Spare) = AtMostSpare(Cardinality(R))
    BY <2>1 DEF Begot
  <2>9. Cardinality(Created \cap Spare)
          \in AtMostSpare(Cardinality(kept)) .. AtMostSpare(Cardinality(runs))
    <3> HIDE DEF runs, kept
    <3> QED
      BY <2>5, <2>6, <2>7, <2>8 DEF AtMostSpare
  <2> QED
    BY <2>9 DEF RecurrenceConserved, AtMostSpare
<1>5. RInv => RecurrenceConserved
  BY <1>4 DEF RecurrenceConserved
<1> QED
  BY <1>1, <1>2, <1>3, <1>5, PTL DEF Spec
=============================================================================
