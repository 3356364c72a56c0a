---------------------------- MODULE WakeupProofs -----------------------------
(***************************************************************************)
(* Proof that no wakeup of a dependent is lost but behind an erased        *)
(* completion, and that faults lose only what a coroutine cut short had in *)
(* its hands and what depends on that, for any dependency graph, any       *)
(* number of workers and any number of clients creating jobs at once.      *)
(*                                                                         *)
(* It holds while nothing writes stale copies of a document back except    *)
(* enqueue itself: no schedule times and no backoff, hence no promotion;   *)
(* no cancels and dead-letter retries; and every type has a handler, for a *)
(* job dead-lettered before it starts can be overwritten as pending by the *)
(* save of its creator, which leaves it in no queue.                       *)
(***************************************************************************)
EXTENDS JobServiceProofs

USE DEF queueVars, redisVars, localVars, history, StoreTypeOK, SchedulerTypeOK, Adrift

Plain ==
  /\ Requests = {} /\ Recurring = {} /\ Unhandled = {}
  /\ TRUE \notin Delays /\ MaxRetries = 0

(* The steps at which p has a job to enqueue in its hands, or to decide on.*)
CarryLabels ==
  {"register", "unlock_deps", "enqueue", "enq_deps", "enq_zadd", "enq_save"}

PlainLabels ==
  CarryLabels \cup
  {"idle", "pop", "get", "deps", "requeue", "lock", "contended", "start", "run",
   "recheck", "complete", "dependents", "unlock_get", "tail", "dlq_save", "release"}

(* A job that was ever in the heap: it still is, or somebody holds it, or  *)
(* it was started, or was lost by a fault.                                 *)
Seen(j) ==
  \/ heap[j] # 0
  \/ j \in started \cup hit
  \/ \E w \in Procs : job[w].id = j

(* What p has in its hands exists; nothing is left in them unnoticed.      *)
Hands(p) ==
  /\ pc[p] \in PlainLabels
  /\ ~job[p].future /\ ~arg[p].future
  /\ arg[p].id \in Jobs <=> pc[p] \in CarryLabels
  /\ arg[p].id \in Jobs => arg[p].status = "pending" /\ arg[p].id \in Created
  /\ job[p].id \in Jobs <=> pc[p] \notin {"idle", "pop"} /\ p \in Workers
  /\ job[p].id \in Jobs => job[p].id \in Created
  /\ todo[p] # {} => pc[p] = "unlock_get" \/ back[p] = "unlock_get"
  /\ back[p] = "unlock_get" => pc[p] \in CarryLabels \ {"register"}
  /\ p \in Clients => pc[p] \in CarryLabels \cup {"idle"} /\ back[p] = "idle"
  /\ p \in Workers =>
       /\ pc[p] # "register"
       /\ pc[p] \in CarryLabels => back[p] \in {"unlock_get", "tail"}
       /\ Executing(p) /\ pc[p] # "start" => job[p].id \in started
  /\ pc[p] \in {"enq_deps", "unlock_deps"} => need[p] \subseteq DependsOn[arg[p].id]
  /\ pc[p] = "enq_save" => Seen(arg[p].id)

(* A parked job has a reason to be, as far as its parents' documents tell. *)
Open(j) ==
  \E d \in DependsOn[j] :
    \/ store[d].status # "completed"
    \/ \E w \in Workers : pc[w] = "dependents" /\ job[w].id = d

Excused(j) == j \in hit \/ Open(j)

Explained == \A j \in Jobs : Parked(j) => j \in hit \/ Open(j)

(* The parents of a job know it from its registration on.                  *)
Registered(j) ==
  \/ j \in hit
  \/ \A d \in DependsOn[j] : j \in dependents[d]
  \/ \E c \in Procs : pc[c] = "register" /\ arg[c].id = j

Calm ==
  /\ ahead = {}
  /\ \A j \in Jobs :
       /\ sched[j] = "out"
       /\ store[j].status # "cancelled" /\ ~store[j].future
       /\ heap[j] # 0 => j \in Created

WInv ==
  /\ Calm
  /\ \A p \in Procs : Hands(p)
  /\ \A j \in Created : Registered(j)
  /\ Explained

(***************************************************************************)
(* Steps of one coroutine.                                                 *)
(***************************************************************************)
(* p has j in its hands.                                                   *)
Has(p, j) == j \in {arg[p].id, job[p].id} \cup todo[p]

(* A step of p touches nothing that another coroutine has in its hands.    *)
Elsewhere(p) ==
  \A q \in Procs \ {p} :
    /\ pc'[q] = pc[q] /\ back'[q] = back[q] /\ need'[q] = need[q]
    /\ job'[q] = job[q] /\ arg'[q] = arg[q] /\ todo'[q] = todo[q]

(* p leaves Redis as it is, and what it drops needs no wakeup from it.     *)
Quiet(p) ==
  /\ UNCHANGED <<store, dependents, heap, sched, ahead, started, hit>>
  /\ Elsewhere(p)
  /\ pc[p] \notin {"register", "dependents"}
  /\ \A j \in Jobs :
       Has(p, j) => \/ Has(p, j)' \/ Open(j)
                    \/ store[j].status # "pending" \/ j \in started
  /\ job[p].id \in Jobs => job'[p].id = job[p].id \/ job[p].id \in started

(* What the others have in their hands is not disturbed.                   *)
LEMMA OthersHands ==
  ASSUME NEW p \in Procs, NEW q \in Procs \ {p}, Hands(q), Elsewhere(p),
         Created \subseteq Created', started \subseteq started',
         \A j \in Jobs : Seen(j) => Seen(j)'
  PROVE  Hands(q)'
<1>1. /\ pc'[q] = pc[q] /\ back'[q] = back[q] /\ need'[q] = need[q]
      /\ job'[q] = job[q] /\ arg'[q] = arg[q] /\ todo'[q] = todo[q]
  BY DEF Elsewhere
<1>2. (pc[q] = "enq_save" => Seen(arg[q].id))'
  BY <1>1 DEF Hands, CarryLabels
<1>3. Executing(q)' <=> Executing(q)
  BY <1>1 DEF Executing
<1> QED
  BY <1>1, <1>2, <1>3 DEF Hands

LEMMA Together ==
  ASSUME WInv, NEW p \in Procs, Elsewhere(p), Calm', Hands(p)',
         Created \subseteq Created', started \subseteq started',
         \A j \in Jobs : Seen(j) => Seen(j)',
         \A j \in Created' : Registered(j)',
         Explained'
  PROVE  WInv'
<1>1. \A q \in Procs : Hands(q)'
  BY OthersHands DEF WInv
<1> QED
  BY <1>1 DEF WInv

(* Quiet steps keep the invariant.                                         *)
LEMMA QuietKeeps ==
  ASSUME WInv, NEW p \in Procs, Quiet(p), Hands(p)'
  PROVE  WInv'
<1>1. Elsewhere(p) /\ UNCHANGED <<store, dependents, heap, sched, ahead, started, hit>>
  BY DEF Quiet
<1>2. Calm' /\ Created' = Created
  BY <1>1 DEF WInv, Calm, Created
<1>3. ASSUME NEW j \in Jobs, Seen(j) PROVE Seen(j)'
  BY <1>1, <1>3 DEF Seen, Quiet, Elsewhere
<1>4. ASSUME NEW j \in Created' PROVE Registered(j)'
  <2>1. Registered(j)
    BY <1>2, <1>4 DEF WInv
  <2> QED
    BY <1>1, <2>1 DEF Registered, Quiet, Elsewhere
<1>5. ASSUME NEW j \in Jobs, Parked(j)' PROVE Excused(j)'
  <2>1. ~Has(p, j)' /\ store[j].status = "pending" /\ j \notin started
    BY <1>1, <1>5 DEF Parked, Has
  <2>2. Has(p, j) => Excused(j)
    BY <2>1 DEF Quiet, Excused
  <2>3. ~Has(p, j) => Parked(j)
    BY <1>1, <1>5 DEF Parked, Has, Elsewhere
  <2>4. Excused(j)
    BY <2>2, <2>3 DEF WInv, Explained, Excused
  <2> QED
    BY <1>1, <2>4 DEF Excused, Open, Quiet, Elsewhere, Procs
<1> QED
  BY <1>1, <1>2, <1>3, <1>4, <1>5, Together DEF Explained, Excused

(* The labels and documents in the hands of p.                             *)
LEMMA Mine ==
  ASSUME TypeOK, WInv, NEW p \in Procs
  PROVE  /\ Hands(p) /\ Calm
         /\ job[p] \in Document /\ arg[p] \in Document /\ NoDocument \in Document
         /\ NoDocument.id = NoJob /\ NoJob \notin Jobs /\ ~NoDocument.future
         /\ job[p].id \in Jobs \cup {NoJob} /\ arg[p].id \in Jobs \cup {NoJob}
         /\ \A j \in Jobs : /\ store[j] \in Document /\ store[j].id = j
                            /\ DependsOn[j] \subseteq Jobs
         /\ pc \in [Procs -> Labels] /\ need \in [Procs -> SUBSET Jobs]
         /\ job \in [Procs -> Document] /\ arg \in [Procs -> Document]
         /\ todo \in [Procs -> SUBSET Jobs] /\ DOMAIN back = Procs
         /\ p \in Workers \/ p \in Clients
<1>1. NoDocument.id = NoJob
  BY AbsentDocuments DEF NoDocument
<1>2. ~NoDocument.future
  BY DEF NoDocument, Absent, NewJob
<1> QED
  BY <1>1, <1>2, InHand, StoreAssumption DEF WInv, TypeOK, Procs

(* enqueue before it writes: a job is dropped only for a parent that is    *)
(* still to complete.                                                      *)
LEMMA EnqueueQuiet ==
  ASSUME TypeOK, WInv, NEW p \in Procs, Enqueue(p) \/ EnqueueDeps(p), UNCHANGED history
  PROVE  Quiet(p) /\ Hands(p)'
<1>1. Hands(p) /\ Calm
  BY Mine
<1>2. CASE Enqueue(p)
  <2>1. Elsewhere(p) /\ UNCHANGED <<redisVars, history, job, arg, todo, back>>
    BY <1>2, Mine DEF Elsewhere, Enqueue, CheckDependencies, Goto
  <2>2. pc[p] = "enqueue" /\ pc'[p] \in {"enq_deps", "enq_zadd"}
        /\ need'[p] = DependsOn[arg[p].id]
    BY <1>1, <1>2, Mine DEF Enqueue, CheckDependencies, Goto, Hands
  <2>3. Quiet(p)
    BY <2>1, <2>2 DEF Quiet, Has
  <2>4. Hands(p)'
    BY <1>1, <2>1, <2>2 DEF Hands, PlainLabels, CarryLabels, Created, Executing, DequeueLabels
  <2> QED
    BY <2>3, <2>4
<1>3. CASE EnqueueDeps(p)
  <2>1. Elsewhere(p) /\ UNCHANGED <<redisVars, history, job, todo>>
    BY <1>3, Mine DEF Elsewhere, EnqueueDeps, ReadMet, ReadUnmet, Return, Goto
  <2>2. pc[p] = "enq_deps"
    BY <1>3 DEF EnqueueDeps
  <2>3. CASE arg'[p] = arg[p] /\ back'[p] = back[p] /\ need'[p] \subseteq need[p]
             /\ pc'[p] \in {"enq_deps", "enq_zadd"}
    <3>1. Quiet(p)
      BY <2>1, <2>2, <2>3 DEF Quiet, Has
    <3>2. Hands(p)'
      BY <1>1, <2>1, <2>2, <2>3
         DEF Hands, PlainLabels, CarryLabels, Created, Executing, DequeueLabels
    <3> QED
      BY <3>1, <3>2
  <2>4. CASE /\ arg'[p] = NoDocument /\ back'[p] = "idle" /\ pc'[p] = back[p]
             /\ \E d \in need[p] : store[d].status # "completed"
    <3>1. Open(arg[p].id)
      BY <1>1, <2>2, <2>4 DEF Hands, Open
    <3>2. Quiet(p)
      BY <2>1, <2>2, <3>1 DEF Quiet, Has
    <3>3. Hands(p)'
      BY <1>1, <2>1, <2>2, <2>4, Mine
         DEF Hands, PlainLabels, CarryLabels, Created, Executing, DequeueLabels
    <3> QED
      BY <3>2, <3>3
  <2> QED
    BY <1>3, <2>3, <2>4, Mine DEF EnqueueDeps, ReadMet, ReadUnmet, Return, Goto
<1> QED
  BY <1>2, <1>3

(* The look at one dependent after another.                                *)
LEMMA UnlockQuiet ==
  ASSUME TypeOK, WInv, Plain, NEW p \in Workers, UnlockGet(p) \/ UnlockDeps(p)
  PROVE  Quiet(p) /\ Hands(p)'
<1> USE DEF PlainLabels, CarryLabels, Created, Executing, DequeueLabels
<1>1. Hands(p) /\ Calm /\ p \in Procs
  BY Mine DEF Procs
<1>2. CASE UnlockGet(p)
  <2>1. PICK j \in todo[p] :
          LET next == NextDependent(p, todo[p] \ {j}) IN
          /\ todo' = [todo EXCEPT ![p] = @ \ {j}]
          /\ \/ /\ store[j].status = "pending"
                /\ arg' = [arg EXCEPT ![p] = store[j]]
                /\ back' = [back EXCEPT ![p] = next]
                /\ CheckDependencies(p, j, "unlock_deps", "enqueue")
             \/ /\ store[j].status # "pending"
                /\ Goto(p, next)
                /\ UNCHANGED <<need, arg, back>>
    BY <1>2 DEF UnlockGet
  <2> DEFINE next == NextDependent(p, todo[p] \ {j})
  <2>2. next = IF todo[p] = {j} THEN "tail" ELSE "unlock_get"
    BY DEF NextDependent, Plain
  <2>3. /\ Elsewhere(p) /\ UNCHANGED <<redisVars, history, job>>
        /\ pc[p] = "unlock_get" /\ j \in Jobs /\ todo'[p] = todo[p] \ {j}
    BY <1>1, <1>2, <2>1, Mine DEF UnlockGet, Elsewhere, CheckDependencies, Goto
  <2>4. arg[p].id \notin Jobs
    BY <1>1, <2>3 DEF Hands
  <2>5. CASE /\ store[j].status = "pending" /\ arg'[p] = store[j]
             /\ back'[p] = next /\ need'[p] = DependsOn[j]
             /\ pc'[p] \in {"unlock_deps", "enqueue"}
    <3>1. Quiet(p)
      BY <1>1, <2>3, <2>4, <2>5, Mine DEF Quiet, Has
    <3>2. Hands(p)'
      BY <1>1, <2>2, <2>3, <2>5, Mine DEF Hands, Calm
    <3> QED
      BY <3>1, <3>2
  <2>6. CASE /\ store[j].status # "pending" /\ pc'[p] = next
             /\ UNCHANGED <<need, arg, back>>
    <3>1. Quiet(p)
      BY <1>1, <2>3, <2>6 DEF Quiet, Has
    <3>2. Hands(p)'
      BY <1>1, <2>2, <2>3, <2>6 DEF Hands
    <3> QED
      BY <3>1, <3>2
  <2> QED
    BY <1>1, <2>1, <2>5, <2>6, Mine DEF CheckDependencies, Goto
<1>3. CASE UnlockDeps(p)
  <2>1. /\ Elsewhere(p) /\ UNCHANGED <<redisVars, history, job, todo>>
        /\ pc[p] = "unlock_deps"
    BY <1>1, <1>3, Mine DEF Elsewhere, UnlockDeps, ReadMet, ReadUnmet, Return, Goto
  <2>2. CASE arg'[p] = arg[p] /\ back'[p] = back[p] /\ need'[p] \subseteq need[p]
             /\ pc'[p] \in {"unlock_deps", "enqueue"}
    <3>1. Quiet(p)
      BY <2>1, <2>2 DEF Quiet, Has
    <3>2. Hands(p)'
      BY <1>1, <2>1, <2>2 DEF Hands
    <3> QED
      BY <3>1, <3>2
  <2>3. CASE /\ arg'[p] = NoDocument /\ back'[p] = "idle" /\ pc'[p] = back[p]
             /\ \E d \in need[p] : store[d].status # "completed"
    <3>1. Open(arg[p].id)
      BY <1>1, <2>1, <2>3 DEF Hands, Open
    <3>2. Quiet(p)
      BY <2>1, <3>1 DEF Quiet, Has
    <3>3. Hands(p)'
      BY <1>1, <2>1, <2>3, Mine DEF Hands
    <3> QED
      BY <3>2, <3>3
  <2> QED
    BY <1>1, <1>3, <2>2, <2>3, Mine DEF UnlockDeps, ReadMet, ReadUnmet, Return, Goto
<1> QED
  BY <1>2, <1>3

(* dequeue, as far as it only reads: nothing is dropped.                   *)
LEMMA DequeueQuiet ==
  ASSUME TypeOK, WInv, Plain, NEW p \in Workers, UNCHANGED <<started, hit>>,
         PromoteScan(p) \/ PopEmpty(p) \/ DequeueGet(p) \/ DequeueDeps(p) \/ Acquire(p)
  PROVE  Quiet(p) /\ Hands(p)'
<1> USE DEF PlainLabels, CarryLabels, Created, Executing, DequeueLabels
<1>1. Hands(p) /\ Calm /\ p \in Procs /\ p \notin Clients
  BY Mine, StoreAssumption DEF Procs
<1>2. CASE PromoteScan(p) \/ PopEmpty(p)
  <2>1. DueEntries = {}
    BY <1>1 DEF DueEntries, Calm
  <2>2. /\ Elsewhere(p) /\ UNCHANGED <<redisVars, need, job, arg, back>>
        /\ pc[p] \in {"idle", "pop"} /\ pc'[p] \in {"idle", "pop"} /\ todo[p] = {} /\ todo'[p] = {}
    BY <1>1, <1>2, <2>1, Mine DEF Elsewhere, PromoteScan, NextDue, PopEmpty, Goto, Hands
  <2>3. Quiet(p)
    BY <2>2 DEF Quiet, Has
  <2>4. Hands(p)'
    BY <1>1, <2>2 DEF Hands
  <2> QED
    BY <2>3, <2>4
<1>3. CASE DequeueGet(p)
  <2>1. job[p].id \in Jobs /\ store[job[p].id].status \notin {"absent", "cancelled"}
    BY <1>1, <1>3 DEF DequeueGet, Hands, Calm
  <2>2. /\ Elsewhere(p) /\ UNCHANGED <<redisVars, arg, todo, back>>
        /\ pc[p] = "get" /\ pc'[p] \in {"deps", "lock"} /\ job'[p] = store[job[p].id]
        /\ job'[p].id = job[p].id
    BY <1>1, <1>3, <2>1, Mine DEF Elsewhere, DequeueGet, CheckDependencies, Goto
  <2>3. Quiet(p)
    BY <2>2 DEF Quiet, Has
  <2>4. Hands(p)'
    BY <1>1, <2>1, <2>2, Mine DEF Hands, Calm
  <2> QED
    BY <2>3, <2>4
<1>4. CASE DequeueDeps(p) \/ Acquire(p)
  <2>1. /\ Elsewhere(p) /\ UNCHANGED <<store, dependents, heap, sched, ahead, job, arg, todo, back>>
        /\ pc[p] \in {"deps", "lock"}
        /\ pc'[p] \in {"deps", "lock", "requeue", "contended", "start"}
    BY <1>1, <1>4, Mine DEF Plain, Elsewhere, DequeueDeps, ReadMet, ReadUnmet, Acquire,
       AcquireLock, Goto
  <2>2. Quiet(p)
    BY <2>1 DEF Quiet, Has
  <2>3. Hands(p)'
    BY <1>1, <2>1 DEF Hands
  <2> QED
    BY <2>2, <2>3
<1> QED
  BY <1>2, <1>3, <1>4

(* process_job between its writes, and its end.                            *)
LEMMA RunQuiet ==
  ASSUME TypeOK, WInv, Plain, NEW p \in Workers, UNCHANGED <<started, hit>>,
         HandlerReturns(p) \/ HandlerRaises(p) \/ Recheck(p) \/ Finish(p) \/ ReleaseLock(p)
  PROVE  Quiet(p) /\ Hands(p)'
<1> USE DEF PlainLabels, CarryLabels, Created, Executing, DequeueLabels
<1>1. Hands(p) /\ Calm /\ p \in Procs
  BY Mine DEF Procs
<1>2. /\ Elsewhere(p)
      /\ UNCHANGED <<store, dependents, heap, sched, ahead, need, arg, todo, back>>
      /\ pc[p] \in {"run", "recheck", "tail", "release"}
  BY <1>1, Mine DEF Elsewhere, HandlerReturns, HandlerRaises, OnException, Recheck, Finish,
     ReleaseLock, Goto
<1>3. job[p].id \in started /\ arg[p].id \notin Jobs /\ todo[p] = {}
  BY <1>1, <1>2 DEF Hands
<1>4. ~(job[p].retries < MaxRetries)
  BY <1>1, Mine DEF Document, Plain
<1>5. \/ job'[p] = job[p] /\ pc'[p] \in {"recheck", "dlq_save", "release", "complete"}
      \/ job'[p] = NoDocument /\ pc'[p] = "idle"
  BY <1>1, <1>4, Mine DEF HandlerReturns, HandlerRaises, OnException, Recheck, Finish,
     ReleaseLock, Goto
<1>6. Quiet(p)
  BY <1>2, <1>3, <1>5 DEF Quiet, Has
<1>7. Hands(p)'
  BY <1>1, <1>2, <1>3, <1>5, Mine DEF Hands
<1> QED
  BY <1>6, <1>7

(***************************************************************************)
(* The steps that write to Redis.                                          *)
(***************************************************************************)
(* A job's document is overwritten by one that is not completed, and the   *)
(* job is seen to: others wait as before.                                  *)
Overwrites(p, d) ==
  /\ SaveJob(d) /\ UNCHANGED <<dependents, heap, sched, ahead, hit>>
  /\ started \subseteq started' /\ Elsewhere(p)
  /\ pc[p] \notin {"register", "dependents"}
  /\ job'[p].id = job[p].id
  /\ \A j \in Jobs : Has(p, j) => Has(p, j)' \/ j = d.id

LEMMA OverwriteKeeps ==
  ASSUME TypeOK, WInv, NEW p \in Procs, NEW d \in Document, d.id \in Created,
         d.status \notin {"absent", "completed", "cancelled"}, ~d.future,
         Overwrites(p, d), Hands(p)', Parked(d.id)' => d.id \in hit
  PROVE  WInv'
<1>1. /\ d.id \in Jobs /\ store'[d.id] = d
      /\ \A j \in Jobs \ {d.id} : store'[j] = store[j]
  BY DEF Created, Overwrites, SaveJob, TypeOK
<1>2. Created' = Created
  BY <1>1 DEF Created
<1>3. Calm'
  BY <1>1, <1>2 DEF Calm, WInv, Overwrites
<1>4. ASSUME NEW j \in Jobs, Seen(j) PROVE Seen(j)'
  BY <1>4 DEF Seen, Overwrites, Elsewhere
<1>5. ASSUME NEW j \in Created' PROVE Registered(j)'
  <2>1. Registered(j)
    BY <1>2, <1>5 DEF WInv
  <2> QED
    BY <2>1 DEF Registered, Overwrites, Elsewhere
<1>6. ASSUME NEW j \in Jobs, Parked(j)' PROVE Excused(j)'
  <2>1. CASE j \in hit
    BY <2>1 DEF Excused, Overwrites
  <2>2. CASE j \notin hit
    <3>1. j # d.id /\ ~Has(p, j)
      BY <1>6, <2>2 DEF Parked, Has, Overwrites
    <3>2. Parked(j)
      BY <1>1, <1>6, <3>1 DEF Parked, Has, Overwrites, Elsewhere
    <3>3. Open(j)
      BY <2>2, <3>2 DEF WInv, Explained
    <3> QED
      BY <1>1, <3>3, StoreAssumption DEF Excused, Open, Overwrites, Elsewhere, Procs
  <2> QED
    BY <2>1, <2>2
<1>7. Elsewhere(p) /\ started \subseteq started'
  BY DEF Overwrites
<1> QED
  BY <1>2, <1>3, <1>4, <1>5, <1>6, <1>7, Together DEF Explained, Excused

(* The document that enqueue writes back was seen when it was put in the   *)
(* heap, and whoever popped it has it or started it.                       *)
LEMMA EnqueueSaveKeeps ==
  ASSUME TypeOK, WInv, NEW p \in Procs, EnqueueSave(p), UNCHANGED history
  PROVE  WInv'
<1> USE DEF PlainLabels, CarryLabels, Executing, DequeueLabels
<1>0. PICK d : d = arg[p]
  OBVIOUS
<1>1. Hands(p) /\ Calm
  BY Mine
<1>2. /\ pc[p] = "enq_save" /\ Elsewhere(p) /\ SaveJob(d)
      /\ pc'[p] = back[p] /\ back'[p] = "idle" /\ arg'[p] = NoDocument
      /\ UNCHANGED <<dependents, heap, sched, ahead, need, job, todo, started, hit>>
  BY <1>0, Mine DEF EnqueueSave, Return, Goto, Elsewhere
<1>3. d \in Document /\ d.id \in Created /\ d.status = "pending" /\ ~d.future /\ Seen(d.id)
  BY <1>0, <1>1, <1>2, Mine DEF Hands
<1>4. Overwrites(p, d)
  BY <1>0, <1>2 DEF Overwrites, Has
<1>5. Created' = Created
  BY <1>2, <1>3, Mine DEF Created, SaveJob, TypeOK
<1>6. Hands(p)'
  BY <1>1, <1>2, <1>5, Mine DEF Hands
<1>7. Parked(d.id)' => d.id \in hit
  BY <1>2, <1>3 DEF Seen, Parked
<1> QED
  BY <1>3, <1>4, <1>6, <1>7, OverwriteKeeps

(* A job that starts, or ends in the dead-letter queue, is not parked.     *)
LEMMA StartKeeps ==
  ASSUME TypeOK, WInv, NEW p \in Workers, Start(p) \/ MoveToDlq(p)
  PROVE  WInv'
<1> USE DEF PlainLabels, CarryLabels, Executing, DequeueLabels
<1>1. Hands(p) /\ Calm /\ p \in Procs /\ p \notin Clients
  BY Mine, StoreAssumption DEF Procs
<1>2. PICK d : /\ d \in Document /\ d.id = job[p].id /\ d.status \in {"processing", "failed"}
               /\ ~d.future /\ SaveJob(d) /\ job' = [job EXCEPT ![p] = d]
  <2>1. CASE Start(p)
    <3> DEFINE d == [job[p] EXCEPT !.status = "processing"]
    <3>1. d \in Document /\ d.id = job[p].id /\ d.status = "processing"
      BY <1>1, Mine, Updates DEF Status
    <3>2. ~d.future
      BY <1>1, Mine DEF Document, Hands
    <3> QED
      BY <2>1, <3>1, <3>2 DEF Start
  <2>2. CASE MoveToDlq(p)
    <3> DEFINE d == DeadLettered(job[p])
    <3>1. d \in Document /\ d.id = job[p].id /\ d.status = "failed"
      BY <1>1, Mine, FailedUpdate
    <3>2. ~d.future
      BY <1>1, Mine DEF Document, Hands, DeadLettered
    <3> QED
      BY <2>2, <3>1, <3>2 DEF MoveToDlq
  <2> QED
    BY <2>1, <2>2
<1>3. /\ pc[p] \in {"start", "dlq_save"} /\ Elsewhere(p)
      /\ pc'[p] \in {"run", "release"}
      /\ UNCHANGED <<dependents, heap, sched, ahead, need, arg, todo, back, hit>>
      /\ started' = started \/ started' = started \cup {job[p].id}
      /\ pc[p] = "start" => job[p].id \in started'
  BY <1>1, <1>2, Mine DEF Start, MoveToDlq, Goto, Elsewhere
<1>4. job[p].id \in Created /\ job'[p] = d
  BY <1>1, <1>2, <1>3, Mine DEF Hands
<1>5. Created' = Created
  BY <1>2, <1>4, Mine DEF Created, SaveJob, TypeOK
<1>6. Overwrites(p, d)
  BY <1>2, <1>3, <1>4 DEF Overwrites, Has
<1>7. Hands(p)'
  BY <1>1, <1>2, <1>3, <1>4, <1>5 DEF Hands
<1>8. ~Parked(d.id)'
  BY <1>2, <1>4 DEF Parked, Created, SaveJob, TypeOK
<1> QED
  BY <1>1, <1>2, <1>4, <1>6, <1>7, <1>8, OverwriteKeeps

(* Into the heap, out of it and back: the job is always in it or in hands. *)
LEMMA HeapKeeps ==
  ASSUME TypeOK, WInv, NEW p \in Procs, UNCHANGED history,
         \/ EnqueueZadd(p)
         \/ p \in Workers /\ (Pop(p) \/ RequeueBlocked(p) \/ RequeueContended(p))
  PROVE  WInv'
<1> USE DEF PlainLabels, CarryLabels, Executing, DequeueLabels
<1>1. Hands(p) /\ Calm /\ (p \in Workers => p \notin Clients)
  BY Mine, StoreAssumption
<1>2. UNCHANGED <<store, dependents, sched, ahead, need, arg, todo, back, started, hit>>
      /\ Elsewhere(p)
  BY Mine DEF EnqueueZadd, Pop, RequeueBlocked, RequeueContended, Requeue, Goto, Elsewhere
<1>3. Created' = Created
  BY <1>2 DEF Created
<1>4. PICK j \in Created :
        /\ \A k \in Jobs \ {j} : heap'[k] = heap[k]
        /\ \/ /\ pc[p] = "enq_zadd" /\ pc'[p] = "enq_save" /\ arg[p].id = j
              /\ heap'[j] # 0 /\ job' = job
           \/ /\ pc[p] = "pop" /\ pc'[p] = "get" /\ job'[p].id = j /\ ~job'[p].future
              /\ heap'[j] = 0 /\ p \in Workers
           \/ /\ pc[p] \in {"requeue", "contended"} /\ pc'[p] = "pop" /\ job[p].id = j
              /\ heap'[j] # 0 /\ job'[p] = NoDocument /\ p \in Workers
  <2>1. CASE EnqueueZadd(p)
    <3>1. arg[p].id \in Created /\ Priority[arg[p].id] # 0
      BY <1>1, <2>1, SchedulerAssumption, Mine DEF EnqueueZadd, Hands, Created
    <3> QED
      BY <2>1, <3>1, Mine DEF EnqueueZadd, Goto, TypeOK, Created
  <2>2. CASE p \in Workers /\ Pop(p)
    <3>1. PICK j \in Jobs : First(j) /\ heap' = [heap EXCEPT ![j] = 0]
                            /\ job' = [job EXCEPT ![p] = Absent(j)]
      BY <2>2 DEF Pop
    <3>2. j \in Created
      BY <1>1, <3>1 DEF First, Calm
    <3>3. Absent(j).id = j /\ ~Absent(j).future
      <4>1. ~Absent(j).future
        BY DEF Absent, NewJob
      <4> QED
        BY <4>1, AbsentDocuments
    <3> QED
      BY <2>2, <3>1, <3>2, <3>3, Mine DEF Pop, Goto, TypeOK
  <2>3. CASE p \in Workers /\ (RequeueBlocked(p) \/ RequeueContended(p))
    <3>1. /\ job[p].id \in Created /\ job[p].id \in Jobs
          /\ 0 \notin {Priority[job[p].id]} \cup 1 .. Priority[job[p].id]
      <4>1. job[p].id \in Created /\ job[p].id \in Jobs
        BY <1>1, <2>3 DEF Hands, RequeueBlocked, RequeueContended, Requeue, Created
      <4>2. Priority[job[p].id] \in 1 .. 3
        BY <4>1, SchedulerAssumption
      <4> QED
        BY <4>1, <4>2
    <3>2. PICK q \in {Priority[job[p].id]} \cup 1 .. Priority[job[p].id] :
            heap' = [heap EXCEPT ![job[p].id] = q]
      BY <2>3 DEF RequeueBlocked, RequeueContended, Requeue
    <3> QED
      BY <2>3, <3>1, <3>2, Mine
         DEF RequeueBlocked, RequeueContended, Requeue, Goto, TypeOK
  <2> QED
    BY <2>1, <2>2, <2>3
<1>5. Calm'
  BY <1>1, <1>2, <1>3, <1>4 DEF Calm
<1>6. job[p].id \in Jobs => pc[p] \notin {"pop", "idle"}
  BY <1>1 DEF Hands
<1>7. ASSUME NEW k \in Jobs, Seen(k) PROVE Seen(k)'
  BY <1>2, <1>4, <1>6, <1>7 DEF Seen, Elsewhere
<1>8. Seen(j)' /\ j \in Jobs
  BY <1>4 DEF Seen, Created
<1>9. Hands(p)'
  BY <1>1, <1>2, <1>3, <1>4, <1>8, Mine DEF Hands
<1>10. ASSUME NEW k \in Created' PROVE Registered(k)'
  <2>1. Registered(k)
    BY <1>3, <1>10 DEF WInv
  <2> QED
    BY <1>2, <1>4, <2>1 DEF Registered, Elsewhere
<1>11. ASSUME NEW k \in Jobs, Parked(k)' PROVE Excused(k)'
  <2>1. Parked(k)
    BY <1>2, <1>4, <1>6, <1>11 DEF Parked, Elsewhere
  <2>2. Excused(k)
    BY <2>1 DEF WInv, Explained, Excused
  <2> QED
    BY <1>2, <1>4, <2>2 DEF Excused, Open, Elsewhere, Procs
<1> QED
  BY <1>2, <1>3, <1>5, <1>7, <1>9, <1>10, <1>11, Together DEF Explained, Excused

(* A completion is announced after it is stored: until then the dependents *)
(* await the worker.                                                       *)
LEMMA CompleteKeeps ==
  ASSUME TypeOK, WInv, NEW p \in Workers, Complete(p)
  PROVE  WInv'
<1> USE DEF PlainLabels, CarryLabels, Executing, DequeueLabels
<1>1. Hands(p) /\ Calm /\ p \in Procs /\ p \notin Clients
  BY Mine, StoreAssumption DEF Procs
<1>2. PICK d : d = [job[p] EXCEPT !.status = "completed"]
  OBVIOUS
<1>3. d \in Document /\ d.id = job[p].id /\ d.status = "completed" /\ ~d.future
  <2>1. ~d.future
    BY <1>1, <1>2, Mine DEF Document, Hands
  <2> QED
    BY <1>1, <1>2, <2>1, Mine, Updates DEF Status
<1>4. /\ pc[p] = "complete" /\ pc'[p] = "dependents" /\ job'[p] = d
      /\ SaveJob(d) /\ Elsewhere(p)
      /\ UNCHANGED <<dependents, heap, sched, ahead, need, arg, todo, back, started, hit>>
  BY <1>1, <1>2, Mine DEF Complete, Goto, Elsewhere
<1>5. d.id \in Created /\ d.id \in Jobs
  BY <1>1, <1>3, <1>4, Mine DEF Hands
<1>6. store'[d.id] = d /\ \A k \in Jobs \ {d.id} : store'[k] = store[k]
  BY <1>4, <1>5 DEF SaveJob, TypeOK
<1>7. Created' = Created
  BY <1>3, <1>5, <1>6 DEF Created
<1>8. Calm'
  BY <1>1, <1>3, <1>4, <1>6, <1>7 DEF Calm
<1>9. Hands(p)'
  BY <1>1, <1>3, <1>4, <1>5, <1>7 DEF Hands
<1>10. ASSUME NEW k \in Jobs, Seen(k) PROVE Seen(k)'
  BY <1>3, <1>4, <1>10 DEF Seen, Elsewhere
<1>11. ASSUME NEW k \in Created' PROVE Registered(k)'
  <2>1. Registered(k)
    BY <1>7, <1>11 DEF WInv
  <2> QED
    BY <1>4, <2>1 DEF Registered, Elsewhere
<1>12. ASSUME NEW k \in Jobs, Parked(k)' PROVE Excused(k)'
  <2>1. k # d.id
    BY <1>3, <1>6, <1>12 DEF Parked
  <2>2. Parked(k)
    BY <1>3, <1>4, <1>6, <1>12, <2>1 DEF Parked, Elsewhere
  <2>3. Excused(k)
    BY <2>2 DEF WInv, Explained, Excused
  <2>4. CASE k \in hit
    BY <1>4, <2>4 DEF Excused
  <2>5. CASE Open(k)
    <3>1. PICK e \in DependsOn[k] :
            \/ store[e].status # "completed"
            \/ \E w \in Workers : pc[w] = "dependents" /\ job[w].id = e
      BY <2>5 DEF Open
    <3>2. e \in Jobs
      BY StoreAssumption
    <3>3. CASE e = d.id
      BY <1>3, <1>4, <3>3 DEF Excused, Open
    <3>4. CASE e # d.id /\ store[e].status # "completed"
      BY <1>6, <3>2, <3>4 DEF Excused, Open
    <3>5. CASE \E w \in Workers : pc[w] = "dependents" /\ job[w].id = e
      BY <1>4, <3>5 DEF Excused, Open, Elsewhere, Procs
    <3> QED
      BY <3>1, <3>3, <3>4, <3>5
  <2> QED
    BY <2>3, <2>4, <2>5 DEF Excused
<1> QED
  BY <1>1, <1>4, <1>7, <1>8, <1>9, <1>10, <1>11, <1>12, Together DEF Explained, Excused

(* A dependent registered before the completion is announced is listed; a  *)
(* later one is still in its creator's hands, who will look for itself.    *)
LEMMA AnnounceKeeps ==
  ASSUME TypeOK, WInv, Plain, NEW p \in Workers, GetDependents(p)
  PROVE  WInv'
<1> USE DEF PlainLabels, CarryLabels, Executing, DequeueLabels
<1>1. Hands(p) /\ Calm /\ p \in Procs /\ p \notin Clients
  BY Mine, StoreAssumption DEF Procs
<1>2. /\ pc[p] = "dependents" /\ todo'[p] = dependents[job[p].id] /\ Elsewhere(p)
      /\ pc'[p] = IF todo'[p] = {} THEN "tail" ELSE "unlock_get"
      /\ UNCHANGED <<store, dependents, heap, sched, ahead, need, job, arg, back, started, hit>>
  BY <1>1, Mine DEF GetDependents, NextDependent, Goto, Elsewhere, Plain
<1>3. todo[p] = {}
  BY <1>1, <1>2 DEF Hands
<1>4. Created' = Created /\ Calm'
  BY <1>1, <1>2 DEF Created, Calm
<1>5. Hands(p)'
  BY <1>1, <1>2, <1>4 DEF Hands
<1>6. ASSUME NEW k \in Jobs, Seen(k) PROVE Seen(k)'
  BY <1>2, <1>6 DEF Seen
<1>7. ASSUME NEW k \in Created' PROVE Registered(k)'
  <2>1. Registered(k)
    BY <1>4, <1>7 DEF WInv
  <2> QED
    BY <1>2, <2>1 DEF Registered, Elsewhere
<1>8. ASSUME NEW k \in Jobs, Parked(k)' PROVE Excused(k)'
  <2>1. Parked(k) /\ k \notin dependents[job[p].id] /\ \A c \in Procs : arg[c].id # k
    BY <1>1, <1>2, <1>3, <1>8 DEF Parked, Elsewhere
  <2>2. k \in hit \/ \A e \in DependsOn[k] : k \in dependents[e]
    BY <2>1 DEF WInv, Registered, Created, Parked
  <2>3. Excused(k)
    BY <2>1 DEF WInv, Explained, Excused
  <2> QED
    BY <1>2, <2>1, <2>2, <2>3 DEF Excused, Open, Elsewhere, Procs
<1> QED
  BY <1>1, <1>2, <1>4, <1>5, <1>6, <1>7, <1>8, Together DEF Explained, Excused

(* create_job saves the job, tells its parents of it, and enqueues it.     *)
LEMMA CreateKeeps ==
  ASSUME TypeOK, WInv, Plain, NEW p \in Clients, CreateSave(p)
  PROVE  WInv'
<1> USE DEF PlainLabels, CarryLabels, Executing, DequeueLabels
<1>1. Hands(p) /\ Calm /\ p \in Procs /\ p \notin Workers
  BY Mine, StoreAssumption DEF Procs
<1>2. PICK j \in Jobs \ (Created \cup Spare) :
        /\ SaveJob(NewJob(j, FALSE)) /\ ahead' = ahead
        /\ IF DependsOn[j] = {}
             THEN CallEnqueue(p, NewJob(j, FALSE), "idle")
             ELSE /\ arg' = [arg EXCEPT ![p] = NewJob(j, FALSE)]
                  /\ Goto(p, "register")
                  /\ UNCHANGED back
  <2>1. \A later \in Delays : later = FALSE
    BY ServiceAssumption DEF Plain
  <2> QED
    BY <2>1 DEF CreateSave
<1>3. NewJob(j, FALSE).id = j /\ NewJob(j, FALSE).status = "pending" /\ ~NewJob(j, FALSE).future
  <2>1. ~NewJob(j, FALSE).future
    BY DEF NewJob
  <2> QED
    BY <2>1, NewDocuments
<1>4. /\ pc[p] = "idle" /\ arg'[p] = NewJob(j, FALSE) /\ Elsewhere(p)
      /\ pc'[p] = IF DependsOn[j] = {} THEN "enqueue" ELSE "register"
      /\ back'[p] = "idle"
      /\ UNCHANGED <<dependents, heap, sched, ahead, need, job, todo, started, hit>>
  <2>1. pc[p] = "idle" /\ back[p] = "idle"
        /\ UNCHANGED <<dependents, heap, sched, ahead, need, job, todo, started, hit>>
    BY <1>1, <1>2 DEF CreateSave, Hands
  <2>2. CASE DependsOn[j] = {}
    BY <1>1, <1>2, <2>1, <2>2, Mine DEF CallEnqueue, Goto, Elsewhere
  <2>3. CASE DependsOn[j] # {}
    BY <1>1, <1>2, <2>1, <2>3, Mine DEF Goto, Elsewhere
  <2> QED
    BY <2>2, <2>3
<1>5. store'[j] = NewJob(j, FALSE) /\ \A k \in Jobs \ {j} : store'[k] = store[k]
  BY <1>2, <1>3 DEF SaveJob, TypeOK
<1>6. Created' = Created \cup {j}
  BY <1>3, <1>5 DEF Created
<1>7. Calm'
  BY <1>1, <1>3, <1>4, <1>5, <1>6 DEF Calm
<1>8. Hands(p)'
  BY <1>1, <1>3, <1>4, <1>6 DEF Hands
<1>9. ASSUME NEW k \in Jobs, Seen(k) PROVE Seen(k)'
  BY <1>4, <1>9 DEF Seen
<1>10. ASSUME NEW k \in Created' PROVE Registered(k)'
  <2>1. CASE k = j
    BY <1>1, <1>3, <1>4, <2>1 DEF Registered
  <2>2. CASE k # j
    <3>1. Registered(k)
      BY <1>6, <1>10, <2>2 DEF WInv
    <3> QED
      BY <1>4, <3>1 DEF Registered, Elsewhere
  <2> QED
    BY <2>1, <2>2
<1>11. ASSUME NEW k \in Jobs, Parked(k)' PROVE Excused(k)'
  <2>1. k # j
    BY <1>1, <1>3, <1>4, <1>11 DEF Parked
  <2>2. arg[p].id \notin Jobs
    BY <1>1, <1>4 DEF Hands
  <2>3. Parked(k)
    BY <1>4, <1>5, <1>11, <2>1, <2>2 DEF Parked, Elsewhere
  <2>4. Excused(k)
    BY <2>3 DEF WInv, Explained, Excused
  <2> QED
    <3>1. store'[j].status # "completed" /\ DependsOn[k] \subseteq Jobs
      BY <1>3, <1>5, StoreAssumption
    <3>2. \A e \in DependsOn[k] : store[e].status # "completed" => store'[e].status # "completed"
      BY <1>5, <3>1
    <3>3. \A w \in Workers : pc'[w] = pc[w] /\ job'[w] = job[w]
      BY <1>1, <1>4 DEF Elsewhere, Procs
    <3> QED
      BY <1>4, <2>4, <3>2, <3>3 DEF Excused, Open
<1> QED
  BY <1>1, <1>4, <1>6, <1>7, <1>8, <1>9, <1>10, <1>11, Together DEF Explained, Excused

LEMMA RegisterKeeps ==
  ASSUME TypeOK, WInv, NEW p \in Clients, CreateRegister(p)
  PROVE  WInv'
<1> USE DEF PlainLabels, CarryLabels, Executing, DequeueLabels
<1>1. Hands(p) /\ Calm /\ p \in Procs /\ p \notin Workers
  BY Mine, StoreAssumption DEF Procs
<1>2. PICK j : j = arg[p].id
  OBVIOUS
<1>3. /\ pc[p] = "register" /\ pc'[p] = "enqueue" /\ back'[p] = "idle" /\ Elsewhere(p)
      /\ UNCHANGED <<store, heap, sched, ahead, need, job, todo, started, hit>>
      /\ arg' = arg /\ j \in Jobs
      /\ \A d \in Jobs : /\ dependents[d] \subseteq dependents'[d]
                         /\ d \in DependsOn[j] => j \in dependents'[d]
  BY <1>1, <1>2, Mine
     DEF CreateRegister, CallEnqueue, Goto, Elsewhere, Hands, RegisterDependents
<1>4. Created' = Created /\ Calm'
  BY <1>1, <1>3 DEF Created, Calm
<1>5. Hands(p)'
  BY <1>1, <1>3, <1>4 DEF Hands
<1>6. ASSUME NEW k \in Jobs, Seen(k) PROVE Seen(k)'
  BY <1>3, <1>6 DEF Seen
<1>7. ASSUME NEW k \in Created' PROVE Registered(k)'
  <2>1. Registered(k) /\ DependsOn[k] \subseteq Jobs
    BY <1>4, <1>7, StoreAssumption DEF WInv, Created
  <2> QED
    BY <1>2, <1>3, <2>1 DEF Registered, Elsewhere
<1>8. ASSUME NEW k \in Jobs, Parked(k)' PROVE Excused(k)'
  <2>1. Excused(k)
    BY <1>3, <1>8 DEF WInv, Explained, Excused, Parked, Elsewhere
  <2> QED
    BY <1>1, <1>3, <2>1 DEF Excused, Open, Elsewhere, Procs
<1> QED
  BY <1>1, <1>3, <1>4, <1>5, <1>6, <1>7, <1>8, Together DEF Explained, Excused

(* A fault: what p had in its hands is marked, and what it was about to    *)
(* announce.                                                               *)
LEMMA FaultKeeps ==
  ASSUME TypeOK, WInv, Plain, NEW p \in Procs,
         Abort(p) \/ (p \in Workers /\ RaiseInTry(p))
  PROVE  WInv'
<1> USE DEF PlainLabels, CarryLabels, Executing, DequeueLabels
<1>1. Hands(p) /\ Calm /\ (p \in Workers => p \notin Clients)
  BY Mine, StoreAssumption
<1>2. /\ UNCHANGED <<store, dependents, heap, sched, ahead, started>>
      /\ hit' = hit \cup InHands(p) /\ Elsewhere(p)
      /\ arg'[p] = NoDocument /\ todo'[p] = {} /\ back'[p] = "idle"
  BY Mine DEF Abort, RaiseInTry, OnException, Goto, Elsewhere
<1>3. \/ pc'[p] = "idle" /\ job'[p] = NoDocument
      \/ /\ p \in Workers /\ pc'[p] = "dlq_save" /\ job'[p] = job[p]
         /\ pc[p] \in TryLabels \cup EnqueueLabels
  <2>1. CASE Abort(p)
    BY <2>1, Mine DEF Abort, Goto
  <2>2. CASE p \in Workers /\ RaiseInTry(p)
    <3>1. ~(job[p].retries < MaxRetries)
      BY Mine DEF Document, Plain
    <3> QED
      BY <2>2, <3>1, Mine DEF RaiseInTry, OnException, Goto
  <2> QED
    BY <2>1, <2>2
<1>4. Created' = Created /\ Calm'
  BY <1>1, <1>2 DEF Created, Calm
<1>5. Hands(p)'
  BY <1>1, <1>2, <1>3, <1>4, Mine DEF Hands, TryLabels, EnqueueLabels
<1>6. ASSUME NEW k \in Jobs, Seen(k) PROVE Seen(k)'
  BY <1>2, <1>6 DEF Seen, InHands, Elsewhere
<1>7. ASSUME NEW k \in Created' PROVE Registered(k)'
  <2>1. Registered(k) /\ k \in Jobs
    BY <1>4, <1>7 DEF WInv, Created
  <2> QED
    BY <1>2, <2>1 DEF Registered, InHands, Elsewhere
<1>8. ASSUME NEW k \in Jobs, Parked(k)' PROVE Excused(k)'
  <2>1. CASE k \in hit'
    BY <2>1 DEF Excused
  <2>2. CASE k \notin hit'
    <3>1. /\ Parked(k) /\ k \notin hit /\ \A c \in Procs : arg[c].id # k
          /\ pc[p] = "dependents" => k \notin dependents[job[p].id]
      BY <1>2, <1>8, <2>2 DEF Parked, InHands, Elsewhere
    <3>2. \A e \in DependsOn[k] : k \in dependents[e]
      BY <3>1 DEF WInv, Registered, Created, Parked
    <3>3. Open(k)
      BY <3>1 DEF WInv, Explained
    <3> QED
      BY <1>2, <3>1, <3>2, <3>3 DEF Excused, Open, Elsewhere, Procs
  <2> QED
    BY <2>1, <2>2
<1> QED
  BY <1>2, <1>4, <1>5, <1>6, <1>7, <1>8, Together DEF Explained, Excused

(***************************************************************************)
(* The theorem.                                                            *)
(***************************************************************************)
(* The steps that a plain configuration cannot take.                       *)
LEMMA NotPlain ==
  ASSUME TypeOK, WInv, Plain, NEW p \in Procs
  PROVE  /\ ~EnqueueLaterSave(p) /\ ~EnqueueLaterZadd(p)
         /\ ~PromoteGet(p) /\ ~PromoteZrem(p) /\ ~PromoteZadd(p) /\ ~PromoteSave(p)
         /\ ~Recur(p) /\ ~ScheduleRetry(p)
         /\ ~CancelGet(p) /\ ~CancelSave(p) /\ ~CancelRemove(p)
         /\ ~RetryGet(p) /\ ~RetrySave(p)
         /\ \A j \in Jobs : ~Due(j)
<1>1. pc[p] \in PlainLabels /\ ahead = {}
  BY Mine DEF Hands, Calm
<1> QED
  BY <1>1 DEF PlainLabels, CarryLabels, Plain, EnqueueLaterSave, EnqueueLaterZadd,
     PromoteGet, PromoteZrem, PromoteZadd, PromoteSave, Recur, ScheduleRetry,
     CancelGet, CancelSave, CancelRemove, RetryGet, RetrySave, Due

LEMMA WakeupInit == Init => WInv
<1> SUFFICES ASSUME Init PROVE WInv
  OBVIOUS
<1>1. NoDocument.id = NoJob /\ ~NoDocument.future /\ NoJob \notin Jobs
      /\ \A j \in Jobs : Absent(j).status = "absent" /\ ~Absent(j).future
  <2>1. ~NoDocument.future /\ \A j \in Jobs : ~Absent(j).future
    BY DEF NoDocument, Absent, NewJob
  <2> QED
    BY <2>1, AbsentDocuments, StoreAssumption DEF NoDocument
<1>2. Created = {} /\ Calm
  BY <1>1 DEF Init, StoreInit, SchedulerInit, Created, Calm
<1>3. ASSUME NEW p \in Procs PROVE Hands(p)
  BY <1>1 DEF Init, StoreInit, SchedulerInit, Hands, PlainLabels, CarryLabels,
     Executing, DequeueLabels
<1>4. Explained
  BY <1>2 DEF Explained, Parked, Created
<1> QED
  BY <1>2, <1>3, <1>4 DEF WInv

LEMMA WakeupStep ==
  ASSUME TypeOK, WInv, Plain, [Next]_vars
  PROVE  WInv'
<1>1. ASSUME NEW p \in Procs, EnqueueStep(p), UNCHANGED history PROVE WInv'
  BY <1>1, NotPlain, EnqueueQuiet, QuietKeeps, EnqueueSaveKeeps, HeapKeeps DEF EnqueueStep
<1>2. ASSUME NEW w \in Workers, WorkerStep(w) PROVE WInv'
  <2>1. w \in Procs
    BY DEF Procs
  <2>2. CASE EnqueueStep(w) /\ UNCHANGED history
    BY <1>1, <2>1, <2>2
  <2>3. CASE DequeueStep(w) /\ UNCHANGED history
    BY <2>1, <2>3, NotPlain, DequeueQuiet, QuietKeeps, HeapKeeps DEF DequeueStep
  <2>4. CASE Acquire(w) \/ (ReleaseLock(w) /\ UNCHANGED history)
    BY <2>1, <2>4, DequeueQuiet, RunQuiet, QuietKeeps DEF Acquire
  <2>5. CASE HandlerReturns(w) \/ HandlerRaises(w) \/ Recheck(w) \/ Finish(w)
    BY <2>1, <2>5, RunQuiet, QuietKeeps DEF HandlerReturns, HandlerRaises, Recheck, Finish
  <2>6. CASE UnlockGet(w) \/ UnlockDeps(w)
    BY <2>1, <2>6, UnlockQuiet, QuietKeeps
  <2>7. CASE Start(w) \/ MoveToDlq(w) \/ Complete(w) \/ GetDependents(w)
    BY <2>7, StartKeeps, CompleteKeeps, AnnounceKeeps
  <2> QED
    BY <1>2, <2>1, <2>2, <2>3, <2>4, <2>5, <2>6, <2>7, NotPlain DEF WorkerStep, ProcessStep
<1>3. ASSUME NEW c \in Clients, Arrive(c) \/ RequestStep(c) PROVE WInv'
  <2>1. c \in Procs
    BY DEF Procs
  <2> QED
    BY <1>1, <1>3, <2>1, NotPlain, CreateKeeps, RegisterKeeps DEF Arrive, RequestStep
<1>4. CASE UNCHANGED vars \/ \E j \in Jobs : LockExpires(j) /\ UNCHANGED history
  <2>1. UNCHANGED <<pc, store, dependents, heap, sched, ahead, need, job, arg, todo, back, started, hit>>
    BY <1>4 DEF vars, LockExpires
  <2>2. Created' = Created /\ Calm'
    BY <2>1 DEF WInv, Calm, Created
  <2>3. \A p \in Procs : Hands(p)'
    BY <2>1, <2>2 DEF WInv, Hands, Seen, Executing
  <2>4. \A j \in Created' : Registered(j)'
    BY <2>1, <2>2 DEF WInv, Registered
  <2>5. Explained'
    BY <2>1 DEF WInv, Explained, Parked, Open
  <2> QED
    BY <2>2, <2>3, <2>4, <2>5 DEF WInv
<1>5. ASSUME NEW w \in Workers, RaiseInTry(w) PROVE WInv'
  BY <1>5, FaultKeeps DEF Procs
<1>6. ASSUME NEW j \in Jobs, Time(j) PROVE WInv'
  <2>1. ~Due(j)
    BY DEF WInv, Calm, Due
  <2> QED
    BY <1>4, <1>6, <2>1 DEF Time
<1> QED
  BY <1>2, <1>3, <1>4, <1>5, <1>6, FaultKeeps DEF Next

(***************************************************************************)
(* What keeps a parent that is not completed from completing.              *)
(***************************************************************************)
(* p is running j, whose document says processing.                         *)
RunsIt(p, j) ==
  /\ p \in Workers /\ job[p].id = j
  /\ pc[p] \in {"run", "recheck", "complete", "dlq_save"}

(* Parents exist before their children, so no line of jobs is a circle;    *)
(* and a job that is processing is run by somebody, or was lost by a fault.*)
Grounded ==
  /\ \A j \in Created : DependsOn[j] \subseteq Created
  /\ \A S \in SUBSET Created : S # {} => \E j \in S : DependsOn[j] \cap S = {}
  /\ \A j \in Jobs : store[j].status = "processing" =>
       j \in hit \/ \E p \in Procs : RunsIt(p, j)

(* A step of p that creates no job keeps this if what it stops running it  *)
(* stores as ended, or loses by a fault.                                   *)
LEMMA GroundedStays ==
  ASSUME Grounded, NEW p \in Procs, Elsewhere(p), hit \subseteq hit', Created' = Created,
         \A j \in Jobs : store'[j].status = "processing" =>
           \/ RunsIt(p, j)'
           \/ /\ store[j].status = "processing"
              /\ RunsIt(p, j) => j \in hit'
  PROVE  Grounded'
<1>1. ASSUME NEW j \in Jobs, store'[j].status = "processing"
      PROVE  j \in hit' \/ \E q \in Procs : RunsIt(q, j)'
  <2>1. CASE RunsIt(p, j)'
    BY <2>1
  <2>2. CASE store[j].status = "processing" /\ (RunsIt(p, j) => j \in hit')
    <3>1. CASE j \in hit
      BY <3>1
    <3>2. CASE \E q \in Procs \ {p} : RunsIt(q, j)
      BY <3>2 DEF RunsIt, Elsewhere
    <3> QED
      BY <2>2, <3>1, <3>2 DEF Grounded
  <2> QED
    BY <1>1, <2>1, <2>2
<1> QED
  BY <1>1 DEF Grounded

(* A new job depends on jobs that were there before it.                    *)
LEMMA GroundedGrows ==
  ASSUME Grounded, TypeOK, NEW c \in Clients, CreateSave(c)
  PROVE  Grounded'
<1>1. PICK j \in Jobs \ Created, later \in Delays :
        DependsOn[j] \subseteq Created /\ SaveJob(NewJob(j, later))
  BY DEF CreateSave
<1>2. NewJob(j, later).id = j /\ NewJob(j, later).status = "pending"
  BY <1>1, NewDocuments, ServiceAssumption
<1>3. store'[j].status = "pending" /\ \A k \in Jobs \ {j} : store'[k] = store[k]
  BY <1>1, <1>2 DEF SaveJob, TypeOK
<1>4. Created' = Created \cup {j} /\ j \notin Created
  BY <1>1, <1>3 DEF Created
<1>5. \A k \in Created' : DependsOn[k] \subseteq Created
  BY <1>1, <1>4 DEF Grounded
<1>6. ASSUME NEW S \in SUBSET Created', S # {}
      PROVE  \E k \in S : DependsOn[k] \cap S = {}
  <2>1. CASE S = {j}
    BY <1>1, <1>4, <2>1
  <2>2. CASE S # {j}
    <3>1. S \ {j} \in SUBSET Created /\ S \ {j} # {}
      BY <1>4, <1>6, <2>2
    <3>2. PICK k \in S \ {j} : DependsOn[k] \cap (S \ {j}) = {}
      BY <3>1 DEF Grounded
    <3>3. j \notin DependsOn[k]
      BY <1>4, <1>5, <3>1
    <3> QED
      BY <3>2, <3>3
  <2> QED
    BY <2>1, <2>2
<1>7. ASSUME NEW k \in Jobs, store'[k].status = "processing"
      PROVE  k \in hit' \/ \E q \in Procs : RunsIt(q, k)'
  <2>1. store[k].status = "processing"
    BY <1>3, <1>7
  <2>2. pc[c] = "idle" /\ hit' = hit /\ job' = job /\ \A q \in Procs \ {c} : pc'[q] = pc[q]
    BY DEF CreateSave, CallEnqueue, Goto, TypeOK
  <2> QED
    BY <2>1, <2>2 DEF Grounded, RunsIt
<1> QED
  BY <1>4, <1>5, <1>6, <1>7 DEF Grounded

(* The steps of a coroutine that write no document.                        *)
LEMMA GroundedReads ==
  ASSUME TypeOK, WInv, Plain, Grounded, NEW p \in Procs, UNCHANGED <<store, hit>>,
         pc'[p] # pc[p] => \/ pc[p] \notin {"run", "recheck", "complete", "dlq_save"}
                          \/ pc'[p] \in {"recheck", "complete", "dlq_save"},
         job'[p] = job[p] \/ pc[p] \notin {"run", "recheck", "complete", "dlq_save"},
         Elsewhere(p)
  PROVE  Grounded'
<1>1. Created' = Created /\ hit \subseteq hit'
  BY DEF Created
<1>2. \A j \in Jobs : RunsIt(p, j) => RunsIt(p, j)'
  BY DEF RunsIt
<1> QED
  BY <1>1, <1>2, GroundedStays

LEMMA GroundedStep ==
  ASSUME TypeOK, WInv, Plain, Grounded, [Next]_vars
  PROVE  Grounded'
<1>1. ASSUME NEW p \in Procs, EnqueueStep(p), UNCHANGED history PROVE Grounded'
  <2>1. CASE Enqueue(p) \/ EnqueueDeps(p) \/ EnqueueZadd(p)
    <3>1. UNCHANGED <<store, hit, job>> /\ Elsewhere(p)
          /\ pc[p] \in {"enqueue", "enq_deps", "enq_zadd"}
      BY <1>1, <2>1, Mine DEF Elsewhere, Enqueue, EnqueueDeps, EnqueueZadd,
         CheckDependencies, ReadMet, ReadUnmet, Return, Goto
    <3> QED
      BY <3>1, GroundedReads
  <2>2. CASE EnqueueSave(p)
    <3>1. /\ pc[p] = "enq_save" /\ SaveJob(arg[p]) /\ hit' = hit /\ Elsewhere(p)
          /\ arg[p].id \in Created /\ arg[p].status = "pending"
      <4>1. /\ pc[p] = "enq_save" /\ SaveJob(arg[p]) /\ hit' = hit /\ Elsewhere(p)
        BY <1>1, <2>2, Mine DEF EnqueueSave, Return, Goto, Elsewhere
      <4> QED
        BY <4>1, Mine DEF Hands, CarryLabels
    <3>2. store'[arg[p].id].status = "pending"
          /\ \A k \in Jobs \ {arg[p].id} : store'[k] = store[k]
      BY <3>1 DEF SaveJob, TypeOK, Created
    <3>3. Created' = Created
      BY <3>1, <3>2 DEF Created
    <3>4. \A j \in Jobs : ~RunsIt(p, j)
      BY <3>1 DEF RunsIt
    <3> QED
      BY <3>1, <3>2, <3>3, <3>4, GroundedStays
  <2> QED
    BY <1>1, <2>1, <2>2, NotPlain DEF EnqueueStep
<1>2. ASSUME NEW w \in Workers, DequeueStep(w) \/ ReleaseLock(w) \/ Acquire(w),
             UNCHANGED history
      PROVE  Grounded'
  <2>1. w \in Procs
    BY DEF Procs
  <2>2. /\ UNCHANGED <<store, hit>> /\ Elsewhere(w)
        /\ pc[w] \notin {"run", "recheck", "complete", "dlq_save"}
    BY <1>2, <2>1, NotPlain, Mine DEF Elsewhere, DequeueStep, PromoteScan, PopEmpty, Pop,
       DequeueGet, DequeueDeps, CheckDependencies, ReadMet, ReadUnmet, RequeueBlocked,
       RequeueContended, Requeue, ReleaseLock, Acquire, AcquireLock, Goto
  <2> QED
    BY <2>1, <2>2, GroundedReads
<1>3. ASSUME NEW w \in Workers, HandlerReturns(w) \/ HandlerRaises(w) \/ Recheck(w)
      PROVE  Grounded'
  <2>1. w \in Procs
    BY DEF Procs
  <2>2. UNCHANGED <<store, hit, job>> /\ Elsewhere(w) /\ pc[w] \in {"run", "recheck"}
    BY <1>3, <2>1, Mine DEF Elsewhere, HandlerReturns, HandlerRaises, OnException, Recheck, Goto
  <2>3. ~(job[w].retries < MaxRetries)
    BY <2>1, Mine DEF Document, Plain
  <2>4. Recheck(w) => store[job[w].id].status # "cancelled"
    BY <2>1, <2>2, Mine DEF Hands, Calm
  <2>5. pc'[w] \in {"recheck", "complete", "dlq_save"}
    BY <1>3, <2>1, <2>3, <2>4, Mine DEF HandlerReturns, HandlerRaises, OnException, Recheck, Goto
  <2> QED
    BY <2>1, <2>2, <2>5, GroundedReads
<1>4. ASSUME NEW w \in Workers,
             GetDependents(w) \/ UnlockGet(w) \/ UnlockDeps(w) \/ Finish(w)
      PROVE  Grounded'
  <2>1. w \in Procs
    BY DEF Procs
  <2>2. /\ UNCHANGED <<store, hit, job>> /\ Elsewhere(w)
        /\ pc[w] \in {"dependents", "unlock_get", "unlock_deps", "tail"}
    BY <1>4, <2>1, Mine DEF Elsewhere, GetDependents, UnlockGet, UnlockDeps, Finish,
       CheckDependencies, ReadMet, ReadUnmet, Return, Goto
  <2> QED
    BY <2>1, <2>2, GroundedReads
<1>5. ASSUME NEW w \in Workers, Start(w) \/ Complete(w) \/ MoveToDlq(w)
      PROVE  Grounded'
  <2>1. w \in Procs
    BY DEF Procs
  <2>2. job[w].id \in Jobs /\ job[w].id \in Created
    BY <1>5, <2>1, Mine DEF Hands, Start, Complete, MoveToDlq
  <2>3. PICK d \in Document :
          /\ d.id = job[w].id /\ SaveJob(d) /\ job' = [job EXCEPT ![w] = d]
          /\ \/ d.status = "processing" /\ pc'[w] = "run"
             \/ d.status \in {"completed", "failed"}
    <3>1. CASE Start(w)
      <4>1. [job[w] EXCEPT !.status = "processing"] \in Document
            /\ [job[w] EXCEPT !.status = "processing"].id = job[w].id
            /\ [job[w] EXCEPT !.status = "processing"].status = "processing"
        BY <2>1, Mine, Updates DEF Status
      <4> QED
        BY <2>1, <3>1, <4>1, Mine DEF Start, Goto
    <3>2. CASE Complete(w)
      <4>1. [job[w] EXCEPT !.status = "completed"] \in Document
            /\ [job[w] EXCEPT !.status = "completed"].id = job[w].id
            /\ [job[w] EXCEPT !.status = "completed"].status = "completed"
        BY <2>1, Mine, Updates DEF Status
      <4> QED
        BY <3>2, <4>1 DEF Complete
    <3>3. CASE MoveToDlq(w)
      <4>1. DeadLettered(job[w]) \in Document /\ DeadLettered(job[w]).id = job[w].id
            /\ DeadLettered(job[w]).status = "failed"
        BY <2>1, Mine, FailedUpdate
      <4> QED
        BY <3>3, <4>1 DEF MoveToDlq
    <3> QED
      BY <1>5, <3>1, <3>2, <3>3
  <2>4. hit' = hit /\ Elsewhere(w) /\ job'[w] = d
        /\ pc[w] \in {"start", "complete", "dlq_save"}
    BY <1>5, <2>1, <2>3, Mine DEF Elsewhere, Start, Complete, MoveToDlq, Goto
  <2>5. store'[d.id] = d /\ \A k \in Jobs \ {d.id} : store'[k] = store[k]
    BY <2>2, <2>3 DEF SaveJob, TypeOK
  <2>6. Created' = Created
    BY <2>2, <2>3, <2>5 DEF Created
  <2>7. ASSUME NEW j \in Jobs, store'[j].status = "processing"
        PROVE  RunsIt(w, j)' \/ (store[j].status = "processing" /\ ~RunsIt(w, j))
    <3>1. CASE j = d.id
      BY <2>3, <2>4, <2>5, <2>7, <3>1 DEF RunsIt
    <3>2. CASE j # d.id
      BY <2>3, <2>5, <2>7, <3>2 DEF RunsIt
    <3> QED
      BY <3>1, <3>2
  <2> QED
    BY <2>1, <2>4, <2>6, <2>7, GroundedStays
<1>6. ASSUME NEW w \in Workers, WorkerStep(w) PROVE Grounded'
  <2>1. w \in Procs
    BY DEF Procs
  <2>2. Acquire(w) => UNCHANGED history
    BY DEF Acquire
  <2> QED
    BY <1>1, <1>2, <1>3, <1>4, <1>5, <1>6, <2>1, <2>2, NotPlain DEF WorkerStep, ProcessStep
<1>7. ASSUME NEW c \in Clients, Arrive(c) \/ RequestStep(c) PROVE Grounded'
  <2>1. c \in Procs
    BY DEF Procs
  <2>2. CASE CreateRegister(c)
    <3>1. UNCHANGED <<store, hit, job>> /\ Elsewhere(c) /\ pc[c] = "register"
      BY <2>1, <2>2, Mine DEF Elsewhere, CreateRegister, CallEnqueue, Goto
    <3> QED
      BY <2>1, <3>1, GroundedReads
  <2> QED
    BY <1>1, <1>7, <2>1, <2>2, NotPlain, GroundedGrows DEF Arrive, RequestStep
<1>8. ASSUME NEW p \in Procs, Abort(p) \/ (p \in Workers /\ RaiseInTry(p)) PROVE Grounded'
  <2>1. store' = store /\ hit' = hit \cup InHands(p) /\ Elsewhere(p)
    BY <1>8, Mine DEF Elsewhere, Abort, RaiseInTry, OnException, Goto
  <2>2. Created' = Created
    BY <2>1 DEF Created
  <2>3. \A j \in Jobs : RunsIt(p, j) => j \in hit'
    BY <2>1 DEF RunsIt, InHands
  <2> QED
    BY <2>1, <2>2, <2>3, GroundedStays
<1>9. CASE UNCHANGED <<store, hit, pc, job>>
  <2>1. Created' = Created
    BY <1>9 DEF Created
  <2> QED
    BY <1>9, <2>1 DEF Grounded, RunsIt
<1>10. ASSUME NEW j \in Jobs, Time(j) PROVE UNCHANGED <<store, hit, pc, job>>
  <2>1. ~Due(j)
    BY DEF WInv, Calm, Due
  <2> QED
    BY <1>10, <2>1 DEF Time, LockExpires
<1>11. CASE UNCHANGED vars
  BY <1>9, <1>11 DEF vars
<1> QED
  BY <1>6, <1>7, <1>8, <1>9, <1>10, <1>11 DEF Next, Procs

LEMMA GroundedInit == Init => Grounded
<1> SUFFICES ASSUME Init PROVE Grounded
  OBVIOUS
<1>1. \A j \in Jobs : store[j].status = "absent"
  BY AbsentDocuments DEF Init, StoreInit
<1> QED
  BY <1>1 DEF Grounded, Created

(* A parked job that was not lost has a parent that is not completed; it   *)
(* is outstanding, erased, or parked itself.                               *)
LEMMA WaitsFor ==
  ASSUME TypeOK, WInv, Grounded, NEW j \in Jobs, Parked(j)
  PROVE  \/ ({j} \cup DependsOn[j]) \cap hit # {}
         \/ Awaits(j)
         \/ \E d \in DependsOn[j] : Parked(d)
<1>1. SUFFICES ASSUME ({j} \cup DependsOn[j]) \cap hit = {}
               PROVE  Awaits(j) \/ \E d \in DependsOn[j] : Parked(d)
  OBVIOUS
<1>2. PICK d \in DependsOn[j] :
        \/ store[d].status # "completed"
        \/ \E w \in Workers : pc[w] = "dependents" /\ job[w].id = d
  BY <1>1 DEF WInv, Explained, Open
<1>3. j \in Created
  BY DEF Parked, Created
<1>4. d \in Created /\ d \in Jobs /\ d \notin hit
  BY <1>1, <1>3 DEF Grounded, Created
<1>5. store[d].status \in {"pending", "processing", "completed", "failed"}
  BY <1>4 DEF TypeOK, Document, Status, Created, WInv, Calm
<1>6. CASE store[d].status = "pending"
  <2>1. CASE Adrift(d)
    BY <1>4, <2>1 DEF Parked, Erased, Awaits
  <2>2. CASE ~Adrift(d)
    <3>1. Outstanding(d)
      BY <1>6, <2>2 DEF Outstanding
    <3> QED
      BY <3>1 DEF Awaits
  <2> QED
    BY <2>1, <2>2
<1>7. CASE store[d].status = "processing"
  <2>1. \E p \in Procs : RunsIt(p, d)
    BY <1>4, <1>7 DEF Grounded
  <2>2. Outstanding(d)
    BY <2>1 DEF Outstanding, RunsIt
  <2> QED
    BY <2>2 DEF Awaits
<1>8. CASE store[d].status = "failed" \/ \E w \in Workers : pc[w] = "dependents" /\ job[w].id = d
  <2>1. Outstanding(d)
    BY <1>8 DEF Outstanding
  <2> QED
    BY <2>1 DEF Awaits
<1> QED
  BY <1>2, <1>5, <1>6, <1>7, <1>8

(* A line of parked jobs has a first one, whose parents are not parked.    *)
LEMMA LinesEnd ==
  ASSUME TypeOK, WInv, Grounded
  PROVE  LossIsLocal
<1>1. SUFFICES ASSUME NEW S \in Lines
               PROVE  \E j \in S : ({j} \cup DependsOn[j]) \cap hit # {} \/ Awaits(j)
  BY DEF LossIsLocal
<1>2. /\ S # {} /\ S \subseteq Jobs /\ \A j \in S : Parked(j)
      /\ \A j \in S : \A d \in DependsOn[j] : d \in Jobs /\ Parked(d) => d \in S
  BY <1>1 DEF Lines
<1>3. S \in SUBSET Created
  BY <1>2 DEF Parked, Created
<1>4. PICK j \in S : DependsOn[j] \cap S = {}
  BY <1>2, <1>3 DEF Grounded
<1>5. \A d \in DependsOn[j] : ~Parked(d)
  BY <1>2, <1>4, StoreAssumption
<1> QED
  BY <1>2, <1>4, <1>5, WaitsFor

(* While nobody holds stale copies of a document but enqueue (Plain), a    *)
(* process that dies or a command that raises loses nothing but what the   *)
(* coroutine cut short had in its hands and what depends on that, for any  *)
(* graph and any number of workers and clients.                            *)
THEOREM LossesAreLocal ==
  ASSUME Plain
  PROVE  Spec => []LossIsLocal
<1>1. TypeOK /\ WInv /\ Grounded /\ [Next]_vars => WInv' /\ Grounded'
  BY WakeupStep, GroundedStep
<1>2. TypeOK /\ WInv /\ Grounded => LossIsLocal
  BY LinesEnd
<1> QED
  BY <1>1, <1>2, WakeupInit, GroundedInit, SoundAlways, PTL DEF Spec

(* Without faults nothing is lost but behind an erased completion: in the  *)
(* window between create_job's registration and its own look at the        *)
(* parents, and in the one between a completion and its announcement, one  *)
(* of the two sides always sees the other, unless the document by which    *)
(* the creator is to see it was overwritten by a late save of enqueue.     *)
THEOREM WakeupsNotLost ==
  ASSUME Plain, ~Faults
  PROVE  Spec => []NoLostWakeup
<1>1. Init => hit = {}
  BY DEF Init
<1>2. hit = {} /\ [Next]_vars => (hit = {})'
  <2> SUFFICES ASSUME hit = {}, [Next]_vars PROVE hit' = {}
    OBVIOUS
  <2>1. \A p \in Procs : ~RaiseInTry(p) /\ ~Abort(p)
    BY DEF RaiseInTry, Abort
  <2> QED
    BY <2>1 DEF Next, WorkerStep, ProcessStep, Arrive, RequestStep, Time, vars, Procs,
       Acquire, Start, HandlerReturns, HandlerRaises, Recheck, Complete, GetDependents,
       UnlockGet, UnlockDeps, Recur, Finish, ScheduleRetry, MoveToDlq, CreateSave,
       CreateRegister, CancelGet, CancelSave, CancelRemove, RetryGet, RetrySave
<1>3. LossIsLocal /\ hit = {} => NoLostWakeup
  BY DEF LossIsLocal, NoLostWakeup
<1> QED
  BY <1>1, <1>2, <1>3, LossesAreLocal, PTL DEF Spec
=============================================================================
