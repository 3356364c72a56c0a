-------------------------- MODULE JobServiceProofs --------------------------
(***************************************************************************)
(* What JobService keeps for every value of its constants: its types, the  *)
(* order of dependencies, and, as long as locks outlive runs, mutual       *)
(* exclusion and with it the abstract specification Dispatch.              *)
(*                                                                         *)
(* The lemmas *Sound carry the invariant Sound of JobServiceTypes through  *)
(* every step.  The lemmas *Shape sort the steps by what they do to locks  *)
(* and executions, once for mutual exclusion and for the refinement both.  *)
(***************************************************************************)
EXTENDS JobServiceTypes

USE DEF queueVars, redisVars, localVars, history, StoreTypeOK, SchedulerTypeOK

(***************************************************************************)
(* Soundness of documents, step by step.                                   *)
(***************************************************************************)
(* A step of p touches nothing that another coroutine holds ...            *)
Own(p) ==
  \A q \in Procs \ {p} : /\ pc'[q] = pc[q] /\ need'[q] = need[q]
                         /\ job'[q] = job[q] /\ arg'[q] = arg[q]

(* ... and writes at most one document, a truthful one.                    *)
Writes(d) == SaveJob(d) /\ d \in Document /\ Truthful(d)

(* What another coroutine believes stays true while jobs succeed.          *)
LEMMA Frame ==
  ASSUME NEW q \in Procs, Local(q), pc'[q] = pc[q], need'[q] = need[q],
         job'[q].id = job[q].id, job'[q].status = job[q].status,
         job'[q].retries = job[q].retries,
         arg'[q].id = arg[q].id, arg'[q].status = arg[q].status,
         succeeded \subseteq succeeded'
  PROVE  Local(q)'
  BY DEF Local, Truthful, Carrying, Holding, Executing

(* One truthful write, and sound beliefs of its writer, keep all sound.    *)
LEMMA OwnSound ==
  ASSUME TypeOK, Sound, NEW p \in Procs, Own(p), Local(p)',
         succeeded \subseteq succeeded',
         UNCHANGED store \/ \E d : Writes(d)
  PROVE  Sound'
<1>1. \A q \in Procs : Local(q)'
  BY Frame DEF Own, Sound
<1>2. \A j \in Jobs : Truthful(store[j])'
  <2>1. CASE UNCHANGED store
    BY <2>1 DEF Sound, Truthful
  <2>2. ASSUME NEW d, Writes(d) PROVE \A j \in Jobs : Truthful(store[j])'
    <3>1. \A j \in Jobs : store'[j] = store[j] \/ store'[j] = d
      BY <2>2 DEF Writes, SaveJob, TypeOK
    <3> QED
      BY <2>2, <3>1 DEF Writes, Sound, Truthful
  <2> QED
    BY <2>1, <2>2
<1> QED
  BY <1>1, <1>2 DEF Sound

(* Documents that say nothing of success.                                  *)
LEMMA Modest ==
  ASSUME NEW d \in Document
  PROVE  /\ d.status # "completed" => Truthful(d)
         /\ Truthful(NoDocument)
         /\ \A j \in Jobs : Truthful(Absent(j))
         /\ \A j \in Jobs, later \in BOOLEAN : Truthful(NewJob(j, later))
<1>1. \A j \in Jobs \cup {NoJob} : Absent(j).status = "absent"
  BY AbsentDocuments
<1>2. \A j \in Jobs, later \in BOOLEAN : NewJob(j, later).status = "pending"
  BY NewDocuments
<1> QED
  BY <1>1, <1>2 DEF Truthful, NoDocument

(* enqueue writes back the copy it was given.                              *)
LEMMA EnqueueSound ==
  ASSUME TypeOK, Sound, NEW p \in Procs, EnqueueStep(p), UNCHANGED history
  PROVE  Sound' /\ Own(p)
<1> DEFINE Backs == {"idle", "unlock_get", "recur", "tail", "release"}
<1>1. /\ pc \in [Procs -> Labels] /\ need \in [Procs -> SUBSET Jobs]
      /\ job \in [Procs -> Document] /\ arg \in [Procs -> Document]
      /\ back[p] \in Backs /\ arg[p] \in Document
  BY DEF TypeOK
<1>2. pc[p] \in EnqueueLabels /\ job' = job
  BY DEF EnqueueStep, Enqueue, EnqueueLaterSave, EnqueueLaterZadd, EnqueueDeps,
         EnqueueZadd, EnqueueSave, EnqueueLabels
<1>3. /\ Own(p) /\ pc'[p] \in EnqueueLabels \cup Backs
      /\ arg'[p] = arg[p] \/ (arg'[p] = NoDocument /\ pc'[p] \in Backs)
  <2> USE DEF Own, Goto, EnqueueLabels
  <2>1. CASE Enqueue(p)
    BY <1>1, <2>1 DEF Enqueue, CheckDependencies
  <2>2. CASE EnqueueLaterSave(p)
    BY <1>1, <2>2 DEF EnqueueLaterSave
  <2>3. CASE EnqueueLaterZadd(p)
    BY <1>1, <2>3 DEF EnqueueLaterZadd, Return
  <2>4. CASE EnqueueDeps(p)
    BY <1>1, <2>4 DEF EnqueueDeps, ReadMet, ReadUnmet, Return
  <2>5. CASE EnqueueZadd(p)
    BY <1>1, <2>5 DEF EnqueueZadd
  <2>6. CASE EnqueueSave(p)
    BY <1>1, <2>6 DEF EnqueueSave, Return
  <2> QED
    BY <2>1, <2>2, <2>3, <2>4, <2>5, <2>6 DEF EnqueueStep
<1>4. Truthful(arg[p]) /\ Truthful(job[p]) /\ Truthful(NoDocument)
  BY <1>1, Modest DEF Sound, Local
<1>5. UNCHANGED store \/ Writes(arg[p])
  BY <1>1, <1>4 DEF Writes, EnqueueStep, Enqueue, EnqueueLaterSave,
     EnqueueLaterZadd, EnqueueDeps, EnqueueZadd, EnqueueSave
<1>6. Local(p)'
  <2>1. Truthful(job[p])' /\ Truthful(arg[p])'
    BY <1>2, <1>3, <1>4 DEF Truthful
  <2>2. Carrying(p)' => (arg[p].id \in Jobs)'
    BY <1>2, <1>3 DEF Sound, Local, Carrying, EnqueueLabels
  <2>3. ASSUME p \in Workers
        PROVE  /\ Holding(p)' => (job[p].id \in Jobs)'
               /\ pc'[p] \notin {"retry_save", "recheck", "complete", "deps", "lock"}
               /\ Executing(p)' => (DependsOn[job[p].id] \subseteq succeeded)'
    BY <1>2, <1>3, <2>3
       DEF Sound, Local, Holding, Executing, EnqueueLabels, DequeueLabels
  <2> QED
    BY <2>1, <2>2, <2>3 DEF Local
<1> QED
  BY <1>3, <1>5, <1>6, OwnSound

(* Requests write fresh, cancelled or pending documents, or old copies.    *)
LEMMA RequestSound ==
  ASSUME TypeOK, Sound, NEW c \in Clients,
         Arrive(c) \/ CreateRegister(c) \/ CancelSave(c) \/ CancelRemove(c) \/ RetrySave(c)
  PROVE  Sound' /\ Own(c)
<1>1. /\ c \in Procs /\ c \notin Workers
      /\ pc \in [Procs -> Labels] /\ need \in [Procs -> SUBSET Jobs]
      /\ job \in [Procs -> Document] /\ arg \in [Procs -> Document]
      /\ arg[c] \in Document /\ NoDocument \in Document
      /\ \A j \in Jobs : store[j] \in Document /\ store[j].id = j
  BY InHand, StoreAssumption DEF TypeOK, Procs
<1>2. job' = job /\ need' = need /\ succeeded' = succeeded
  BY DEF Arrive, CreateSave, CancelGet, RetryGet, CreateRegister, CancelSave,
         CancelRemove, RetrySave
<1>3. Truthful(arg[c]) /\ Truthful(job[c]) /\ Truthful(NoDocument)
      /\ (Carrying(c) => arg[c].id \in Jobs)
  BY <1>1, Modest DEF Sound, Local
<1>4. ASSUME NEW label, NEW d \in Document, Truthful(d),
             label \in EnqueueLabels \cup {"register", "dlq_retry_save"} => d.id \in Jobs,
             pc' = [pc EXCEPT ![c] = label], arg' = [arg EXCEPT ![c] = d],
             label # "unlock_deps",
             UNCHANGED store \/ \E e : Writes(e)
      PROVE  Sound' /\ Own(c)
  <2>1. Own(c)
    BY <1>1, <1>2, <1>4 DEF Own
  <2>2. pc'[c] = label /\ arg'[c] = d /\ job'[c] = job[c]
    BY <1>1, <1>2, <1>4
  <2>3. Local(c)'
    BY <1>1, <1>2, <1>3, <1>4, <2>2 DEF Local, Carrying, Truthful
  <2> QED
    BY <1>1, <1>2, <1>4, <2>1, <2>3, OwnSound
<1>5. CASE CreateSave(c)
  <2>1. PICK j \in Jobs, later \in BOOLEAN :
          /\ SaveJob(NewJob(j, later))
          /\ arg' = [arg EXCEPT ![c] = NewJob(j, later)]
          /\ \/ pc' = [pc EXCEPT ![c] = "enqueue"]
             \/ pc' = [pc EXCEPT ![c] = "register"]
    BY <1>5, ServiceAssumption DEF CreateSave, CallEnqueue, Goto
  <2>2. /\ NewJob(j, later) \in Document /\ NewJob(j, later).id = j
        /\ Truthful(NewJob(j, later))
    BY NewDocuments DEF Truthful
  <2>3. Writes(NewJob(j, later))
    BY <2>1, <2>2 DEF Writes
  <2> QED
    BY <1>4, <2>1, <2>2, <2>3
<1>6. CASE CreateRegister(c)
  <2>1. /\ pc[c] = "register" /\ store' = store
        /\ arg' = [arg EXCEPT ![c] = arg[c]] /\ pc' = [pc EXCEPT ![c] = "enqueue"]
    BY <1>6 DEF CreateRegister, CallEnqueue, Goto
  <2> QED
    BY <1>1, <1>3, <1>4, <2>1 DEF Carrying
<1>7. CASE CancelGet(c)
  <2>1. PICK j \in Jobs : arg' = [arg EXCEPT ![c] = [store[j] EXCEPT !.status = "cancelled"]]
    BY <1>7 DEF CancelGet, Created
  <2> DEFINE d == [store[j] EXCEPT !.status = "cancelled"]
  <2>2. d \in Document /\ Truthful(d)
    BY <1>1, Updates DEF Status, Truthful
  <2>3. pc' = [pc EXCEPT ![c] = "cancel_save"] /\ store' = store
    BY <1>7 DEF CancelGet, Goto
  <2> QED
    BY <1>4, <2>1, <2>2, <2>3 DEF EnqueueLabels
<1>8. CASE CancelSave(c)
  <2>1. /\ arg' = [arg EXCEPT ![c] = arg[c]] /\ pc' = [pc EXCEPT ![c] = "cancel_remove"]
        /\ Writes(arg[c])
    BY <1>1, <1>3, <1>8 DEF CancelSave, Goto, Writes
  <2> QED
    BY <1>1, <1>3, <1>4, <2>1 DEF EnqueueLabels
<1>9. CASE CancelRemove(c)
  <2>1. /\ arg' = [arg EXCEPT ![c] = NoDocument] /\ pc' = [pc EXCEPT ![c] = "idle"]
        /\ store' = store
    BY <1>9 DEF CancelRemove, Goto
  <2> QED
    BY <1>1, <1>3, <1>4, <2>1 DEF EnqueueLabels
<1>10. CASE RetryGet(c)
  <2>1. PICK j \in Jobs : arg' = [arg EXCEPT ![c] = Retried(store[j])]
    BY <1>10 DEF RetryGet, Created
  <2>2. /\ Retried(store[j]) \in Document /\ Retried(store[j]).id = j
        /\ Truthful(Retried(store[j]))
    BY <1>1, DlqUpdate DEF Truthful
  <2>3. pc' = [pc EXCEPT ![c] = "dlq_retry_save"] /\ store' = store
    BY <1>10 DEF RetryGet, Goto
  <2> QED
    BY <1>4, <2>1, <2>2, <2>3
<1>11. CASE RetrySave(c)
  <2>1. /\ pc[c] = "dlq_retry_save" /\ Writes(arg[c])
        /\ arg' = [arg EXCEPT ![c] = arg[c]] /\ pc' = [pc EXCEPT ![c] = "enqueue"]
    BY <1>1, <1>3, <1>11 DEF RetrySave, CallEnqueue, Goto, Writes
  <2> QED
    BY <1>1, <1>3, <1>4, <2>1 DEF Carrying
<1> QED
  BY <1>5, <1>6, <1>7, <1>8, <1>9, <1>10, <1>11 DEF Arrive

(* The worker's own beliefs after a step in which it holds no job, or      *)
(* keeps the one it holds and knows its parents to have succeeded.         *)
LEMMA Empty ==
  ASSUME TypeOK, NEW w \in Workers, Truthful(job[w])', Truthful(arg[w])',
         pc'[w] \in {"idle", "promote_get", "promote_zrem", "promote_zadd",
                     "promote_save", "pop"}
  PROVE  Local(w)'
  BY DEF Local, Carrying, Holding, Executing, EnqueueLabels, DequeueLabels

(* dequeue reads parents one by one before it tries for the lock.          *)
LEMMA DequeueSound ==
  ASSUME TypeOK, Sound, NEW w \in Workers, UNCHANGED history,
         DequeueStep(w) \/ ReleaseLock(w)
  PROVE  Sound' /\ Own(w)
<1> USE DEF Goto
<1>1. /\ w \in Procs
      /\ pc \in [Procs -> Labels] /\ need \in [Procs -> SUBSET Jobs]
      /\ job \in [Procs -> Document] /\ arg \in [Procs -> Document]
      /\ todo \in [Procs -> SUBSET Jobs]
      /\ arg[w] \in Document /\ NoDocument \in Document
      /\ \A j \in Jobs : /\ store[j] \in Document /\ store[j].id = j
                         /\ Absent(j) \in Document /\ Absent(j).id = j
  BY InHand, AbsentDocuments DEF TypeOK, Procs
<1>2. /\ Truthful(arg[w]) /\ Truthful(job[w]) /\ Truthful(NoDocument)
      /\ \A j \in Jobs : Truthful(store[j]) /\ Truthful(Absent(j))
      /\ Holding(w) => job[w].id \in Jobs
  BY <1>1, Modest DEF Sound, Local
<1>3. succeeded' = succeeded
  OBVIOUS
<1>4. Own(w)
  <2> USE DEF Own
  <2>1. CASE PromoteScan(w) \/ PromoteZadd(w) \/ PopEmpty(w)
    BY <1>1, <2>1 DEF PromoteScan, PromoteZadd, PopEmpty
  <2>2. CASE PromoteGet(w)
    BY <1>1, <2>2 DEF PromoteGet
  <2>3. CASE PromoteZrem(w)
    BY <1>1, <2>3 DEF PromoteZrem
  <2>4. CASE PromoteSave(w)
    BY <1>1, <2>4 DEF PromoteSave
  <2>5. CASE Pop(w)
    BY <1>1, <2>5 DEF Pop
  <2>6. CASE DequeueGet(w)
    BY <1>1, <2>6 DEF DequeueGet, CheckDependencies
  <2>7. CASE DequeueDeps(w)
    BY <1>1, <2>7 DEF DequeueDeps, ReadMet, ReadUnmet
  <2>8. CASE RequeueBlocked(w) \/ RequeueContended(w)
    BY <1>1, <2>8 DEF RequeueBlocked, RequeueContended, Requeue
  <2>9. CASE ReleaseLock(w)
    BY <1>1, <2>9 DEF ReleaseLock
  <2> QED
    BY <2>1, <2>2, <2>3, <2>4, <2>5, <2>6, <2>7, <2>8, <2>9 DEF DequeueStep
<1>5. UNCHANGED store \/ \E d : Writes(d)
  <2>1. CASE PromoteSave(w)
    BY <1>1, <1>2, <2>1 DEF PromoteSave, Writes
  <2> QED
    BY <2>1 DEF DequeueStep, PromoteScan, PromoteGet, PromoteZrem, PromoteZadd,
       PopEmpty, Pop, DequeueGet, DequeueDeps, RequeueBlocked, RequeueContended,
       Requeue, ReleaseLock
<1>6. Local(w)'
  <2> DEFINE Still == job' = job /\ arg' = arg
  <2>1. CASE PromoteScan(w) \/ PromoteZadd(w) \/ PopEmpty(w)
    <3>1. Still /\ pc'[w] \in {"pop", "promote_get", "promote_save", "idle"}
      BY <1>1, <2>1 DEF PromoteScan, PromoteZadd, PopEmpty, NextDue
    <3> QED
      BY <1>1, <1>2, <3>1, Empty DEF Truthful
  <2>2. CASE PromoteGet(w)
    <3>1. job' = job /\ pc'[w] = "promote_zrem" /\ \E j \in Jobs : arg'[w] = store[j]
      BY <1>1, <2>2 DEF PromoteGet
    <3> QED
      BY <1>1, <1>2, <3>1, Empty DEF Truthful
  <2>3. CASE PromoteZrem(w)
    <3>1. job' = job /\ pc'[w] \in {"pop", "promote_get", "promote_zadd"}
      BY <1>1, <2>3 DEF PromoteZrem, NextDue
    <3>2. arg'[w] = NoDocument \/ arg'[w] = [arg[w] EXCEPT !.future = FALSE]
      BY <1>1, <2>3 DEF PromoteZrem
    <3>3. Truthful(arg[w])'
      BY <1>1, <1>2, <3>2, Passes DEF Truthful
    <3> QED
      BY <1>1, <1>2, <3>1, <3>3, Empty DEF Truthful
  <2>4. CASE PromoteSave(w)
    <3>1. job' = job /\ pc'[w] \in {"pop", "promote_get"} /\ arg'[w] = NoDocument
      BY <1>1, <2>4 DEF PromoteSave, NextDue
    <3> QED
      BY <1>1, <1>2, <3>1, Empty DEF Truthful
  <2>5. CASE Pop(w)
    <3>1. arg' = arg /\ pc'[w] = "get" /\ \E j \in Jobs : job'[w] = Absent(j)
      BY <1>1, <2>5 DEF Pop
    <3> QED
      BY <1>1, <1>2, <3>1
         DEF Local, Truthful, Carrying, Executing, EnqueueLabels, DequeueLabels
  <2>6. CASE DequeueGet(w)
    <3> DEFINE d == store[job[w].id]
    <3>1. d.id \in Jobs /\ Truthful(d)
      BY <1>1, <1>2, <2>6 DEF DequeueGet, Holding
    <3>2. CASE job'[w] = NoDocument /\ pc'[w] = "pop"
      BY <1>1, <1>2, <2>6, <3>2, Empty DEF DequeueGet, Truthful
    <3>3. CASE job' = [job EXCEPT ![w] = d] /\ CheckDependencies(w, d.id, "deps", "lock")
      <4>1. /\ job'[w] = d /\ need'[w] = DependsOn[d.id] /\ arg' = arg
            /\ pc'[w] \in {"deps", "lock"}
            /\ pc'[w] = "lock" => DependsOn[d.id] = {}
        BY <1>1, <2>6, <3>3 DEF CheckDependencies, DequeueGet
      <4>2. Truthful(job[w])' /\ Truthful(arg[w])' /\ (job[w].id \in Jobs)'
        BY <1>2, <3>1, <4>1 DEF Truthful
      <4>3. ~Carrying(w)' /\ ~Executing(w)'
        BY <4>1 DEF Carrying, Executing, EnqueueLabels, DequeueLabels
      <4>4. CASE pc'[w] = "deps"
        <5>1. (DependsOn[job[w].id] \ need[w])' = {}
          BY <4>1
        <5> QED
          BY <4>2, <4>3, <4>4, <5>1 DEF Local
      <4>5. CASE pc'[w] = "lock"
        <5>1. DependsOn[job[w].id]' = {}
          BY <4>1, <4>5
        <5> QED
          BY <4>2, <4>3, <4>5, <5>1 DEF Local
      <4> QED
        BY <4>1, <4>4, <4>5
    <3> QED
      BY <1>1, <2>6, <3>2, <3>3 DEF DequeueGet
  <2>7. CASE DequeueDeps(w)
    <3>1. Still /\ job[w].id \in Jobs /\ DependsOn[job[w].id] \ need[w] \subseteq succeeded
      BY <1>1, <2>7 DEF DequeueDeps, Sound, Local, Holding
    <3>2. CASE ReadMet(w, "lock")
      <4>1. PICK d \in need[w] :
              /\ store[d].status = "completed" /\ need'[w] = need[w] \ {d}
              /\ pc'[w] = IF need[w] = {d} THEN "lock" ELSE "deps"
        BY <1>1, <2>7, <3>2 DEF ReadMet, DequeueDeps
      <4>2. d \in succeeded
        BY <1>1, <1>2, <4>1 DEF Truthful
      <4> QED
        BY <1>1, <1>2, <3>1, <4>1, <4>2
           DEF Local, Truthful, Carrying, Executing, EnqueueLabels, DequeueLabels
    <3>3. CASE ReadUnmet(w) /\ pc' = [pc EXCEPT ![w] = "requeue"]
      <4>1. pc'[w] = "requeue"
        BY <1>1, <3>3
      <4> QED
        BY <1>1, <1>2, <3>1, <4>1
           DEF Local, Truthful, Carrying, Executing, EnqueueLabels, DequeueLabels
    <3> QED
      BY <2>7, <3>2, <3>3 DEF DequeueDeps
  <2>8. CASE RequeueBlocked(w) \/ RequeueContended(w) \/ ReleaseLock(w)
    <3>1. arg' = arg /\ pc'[w] \in {"pop", "idle"} /\ job'[w] = NoDocument
      BY <1>1, <2>8 DEF RequeueBlocked, RequeueContended, Requeue, ReleaseLock
    <3> QED
      BY <1>1, <1>2, <3>1, Empty DEF Truthful
  <2> QED
    BY <2>1, <2>2, <2>3, <2>4, <2>5, <2>6, <2>7, <2>8 DEF DequeueStep
<1> QED
  BY <1>1, <1>3, <1>4, <1>5, <1>6, OwnSound

(* A worker that is executing goes on with the same job.                   *)
LEMMA Continue ==
  ASSUME TypeOK, Sound, NEW w \in Workers,
         pc[w] = "lock" \/ Executing(w), job'[w].id = job[w].id,
         succeeded \subseteq succeeded',
         Truthful(job[w])', Truthful(arg[w])', Carrying(w)' => (arg[w].id \in Jobs)',
         pc'[w] \notin {"deps", "lock"},
         pc'[w] = "retry_save" => job'[w].retries < MaxRetries,
         pc'[w] \in {"recheck", "complete"} => job[w].id \in succeeded'
  PROVE  Local(w)'
<1>1. job[w].id \in Jobs /\ DependsOn[job[w].id] \subseteq succeeded
  BY DEF Sound, Local, Holding, Executing, DequeueLabels, Procs
<1> QED
  BY <1>1 DEF Local

(* process_job writes completed only after the handler has returned.       *)
LEMMA RunSound ==
  ASSUME TypeOK, Sound, NEW w \in Workers,
         \/ Acquire(w) \/ Start(w) \/ HandlerReturns(w) \/ HandlerRaises(w)
         \/ Recheck(w) \/ Complete(w) \/ GetDependents(w)
         \/ Finish(w) \/ ScheduleRetry(w) \/ MoveToDlq(w)
  PROVE  Sound' /\ Own(w)
<1> USE DEF Goto
<1>1. /\ w \in Procs
      /\ pc \in [Procs -> Labels] /\ job \in [Procs -> Document]
      /\ arg \in [Procs -> Document] /\ need \in [Procs -> SUBSET Jobs]
      /\ job[w] \in Document
      /\ {"processing", "completed"} \subseteq Status
  BY InHand DEF TypeOK, Procs, Status
<1>2. /\ Truthful(arg[w]) /\ Truthful(job[w])
      /\ Holding(w) => job[w].id \in Jobs
      /\ pc[w] = "retry_save" => job[w].retries < MaxRetries
      /\ pc[w] \in {"recheck", "complete"} => job[w].id \in succeeded
  BY <1>1 DEF Sound, Local
<1>3. (pc[w] = "lock" \/ Executing(w)) /\ succeeded \subseteq succeeded'
  BY DEF Acquire, AcquireLock, Start, HandlerReturns, HandlerRaises, Recheck,
     Complete, GetDependents, Finish, ScheduleRetry, MoveToDlq, Executing, DequeueLabels
(* Steps that write nothing.                                               *)
<1>4. ASSUME NEW label, pc' = [pc EXCEPT ![w] = label], job' = job, arg' = arg,
             need' = need, store' = store,
             label \in {"start", "contended", "dlq_save", "retry_save", "recheck",
                        "complete", "release", "unlock_get", "recur", "tail"},
             label = "retry_save" => job[w].retries < MaxRetries,
             label \in {"recheck", "complete"} => job[w].id \in succeeded'
      PROVE  Sound' /\ Own(w)
  <2>1. pc'[w] = label /\ Own(w)
    BY <1>1, <1>4 DEF Own
  <2>2. Truthful(job[w])' /\ Truthful(arg[w])' /\ ~Carrying(w)'
    BY <1>2, <1>3, <1>4, <2>1 DEF Truthful, Carrying, EnqueueLabels
  <2>3. Local(w)'
    BY <1>3, <1>4, <2>1, <2>2, Continue
  <2> QED
    BY <1>1, <1>3, <1>4, <2>1, <2>3, OwnSound
(* Steps that write the document at hand.                                  *)
<1>5. ASSUME NEW label, NEW d \in Document, Truthful(d), SaveJob(d), d.id = job[w].id,
             pc' = [pc EXCEPT ![w] = label], job' = [job EXCEPT ![w] = d],
             need' = need,
             \/ arg' = arg /\ label \in {"run", "dependents", "release"}
             \/ arg' = [arg EXCEPT ![w] = d] /\ label = "enqueue" /\ d.id \in Jobs
      PROVE  Sound' /\ Own(w)
  <2>1. pc'[w] = label /\ job'[w] = d /\ Own(w) /\ arg'[w] \in {arg[w], d}
    BY <1>1, <1>5 DEF Own
  <2>2. Truthful(job[w])' /\ Truthful(arg[w])'
    BY <1>2, <1>3, <1>5, <2>1 DEF Truthful
  <2>3. Carrying(w)' => (arg[w].id \in Jobs)'
    BY <1>1, <1>5, <2>1 DEF Carrying, EnqueueLabels
  <2>4. Local(w)'
    BY <1>3, <1>5, <2>1, <2>2, <2>3, Continue
  <2>5. Writes(d)
    BY <1>5 DEF Writes
  <2> QED
    BY <1>1, <1>3, <2>1, <2>4, <2>5, OwnSound
<1>6. CASE Acquire(w)
  <2>1. PICK label \in {"start", "contended", "dlq_save"} : pc' = [pc EXCEPT ![w] = label]
    BY <1>6 DEF Acquire, AcquireLock
  <2> QED
    BY <1>4, <1>6, <2>1 DEF Acquire, AcquireLock
<1>7. CASE Start(w)
  <2> DEFINE d == [job[w] EXCEPT !.status = "processing"]
  <2>1. d \in Document /\ d.id = job[w].id /\ Truthful(d)
    BY <1>1, Updates DEF Truthful
  <2>2. /\ SaveJob(d) /\ job' = [job EXCEPT ![w] = d]
        /\ pc' = [pc EXCEPT ![w] = "run"] /\ need' = need /\ arg' = arg
    BY <1>7 DEF Start
  <2> QED
    BY <1>5, <2>1, <2>2
<1>8. CASE HandlerReturns(w)
  BY <1>4, <1>8 DEF HandlerReturns
<1>9. CASE HandlerRaises(w)
  <2>1. PICK label \in {"retry_save", "dlq_save"} :
          /\ pc' = [pc EXCEPT ![w] = label]
          /\ label = "retry_save" => job[w].retries < MaxRetries
    BY <1>9 DEF HandlerRaises, OnException
  <2> QED
    BY <1>4, <1>9, <2>1 DEF HandlerRaises
<1>10. CASE Recheck(w)
  <2>1. PICK label \in {"release", "complete"} : pc' = [pc EXCEPT ![w] = label]
    BY <1>10 DEF Recheck
  <2> QED
    BY <1>2, <1>3, <1>4, <1>10, <2>1 DEF Recheck
<1>11. CASE Complete(w)
  <2> DEFINE d == [job[w] EXCEPT !.status = "completed"]
  <2>1. d \in Document /\ d.id = job[w].id /\ Truthful(d)
    BY <1>1, <1>2, <1>11, Updates DEF Truthful, Complete
  <2>2. /\ SaveJob(d) /\ job' = [job EXCEPT ![w] = d]
        /\ pc' = [pc EXCEPT ![w] = "dependents"] /\ need' = need /\ arg' = arg
    BY <1>11 DEF Complete
  <2> QED
    BY <1>5, <2>1, <2>2
<1>12. CASE GetDependents(w)
  <2>1. PICK label \in {"unlock_get", "recur", "tail"} : pc' = [pc EXCEPT ![w] = label]
    BY <1>12, NextLabels DEF GetDependents
  <2> QED
    BY <1>4, <1>12, <2>1 DEF GetDependents
<1>13. CASE Finish(w)
  BY <1>4, <1>13 DEF Finish
<1>14. CASE ScheduleRetry(w)
  <2> DEFINE d == Rescheduled(job[w])
  <2>1. d \in Document /\ d.id = job[w].id /\ d.id \in Jobs /\ Truthful(d)
    BY <1>1, <1>2, <1>14, RetryUpdate DEF ScheduleRetry, Holding, Truthful
  <2>2. /\ SaveJob(d) /\ job' = [job EXCEPT ![w] = d] /\ need' = need
        /\ arg' = [arg EXCEPT ![w] = d] /\ pc' = [pc EXCEPT ![w] = "enqueue"]
    BY <1>14 DEF ScheduleRetry, CallEnqueue
  <2> QED
    BY <1>5, <2>1, <2>2
<1>15. CASE MoveToDlq(w)
  <2> DEFINE d == DeadLettered(job[w])
  <2>1. d \in Document /\ d.id = job[w].id /\ Truthful(d)
    BY <1>1, FailedUpdate DEF Truthful
  <2>2. /\ SaveJob(d) /\ job' = [job EXCEPT ![w] = d]
        /\ pc' = [pc EXCEPT ![w] = "release"] /\ need' = need /\ arg' = arg
    BY <1>15 DEF MoveToDlq
  <2> QED
    BY <1>5, <2>1, <2>2
<1> QED
  BY <1>6, <1>7, <1>8, <1>9, <1>10, <1>11, <1>12, <1>13, <1>14, <1>15

(* Unlocking copies stored documents; recurrences are fresh ones.          *)
LEMMA TailSound ==
  ASSUME TypeOK, Sound, NEW w \in Workers,
         UnlockGet(w) \/ UnlockDeps(w) \/ Recur(w)
  PROVE  Sound' /\ Own(w)
<1> DEFINE Nexts == {"unlock_get", "recur", "tail"}
           Backs == {"idle", "unlock_get", "recur", "tail", "release"}
<1>1. /\ w \in Procs
      /\ pc \in [Procs -> Labels] /\ need \in [Procs -> SUBSET Jobs]
      /\ arg \in [Procs -> Document] /\ todo \in [Procs -> SUBSET Jobs]
      /\ back[w] \in Backs /\ NoDocument \in Document
      /\ \A j \in Jobs : store[j] \in Document /\ store[j].id = j
  BY InHand DEF TypeOK, Procs
<1>2. /\ Truthful(arg[w]) /\ Truthful(job[w]) /\ Truthful(NoDocument)
      /\ \A j \in Jobs : Truthful(store[j])
  BY <1>1, Modest DEF Sound, Local
<1>3. Executing(w) /\ succeeded' = succeeded /\ job' = job
  BY DEF UnlockGet, UnlockDeps, Recur, Executing, DequeueLabels
<1>4. ASSUME NEW d \in Document, Truthful(d), NEW label,
             pc'[w] = label, arg'[w] = d, Own(w),
             label \in {"enqueue", "unlock_deps"} \cup Backs,
             label \in {"enqueue", "unlock_deps"} => d.id \in Jobs,
             UNCHANGED store \/ \E e : Writes(e)
      PROVE  Sound' /\ Own(w)
  <2>1. /\ Truthful(job[w])' /\ Truthful(arg[w])'
        /\ Carrying(w)' => (arg[w].id \in Jobs)'
    BY <1>2, <1>3, <1>4 DEF Truthful, Carrying, EnqueueLabels
  <2>2. Local(w)'
    BY <1>3, <1>4, <2>1, Continue
  <2> QED
    BY <1>1, <1>3, <1>4, <2>2, OwnSound
<1>5. CASE UnlockGet(w)
  <2>1. PICK j \in Jobs, label \in Nexts :
             \/ /\ arg' = [arg EXCEPT ![w] = store[j]]
                /\ CheckDependencies(w, j, "unlock_deps", "enqueue")
             \/ pc' = [pc EXCEPT ![w] = label] /\ UNCHANGED <<need, arg>>
    BY <1>1, <1>5, NextLabels DEF UnlockGet, Goto
  <2>2. CASE /\ arg' = [arg EXCEPT ![w] = store[j]]
             /\ CheckDependencies(w, j, "unlock_deps", "enqueue")
    <3>1. arg'[w] = store[j] /\ pc'[w] \in {"unlock_deps", "enqueue"} /\ Own(w)
      BY <1>1, <1>3, <2>2 DEF CheckDependencies, Goto, Own
    <3> QED
      BY <1>1, <1>2, <1>4, <1>5, <3>1 DEF UnlockGet
  <2>3. CASE pc' = [pc EXCEPT ![w] = label] /\ UNCHANGED <<need, arg>>
    <3>1. arg'[w] = arg[w] /\ pc'[w] = label /\ Own(w) /\ arg[w] \in Document
      BY <1>1, <1>3, <2>3 DEF Own
    <3> QED
      BY <1>2, <1>4, <1>5, <3>1 DEF UnlockGet
  <2> QED
    BY <2>1, <2>2, <2>3
<1>6. CASE UnlockDeps(w)
  <2>1. Own(w)
    BY <1>1, <1>3, <1>6 DEF UnlockDeps, ReadMet, ReadUnmet, Return, Goto, Own
  <2>2. \/ pc'[w] \in {"enqueue", "unlock_deps"} /\ arg'[w] = arg[w]
        \/ pc'[w] \in Backs /\ arg'[w] = NoDocument
    BY <1>1, <1>6 DEF UnlockDeps, ReadMet, ReadUnmet, Return, Goto
  <2>3. arg[w] \in Document /\ arg[w].id \in Jobs /\ UNCHANGED store
    BY <1>1, <1>6 DEF UnlockDeps, Sound, Local, Carrying
  <2> QED
    BY <1>1, <1>2, <1>4, <2>1, <2>2, <2>3
<1>7. CASE Recur(w)
  <2>1. CASE pc' = [pc EXCEPT ![w] = "tail"] /\ UNCHANGED <<store, ahead, arg, back>>
    <3>1. arg'[w] = arg[w] /\ pc'[w] = "tail" /\ Own(w) /\ arg[w] \in Document
      BY <1>1, <1>3, <1>7, <2>1 DEF Own, Recur
    <3> QED
      BY <1>2, <1>4, <2>1, <3>1
  <2>2. ASSUME NEW k \in Jobs, SaveJob(NewJob(k, TRUE)),
               CallEnqueue(w, NewJob(k, TRUE), "tail")
        PROVE  Sound' /\ Own(w)
    <3> DEFINE d == NewJob(k, TRUE)
    <3>1. d \in Document /\ Truthful(d) /\ d.id = k
      BY NewDocuments DEF Truthful
    <3>2. arg' = [arg EXCEPT ![w] = d] /\ pc' = [pc EXCEPT ![w] = "enqueue"] /\ Writes(d)
      BY <2>2, <3>1 DEF CallEnqueue, Goto, Writes
    <3> HIDE DEF d
    <3>3. arg'[w] = d /\ pc'[w] = "enqueue" /\ Own(w)
      BY <1>1, <1>3, <1>7, <3>2 DEF Recur, Own
    <3> QED
      BY <1>4, <3>1, <3>2, <3>3
  <2> QED
    BY <1>7, <2>1, <2>2, ServiceAssumption DEF Recur, Goto
<1> QED
  BY <1>5, <1>6, <1>7

(* A fault forgets copies and invents none.                                *)
LEMMA FaultSound ==
  ASSUME TypeOK, Sound, NEW p \in Procs,
         Abort(p) \/ (p \in Workers /\ RaiseInTry(p))
  PROVE  Sound' /\ Own(p)
<1>1. /\ pc \in [Procs -> Labels] /\ need \in [Procs -> SUBSET Jobs]
      /\ arg \in [Procs -> Document] /\ job \in [Procs -> Document]
      /\ Truthful(job[p]) /\ Truthful(NoDocument)
  BY InHand, Modest DEF TypeOK, Sound, Local
<1>2. succeeded' = succeeded /\ store' = store /\ arg'[p] = NoDocument
  BY <1>1 DEF Abort, RaiseInTry
<1>3. CASE Abort(p)
  <2>1. Own(p) /\ pc'[p] = "idle" /\ job'[p] = NoDocument
    BY <1>1, <1>3 DEF Abort, Goto, Own
  <2>2. Local(p)'
    BY <1>1, <1>2, <2>1 DEF Local, Truthful, Carrying, Holding, Executing,
       EnqueueLabels, DequeueLabels
  <2> QED
    BY <1>2, <2>1, <2>2, OwnSound
<1>4. CASE p \in Workers /\ RaiseInTry(p)
  <2>1. Own(p) /\ job' = job
    BY <1>1, <1>4 DEF RaiseInTry, OnException, Goto, Own
  <2>2. /\ pc'[p] \in {"retry_save", "dlq_save"}
        /\ pc'[p] = "retry_save" => job[p].retries < MaxRetries
    BY <1>1, <1>4 DEF RaiseInTry, OnException, Goto
  <2>3. Executing(p)
    BY <1>4 DEF RaiseInTry, Executing, TryLabels, EnqueueLabels, DequeueLabels
  <2>4. Truthful(job[p])' /\ Truthful(arg[p])' /\ ~Carrying(p)'
    BY <1>1, <1>2, <2>1, <2>2 DEF Truthful, Carrying, EnqueueLabels
  <2>5. Local(p)'
    BY <1>2, <1>4, <2>1, <2>2, <2>3, <2>4, Continue
  <2> QED
    BY <1>2, <2>1, <2>5, OwnSound
<1> QED
  BY <1>3, <1>4

(* Time changes nothing a document says about success.                     *)
LEMMA TimeSound ==
  ASSUME TypeOK, Sound, NEW j \in Jobs, Time(j)
  PROVE  Sound'
<1>1. pc' = pc /\ need' = need /\ succeeded' = succeeded
  BY DEF Time, Due, LockExpires
<1>2. CASE Due(j)
  <2>1. \A p \in Procs : Local(p)'
    BY <1>1, <1>2, DueDocuments, Frame DEF Sound
  <2> QED
    BY <1>1, <1>2, <2>1, DueDocuments DEF Sound, Truthful
<1>3. CASE LockExpires(j)
  <2>1. store' = store /\ job' = job /\ arg' = arg
    BY <1>3 DEF LockExpires
  <2>2. \A p \in Procs : Local(p)'
    BY <1>1, <2>1, Frame DEF Sound
  <2> QED
    BY <1>1, <2>1, <2>2 DEF Sound, Truthful
<1> QED
  BY <1>2, <1>3 DEF Time

(* Nothing is completed at the start.                                      *)
LEMMA InitSound == Init => Sound
<1> SUFFICES ASSUME Init PROVE Sound
  OBVIOUS
<1>1. \A p \in Procs : job[p] = NoDocument /\ arg[p] = NoDocument /\ pc[p] = "idle"
  BY DEF Init, SchedulerInit
<1>2. Truthful(NoDocument) /\ \A j \in Jobs : Truthful(Absent(j))
  BY Modest, AbsentDocuments DEF NoDocument
<1>3. \A p \in Procs : Local(p)
  BY <1>1, <1>2 DEF Local, Carrying, Holding, Executing, EnqueueLabels, DequeueLabels
<1> QED
  BY <1>2, <1>3 DEF Sound, Init, StoreInit

(* All steps together.                                                     *)
LEMMA StepSound ==
  ASSUME TypeOK, Sound, [Next]_vars
  PROVE  Sound'
<1>1. ASSUME NEW w \in Workers, WorkerStep(w) PROVE Sound'
  <2>1. w \in Procs
    BY DEF Procs
  <2> QED
    BY <1>1, <2>1, DequeueSound, EnqueueSound, RunSound, TailSound DEF WorkerStep, ProcessStep
<1>2. ASSUME NEW c \in Clients, Arrive(c) \/ RequestStep(c) PROVE Sound'
  <2>1. c \in Procs
    BY DEF Procs
  <2> QED
    BY <1>2, <2>1, EnqueueSound, RequestSound DEF RequestStep
<1>3. ASSUME NEW w \in Workers, RaiseInTry(w) PROVE Sound'
  BY <1>3, FaultSound DEF Procs
<1>4. CASE UNCHANGED vars
  <2>1. \A p \in Procs : Local(p)'
    BY <1>4, Frame DEF Sound, vars
  <2> QED
    BY <1>4, <2>1 DEF Sound, Truthful, vars
<1> QED
  BY <1>1, <1>2, <1>3, <1>4, FaultSound, TimeSound DEF Next

(***************************************************************************)
(* What a step does to the locks and to the jobs being executed.           *)
(***************************************************************************)
Same(w) ==
  /\ Executing(w)' <=> Executing(w)
  /\ Executing(w) => job'[w].id = job[w].id

Steady == lock' = lock /\ succeeded' = succeeded /\ \A v \in Workers : Same(v)

Begins(w) ==
  /\ pc[w] = "lock" /\ ~lock[job[w].id] /\ lock' = [lock EXCEPT ![job[w].id] = TRUE]
  /\ Executing(w)' /\ job' = job /\ succeeded' = succeeded
  /\ \A v \in Workers \ {w} : Same(v)

Succeeds(w) ==
  /\ Executing(w) /\ succeeded' = succeeded \cup {job[w].id}
  /\ lock' = lock /\ \A v \in Workers : Same(v)

Ends(w) ==
  /\ ~Executing(w)' /\ succeeded' = succeeded
  /\ \/ lock' = lock
     \/ Executing(w) /\ lock' = [lock EXCEPT ![job[w].id] = FALSE]
  /\ \A v \in Workers \ {w} : Same(v)

Expires(j) ==
  LockExpires(j) /\ succeeded' = succeeded

Shape ==
  \/ Steady
  \/ \E w \in Workers : Begins(w) \/ Succeeds(w) \/ Ends(w)
  \/ \E j \in Jobs : Expires(j)

(* A step of a coroutine leaves the executions of the others alone.        *)
LEMMA Others ==
  ASSUME NEW p, Own(p), NEW v \in Workers \ {p}
  PROVE  Same(v)
  BY DEF Own, Same, Executing, Procs

(* Requests execute nothing.                                               *)
LEMMA ClientShape ==
  ASSUME NEW c \in Clients, Own(c), lock' = lock, succeeded' = succeeded
  PROVE  Shape
  BY Others, StoreAssumption DEF Shape, Steady

(* A worker that executes before and after does the same job.              *)
LEMMA WorkerShape ==
  ASSUME NEW w \in Workers, Own(w), lock' = lock, succeeded' = succeeded, Same(w)
  PROVE  Shape
  BY Others DEF Shape, Steady

(* A worker goes idle, with or without its lock.                           *)
LEMMA EndShape ==
  ASSUME NEW w \in Workers, Own(w), succeeded' = succeeded, ~Executing(w)',
         \/ lock' = lock
         \/ Executing(w) /\ lock' = [lock EXCEPT ![job[w].id] = FALSE]
  PROVE  Shape
  BY Others DEF Shape, Ends

(* enqueue touches neither locks nor executions.                           *)
LEMMA EnqueueShape ==
  ASSUME TypeOK, Sound, NEW p \in Procs, EnqueueStep(p), UNCHANGED history
  PROVE  Shape
<1>1. /\ Own(p) /\ lock' = lock /\ succeeded' = succeeded /\ job' = job
      /\ pc[p] \in EnqueueLabels
  BY EnqueueSound DEF EnqueueStep, Enqueue, EnqueueLaterSave, EnqueueLaterZadd,
     EnqueueDeps, EnqueueZadd, EnqueueSave, EnqueueLabels
<1>2. CASE p \in Clients
  BY <1>1, <1>2, ClientShape
<1>3. CASE p \in Workers
  <2>1. CASE Executing(p)'
    <3>1. Executing(p)
      BY <1>1 DEF Executing, EnqueueLabels, DequeueLabels
    <3> QED
      BY <1>1, <1>3, <2>1, <3>1, WorkerShape DEF Same
  <2>2. CASE ~Executing(p)'
    BY <1>1, <1>3, <2>2, EndShape
  <2> QED
    BY <2>1, <2>2
<1> QED
  BY <1>2, <1>3 DEF Procs

(* dequeue executes nothing; release_lock ends an execution.               *)
LEMMA DequeueShape ==
  ASSUME TypeOK, Sound, NEW w \in Workers, UNCHANGED history,
         DequeueStep(w) \/ ReleaseLock(w)
  PROVE  Shape
<1>1. /\ Own(w) /\ succeeded' = succeeded /\ w \in Procs
      /\ pc \in [Procs -> Labels]
  BY DequeueSound DEF TypeOK, Procs
<1>2. CASE DequeueStep(w)
  <2>1. lock' = lock /\ ~Executing(w)
    BY <1>2 DEF DequeueStep, PromoteScan, PromoteGet, PromoteZrem, PromoteZadd,
       PromoteSave, PopEmpty, Pop, DequeueGet, DequeueDeps, RequeueBlocked,
       RequeueContended, Requeue, Executing, DequeueLabels
  <2>2. pc'[w] \in DequeueLabels
    <3> USE DEF Goto, DequeueLabels
    <3>1. \A rest : NextDue(rest) \in DequeueLabels
      BY DEF NextDue
    <3>2. CASE PromoteScan(w) \/ PromoteGet(w) \/ PromoteZadd(w) \/ PromoteSave(w)
      BY <1>1, <3>1, <3>2 DEF PromoteScan, PromoteGet, PromoteZadd, PromoteSave
    <3>3. CASE PromoteZrem(w)
      BY <1>1, <3>1, <3>3 DEF PromoteZrem
    <3>4. CASE PopEmpty(w) \/ Pop(w) \/ RequeueBlocked(w) \/ RequeueContended(w)
      BY <1>1, <3>4 DEF PopEmpty, Pop, RequeueBlocked, RequeueContended, Requeue
    <3>5. CASE DequeueGet(w)
      BY <1>1, <3>5 DEF DequeueGet, CheckDependencies
    <3>6. CASE DequeueDeps(w)
      BY <1>1, <3>6 DEF DequeueDeps, ReadMet, ReadUnmet
    <3> QED
      BY <1>2, <3>2, <3>3, <3>4, <3>5, <3>6 DEF DequeueStep
  <2> QED
    BY <1>1, <2>1, <2>2, WorkerShape DEF Same, Executing
<1>3. CASE ReleaseLock(w)
  <2>1. Executing(w) /\ ~Executing(w)' /\ lock' = [lock EXCEPT ![job[w].id] = FALSE]
    BY <1>1, <1>3 DEF ReleaseLock, Goto, Executing, DequeueLabels
  <2> QED
    BY <1>1, <2>1, EndShape
<1> QED
  BY <1>2, <1>3

(* Only Acquire begins an execution, only HandlerReturns succeeds.         *)
LEMMA RunShape ==
  ASSUME TypeOK, Sound, NEW w \in Workers,
         \/ Acquire(w) \/ Start(w) \/ HandlerReturns(w) \/ HandlerRaises(w)
         \/ Recheck(w) \/ Complete(w) \/ GetDependents(w)
         \/ Finish(w) \/ ScheduleRetry(w) \/ MoveToDlq(w)
  PROVE  Shape
<1> USE DEF Goto
<1>1. /\ Own(w) /\ w \in Procs
      /\ pc \in [Procs -> Labels] /\ job \in [Procs -> Document] /\ job[w] \in Document
      /\ {"processing", "completed"} \subseteq Status
  BY RunSound, InHand DEF TypeOK, Procs, Status
<1>2. CASE Acquire(w)
  <2>1. job' = job /\ succeeded' = succeeded /\ pc[w] = "lock"
    BY <1>2 DEF Acquire, AcquireLock
  <2>2. CASE pc'[w] = "contended" /\ lock' = lock
    BY <1>1, <2>1, <2>2, WorkerShape DEF Same, Executing, DequeueLabels
  <2>3. CASE /\ ~lock[job[w].id] /\ lock' = [lock EXCEPT ![job[w].id] = TRUE]
             /\ pc'[w] \in {"dlq_save", "start"}
    <3>1. Executing(w)'
      BY <2>3 DEF Executing, DequeueLabels
    <3>2. Begins(w)
      BY <1>1, <2>1, <2>3, <3>1, Others DEF Begins
    <3> QED
      BY <3>2 DEF Shape
  <2>4. pc'[w] \in {"contended", "dlq_save", "start"}
    BY <1>1, <1>2 DEF Acquire, AcquireLock
  <2> QED
    BY <1>1, <1>2, <2>2, <2>3, <2>4 DEF Acquire, AcquireLock
<1>3. CASE HandlerReturns(w)
  <2>1. Executing(w) /\ Executing(w)' /\ job' = job
    BY <1>1, <1>3 DEF HandlerReturns, Executing, DequeueLabels
  <2>2. Same(w)
    BY <2>1 DEF Same
  <2>3. \A v \in Workers : Same(v)
    BY <1>1, <2>2, Others
  <2>4. Succeeds(w)
    BY <1>3, <2>1, <2>3 DEF Succeeds, HandlerReturns
  <2> QED
    BY <2>4 DEF Shape
<1>4. ASSUME ~Acquire(w), ~HandlerReturns(w) PROVE Shape
  <2>1. lock' = lock /\ succeeded' = succeeded /\ Executing(w)
    BY <1>4 DEF Start, HandlerRaises, Recheck, Complete, GetDependents, Finish,
       ScheduleRetry, MoveToDlq, Executing, DequeueLabels
  <2>2. job'[w].id = job[w].id
    <3>1. CASE Start(w)
      BY <1>1, <3>1, Updates DEF Start
    <3>2. CASE Complete(w)
      BY <1>1, <3>2, Updates DEF Complete
    <3>3. CASE ScheduleRetry(w)
      <4>1. job[w].retries < MaxRetries
        BY <1>1, <3>3 DEF ScheduleRetry, Sound, Local
      <4> QED
        BY <1>1, <3>3, <4>1, RetryUpdate DEF ScheduleRetry
    <3>4. CASE MoveToDlq(w)
      BY <1>1, <3>4, FailedUpdate DEF MoveToDlq
    <3> QED
      BY <1>4, <3>1, <3>2, <3>3, <3>4
         DEF HandlerRaises, Recheck, GetDependents, Finish
  <2>3. pc'[w] \notin DequeueLabels
    <3> USE DEF DequeueLabels
    <3>1. CASE GetDependents(w)
      <4>1. pc'[w] \in {"unlock_get", "recur", "tail"}
        BY <1>1, <3>1, NextLabels DEF GetDependents
      <4> QED
        BY <4>1
    <3>2. CASE HandlerRaises(w) \/ Recheck(w)
      <4>1. pc'[w] \in {"retry_save", "dlq_save", "release", "complete"}
        BY <1>1, <3>2 DEF HandlerRaises, OnException, Recheck
      <4> QED
        BY <4>1
    <3> QED
      BY <1>1, <1>4, <3>1, <3>2 DEF Start, Complete, Finish, ScheduleRetry,
         CallEnqueue, MoveToDlq
  <2> QED
    BY <1>1, <2>1, <2>2, <2>3, WorkerShape DEF Same, Executing
<1> QED
  BY <1>2, <1>3, <1>4

(* The work after completion stays inside the execution.                   *)
LEMMA TailShape ==
  ASSUME TypeOK, Sound, NEW w \in Workers,
         UnlockGet(w) \/ UnlockDeps(w) \/ Recur(w)
  PROVE  Shape
<1>1. /\ Own(w) /\ Executing(w) /\ job' = job
      /\ lock' = lock /\ succeeded' = succeeded
  BY TailSound DEF UnlockGet, UnlockDeps, Recur, Executing, DequeueLabels
<1>2. CASE Executing(w)'
  BY <1>1, <1>2, WorkerShape DEF Same
<1>3. CASE ~Executing(w)'
  BY <1>1, <1>3, EndShape
<1> QED
  BY <1>2, <1>3

(* A crash ends an execution; a raised command does not.                   *)
LEMMA FaultShape ==
  ASSUME TypeOK, Sound, NEW p \in Procs,
         Abort(p) \/ (p \in Workers /\ RaiseInTry(p))
  PROVE  Shape
<1>1. /\ Own(p) /\ lock' = lock /\ succeeded' = succeeded
      /\ pc \in [Procs -> Labels]
  BY FaultSound DEF TypeOK, Abort, RaiseInTry
<1>2. CASE p \in Clients
  BY <1>1, <1>2, ClientShape
<1>3. CASE p \in Workers /\ Abort(p)
  <2>1. ~Executing(p)'
    BY <1>1, <1>3 DEF Abort, Goto, Executing, DequeueLabels
  <2> QED
    BY <1>1, <1>3, <2>1, EndShape
<1>4. CASE p \in Workers /\ RaiseInTry(p)
  <2>1. Executing(p) /\ job' = job
    BY <1>4 DEF RaiseInTry, Executing, TryLabels, EnqueueLabels, DequeueLabels
  <2>2. pc'[p] \in {"retry_save", "dlq_save"}
    BY <1>1, <1>4 DEF RaiseInTry, OnException, Goto
  <2> QED
    BY <1>1, <1>4, <2>1, <2>2, WorkerShape DEF Same, Executing, DequeueLabels
<1> QED
  BY <1>2, <1>3, <1>4 DEF Procs

(* All steps together.                                                     *)
LEMMA StepShape ==
  ASSUME TypeOK, Sound, [Next]_vars
  PROVE  Shape
<1>1. ASSUME NEW w \in Workers, WorkerStep(w) PROVE Shape
  <2>1. w \in Procs
    BY DEF Procs
  <2> QED
    BY <1>1, <2>1, DequeueShape, EnqueueShape, RunShape, TailShape DEF WorkerStep, ProcessStep
<1>2. ASSUME NEW c \in Clients, Arrive(c) \/ RequestStep(c) PROVE Shape
  <2>1. CASE EnqueueStep(c) /\ UNCHANGED history
    BY <2>1, EnqueueShape DEF Procs
  <2>2. CASE \/ Arrive(c) \/ CreateRegister(c)
             \/ CancelSave(c) \/ CancelRemove(c) \/ RetrySave(c)
    <3>1. Own(c) /\ lock' = lock /\ succeeded' = succeeded
      BY <2>2, RequestSound DEF Arrive, CreateSave, CancelGet, RetryGet,
         CreateRegister, CancelSave, CancelRemove, RetrySave
    <3> QED
      BY <3>1, ClientShape
  <2> QED
    BY <1>2, <2>1, <2>2 DEF RequestStep
<1>3. ASSUME NEW w \in Workers, RaiseInTry(w) PROVE Shape
  BY <1>3, FaultShape DEF Procs
<1>4. ASSUME NEW j \in Jobs, Time(j) PROVE Shape
  <2>1. CASE Due(j)
    <3>1. /\ pc' = pc /\ lock' = lock /\ succeeded' = succeeded
          /\ \A v \in Workers : job'[v].id = job[v].id
      BY <1>4, <2>1, DueDocuments DEF Due, Time, Procs
    <3> QED
      BY <3>1 DEF Shape, Steady, Same, Executing
  <2>2. CASE LockExpires(j)
    BY <1>4, <2>2 DEF Shape, Expires, Time
  <2> QED
    BY <1>4, <2>1, <2>2 DEF Time
<1>5. CASE UNCHANGED vars
  BY <1>5 DEF vars, Shape, Steady, Same, Executing
<1> QED
  BY <1>1, <1>2, <1>3, <1>4, <1>5, FaultShape DEF Next

(***************************************************************************)
(* The theorems.                                                           *)
(***************************************************************************)
(* Types and soundness together are inductive.                             *)
LEMMA SoundAlways == Spec => [](TypeOK /\ Sound)
<1>1. Init => TypeOK /\ Sound
  BY InitType, InitSound
<1>2. TypeOK /\ Sound /\ [Next]_vars => (TypeOK /\ Sound)'
  BY StepType, StepSound
<1> QED
  BY <1>1, <1>2, PTL DEF Spec

(* Every variable keeps its type; in particular no copy of a document ever *)
(* exceeds the retry budget, although each worker counts up its own copy.  *)
THEOREM TypeCorrect == Spec => []TypeOK
BY SoundAlways, PTL

(* No job is executed before the handlers of all its parents succeeded,    *)
(* for any dependency graph, schedule, request mix and faults.             *)
THEOREM DependenciesRespected == Spec => []DependencyOrder
<1>1. TypeOK /\ Sound => DependencyOrder
  BY DEF Sound, Local, DependencyOrder, Procs
<1> QED
  BY <1>1, SoundAlways, PTL

(* While locks outlive runs, or none expires, the worker executing a job   *)
(* holds its lock.                                                         *)
LEMMA StepLocked ==
  ASSUME TtlCoversRun \/ \A j \in Jobs : ~Expires(j), TypeOK, Sound, Locked, Shape
  PROVE  Locked'
<1>1. \A w \in Workers : /\ Executing(w) => lock[job[w].id]
                         /\ Holding(w) => job[w].id \in Jobs
      /\ lock \in [Jobs -> BOOLEAN]
  BY DEF Locked, Sound, Local, TypeOK, Procs
<1>2. \A w \in Workers : pc[w] = "lock" \/ Executing(w) => Holding(w)
  BY DEF Holding, Executing, DequeueLabels
<1>3. CASE Steady \/ \E w \in Workers : Succeeds(w)
  BY <1>1, <1>3 DEF Locked, MutualExclusion, Steady, Succeeds, Same
<1>4. ASSUME NEW w \in Workers, Begins(w) PROVE Locked'
  <2>1. /\ job[w].id \in Jobs
        /\ \A v \in Workers : Executing(v) => job[v].id # job[w].id
    BY <1>1, <1>2, <1>4 DEF Begins
  <2>2. \A v \in Workers : (Executing(v) => lock[job[v].id])'
    BY <1>1, <1>2, <1>4, <2>1 DEF Begins, Same
  <2>3. MutualExclusion'
    BY <1>4, <2>1 DEF Begins, Same, Locked, MutualExclusion
  <2> QED
    BY <2>2, <2>3 DEF Locked
<1>5. ASSUME NEW w \in Workers, Ends(w) PROVE Locked'
  <2>1. \A v \in Workers : (Executing(v) => lock[job[v].id])'
    BY <1>1, <1>2, <1>5 DEF Ends, Same, Locked, MutualExclusion
  <2>2. MutualExclusion'
    BY <1>5 DEF Ends, Same, Locked, MutualExclusion
  <2> QED
    BY <2>1, <2>2 DEF Locked
<1>6. ASSUME NEW j \in Jobs, Expires(j) PROVE Locked'
  <2>1. /\ pc' = pc /\ job' = job /\ lock' = [lock EXCEPT ![j] = FALSE]
        /\ \A w \in Workers : Executing(w) => job[w].id # j
    BY <1>6 DEF Expires, LockExpires
  <2> QED
    BY <1>1, <1>2, <2>1 DEF Locked, MutualExclusion, Executing
<1> QED
  BY <1>3, <1>4, <1>5, <1>6 DEF Shape

(* The inductive invariant.                                                *)
LEMMA Invariant ==
  ASSUME TtlCoversRun
  PROVE  Spec => []IInv
<1>1. Init => IInv
  <2>1. Init => \A w \in Workers : ~Executing(w)
    BY DEF Init, Executing, DequeueLabels, Procs
  <2> QED
    BY <2>1, InitType, InitSound DEF IInv, Locked, MutualExclusion
<1>2. IInv /\ [Next]_vars => IInv'
  BY StepType, StepSound, StepShape, StepLocked DEF IInv
<1> QED
  BY <1>1, <1>2, PTL DEF Spec

(* The promise of section 9.1 of docs/architecture.md, under the condition *)
(* it needs: if no run outlasts its lock, no two workers ever execute the  *)
(* same job at once, whatever crashes and raises.                          *)
THEOREM MutuallyExclusive ==
  ASSUME TtlCoversRun
  PROVE  Spec => []MutualExclusion
<1>1. IInv => MutualExclusion
  BY DEF IInv, Locked
<1> QED
  BY <1>1, Invariant, PTL

(***************************************************************************)
(* Refinement.                                                             *)
(***************************************************************************)
Running == [w \in Workers |-> IF Executing(w) THEN job[w].id ELSE NoJob]

(* Each shape of step is a step of Dispatch or a stutter.                  *)
LEMMA StepDispatch ==
  ASSUME IInv, IInv', Shape
  PROVE  [Dispatched!Next]_<<Running, succeeded>>
<1> USE DEF Running
<1>1. \A w \in Workers : pc[w] = "lock" \/ Executing(w) =>
         job[w].id \in Jobs /\ job[w].id # NoJob
  BY StoreAssumption DEF IInv, Sound, Local, Holding, Executing, DequeueLabels, Procs
<1>2. CASE Steady
  BY <1>2 DEF Steady, Same
<1>3. ASSUME NEW w \in Workers, Begins(w) PROVE Dispatched!Next
  <2>1. PICK j \in Jobs : j = job[w].id
    BY <1>1, <1>3 DEF Begins
  <2>2. DependsOn[j] \subseteq succeeded /\ ~Executing(w)
    BY <1>3, <2>1 DEF Begins, IInv, Sound, Local, Executing, DequeueLabels, Procs
  <2>3. \A v \in Workers : Executing(v) => job[v].id # j
    BY <1>3, <2>1 DEF Begins, IInv, Locked
  <2>4. Running' = [Running EXCEPT ![w] = j]
    BY <1>3, <2>1 DEF Begins, Same
  <2>5. Dispatched!Begin(w, j)
    BY <1>1, <1>3, <2>1, <2>2, <2>3, <2>4 DEF Begins, Dispatched!Begin
  <2> QED
    BY <2>5 DEF Dispatched!Next
<1>4. ASSUME NEW w \in Workers, Succeeds(w) PROVE Dispatched!Next
  <2>1. Running' = Running
    BY <1>4 DEF Succeeds, Same
  <2>2. Dispatched!Succeed(w)
    BY <1>1, <1>4, <2>1 DEF Succeeds, Dispatched!Succeed
  <2> QED
    BY <2>2 DEF Dispatched!Next
<1>5. ASSUME NEW w \in Workers, Ends(w) PROVE Dispatched!Next
  <2>1. Running' = [Running EXCEPT ![w] = NoJob]
    BY <1>5 DEF Ends, Same
  <2>2. Dispatched!End(w)
    BY <1>5, <2>1 DEF Ends, Dispatched!End
  <2> QED
    BY <2>2 DEF Dispatched!Next
<1>6. ASSUME NEW j \in Jobs, Expires(j) PROVE UNCHANGED <<Running, succeeded>>
  BY <1>6 DEF Expires, LockExpires, Executing
<1> QED
  BY <1>2, <1>3, <1>4, <1>5, <1>6 DEF Shape

(* Each step of the detailed system is a step of the abstract one or a     *)
(* stutter: taking the lock begins a run, the return of the handler is the *)
(* success, and releasing the lock, or dying, is the end.                  *)
THEOREM Refinement ==
  ASSUME TtlCoversRun
  PROVE  Spec => ImplementsDispatch
<1>1. Init => Dispatched!Init
  BY DEF Init, SchedulerInit, Dispatched!Init, Executing, DequeueLabels, Procs
<1>2. IInv /\ IInv' /\ [Next]_vars => [Dispatched!Next]_<<Running, succeeded>>
  BY StepShape, StepDispatch DEF IInv
<1> QED
  BY <1>1, <1>2, Invariant, PTL DEF Spec, ImplementsDispatch, Dispatched!Spec, Running
=============================================================================
