----------------------------- MODULE RaceProofs ------------------------------
(***************************************************************************)
(* What holds however many workers and requests race, for any dependency   *)
(* graph and whatever fails.                                               *)
(*                                                                         *)
(* Any coroutine may at any time write back a copy of a document that it   *)
(* read long ago, so nothing can be said of a job that somebody has such a *)
(* copy of.  A schedule instant is safe before the job is first taken from *)
(* a queue, for then all copies agree on it; a cancel is final once nobody *)
(* has a copy.                                                             *)
(***************************************************************************)
EXTENDS SoloProofs

USE DEF queueVars, redisVars, localVars, history, StoreTypeOK, SchedulerTypeOK

(***************************************************************************)
(* What is in a queue or in anybody's hands exists.                        *)
(***************************************************************************)
Has(p) ==
  /\ arg[p].id \in Jobs => arg[p].id \in Created /\ arg[p].status # "absent"
  /\ job[p].id \in Jobs =>
       job[p].id \in Created /\ (job[p].status = "absent" => pc[p] = "get")
  /\ todo[p] \subseteq Created

Known ==
  /\ \A j \in Jobs :
       (heap[j] # 0 \/ sched[j] # "out" => j \in Created) /\ dependents[j] \subseteq Created
  /\ \A p \in Procs : Has(p)

(* One step of p.                                                          *)
StepOf(p) ==
  \/ p \in Workers /\ (WorkerStep(p) \/ RaiseInTry(p))
  \/ p \in Clients /\ (Arrive(p) \/ RequestStep(p))
  \/ Abort(p)

(* A coroutine changes its own variables only.                             *)
LEMMA Apart ==
  ASSUME TypeOK, Sound, NEW p \in Procs, StepOf(p)
  PROVE  Elsewhere(p)
<1>1. todo \in [Procs -> SUBSET Jobs] /\ DOMAIN back = Procs
  BY DEF TypeOK
<1>2. CASE EnqueueStep(p) /\ UNCHANGED history
  <2>1. Own(p)
    BY <1>2, EnqueueSound
  <2> QED
    BY <1>1, <1>2, <2>1 DEF Own, Elsewhere, EnqueueStep, Enqueue, EnqueueLaterSave,
       EnqueueLaterZadd, EnqueueDeps, EnqueueZadd, EnqueueSave, Return
<1>3. CASE p \in Workers /\ (DequeueStep(p) \/ ReleaseLock(p)) /\ UNCHANGED history
  <2>1. Own(p)
    BY <1>3, DequeueSound
  <2> QED
    BY <1>1, <1>3, <2>1 DEF Own, Elsewhere, DequeueStep, PromoteScan, PromoteGet, PromoteZrem,
       PromoteZadd, PromoteSave, PopEmpty, Pop, DequeueGet, DequeueDeps, RequeueBlocked,
       RequeueContended, Requeue, ReleaseLock
<1>4. CASE p \in Workers /\ (Acquire(p) \/ ProcessStep(p))
  <2>1. Own(p)
    BY <1>4, RunSound, TailSound DEF ProcessStep
  <2> QED
    BY <1>1, <1>4, <2>1 DEF Own, Elsewhere, ProcessStep, Acquire, AcquireLock, Start, HandlerReturns,
       HandlerRaises, Recheck, Complete, GetDependents, UnlockGet, UnlockDeps, Return, Recur,
       Finish, ScheduleRetry, CallEnqueue, MoveToDlq
<1>5. CASE p \in Clients /\ \/ Arrive(p) \/ CreateRegister(p) \/ CancelSave(p)
                            \/ CancelRemove(p) \/ RetrySave(p)
  <2>1. Own(p)
    BY <1>5, RequestSound
  <2> QED
    BY <1>1, <1>5, <2>1 DEF Own, Elsewhere, Arrive, CreateSave, CancelGet, RetryGet,
       CreateRegister, CancelSave, CancelRemove, RetrySave, CallEnqueue
<1>6. CASE Abort(p) \/ (p \in Workers /\ RaiseInTry(p))
  <2>1. Own(p)
    BY <1>6, FaultSound
  <2> QED
    BY <1>1, <1>6, <2>1 DEF Own, Elsewhere, Abort, RaiseInTry
<1> QED
  BY <1>2, <1>3, <1>4, <1>5, <1>6 DEF StepOf, WorkerStep, RequestStep

(* No step deletes a document.                                             *)
LEMMA KnownKeeps ==
  ASSUME Known, NEW p \in Procs, Elsewhere(p), Created \subseteq Created', Has(p)',
         \A j \in Jobs \ Created' :
           (heap[j] = 0 => heap'[j] = 0) /\ (sched[j] = "out" => sched'[j] = "out"),
         \A j \in Jobs : dependents'[j] \subseteq Created'
  PROVE  Known' /\ Created \subseteq Created'
<1>1. \A q \in Procs : Has(q)'
  BY DEF Known, Has, Elsewhere
<1> QED
  BY <1>1 DEF Known

(* The documents at hand.                                                  *)
LEMMA Docs ==
  ASSUME TypeOK, Known, NEW p \in Procs
  PROVE  /\ Has(p) /\ Created \subseteq Jobs /\ NoJob \notin Jobs
         /\ job[p] \in Document /\ arg[p] \in Document
         /\ NoDocument.id = NoJob /\ NoDocument.status = "absent"
         /\ job[p].id \in Jobs \cup {NoJob} /\ arg[p].id \in Jobs \cup {NoJob}
         /\ \A j \in Jobs : /\ store[j] \in Document /\ store[j].id = j
                            /\ Absent(j).id = j /\ Absent(j).status = "absent"
                            /\ j \in Created <=> store[j].status # "absent"
         /\ pc \in [Procs -> Labels] /\ job \in [Procs -> Document]
         /\ arg \in [Procs -> Document] /\ todo \in [Procs -> SUBSET Jobs]
         /\ store \in [Jobs -> Document] /\ heap \in [Jobs -> 0 .. 3] /\ DOMAIN sched = Jobs
         /\ DOMAIN dependents = Jobs
         /\ \A j \in Jobs : dependents[j] \subseteq Created
BY InHand, AbsentDocuments, StoreAssumption DEF TypeOK, Known, NoDocument, Created

(* A saved document exists.                                                *)
LEMMA SavedExists ==
  ASSUME TypeOK, NEW d, SaveJob(d), d.status # "absent"
  PROVE  Created \subseteq Created' /\ (d.id \in Jobs => d.id \in Created')
BY DEF TypeOK, SaveJob, Created

(* enqueue queues the job it was called for, which was saved before.       *)
LEMMA EnqueueKnown ==
  ASSUME TypeOK, Sound, Known, NEW p \in Procs, EnqueueStep(p), UNCHANGED history, Elsewhere(p)
  PROVE  Known' /\ Created \subseteq Created'
<1>1. /\ arg[p].id \in Jobs /\ arg[p].id \in Created /\ arg[p].status # "absent"
      /\ pc[p] \in EnqueueLabels /\ pc[p] # "get"
  BY Docs DEF Sound, Local, Carrying, Has, EnqueueStep, Enqueue, EnqueueLaterSave,
     EnqueueLaterZadd, EnqueueDeps, EnqueueZadd, EnqueueSave, EnqueueLabels
<1>2. Created \subseteq Created'
  <2>1. store' = store \/ SaveJob(arg[p])
    BY DEF EnqueueStep, Enqueue, EnqueueLaterSave, EnqueueLaterZadd, EnqueueDeps, EnqueueZadd, EnqueueSave
  <2> QED
    BY <1>1, <2>1, SavedExists DEF Created
<1>3. /\ arg'[p] \in {arg[p], NoDocument} /\ job'[p] = job[p] /\ todo'[p] = todo[p]
      /\ dependents' = dependents
      /\ \A j \in Jobs : j # arg[p].id => heap'[j] = heap[j] /\ sched'[j] = sched[j]
  BY Docs DEF EnqueueStep, Enqueue, EnqueueLaterSave, EnqueueLaterZadd,
     EnqueueDeps, EnqueueZadd, EnqueueSave, Return
<1>4. Has(p)'
  BY <1>1, <1>2, <1>3, Docs DEF Has
<1> QED
  BY <1>1, <1>2, <1>3, <1>4, KnownKeeps, Docs

(* dequeue moves jobs between queues and reads what is in them.            *)
LEMMA DequeueKnown ==
  ASSUME TypeOK, Sound, Known, NEW w \in Workers, Elsewhere(w),
         DequeueStep(w) \/ ReleaseLock(w), UNCHANGED history
  PROVE  Known' /\ Created \subseteq Created'
<1>1. w \in Procs /\ Has(w)
  BY DEF Known, Procs
<1>2. dependents' = dependents
  BY DEF DequeueStep, PromoteScan, PromoteGet, PromoteZrem, PromoteZadd, PromoteSave,
     PopEmpty, Pop, DequeueGet, DequeueDeps, RequeueBlocked, RequeueContended, Requeue, ReleaseLock
<1>3. ASSUME UNCHANGED store, Has(w)', \A j \in Jobs : heap'[j] \in {heap[j], 0},
             \A j \in Jobs : sched'[j] \in {sched[j], "out"}
      PROVE  Known' /\ Created \subseteq Created'
  BY <1>1, <1>2, <1>3, KnownKeeps, Docs DEF Created
<1>4. CASE PromoteScan(w)
  <2>1. /\ UNCHANGED <<store, heap, sched, arg, job>> /\ todo'[w] \subseteq Created
        /\ pc[w] = "idle"
    BY <1>1, <1>4, Docs DEF PromoteScan, DueEntries, Known
  <2>2. job[w].id \in Jobs => job[w].status # "absent"
    BY <1>1, <2>1 DEF Has
  <2> QED
    BY <1>1, <1>3, <2>1, <2>2 DEF Has, Created
<1>5. CASE PromoteGet(w)
  <2>1. PICK i \in todo[w] : /\ arg' = [arg EXCEPT ![w] = store[i]]
                             /\ todo' = [todo EXCEPT ![w] = @ \ {i}]
    BY <1>5 DEF PromoteGet
  <2>2. /\ UNCHANGED <<store, heap, sched, job>> /\ todo'[w] \subseteq Created
        /\ i \in Created /\ arg'[w] = store[i] /\ pc[w] = "promote_get"
    BY <1>1, <1>5, <2>1, Docs DEF PromoteGet, Has
  <2> QED
    BY <1>1, <1>3, <2>2, Docs DEF Has, Created
<1>6. CASE PromoteZrem(w)
  <2>1. [arg[w] EXCEPT !.future = FALSE].id = arg[w].id
        /\ [arg[w] EXCEPT !.future = FALSE].status = arg[w].status
    BY <1>1, Passes, Docs
  <2>2. /\ UNCHANGED <<store, heap, job, todo>> /\ pc[w] = "promote_zrem"
        /\ \A j \in Jobs : sched'[j] \in {sched[j], "out"}
        /\ arg'[w].id = NoJob \/ (arg'[w].id = arg[w].id /\ arg'[w].status = arg[w].status)
    BY <1>1, <1>6, <2>1, Docs DEF PromoteZrem, Unschedule
  <2> QED
    BY <1>1, <1>3, <2>2, Docs DEF Has, Created
<1>7. CASE PromoteZadd(w)
  <2>1. /\ UNCHANGED <<store, sched, arg, job, todo>> /\ pc[w] = "promote_zadd"
        /\ \A j \in Jobs : j # arg[w].id => heap'[j] = heap[j]
    BY <1>7, Docs DEF PromoteZadd, TypeOK
  <2>2. Created' = Created /\ Has(w)'
    BY <1>1, <2>1 DEF Has, Created
  <2> QED
    BY <1>1, <1>2, <2>1, <2>2, KnownKeeps, Docs DEF Has
<1>8. CASE PromoteSave(w)
  <2>1. /\ SaveJob(arg[w]) /\ UNCHANGED <<heap, sched, job, todo>> /\ pc[w] = "promote_save"
        /\ arg'[w] = NoDocument
    BY <1>1, <1>8, Docs DEF PromoteSave
  <2>2. Created \subseteq Created'
    <3>1. CASE arg[w].id \in Jobs
      BY <1>1, <2>1, <3>1, SavedExists DEF Has
    <3>2. CASE arg[w].id \notin Jobs
      BY <2>1, <3>2, Docs DEF SaveJob, Created
    <3> QED
      BY <3>1, <3>2
  <2>3. Has(w)'
    BY <1>1, <2>1, <2>2, Docs DEF Has
  <2> QED
    BY <1>1, <1>2, <2>1, <2>2, <2>3, KnownKeeps, Docs
<1>9. CASE PopEmpty(w) \/ DequeueDeps(w)
  <2>1. UNCHANGED <<store, heap, sched, arg, job, todo>> /\ pc[w] \in {"pop", "deps"}
    BY <1>9 DEF PopEmpty, DequeueDeps
  <2> QED
    BY <1>1, <1>3, <2>1 DEF Has, Created
<1>10. CASE Pop(w)
  <2>1. PICK i \in Jobs : /\ heap[i] # 0 /\ heap' = [heap EXCEPT ![i] = 0]
                          /\ job' = [job EXCEPT ![w] = Absent(i)]
    BY <1>10 DEF Pop, First
  <2>2. /\ UNCHANGED <<store, sched, arg, todo>> /\ pc'[w] = "get"
        /\ i \in Created /\ job'[w] = Absent(i) /\ \A j \in Jobs : heap'[j] \in {heap[j], 0}
    BY <1>1, <1>10, <2>1, Docs DEF Pop, Goto, Known
  <2> QED
    BY <1>1, <1>3, <2>1, <2>2, Docs DEF Has, Created
<1>11. CASE DequeueGet(w)
  <2>1. PICK i \in Jobs : i = job[w].id
    BY <1>1, <1>11 DEF Sound, Local, Holding, DequeueGet
  <2>2. /\ UNCHANGED <<store, heap, sched, arg, todo>>
        /\ job'[w] = NoDocument \/ job'[w] = store[i]
    BY <1>1, <1>11, <2>1, Docs DEF DequeueGet
  <2> QED
    BY <1>1, <1>3, <2>1, <2>2, Docs DEF Has, Created
<1>12. CASE ReleaseLock(w)
  <2>1. UNCHANGED <<store, heap, sched, arg, todo>> /\ job'[w] = NoDocument
    BY <1>1, <1>12, Docs DEF ReleaseLock
  <2> QED
    BY <1>1, <1>3, <2>1, Docs DEF Has, Created
<1>13. CASE RequeueBlocked(w) \/ RequeueContended(w)
  <2>1. /\ UNCHANGED <<store, sched, arg, todo>> /\ job'[w] = NoDocument
        /\ pc[w] \in {"requeue", "contended"}
        /\ \A j \in Jobs : j # job[w].id => heap'[j] = heap[j]
    BY <1>1, <1>13, Docs DEF RequeueBlocked, RequeueContended, Requeue
  <2>2. Created' = Created /\ Has(w)'
    BY <1>1, <2>1, Docs DEF Has, Created
  <2> QED
    BY <1>1, <1>2, <2>1, <2>2, KnownKeeps, Docs DEF Has
<1> QED
  BY <1>4, <1>5, <1>6, <1>7, <1>8, <1>9, <1>10, <1>11, <1>12, <1>13 DEF DequeueStep

(* A worker enqueues its job, a registered dependent or a new successor.   *)
LEMMA ProcessKnown ==
  ASSUME TypeOK, Sound, Known, NEW w \in Workers, Elsewhere(w), Acquire(w) \/ ProcessStep(w)
  PROVE  Known' /\ Created \subseteq Created'
<1>1. w \in Procs /\ Has(w)
  BY DEF Known, Procs
<1>2. /\ UNCHANGED <<heap, sched, dependents>> /\ pc[w] # "get"
  BY DEF ProcessStep, Acquire, AcquireLock, Start, HandlerReturns, HandlerRaises, Recheck,
     Complete, GetDependents, UnlockGet, UnlockDeps, Recur, Finish, ScheduleRetry, MoveToDlq
<1>3. job[w].id \in Jobs /\ job[w].id \in Created /\ job[w].status # "absent"
  BY <1>1, <1>2 DEF Has, Sound, Local, Holding, ProcessStep, Acquire, AcquireLock, Start,
     HandlerReturns, HandlerRaises, Recheck, Complete, GetDependents, UnlockGet, UnlockDeps,
     Recur, Finish, ScheduleRetry, MoveToDlq
<1>4. ASSUME Created \subseteq Created', Has(w)' PROVE Known' /\ Created \subseteq Created'
  BY <1>1, <1>2, <1>4, KnownKeeps, Docs
<1>5. CASE \/ Acquire(w) \/ HandlerReturns(w) \/ HandlerRaises(w) \/ Recheck(w) \/ Finish(w)
  <2>1. UNCHANGED <<store, arg, job, todo>>
    BY <1>5 DEF Acquire, AcquireLock, HandlerReturns, HandlerRaises, Recheck, Finish
  <2> QED
    BY <1>1, <1>3, <1>4, <2>1 DEF Has, Created
<1>6. ASSUME NEW d, SaveJob(d), d.id = job[w].id, d.status # "absent", job'[w] = d,
             arg'[w] \in {arg[w], d}, todo'[w] = todo[w]
      PROVE  Known' /\ Created \subseteq Created'
  <2>1. Created \subseteq Created' /\ d.id \in Created'
    BY <1>3, <1>6, SavedExists
  <2> QED
    BY <1>1, <1>4, <1>6, <2>1 DEF Has
<1>7. CASE Start(w) \/ Complete(w) \/ MoveToDlq(w) \/ ScheduleRetry(w)
  <2>1. /\ [job[w] EXCEPT !.status = "processing"].id = job[w].id
        /\ [job[w] EXCEPT !.status = "processing"].status = "processing"
        /\ [job[w] EXCEPT !.status = "completed"].id = job[w].id
        /\ [job[w] EXCEPT !.status = "completed"].status = "completed"
        /\ DeadLettered(job[w]).id = job[w].id /\ DeadLettered(job[w]).status = "failed"
        /\ Rescheduled(job[w]).id = job[w].id /\ Rescheduled(job[w]).status = "pending"
    BY <1>1, Docs DEF Document, DeadLettered, Rescheduled
  <2>2. PICK d \in {[job[w] EXCEPT !.status = "processing"],
                    [job[w] EXCEPT !.status = "completed"],
                    DeadLettered(job[w]), Rescheduled(job[w])} :
          /\ SaveJob(d) /\ job' = [job EXCEPT ![w] = d]
          /\ (arg' = arg \/ arg' = [arg EXCEPT ![w] = d]) /\ todo' = todo
    BY <1>7 DEF Start, Complete, MoveToDlq, ScheduleRetry, CallEnqueue
  <2> QED
    BY <1>1, <1>6, <2>1, <2>2, Docs
<1>8. CASE GetDependents(w)
  <2>1. UNCHANGED <<store, arg, job>> /\ todo'[w] \subseteq Created
    BY <1>1, <1>3, <1>8, Docs DEF GetDependents
  <2> QED
    BY <1>1, <1>3, <1>4, <2>1 DEF Has, Created
<1>9. CASE UnlockGet(w)
  <2>1. /\ UNCHANGED <<store, job>> /\ todo'[w] \subseteq todo[w]
        /\ arg' = arg \/ \E i \in todo[w] : arg'[w] = store[i]
    BY <1>1, <1>9, Docs DEF UnlockGet
  <2> QED
    BY <1>1, <1>3, <1>4, <2>1, Docs DEF Has, Created
<1>10. CASE UnlockDeps(w)
  <2>1. UNCHANGED <<store, job, todo>> /\ arg'[w] \in {arg[w], NoDocument}
    BY <1>1, <1>10, Docs DEF UnlockDeps, Return
  <2> QED
    BY <1>1, <1>3, <1>4, <2>1, Docs DEF Has, Created
<1>11. CASE Recur(w)
  <2>1. UNCHANGED <<job, todo>>
    BY <1>11 DEF Recur
  <2>2. CASE UNCHANGED <<store, arg>>
    BY <1>1, <1>3, <1>4, <2>1, <2>2 DEF Has, Created
  <2>3. CASE \E k \in Jobs : SaveJob(NewJob(k, TRUE)) /\ arg'[w] = NewJob(k, TRUE)
    <3>1. PICK k \in Jobs : SaveJob(NewJob(k, TRUE)) /\ arg'[w] = NewJob(k, TRUE)
      BY <2>3
    <3>2. NewJob(k, TRUE).id = k /\ NewJob(k, TRUE).status = "pending"
      BY DEF NewJob
    <3>3. Created \subseteq Created' /\ k \in Created'
      BY <3>1, <3>2, SavedExists
    <3> QED
      BY <1>1, <1>3, <1>4, <2>1, <3>1, <3>2, <3>3 DEF Has
  <2>4. \/ UNCHANGED <<store, arg>>
        \/ \E k \in Jobs : SaveJob(NewJob(k, TRUE)) /\ arg' = [arg EXCEPT ![w] = NewJob(k, TRUE)]
    BY <1>11, ServiceAssumption DEF Recur, CallEnqueue
  <2> QED
    BY <1>1, <2>2, <2>3, <2>4, Docs
<1> QED
  BY <1>5, <1>7, <1>8, <1>9, <1>10, <1>11 DEF ProcessStep

(* A request enqueues a job that it saved or found.                        *)
LEMMA RequestKnown ==
  ASSUME TypeOK, Sound, Known, NEW c \in Clients, Elsewhere(c),
         Arrive(c) \/ CreateRegister(c) \/ CancelSave(c) \/ CancelRemove(c) \/ RetrySave(c)
  PROVE  Known' /\ Created \subseteq Created'
<1>1. c \in Procs /\ Has(c)
  BY DEF Known, Procs
<1>2. /\ job' = job /\ todo' = todo /\ pc[c] # "get"
      /\ \A j \in Jobs : heap'[j] \in {heap[j], 0} /\ sched'[j] \in {sched[j], "out"}
  BY Docs, <1>1 DEF Arrive, CreateSave, CancelGet, RetryGet, CreateRegister, CancelSave, CancelRemove,
     Remove, RetrySave
<1>3. ASSUME Created \subseteq Created', arg'[c].id \in Jobs =>
               arg'[c].id \in Created' /\ arg'[c].status # "absent",
             \A j \in Jobs : dependents'[j] \subseteq Created'
      PROVE  Known' /\ Created \subseteq Created'
  <2>1. Has(c)'
    BY <1>1, <1>2, <1>3 DEF Has
  <2> QED
    BY <1>1, <1>2, <1>3, <2>1, KnownKeeps
<1>4. CASE CreateSave(c)
  <2>1. PICK k \in Jobs, later \in Delays :
          SaveJob(NewJob(k, later)) /\ arg' = [arg EXCEPT ![c] = NewJob(k, later)]
    BY <1>4 DEF CreateSave, CallEnqueue
  <2>2. NewJob(k, later).id = k /\ NewJob(k, later).status = "pending"
    BY DEF NewJob
  <2>3. Created \subseteq Created' /\ k \in Created' /\ dependents' = dependents
    BY <1>4, <2>1, <2>2, SavedExists DEF CreateSave
  <2> QED
    BY <1>1, <1>3, <2>1, <2>2, <2>3, Docs
<1>5. CASE CancelGet(c)
  <2>1. PICK k \in Created : arg' = [arg EXCEPT ![c] = [store[k] EXCEPT !.status = "cancelled"]]
    BY <1>5 DEF CancelGet
  <2>2. /\ [store[k] EXCEPT !.status = "cancelled"].id = k
        /\ [store[k] EXCEPT !.status = "cancelled"].status = "cancelled"
        /\ UNCHANGED <<store, dependents>>
    BY <1>1, <1>5, Docs DEF CancelGet, Document
  <2> QED
    BY <1>1, <1>3, <2>1, <2>2, Docs DEF Created
<1>6. CASE RetryGet(c)
  <2>1. PICK k \in Created : arg' = [arg EXCEPT ![c] = Retried(store[k])]
    BY <1>6 DEF RetryGet
  <2>2. /\ Retried(store[k]).id = k /\ Retried(store[k]).status = "pending"
        /\ UNCHANGED <<store, dependents>>
    BY <1>1, <1>6, Docs, DlqUpdate DEF RetryGet
  <2> QED
    BY <1>1, <1>3, <2>1, <2>2, Docs DEF Created
<1>7. CASE CreateRegister(c)
  <2>1. arg[c].id \in Created /\ UNCHANGED store /\ arg'[c] = arg[c]
    BY <1>1, <1>7, Docs DEF Has, Sound, Local, Carrying, CreateRegister, CallEnqueue
  <2>2. \A j \in Jobs : dependents'[j] \subseteq Created
    BY <1>1, <1>7, <2>1, Docs DEF CreateRegister, RegisterDependents
  <2> QED
    BY <1>1, <1>3, <2>1, <2>2 DEF Has, Created
<1>8. CASE CancelSave(c) \/ RetrySave(c)
  <2>1. SaveJob(arg[c]) /\ arg'[c] = arg[c] /\ dependents' = dependents
    BY <1>1, <1>8, Docs DEF CancelSave, RetrySave, CallEnqueue
  <2>2. Created \subseteq Created'
    <3>1. CASE arg[c].id \in Jobs
      BY <1>1, <2>1, <3>1, SavedExists DEF Has
    <3>2. CASE arg[c].id \notin Jobs
      BY <2>1, <3>2, Docs DEF SaveJob, Created
    <3> QED
      BY <3>1, <3>2
  <2> QED
    BY <1>1, <1>3, <2>1, <2>2, Docs DEF Has
<1>9. CASE CancelRemove(c)
  <2>1. UNCHANGED <<store, dependents>> /\ arg'[c] = NoDocument
    BY <1>1, <1>9, Docs DEF CancelRemove
  <2> QED
    BY <1>1, <1>3, <2>1, Docs DEF Created
<1> QED
  BY <1>4, <1>5, <1>6, <1>7, <1>8, <1>9 DEF Arrive

(* A fault only drops what a coroutine had in its hands.                   *)
LEMMA FaultKnown ==
  ASSUME TypeOK, Sound, Known, NEW p \in Procs, Elsewhere(p),
         Abort(p) \/ (p \in Workers /\ RaiseInTry(p))
  PROVE  Known' /\ Created \subseteq Created'
<1>1. /\ UNCHANGED redisVars /\ todo'[p] = {} /\ arg'[p] = NoDocument
      /\ job'[p] = NoDocument \/ (job'[p] = job[p] /\ pc[p] # "get")
  BY Docs DEF Abort, RaiseInTry, TryLabels, EnqueueLabels
<1>2. Has(p)' /\ Created' = Created
  BY <1>1, Docs DEF Has, Created
<1> QED
  BY <1>1, <1>2, KnownKeeps, Docs

(* Time adds no job to a queue.                                            *)
LEMMA TimeKnown ==
  ASSUME TypeOK, Known, NEW j \in Jobs, Time(j)
  PROVE  Known' /\ Created \subseteq Created'
<1>1. CASE Due(j)
  <2>1. /\ pc' = pc /\ todo' = todo /\ heap' = heap /\ dependents' = dependents
        /\ \A k \in Jobs : sched[k] = "out" => sched'[k] = "out"
    BY <1>1 DEF Due, TypeOK
  <2>2. Created' = Created
    BY <1>1, DueDocuments DEF Created
  <2>3. \A p \in Procs : Has(p)'
    BY <1>1, <2>1, <2>2, DueDocuments DEF Known, Has
  <2> QED
    BY <2>1, <2>2, <2>3 DEF Known
<1>2. CASE LockExpires(j)
  BY <1>2 DEF LockExpires, Known, Has, Created
<1> QED
  BY <1>1, <1>2 DEF Time

(* Every step keeps Known.                                                 *)
LEMMA StepKnown ==
  ASSUME TypeOK, Sound, Known, [Next]_vars
  PROVE  Known' /\ Created \subseteq Created'
<1>1. ASSUME NEW p \in Procs, StepOf(p) PROVE Known' /\ Created \subseteq Created'
  BY <1>1, Apart, EnqueueKnown, DequeueKnown, ProcessKnown, RequestKnown, FaultKnown
     DEF StepOf, WorkerStep, RequestStep
<1>2. CASE UNCHANGED vars
  BY <1>2 DEF vars, Known, Has, Created
<1> QED
  BY <1>1, <1>2, TimeKnown DEF Next, StepOf, Procs

(* At first everything is empty.                                           *)
LEMMA InitKnown == Init => Known
BY StoreAssumption, AbsentDocuments DEF Init, StoreInit, SchedulerInit, Known, Has, NoDocument

(* Known is an invariant.                                                  *)
LEMMA KnownAlways == Spec => [](TypeOK /\ Sound /\ Known)
<1>1. Init => Known
  BY InitKnown
<1>2. Known /\ (TypeOK /\ Sound) /\ [Next]_vars => Known'
  BY StepKnown
<1> QED
  BY <1>1, <1>2, SoundAlways, PTL DEF Spec

(***************************************************************************)
(* Waiting for an instant.                                                 *)
(***************************************************************************)
MoveLabels == {"promote_zrem", "promote_zadd", "promote_save"}

(* p, if it has j in its hands, does not think it is due.                  *)
Patient(p, j) ==
  /\ job[p].id # j
  /\ arg[p].id = j =>
       arg[p].future /\ pc[p] \notin {"enq_deps", "enq_zadd", "enq_save"} \cup MoveLabels
  /\ j \in todo[p] => pc[p] \notin PromoteLabels

OnTime(j) ==
  j \in ahead => /\ j \in Created
                 /\ heap[j] = 0 /\ sched[j] # "due" /\ store[j].future
                 /\ \A p \in Procs : Patient(p, j)

(* A job waits on if Redis still says so and p itself does not take it up. *)
LEMMA WaitsOn ==
  ASSUME NEW j \in Jobs, OnTime(j), NEW p \in Procs, Elsewhere(p),
         Created \subseteq Created', j \in ahead' => j \in ahead,
         j \in ahead => heap'[j] = 0 /\ sched'[j] # "due" /\ store'[j].future,
         j \in ahead => Patient(p, j)'
  PROVE  OnTime(j)'
BY DEF OnTime, Patient, Elsewhere

(* enqueue puts a job whose instant is to come into queue:scheduled.       *)
LEMMA EnqueueWaits ==
  ASSUME TypeOK, Sound, Known, NEW j \in Jobs, OnTime(j),
         NEW p \in Procs, EnqueueStep(p), UNCHANGED history, Elsewhere(p)
  PROVE  OnTime(j)'
<1> USE DEF PromoteLabels, MoveLabels
<1>1. UNCHANGED <<ahead, job, todo>> /\ pc[p] \in EnqueueLabels \ {"enq_slot"}
  BY DEF EnqueueStep, Enqueue, EnqueueLaterSave, EnqueueLaterZadd, EnqueueDeps, EnqueueZadd,
     EnqueueSave, EnqueueLabels
<1>2. Created \subseteq Created'
  BY EnqueueKnown
<1>3. CASE j \notin ahead
  BY <1>1, <1>3 DEF OnTime
<1>4. CASE j \in ahead
  <2>1. heap[j] = 0 /\ sched[j] # "due" /\ store[j].future /\ Patient(p, j)
    BY <1>4 DEF OnTime
  <2>2. arg'[p] \in {arg[p], NoDocument} /\ NoDocument.id # j
    BY Docs DEF EnqueueStep, Enqueue, EnqueueLaterSave, EnqueueLaterZadd, EnqueueDeps, EnqueueZadd,
     EnqueueSave, Return
  <2>3. CASE arg[p].id # j
    <3>1. heap'[j] = heap[j] /\ sched'[j] = sched[j] /\ store'[j] = store[j]
      BY <2>3, Docs DEF EnqueueStep, Enqueue, EnqueueLaterSave, EnqueueLaterZadd, EnqueueDeps,
         EnqueueZadd, EnqueueSave, SaveJob
    <3>2. pc'[p] \notin PromoteLabels
      <4>1. DOMAIN pc = Procs /\ back[p] \notin PromoteLabels
        BY DEF TypeOK
      <4>2. CASE Enqueue(p) \/ EnqueueDeps(p)
        BY <1>1, <4>1, <4>2 DEF Enqueue, EnqueueDeps, Goto, Return, CheckDependencies, ReadMet, ReadUnmet
      <4>3. CASE EnqueueLaterSave(p) \/ EnqueueLaterZadd(p) \/ EnqueueZadd(p) \/ EnqueueSave(p)
        BY <1>1, <4>1, <4>3 DEF EnqueueLaterSave, EnqueueLaterZadd, EnqueueZadd, EnqueueSave, Goto, Return
      <4> QED
        BY <4>2, <4>3 DEF EnqueueStep
    <3> QED
      BY <1>1, <1>2, <2>1, <2>2, <2>3, <3>1, <3>2, WaitsOn DEF Patient
  <2>4. CASE arg[p].id = j
    <3>1. arg[p].future /\ pc[p] \in {"enqueue", "enq_later", "enq_sched"}
      BY <1>1, <2>1, <2>4 DEF Patient, EnqueueLabels
    <3>2. CASE Enqueue(p)
      BY <1>1, <1>2, <2>1, <3>1, <3>2, WaitsOn, Docs DEF Patient, Enqueue, Goto
    <3>3. CASE EnqueueLaterSave(p)
      BY <1>1, <1>2, <2>1, <2>4, <3>1, <3>3, WaitsOn, Docs DEF Patient, EnqueueLaterSave, Goto, SaveJob
    <3>4. CASE EnqueueLaterZadd(p)
      <4>1. UNCHANGED <<store, heap>> /\ sched'[j] = "future" /\ arg'[p] = NoDocument /\ pc'[p] = back[p]
        BY <2>4, <3>1, <3>4, Docs DEF EnqueueLaterZadd, Return, Goto
      <4>2. back[p] \notin PromoteLabels
        BY DEF TypeOK
      <4> QED
        BY <1>1, <1>2, <2>1, <2>2, <4>1, <4>2, WaitsOn DEF Patient
    <3> QED
      BY <3>1, <3>2, <3>3, <3>4 DEF EnqueueStep, EnqueueDeps, EnqueueZadd, EnqueueSave
  <2> QED
    BY <2>3, <2>4
<1> QED
  BY <1>3, <1>4

(* A promotion scans only what is due, and dequeue pops only the heap.     *)
LEMMA DequeueWaits ==
  ASSUME TypeOK, Sound, Known, NEW j \in Jobs, OnTime(j), NEW w \in Workers, Elsewhere(w),
         DequeueStep(w) \/ ReleaseLock(w), UNCHANGED history
  PROVE  OnTime(j)'
<1> USE DEF PromoteLabels, MoveLabels
<1>1. w \in Procs /\ ahead' = ahead
  BY DEF Procs, DequeueStep, PromoteScan, PromoteGet, PromoteZrem, PromoteZadd, PromoteSave,
     PopEmpty, Pop, DequeueGet, DequeueDeps, RequeueBlocked, RequeueContended, Requeue, ReleaseLock
<1>2. Created \subseteq Created'
  BY DequeueKnown
<1>3. CASE j \notin ahead
  BY <1>1, <1>3 DEF OnTime
<1>4. CASE j \in ahead
  <2>1. heap[j] = 0 /\ sched[j] # "due" /\ store[j].future /\ Patient(w, j) /\ NoDocument.id # j
    BY <1>1, <1>4, Docs DEF OnTime
  <2>2. ASSUME heap'[j] = 0, sched'[j] # "due", store'[j] = store[j], Patient(w, j)'
        PROVE  OnTime(j)'
    BY <1>1, <1>2, <2>1, <2>2, WaitsOn
  <2>3. CASE PromoteScan(w)
    <3>1. UNCHANGED <<store, heap, sched, arg, job>> /\ j \notin todo'[w]
          /\ pc'[w] \in {"pop", "promote_get"}
      BY <1>1, <2>1, <2>3, Docs DEF PromoteScan, DueEntries, NextDue, Goto
    <3> QED
      BY <2>1, <2>2, <3>1 DEF Patient
  <2>4. CASE PromoteGet(w)
    <3>1. PICK i \in todo[w] : /\ arg' = [arg EXCEPT ![w] = store[i]]
                               /\ todo' = [todo EXCEPT ![w] = @ \ {i}]
      BY <2>4 DEF PromoteGet
    <3>2. UNCHANGED <<store, heap, sched, job>> /\ j \notin todo[w] /\ arg'[w].id # j /\ j \notin todo'[w]
      BY <1>1, <2>1, <2>4, <3>1, Docs DEF PromoteGet, Patient
    <3> QED
      BY <2>1, <2>2, <3>2 DEF Patient
  <2>5. CASE PromoteZrem(w)
    <3>1. [arg[w] EXCEPT !.future = FALSE].id = arg[w].id
      BY <1>1, Passes, Docs
    <3>2. /\ UNCHANGED <<store, heap, job, todo>> /\ sched'[j] = sched[j]
          /\ arg'[w].id # j /\ j \notin todo[w]
      BY <1>1, <2>1, <2>5, <3>1, Docs DEF PromoteZrem, Unschedule, Patient
    <3> QED
      BY <2>1, <2>2, <3>2 DEF Patient
  <2>6. CASE PromoteZadd(w)
    <3>1. UNCHANGED <<store, sched, arg, job, todo>> /\ arg[w].id # j /\ j \notin todo[w]
          /\ heap'[j] = heap[j]
      BY <1>1, <2>1, <2>6, Docs DEF PromoteZadd, Patient
    <3> QED
      BY <2>1, <2>2, <3>1 DEF Patient
  <2>7. CASE PromoteSave(w)
    <3>1. UNCHANGED <<heap, sched, job, todo>> /\ store'[j] = store[j] /\ j \notin todo[w]
          /\ arg'[w] = NoDocument
      BY <1>1, <2>1, <2>7, Docs DEF PromoteSave, Patient, SaveJob
    <3> QED
      BY <2>1, <2>2, <3>1 DEF Patient
  <2>8. CASE PopEmpty(w) \/ DequeueDeps(w)
    <3>1. /\ UNCHANGED <<store, heap, sched, arg, job, todo>>
          /\ pc'[w] \in {"idle", "lock", "requeue", "deps"}
      BY <1>1, <2>8, Docs DEF PopEmpty, DequeueDeps, ReadMet, ReadUnmet, Goto
    <3> QED
      BY <2>1, <2>2, <3>1 DEF Patient
  <2>9. CASE Pop(w)
    <3>1. PICK i \in Jobs : /\ heap[i] # 0 /\ heap' = [heap EXCEPT ![i] = 0]
                            /\ job' = [job EXCEPT ![w] = Absent(i)]
      BY <2>9 DEF Pop, First
    <3>2. UNCHANGED <<store, sched, arg, todo>> /\ heap'[j] = 0 /\ job'[w].id # j /\ pc'[w] = "get"
      BY <1>1, <2>1, <2>9, <3>1, Docs DEF Pop, Goto
    <3> QED
      BY <2>1, <2>2, <3>2 DEF Patient
  <2>10. CASE DequeueGet(w)
    <3>1. PICK i \in Jobs : i = job[w].id /\ i # j
      BY <1>1, <2>1, <2>10 DEF Sound, Local, Holding, DequeueGet, Patient
    <3>2. UNCHANGED <<store, heap, sched, arg, todo>> /\ job'[w].id # j
          /\ pc'[w] \in {"pop", "deps", "lock"}
      BY <1>1, <2>1, <2>10, <3>1, Docs DEF DequeueGet, CheckDependencies, Goto
    <3> QED
      BY <2>1, <2>2, <3>2 DEF Patient
  <2>11. CASE RequeueBlocked(w) \/ RequeueContended(w)
    <3>1. UNCHANGED <<store, sched, arg, todo>> /\ heap'[j] = heap[j] /\ job'[w].id # j
          /\ pc'[w] = "pop"
      BY <1>1, <2>1, <2>11, Docs DEF RequeueBlocked, RequeueContended, Requeue, Goto, Patient
    <3> QED
      BY <2>1, <2>2, <3>1 DEF Patient
  <2>12. CASE ReleaseLock(w)
    <3>1. UNCHANGED <<store, heap, sched, arg, todo>> /\ job'[w].id # j /\ pc'[w] = "idle"
      BY <1>1, <2>1, <2>12, Docs DEF ReleaseLock, Goto
    <3> QED
      BY <2>1, <2>2, <3>1 DEF Patient
  <2> QED
    BY <2>3, <2>4, <2>5, <2>6, <2>7, <2>8, <2>9, <2>10, <2>11, <2>12 DEF DequeueStep
<1> QED
  BY <1>3, <1>4

(* A fresh document is in nobody's hands and in no queue.                  *)
LEMMA CreateWaits ==
  ASSUME TypeOK, Known, Known', NEW j \in Jobs, OnTime(j), NEW p \in Procs, Elsewhere(p),
         NEW k \in Jobs \ Created, NEW later \in BOOLEAN,
         SaveJob(NewJob(k, later)), arg'[p] = NewJob(k, later), pc'[p] \in {"enqueue", "register"},
         ahead' = IF later THEN ahead \cup {k} ELSE ahead,
         UNCHANGED <<heap, sched, job, todo>>
  PROVE  OnTime(j)'
<1> USE DEF PromoteLabels, MoveLabels
<1>1. NewJob(k, later).id = k /\ NewJob(k, later).future = later /\ NewJob(k, later).status = "pending"
  BY DEF NewJob
<1>2. /\ store'[k] = NewJob(k, later) /\ k \in Created' /\ Created \subseteq Created'
      /\ j # k => store'[j] = store[j]
  <2>1. store' = [store EXCEPT ![k] = NewJob(k, later)]
    BY <1>1 DEF SaveJob
  <2>2. Created \subseteq Created' /\ k \in Created'
    BY <1>1, SavedExists
  <2> QED
    BY <2>1, <2>2, Docs
<1>3. CASE j # k
  <2>1. j \in ahead => Patient(p, j)'
    BY <1>1, <1>3 DEF OnTime, Patient
  <2> QED
    BY <1>2, <1>3, <2>1, WaitsOn DEF OnTime
<1>4. CASE j = k /\ later
  <2>1. heap[j] = 0 /\ sched[j] = "out"
    BY <1>4 DEF Known
  <2>2. \A q \in Procs : arg[q].id # j /\ job[q].id # j /\ j \notin todo[q]
    BY <1>4 DEF Known, Has
  <2>3. \A q \in Procs : Patient(q, j)'
    BY <1>1, <1>4, <2>2 DEF Patient, Elsewhere
  <2> QED
    BY <1>1, <1>2, <1>4, <2>1, <2>3 DEF OnTime
<1>5. CASE j = k /\ ~later
  BY <1>5 DEF OnTime
<1> QED
  BY <1>3, <1>4, <1>5

(* Without retries a worker sets no instant for a job that it took.        *)
LEMMA ProcessWaits ==
  ASSUME MaxRetries = 0, TypeOK, Sound, Known, NEW j \in Jobs, OnTime(j), NEW w \in Workers,
         Elsewhere(w), Acquire(w) \/ ProcessStep(w)
  PROVE  OnTime(j)'
<1> USE DEF PromoteLabels, MoveLabels
<1>1. w \in Procs
  BY DEF Procs
<1>2. /\ UNCHANGED <<heap, sched>> /\ ~ScheduleRetry(w)
  <2>1. ~(job[w].retries < MaxRetries)
    BY <1>1, Docs DEF Document
  <2> QED
    BY <2>1 DEF Sound, Local, ProcessStep, Acquire, AcquireLock, Start, HandlerReturns, HandlerRaises,
       Recheck, Complete, GetDependents, UnlockGet, UnlockDeps, Recur, Finish, ScheduleRetry, MoveToDlq,
       Procs
<1>3. Known' /\ Created \subseteq Created'
  BY ProcessKnown
<1>4. ASSUME ahead' = ahead,
             j \in ahead /\ Patient(w, j) => store'[j] = store[j] /\ Patient(w, j)'
      PROVE  OnTime(j)'
  <2>1. j \in ahead => Patient(w, j)
    BY <1>1 DEF OnTime
  <2> QED
    BY <1>1, <1>2, <1>3, <1>4, <2>1, WaitsOn DEF OnTime
<1>5. CASE \/ Acquire(w) \/ HandlerReturns(w) \/ HandlerRaises(w) \/ Recheck(w) \/ Finish(w)
  <2>1. /\ UNCHANGED <<store, ahead, arg, job, todo>>
        /\ pc'[w] \in {"contended", "dlq_save", "start", "recheck", "retry_save", "release", "complete"}
    BY <1>1, <1>5, Docs DEF Acquire, AcquireLock, HandlerReturns, HandlerRaises, OnException,
       Recheck, Finish, Goto
  <2> QED
    BY <1>4, <2>1 DEF Patient
<1>6. CASE Start(w) \/ Complete(w) \/ MoveToDlq(w)
  <2>1. /\ [job[w] EXCEPT !.status = "processing"].id = job[w].id
        /\ [job[w] EXCEPT !.status = "completed"].id = job[w].id
        /\ DeadLettered(job[w]).id = job[w].id
    BY <1>1, Docs DEF Document, DeadLettered
  <2>2. PICK d \in {[job[w] EXCEPT !.status = "processing"],
                    [job[w] EXCEPT !.status = "completed"], DeadLettered(job[w])} :
          SaveJob(d) /\ job' = [job EXCEPT ![w] = d]
    BY <1>6 DEF Start, Complete, MoveToDlq
  <2>3. /\ UNCHANGED <<ahead, arg, todo>> /\ pc'[w] \in {"run", "dependents", "release"}
        /\ job'[w].id = job[w].id
    BY <1>1, <1>6, <2>1, <2>2, Docs DEF Start, Complete, MoveToDlq, Goto
  <2>4. job[w].id # j => store'[j] = store[j]
    BY <1>1, <2>1, <2>2, Docs DEF SaveJob
  <2> QED
    BY <1>4, <2>3, <2>4 DEF Patient
<1>7. CASE GetDependents(w)
  <2>1. UNCHANGED <<store, ahead, arg, job>> /\ pc'[w] \in {"unlock_get", "recur", "tail"}
    BY <1>1, <1>7, Docs DEF GetDependents, NextDependent, Goto
  <2> QED
    BY <1>4, <2>1 DEF Patient
<1>8. CASE UnlockGet(w)
  <2>1. /\ UNCHANGED <<store, ahead, job>>
        /\ arg' = arg \/ \E i \in Jobs : arg'[w] = store[i]
    BY <1>1, <1>8, Docs DEF UnlockGet
  <2>2. pc'[w] \in {"unlock_get", "recur", "tail", "unlock_deps", "enqueue"}
    BY <1>1, <1>8, Docs DEF UnlockGet, NextDependent, CheckDependencies, Goto
  <2>3. j \in ahead => store[j].future
    BY DEF OnTime
  <2> QED
    BY <1>1, <1>4, <2>1, <2>2, <2>3, Docs DEF Patient
<1>9. CASE UnlockDeps(w)
  <2>1. /\ UNCHANGED <<store, ahead, job>> /\ arg'[w] \in {arg[w], NoDocument}
        /\ pc'[w] \in {"enqueue", "unlock_deps", back[w]}
    BY <1>1, <1>9, Docs DEF UnlockDeps, ReadMet, ReadUnmet, Return, Goto
  <2>2. back[w] \in {"idle", "unlock_get", "recur", "tail", "release"}
    BY <1>1 DEF TypeOK
  <2> QED
    BY <1>1, <1>4, <2>1, <2>2, Docs DEF Patient
<1>10. CASE Recur(w)
  <2>1. UNCHANGED <<heap, sched, job, todo>> /\ pc[w] = "recur"
    BY <1>10 DEF Recur
  <2>2. CASE Goto(w, "tail") /\ UNCHANGED <<store, ahead, arg>>
    <3>1. pc'[w] = "tail"
      BY <1>1, <2>2, Docs DEF Goto
    <3> QED
      BY <1>4, <2>1, <2>2, <3>1 DEF Patient
  <2>3. CASE \E k \in Jobs \ Created : /\ SaveJob(NewJob(k, TRUE)) /\ ahead' = ahead \cup {k}
                                       /\ CallEnqueue(w, NewJob(k, TRUE), "tail")
    <3>1. PICK k \in Jobs \ Created : /\ SaveJob(NewJob(k, TRUE)) /\ ahead' = ahead \cup {k}
                                     /\ CallEnqueue(w, NewJob(k, TRUE), "tail")
      BY <2>3
    <3>2. arg'[w] = NewJob(k, TRUE) /\ pc'[w] = "enqueue"
      BY <1>1, <3>1, Docs DEF CallEnqueue, Goto
    <3> QED
      BY <1>1, <1>3, <2>1, <3>1, <3>2, CreateWaits
  <2>4. \/ Goto(w, "tail") /\ UNCHANGED <<store, ahead, arg>>
        \/ \E k \in Jobs \ Created : /\ SaveJob(NewJob(k, TRUE)) /\ ahead' = ahead \cup {k}
                                      /\ CallEnqueue(w, NewJob(k, TRUE), "tail")
    BY <1>10, ServiceAssumption DEF Recur
  <2> QED
    BY <2>2, <2>3, <2>4
<1> QED
  BY <1>2, <1>5, <1>6, <1>7, <1>8, <1>9, <1>10 DEF ProcessStep

(* A request sets an instant only for a job that it creates.               *)
LEMMA RequestWaits ==
  ASSUME TypeOK, Sound, Known, NEW j \in Jobs, OnTime(j), NEW c \in Clients, Elsewhere(c),
         Arrive(c) \/ CreateRegister(c) \/ CancelSave(c) \/ CancelRemove(c) \/ RetrySave(c)
  PROVE  OnTime(j)'
<1> USE DEF PromoteLabels, MoveLabels
<1>1. /\ c \in Procs /\ Known' /\ Created \subseteq Created'
      /\ j \in ahead => store[j].future /\ Patient(c, j)
  BY RequestKnown DEF Procs, OnTime
<1>2. /\ job' = job /\ todo' = todo
      /\ heap'[j] \in {heap[j], 0} /\ sched'[j] \in {sched[j], "out"}
  BY Docs, <1>1 DEF Arrive, CreateSave, CancelGet, RetryGet, CreateRegister, CancelSave, CancelRemove,
     Remove, RetrySave
<1>3. ASSUME ahead' = ahead, pc'[c] \notin PromoteLabels \cup {"enq_deps", "enq_zadd", "enq_save"},
             j \in ahead => store'[j].future /\ (arg'[c].id = j => arg'[c].future)
      PROVE  OnTime(j)'
  <2>1. j \in ahead => Patient(c, j)'
    BY <1>1, <1>2, <1>3 DEF Patient
  <2> QED
    BY <1>1, <1>2, <1>3, <2>1, WaitsOn DEF OnTime
<1>4. CASE CreateSave(c)
  <2>1. PICK k \in Jobs \ Created, later \in Delays :
          /\ SaveJob(NewJob(k, later)) /\ arg' = [arg EXCEPT ![c] = NewJob(k, later)]
          /\ ahead' = IF later THEN ahead \cup {k} ELSE ahead
          /\ Goto(c, "enqueue") \/ Goto(c, "register")
    BY <1>4 DEF CreateSave, CallEnqueue
  <2>2. /\ UNCHANGED <<heap, sched>> /\ pc'[c] \in {"enqueue", "register"}
        /\ arg'[c] = NewJob(k, later) /\ later \in BOOLEAN
    BY <1>1, <1>4, <2>1, Docs, ServiceAssumption DEF CreateSave, Goto
  <2> QED
    BY <1>1, <1>2, <2>1, <2>2, CreateWaits
<1>5. CASE CancelGet(c) \/ RetryGet(c)
  <2>1. \A k \in Jobs :
          /\ [store[k] EXCEPT !.status = "cancelled"].id = k /\ Retried(store[k]).id = k
          /\ [store[k] EXCEPT !.status = "cancelled"].future = store[k].future
          /\ Retried(store[k]).future = store[k].future
    BY <1>1, Docs DEF Document, Retried
  <2>2. PICK k \in Jobs : \/ arg' = [arg EXCEPT ![c] = [store[k] EXCEPT !.status = "cancelled"]]
                          \/ arg' = [arg EXCEPT ![c] = Retried(store[k])]
    BY <1>5 DEF CancelGet, RetryGet, Created
  <2>3. UNCHANGED <<store, ahead>> /\ pc'[c] \in {"cancel_save", "dlq_retry_save"}
    BY <1>1, <1>5, Docs DEF CancelGet, RetryGet, Goto
  <2>4. arg'[c].id = k /\ arg'[c].future = store[k].future
    <3>1. PICK d : d.id = k /\ d.future = store[k].future /\ arg' = [arg EXCEPT ![c] = d]
      BY <2>1, <2>2
    <3> QED
      BY <1>1, <3>1, Docs
  <2> QED
    BY <1>1, <1>3, <2>3, <2>4
<1>6. CASE CancelSave(c) \/ RetrySave(c)
  <2>1. /\ SaveJob(arg[c]) /\ arg'[c] = arg[c] /\ ahead' = ahead
        /\ pc'[c] \in {"cancel_remove", "enqueue"}
    BY <1>1, <1>6, Docs DEF CancelSave, RetrySave, CallEnqueue, Goto
  <2>2. j \in ahead /\ arg[c].id = j => arg[c].future
    BY <1>1 DEF Patient
  <2>3. store'[j] = IF arg[c].id = j THEN arg[c] ELSE store[j]
    BY <1>1, <2>1, Docs DEF SaveJob
  <2> QED
    BY <1>1, <1>3, <2>1, <2>2, <2>3
<1>7. CASE CreateRegister(c) \/ CancelRemove(c)
  <2>1. /\ UNCHANGED <<store, ahead>> /\ arg'[c] \in {arg[c], NoDocument}
        /\ pc'[c] \in {"idle", "enqueue"}
    BY <1>1, <1>7, Docs DEF CreateRegister, CancelRemove, CallEnqueue, Goto
  <2> QED
    BY <1>1, <1>3, <2>1, Docs DEF Patient
<1> QED
  BY <1>4, <1>5, <1>6, <1>7 DEF Arrive

(* A fault takes up no job.                                                *)
LEMMA FaultWaits ==
  ASSUME TypeOK, Sound, Known, NEW j \in Jobs, OnTime(j), NEW p \in Procs, Elsewhere(p),
         Abort(p) \/ (p \in Workers /\ RaiseInTry(p))
  PROVE  OnTime(j)'
<1>1. /\ UNCHANGED redisVars /\ todo'[p] = {} /\ arg'[p].id # j /\ NoDocument.id # j
      /\ job'[p] = NoDocument \/ job'[p] = job[p]
  BY Docs DEF Abort, RaiseInTry
<1>2. j \in ahead => Patient(p, j)'
  BY <1>1 DEF OnTime, Patient
<1> QED
  BY <1>1, <1>2, WaitsOn DEF OnTime, Created

(* Once its instant has passed a job is no longer ahead.                   *)
LEMMA TimeWaits ==
  ASSUME TypeOK, Known, NEW j \in Jobs, OnTime(j), NEW i \in Jobs, Time(i)
  PROVE  OnTime(j)'
<1>1. CASE Due(i)
  <2> DEFINE Pass(d) == IF d.id = i THEN [d EXCEPT !.future = FALSE] ELSE d
  <2>1. /\ ahead' = ahead \ {i} /\ store' = [store EXCEPT ![i].future = FALSE]
        /\ sched' = [sched EXCEPT ![i] = IF @ = "future" THEN "due" ELSE @]
        /\ \A p \in Procs : arg'[p] = Pass(arg[p])
        /\ UNCHANGED <<pc, heap, todo>>
    BY <1>1 DEF Due, Pass
  <2>2. CASE i # j
    <3>1. heap'[j] = heap[j] /\ sched'[j] = sched[j] /\ store'[j] = store[j]
      BY <2>1, <2>2 DEF TypeOK
    <3>2. \A p \in Procs : /\ arg'[p].id = arg[p].id /\ job'[p].id = job[p].id
                           /\ arg[p].id = j => arg'[p] = arg[p]
      BY <1>1, <2>1, <2>2, DueDocuments
    <3>3. (j \in Created => j \in Created') /\ (j \in ahead' => j \in ahead)
      BY <2>1, <3>1 DEF Created
    <3> HIDE DEF Pass
    <3>4. j \in ahead => \A p \in Procs : Patient(p, j)'
      BY <2>1, <3>2 DEF OnTime, Patient
    <3> QED
      BY <3>1, <3>3, <3>4 DEF OnTime
  <2>3. CASE i = j
    BY <2>1, <2>3 DEF OnTime
  <2> QED
    BY <2>2, <2>3
<1>2. CASE LockExpires(i)
  BY <1>2 DEF LockExpires, OnTime, Patient, Created
<1> QED
  BY <1>1, <1>2 DEF Time

(* Every step keeps each job waiting for its instant.                      *)
LEMMA StepWaits ==
  ASSUME MaxRetries = 0, TypeOK, Sound, Known, NEW j \in Jobs, OnTime(j), [Next]_vars
  PROVE  OnTime(j)'
<1>1. ASSUME NEW p \in Procs, StepOf(p) PROVE OnTime(j)'
  BY <1>1, Apart, EnqueueWaits, DequeueWaits, ProcessWaits, RequestWaits, FaultWaits
     DEF StepOf, WorkerStep, RequestStep
<1>2. CASE UNCHANGED vars
  BY <1>2 DEF vars, OnTime, Patient, Created
<1> QED
  BY <1>1, <1>2, TimeWaits DEF Next, StepOf, Procs

(* Section 4.1, scheduled_at: a schedule instant set by a client, or by a  *)
(* recurrence, is kept by any number of workers for any job.  Only the     *)
(* backoff of a retry can be undercut, by a second entry of the job.       *)
THEOREM ScheduleIsKept ==
  ASSUME MaxRetries = 0
  PROVE  Spec => []NeverEarly
<1>1. Init => \A j \in Jobs : OnTime(j)
  BY DEF Init, SchedulerInit, OnTime
<1>2. (\A j \in Jobs : OnTime(j)) /\ (TypeOK /\ Sound /\ Known) /\ [Next]_vars
        => (\A j \in Jobs : OnTime(j))'
  BY StepWaits
<1>3. TypeOK /\ (\A j \in Jobs : OnTime(j)) => NeverEarly
  BY DEF NeverEarly, OnTime, Patient, TypeOK, Procs
<1> QED
  BY <1>1, <1>2, <1>3, KnownAlways, PTL DEF Spec

(***************************************************************************)
(* A settled cancel.                                                       *)
(***************************************************************************)
(* Nobody is about to write j, or to read it as anything but cancelled.    *)
Gone(j) ==
  /\ store[j].status = "cancelled"
  /\ "retry" \in Requests => ~store[j].in_dlq
  /\ \A p \in Procs :
       /\ arg[p].id = j => arg[p].status = "cancelled" /\ pc[p] = "promote_zrem"
       /\ job[p].id = j => pc[p] = "get"

(* What p still has of j it drops.                                         *)
LEMMA GoneKeeps ==
  ASSUME NEW j \in Jobs, Gone(j), NEW p \in Procs, Own(p), store'[j] = store[j],
         arg'[p].id = j => arg'[p].status = "cancelled" /\ pc'[p] = "promote_zrem",
         job'[p].id = j => pc'[p] = "get"
  PROVE  Gone(j)'
BY DEF Gone, Own

(* enqueue saves only a job that somebody had in hand.                     *)
LEMMA EnqueueGone ==
  ASSUME TypeOK, Sound, NEW j \in Jobs, Gone(j),
         NEW p \in Procs, EnqueueStep(p), UNCHANGED history
  PROVE  Gone(j)'
<1>1. Own(p) /\ DOMAIN arg = Procs
  BY EnqueueSound DEF TypeOK
<1>2. pc[p] \in EnqueueLabels /\ job' = job /\ arg'[p] \in {arg[p], NoDocument}
  BY <1>1 DEF EnqueueStep, Enqueue, EnqueueLaterSave, EnqueueLaterZadd,
     EnqueueDeps, EnqueueZadd, EnqueueSave, Return, EnqueueLabels
<1>3. arg[p].id # j /\ job[p].id # j /\ NoDocument.id # j
  BY <1>2, StoreAssumption, AbsentDocuments DEF Gone, EnqueueLabels, NoDocument
<1>4. store'[j] = store[j]
  BY <1>3 DEF TypeOK, EnqueueStep, Enqueue, EnqueueLaterSave, EnqueueLaterZadd,
     EnqueueDeps, EnqueueZadd, EnqueueSave, SaveJob
<1> QED
  BY <1>1, <1>2, <1>3, <1>4, GoneKeeps

(* dequeue drops a cancelled job it reads.                                 *)
LEMMA DequeueGone ==
  ASSUME TypeOK, Sound, NEW j \in Jobs, Gone(j),
         NEW w \in Workers, DequeueStep(w) \/ ReleaseLock(w), UNCHANGED history
  PROVE  Gone(j)'
<1>1. /\ Own(w) /\ w \in Procs
      /\ DOMAIN pc = Procs /\ DOMAIN arg = Procs /\ DOMAIN job = Procs
      /\ DOMAIN store = Jobs
  BY DequeueSound DEF Procs, TypeOK
<1>2. /\ NoDocument.id # j
      /\ arg[w].id = j => arg[w].status = "cancelled" /\ pc[w] = "promote_zrem"
      /\ job[w].id = j => pc[w] = "get"
      /\ \A i \in Jobs : store[i].id = i /\ Absent(i).id = i
      /\ store[j].status = "cancelled"
  BY <1>1, StoreAssumption, AbsentDocuments DEF Gone, NoDocument, TypeOK
<1>3. CASE PromoteScan(w) \/ PopEmpty(w) \/ DequeueDeps(w) \/ PromoteZadd(w)
  <2>1. arg[w].id # j /\ job[w].id # j /\ UNCHANGED <<store, arg, job>>
    BY <1>2, <1>3 DEF PromoteScan, PopEmpty, DequeueDeps, PromoteZadd
  <2> QED
    BY <1>1, <2>1, GoneKeeps
<1>4. CASE PromoteGet(w)
  <2>1. PICK i \in Jobs : arg' = [arg EXCEPT ![w] = store[i]]
    BY <1>1, <1>4 DEF PromoteGet, TypeOK
  <2>2. arg'[w] = store[i] /\ pc'[w] = "promote_zrem" /\ job[w].id # j /\ UNCHANGED <<store, job>>
    BY <1>1, <1>2, <1>4, <2>1 DEF PromoteGet, Goto
  <2> QED
    BY <1>1, <1>2, <2>2, GoneKeeps
<1>5. CASE PromoteZrem(w)
  <2>1. job[w].id # j /\ UNCHANGED <<store, job>>
    BY <1>2, <1>5 DEF PromoteZrem
  <2>2. arg'[w].id # j
    <3>1. CASE arg[w].id = j
      BY <1>1, <1>2, <1>5, <3>1 DEF PromoteZrem
    <3>2. CASE arg[w].id # j
      <4>1. [arg[w] EXCEPT !.future = FALSE].id = arg[w].id
        BY <1>1, Passes, InHand
      <4> QED
        BY <1>1, <1>2, <1>5, <3>2, <4>1 DEF PromoteZrem
    <3> QED
      BY <3>1, <3>2
  <2> QED
    BY <1>1, <2>1, <2>2, GoneKeeps
<1>6. CASE PromoteSave(w)
  <2>1. /\ arg[w].id # j /\ job[w].id # j /\ job' = job /\ arg'[w] = NoDocument
        /\ store'[j] = store[j]
    BY <1>1, <1>2, <1>6 DEF PromoteSave, SaveJob
  <2> QED
    BY <1>1, <1>2, <2>1, GoneKeeps
<1>7. CASE Pop(w)
  <2>1. arg[w].id # j /\ UNCHANGED <<store, arg>> /\ pc'[w] = "get"
    BY <1>1, <1>2, <1>7 DEF Pop, Goto
  <2> QED
    BY <1>1, <2>1, GoneKeeps
<1>8. CASE DequeueGet(w)
  <2>1. arg[w].id # j /\ UNCHANGED <<store, arg>>
    BY <1>2, <1>8 DEF DequeueGet
  <2>2. PICK i \in Jobs \cup {NoJob} : i = job[w].id
    BY <1>1, InHand DEF Document
  <2>3. i \in Jobs
    BY <1>1, <1>8, <2>2 DEF Sound, Local, DequeueGet, Holding
  <2>4. job'[w].id # j
    <3>1. CASE i = j
      BY <1>1, <1>2, <1>8, <2>2, <3>1 DEF DequeueGet
    <3>2. CASE i # j
      BY <1>1, <1>2, <1>8, <2>2, <2>3, <3>2 DEF DequeueGet
    <3> QED
      BY <3>1, <3>2
  <2> QED
    BY <1>1, <2>1, <2>4, GoneKeeps
<1>9. CASE RequeueBlocked(w) \/ RequeueContended(w) \/ ReleaseLock(w)
  <2>1. arg[w].id # j /\ UNCHANGED <<store, arg>> /\ job'[w] = NoDocument
    BY <1>1, <1>2, <1>9 DEF RequeueBlocked, RequeueContended, Requeue, ReleaseLock
  <2> QED
    BY <1>1, <1>2, <2>1, GoneKeeps
<1> QED
  BY <1>3, <1>4, <1>5, <1>6, <1>7, <1>8, <1>9 DEF DequeueStep

(* process_job writes nothing but the job it has, and fresh or pending     *)
(* documents.                                                              *)
LEMMA ProcessGone ==
  ASSUME TypeOK, Sound, NEW j \in Jobs, Gone(j), NEW w \in Workers,
         Acquire(w) \/ ProcessStep(w)
  PROVE  Gone(j)'
<1>1. /\ Own(w) /\ w \in Procs
      /\ DOMAIN pc = Procs /\ DOMAIN arg = Procs /\ DOMAIN job = Procs
      /\ DOMAIN store = Jobs /\ job[w] \in Document
  BY RunSound, TailSound, InHand DEF ProcessStep, Procs, TypeOK
<1>2. /\ NoDocument.id # j /\ store[j].status = "cancelled" /\ j \in Created
      /\ \A i \in Jobs : store[i].id = i
      /\ arg[w].id = j => pc[w] = "promote_zrem"
      /\ job[w].id = j => pc[w] = "get"
  BY <1>1, StoreAssumption, AbsentDocuments DEF Gone, NoDocument, TypeOK, Created
<1>3. arg[w].id # j /\ job[w].id # j
  BY <1>2 DEF ProcessStep, Acquire, AcquireLock, Start, HandlerReturns, HandlerRaises, Recheck,
     Complete, GetDependents, UnlockGet, UnlockDeps, Recur, Finish, ScheduleRetry, MoveToDlq
<1>4. CASE \/ Acquire(w) \/ HandlerReturns(w) \/ HandlerRaises(w) \/ Recheck(w)
           \/ GetDependents(w) \/ Finish(w)
  <2>1. UNCHANGED <<store, arg, job>>
    BY <1>4 DEF Acquire, AcquireLock, HandlerReturns, HandlerRaises, Recheck, GetDependents, Finish
  <2> QED
    BY <1>1, <1>3, <2>1, GoneKeeps
<1>5. ASSUME NEW d, SaveJob(d), d.id = job[w].id, job'[w] = d, arg'[w] \in {arg[w], d}
      PROVE  Gone(j)'
  <2>1. store'[j] = store[j]
    BY <1>1, <1>3, <1>5 DEF SaveJob
  <2> QED
    BY <1>1, <1>3, <1>5, <2>1, GoneKeeps
<1>6. CASE Start(w) \/ Complete(w) \/ MoveToDlq(w)
  <2>1. PICK d : SaveJob(d) /\ d.id = job[w].id /\ job'[w] = d /\ arg' = arg
    BY <1>1, <1>6 DEF Document, Start, Complete, MoveToDlq, DeadLettered
  <2> QED
    BY <1>5, <2>1
<1>7. CASE ScheduleRetry(w)
  <2>1. PICK d : SaveJob(d) /\ d.id = job[w].id /\ job'[w] = d /\ arg'[w] = d
    BY <1>1, <1>7 DEF Document, ScheduleRetry, Rescheduled, CallEnqueue
  <2> QED
    BY <1>5, <2>1
<1>8. CASE UnlockGet(w)
  <2>1. todo[w] \subseteq Jobs
    BY <1>1 DEF TypeOK
  <2>2. \/ arg' = arg
        \/ \E i \in Jobs : store[i].status = "pending" /\ arg' = [arg EXCEPT ![w] = store[i]]
    BY <1>8, <2>1 DEF UnlockGet
  <2>3. arg'[w].id # j /\ UNCHANGED <<store, job>>
    BY <1>1, <1>2, <1>3, <1>8, <2>2 DEF UnlockGet
  <2> QED
    BY <1>1, <1>3, <2>3, GoneKeeps
<1>9. CASE UnlockDeps(w)
  <2>1. arg'[w].id # j /\ UNCHANGED <<store, job>>
    BY <1>1, <1>2, <1>3, <1>9 DEF UnlockDeps, Return
  <2> QED
    BY <1>1, <1>3, <2>1, GoneKeeps
<1>10. CASE Recur(w)
  <2>1. \/ UNCHANGED <<store, arg>>
        \/ \E k \in Jobs \ Created : SaveJob(NewJob(k, TRUE)) /\ arg' = [arg EXCEPT ![w] = NewJob(k, TRUE)]
    BY <1>10, ServiceAssumption DEF Recur, CallEnqueue
  <2>2. arg'[w].id # j /\ store'[j] = store[j] /\ job' = job
    BY <1>1, <1>2, <1>3, <1>10, <2>1 DEF SaveJob, Recur, NewJob
  <2> QED
    BY <1>1, <1>3, <2>2, GoneKeeps
<1> QED
  BY <1>4, <1>6, <1>7, <1>8, <1>9, <1>10 DEF ProcessStep

(* A request leaves a cancelled job alone unless it is a dead letter.      *)
LEMMA RequestGone ==
  ASSUME TypeOK, Sound, NEW j \in Jobs, Gone(j), NEW c \in Clients,
         Arrive(c) \/ CreateRegister(c) \/ CancelSave(c) \/ CancelRemove(c) \/ RetrySave(c)
  PROVE  Gone(j)'
<1>1. /\ Own(c) /\ c \in Procs
      /\ DOMAIN pc = Procs /\ DOMAIN arg = Procs /\ DOMAIN store = Jobs
      /\ arg[c] \in Document
  BY RequestSound, InHand DEF Procs, TypeOK
<1>2. /\ NoDocument.id # j /\ store[j].status = "cancelled" /\ j \in Created
      /\ \A i \in Jobs : store[i].id = i /\ store[i] \in Document
      /\ arg[c].id = j => pc[c] = "promote_zrem"
      /\ job[c].id = j => pc[c] = "get"
  BY <1>1, StoreAssumption, AbsentDocuments DEF Gone, NoDocument, TypeOK, Created
<1>3. arg[c].id # j /\ job[c].id # j /\ job' = job
  BY <1>2 DEF Arrive, CreateSave, CancelGet, RetryGet, CreateRegister, CancelSave, CancelRemove, RetrySave
<1>4. CASE CreateSave(c)
  <2>1. PICK k \in Jobs \ Created, later \in Delays :
          SaveJob(NewJob(k, later)) /\ arg' = [arg EXCEPT ![c] = NewJob(k, later)]
    BY <1>4 DEF CreateSave, CallEnqueue
  <2>2. NewJob(k, later).id = k
    BY DEF NewJob
  <2> QED
    BY <1>1, <1>2, <1>3, <2>1, <2>2, GoneKeeps DEF SaveJob
<1>5. CASE CancelGet(c)
  <2>1. PICK k \in Jobs : store[k].status # "cancelled"
                        /\ arg' = [arg EXCEPT ![c] = [store[k] EXCEPT !.status = "cancelled"]]
    BY <1>5 DEF CancelGet, Created
  <2>2. [store[k] EXCEPT !.status = "cancelled"].id = k /\ store' = store
    BY <1>2, <1>5 DEF CancelGet, Document
  <2> QED
    BY <1>1, <1>2, <1>3, <2>1, <2>2, GoneKeeps
<1>6. CASE RetryGet(c)
  <2>1. PICK k \in Jobs : /\ store[k].in_dlq /\ "retry" \in Requests
                          /\ arg' = [arg EXCEPT ![c] = Retried(store[k])]
    BY <1>6 DEF RetryGet, Created, Retriable
  <2>2. Retried(store[k]).id = k /\ store' = store /\ k # j
    BY <1>2, <1>6, <2>1 DEF RetryGet, Document, Retried, Gone
  <2> QED
    BY <1>1, <1>2, <1>3, <2>1, <2>2, GoneKeeps
<1>7. CASE CreateRegister(c) \/ CancelRemove(c)
  <2>1. store' = store /\ arg'[c] \in {arg[c], NoDocument}
    BY <1>1, <1>7 DEF CreateRegister, CancelRemove, CallEnqueue
  <2> QED
    BY <1>1, <1>2, <1>3, <2>1, GoneKeeps
<1>8. CASE CancelSave(c) \/ RetrySave(c)
  <2>1. store'[j] = store[j] /\ arg'[c] = arg[c]
    BY <1>1, <1>3, <1>8 DEF CancelSave, RetrySave, CallEnqueue, SaveJob
  <2> QED
    BY <1>1, <1>3, <2>1, GoneKeeps
<1> QED
  BY <1>4, <1>5, <1>6, <1>7, <1>8 DEF Arrive

(* A fault gives nobody a copy.                                            *)
LEMMA FaultGone ==
  ASSUME TypeOK, Sound, NEW j \in Jobs, Gone(j), NEW p \in Procs,
         Abort(p) \/ (p \in Workers /\ RaiseInTry(p))
  PROVE  Gone(j)'
<1>1. /\ Own(p) /\ DOMAIN arg = Procs /\ DOMAIN job = Procs
      /\ NoDocument.id # j /\ (job[p].id = j => pc[p] = "get")
  BY FaultSound, StoreAssumption, AbsentDocuments DEF TypeOK, Gone, NoDocument
<1>2. store' = store /\ arg'[p] = NoDocument
  BY <1>1 DEF Abort, RaiseInTry
<1>3. job'[p].id # j
  BY <1>1 DEF Abort, RaiseInTry, TryLabels, EnqueueLabels
<1> QED
  BY <1>1, <1>2, <1>3, GoneKeeps

(* A cancelled job of which nobody has a copy stays cancelled.             *)
LEMMA StepGone ==
  ASSUME TypeOK, Sound, NEW j \in Jobs, Gone(j), [Next]_vars
  PROVE  Gone(j)'
<1>1. ASSUME NEW w \in Workers, WorkerStep(w) PROVE Gone(j)'
  <2>1. w \in Procs
    BY DEF Procs
  <2> QED
    BY <1>1, <2>1, EnqueueGone, DequeueGone, ProcessGone DEF WorkerStep
<1>2. ASSUME NEW c \in Clients, Arrive(c) \/ RequestStep(c) PROVE Gone(j)'
  <2>1. c \in Procs
    BY DEF Procs
  <2> QED
    BY <1>2, <2>1, EnqueueGone, RequestGone DEF RequestStep
<1>3. ASSUME NEW w \in Workers, RaiseInTry(w) PROVE Gone(j)'
  BY <1>3, FaultGone DEF Procs
<1>4. ASSUME NEW i \in Jobs, Time(i) PROVE Gone(j)'
  <2>1. CASE Due(i)
    <3>1. /\ store'[j].status = store[j].status /\ pc' = pc
          /\ store' = [store EXCEPT ![i].future = FALSE]
      BY <1>4, <2>1, DueDocuments DEF Due
    <3>2. store'[j].in_dlq = store[j].in_dlq
      BY <3>1 DEF TypeOK, Document
    <3>3. \A p \in Procs : /\ arg'[p].id = arg[p].id /\ arg'[p].status = arg[p].status
                           /\ job'[p].id = job[p].id
      BY <1>4, <2>1, DueDocuments
    <3> QED
      BY <3>1, <3>2, <3>3 DEF Gone
  <2> QED
    BY <1>4, <2>1 DEF Time, LockExpires, Gone
<1>5. CASE UNCHANGED vars
  BY <1>5 DEF vars, Gone
<1> QED
  BY <1>1, <1>2, <1>3, <1>4, <1>5, FaultGone DEF Next

(* Section 5.2 and cancel_job: a cancelled job of which nobody holds a     *)
(* copy stays cancelled, be it for a single worker or, if dead letters are *)
(* not retried, for any number of workers, any dependencies and faults.    *)
THEOREM CancelsAreFinal ==
  ASSUME Solo \/ "retry" \notin Requests
  PROVE  Spec => CancelIsFinal
<1>1. ASSUME NEW j \in Jobs
      PROVE  Spec => [](CancelSettled(j) => [](store[j].status = "cancelled"))
  <2>1. Spec => []("retry" \in Requests => DlqMeansFailed)
    <3>1. CASE "retry" \in Requests
      <4>1. Spec => []DlqMeansFailed
        BY <3>1, DlqHoldsTheFailed
      <4> QED
        BY <4>1, PTL
    <3>2. CASE "retry" \notin Requests
      <4>1. "retry" \in Requests => DlqMeansFailed
        BY <3>2
      <4> QED
        BY <4>1, PTL
    <3> QED
      BY <3>1, <3>2
  <2>2. ("retry" \in Requests => DlqMeansFailed) /\ CancelSettled(j) => Gone(j)
    BY DEF DlqMeansFailed, CancelSettled, Gone
  <2>3. (TypeOK /\ Sound) /\ Gone(j) /\ [Next]_vars => Gone(j)'
    BY StepGone
  <2>4. Gone(j) => store[j].status = "cancelled"
    BY DEF Gone
  <2> QED
    BY <2>1, <2>2, <2>3, <2>4, SoundAlways, PTL DEF Spec
<1> QED
  BY <1>1 DEF CancelIsFinal
===============================================================================
