-------------------------- MODULE JobServiceTypes ---------------------------
(***************************************************************************)
(* The inductive invariant of JobService and its first part, that every    *)
(* variable keeps its type, for every number of jobs, workers and clients, *)
(* every dependency graph, retry budget and mix of requests and faults.    *)
(*                                                                         *)
(* Types alone are not inductive: a worker may index Redis by the id of    *)
(* the document in its hands only because, at those steps, it has one.  So *)
(* the invariant says, coroutine by coroutine (Local), what that document  *)
(* may be at each step, and that a document which says completed, stored   *)
(* or in anybody's hands, is that of a job whose handler returned: stale   *)
(* copies are written back at any time, but none claims a success that     *)
(* never was.                                                              *)
(***************************************************************************)
EXTENDS JobService, TLAPS

(* The worker w has taken a job out of the heap.                           *)
Holding(w) ==
  pc[w] \notin {"idle", "promote_get", "promote_zrem", "promote_zadd",
                "promote_save", "pop"}

(* p is about to enqueue, or to decide whether to.                         *)
Carrying(p) ==
  pc[p] \in EnqueueLabels \cup {"register", "dlq_retry_save", "unlock_deps"}

Truthful(d) == d.status = "completed" => d.id \in succeeded

Local(p) ==
  /\ Truthful(job[p]) /\ Truthful(arg[p])
  /\ Carrying(p) => arg[p].id \in Jobs
  /\ p \in Workers =>
       /\ Holding(p) => job[p].id \in Jobs
       /\ pc[p] = "retry_save" => job[p].retries < MaxRetries
       /\ pc[p] \in {"recheck", "complete"} => job[p].id \in succeeded
       /\ pc[p] = "deps" => DependsOn[job[p].id] \ need[p] \subseteq succeeded
       /\ pc[p] = "lock" \/ Executing(p)
            => DependsOn[job[p].id] \subseteq succeeded

Sound ==
  /\ \A j \in Jobs : Truthful(store[j])
  /\ \A p \in Procs : Local(p)

Locked ==
  /\ \A w \in Workers : Executing(w) => lock[job[w].id]
  /\ MutualExclusion

IInv == TypeOK /\ Sound /\ Locked

(***************************************************************************)
(* Documents and labels.                                                   *)
(***************************************************************************)
USE DEF queueVars, redisVars, localVars, history, StoreTypeOK, SchedulerTypeOK

(* A fresh document is a document of its own job (create_job).             *)
LEMMA NewDocuments ==
  ASSUME NEW j \in Jobs \cup {NoJob}, NEW later \in BOOLEAN
  PROVE  /\ NewJob(j, later) \in Document
         /\ NewJob(j, later).id = j
         /\ NewJob(j, later).status = "pending"
  BY StoreAssumption DEF NewJob, Document, Status

(* Setting one field keeps the document one of the same job.               *)
LEMMA Updates ==
  ASSUME NEW d \in Document, NEW s \in Status
  PROVE  /\ [d EXCEPT !.status = s] \in Document
         /\ [d EXCEPT !.status = s].id = d.id
         /\ [d EXCEPT !.status = s].status = s
         /\ [d EXCEPT !.status = s].retries = d.retries
  BY DEF Document

(* The other fields that the code sets.                                    *)
LEMMA FieldUpdates ==
  ASSUME NEW d \in Document, NEW n \in 0 .. MaxRetries, NEW b \in BOOLEAN
  PROVE  /\ [d EXCEPT !.retries = n] \in Document
         /\ [d EXCEPT !.future = b] \in Document
         /\ [d EXCEPT !.in_dlq = b] \in Document
  BY StoreAssumption DEF Document

(* The passing of scheduled_at.                                            *)
LEMMA Passes ==
  ASSUME NEW d \in Document
  PROVE  /\ [d EXCEPT !.future = FALSE] \in Document
         /\ [d EXCEPT !.future = FALSE].id = d.id
         /\ [d EXCEPT !.future = FALSE].status = d.status
         /\ [d EXCEPT !.future = FALSE].retries = d.retries
  BY DEF Document

(* The update of _schedule_retry, within the budget.                       *)
LEMMA RetryUpdate ==
  ASSUME NEW d \in Document, d.retries < MaxRetries
  PROVE  Rescheduled(d) \in Document /\ Rescheduled(d).id = d.id /\ Rescheduled(d).status = "pending"
<1>1. {0, d.retries + 1} \subseteq 0 .. MaxRetries /\ "pending" \in Status
  BY StoreAssumption DEF Document, Status
<1>2. [d EXCEPT !.retries = d.retries + 1] \in Document
  BY <1>1, FieldUpdates
<1>3. [[d EXCEPT !.retries = d.retries + 1] EXCEPT !.status = "pending"] \in Document
  BY <1>1, <1>2, Updates
<1>4. Rescheduled(d) = [[[d EXCEPT !.retries = d.retries + 1] EXCEPT !.status = "pending"]
                    EXCEPT !.future = TRUE]
  BY DEF Rescheduled
<1>5. Rescheduled(d) \in Document
  BY <1>1, <1>3, <1>4, FieldUpdates
<1>6. Rescheduled(d).id = d.id /\ Rescheduled(d).status = "pending"
  BY DEF Document, Rescheduled
<1> QED
  BY <1>5, <1>6

(* The update of retry_from_dlq.                                           *)
LEMMA DlqUpdate ==
  ASSUME NEW d \in Document
  PROVE  Retried(d) \in Document /\ Retried(d).id = d.id /\ Retried(d).status = "pending"
<1>1. 0 \in 0 .. MaxRetries /\ "pending" \in Status
  BY StoreAssumption DEF Status
<1>2. [[d EXCEPT !.status = "pending"] EXCEPT !.retries = 0] \in Document
  BY <1>1, Updates, FieldUpdates
<1>3. Retried(d) = [[[d EXCEPT !.status = "pending"] EXCEPT !.retries = 0]
                      EXCEPT !.in_dlq = FALSE]
  BY DEF Retried
<1>4. Retried(d) \in Document
  BY <1>1, <1>2, <1>3, FieldUpdates
<1>5. Retried(d).id = d.id /\ Retried(d).status = "pending"
  BY DEF Document, Retried
<1> QED
  BY <1>4, <1>5

(* The update of _move_to_dlq.                                             *)
LEMMA FailedUpdate ==
  ASSUME NEW d \in Document
  PROVE  DeadLettered(d) \in Document /\ DeadLettered(d).id = d.id /\ DeadLettered(d).status = "failed"
  BY StoreAssumption DEF Document, Status, DeadLettered

(* What get_job returns for a key that does not exist.                     *)
LEMMA AbsentDocuments ==
  ASSUME NEW j \in Jobs \cup {NoJob}
  PROVE  Absent(j) \in Document /\ Absent(j).id = j /\ Absent(j).status = "absent"
<1>1. "absent" \in Status
  BY DEF Status
<1> QED
  BY NewDocuments, Updates, <1>1 DEF Absent

(* What coroutine p has in its hands.                                      *)
LEMMA InHand ==
  ASSUME TypeOK, NEW p \in Procs
  PROVE  /\ job[p] \in Document /\ arg[p] \in Document /\ NoDocument \in Document
         /\ job[p].id \in Jobs \cup {NoJob} /\ arg[p].id \in Jobs \cup {NoJob}
         /\ back[p] \in Labels
         /\ \A j \in Jobs : /\ store[j] \in Document /\ store[j].id = j
                            /\ Absent(j) \in Document /\ DependsOn[j] \subseteq Jobs
<1>1. /\ job[p] \in Document /\ arg[p] \in Document
      /\ \A j \in Jobs : store[j] \in Document /\ store[j].id = j
  BY DEF TypeOK
<1>2. job[p].id \in Jobs \cup {NoJob} /\ arg[p].id \in Jobs \cup {NoJob}
  BY <1>1 DEF Document
<1>3. back[p] \in Labels
  BY DEF TypeOK, Labels, TryLabels, DequeueLabels
<1>4. NoDocument \in Document /\ \A j \in Jobs : Absent(j) \in Document
  BY AbsentDocuments DEF NoDocument
<1> QED
  BY <1>1, <1>2, <1>3, <1>4, StoreAssumption

(* save_job writes a document of the right job.                            *)
LEMMA SaveJobType ==
  ASSUME StoreTypeOK, NEW d \in Document, SaveJob(d)
  PROVE  store' \in [Jobs -> Document] /\ \A j \in Jobs : store'[j].id = j
  BY DEF SaveJob

(***************************************************************************)
(* Type correctness, step by step.                                         *)
(***************************************************************************)

(* The steps of enqueue, for whoever calls it.                             *)
LEMMA EnqueueType ==
  ASSUME TypeOK, Sound, NEW p \in Procs, EnqueueStep(p), UNCHANGED history
  PROVE  TypeOK'
<1> USE DEF TypeOK, Goto, Labels, EnqueueLabels
<1>1. /\ arg[p] \in Document /\ NoDocument \in Document /\ back[p] \in Labels
      /\ Carrying(p) => arg[p].id \in Jobs
  BY InHand DEF Sound, Local
<1>3. CASE Enqueue(p)
  <2>1. arg[p].id \in Jobs
    BY <1>1, <1>3 DEF Enqueue, Carrying
  <2>2. need' \in [Procs -> SUBSET Jobs]
    BY <2>1, <1>3, StoreAssumption DEF Enqueue, CheckDependencies
  <2>3. pc' \in [Procs -> Labels]
    BY <1>3 DEF Enqueue, CheckDependencies
  <2> QED
    BY <2>2, <2>3, <1>3 DEF Enqueue
<1>4. CASE EnqueueLaterSave(p)
  BY <1>1, <1>4, SaveJobType DEF EnqueueLaterSave
<1>5. CASE EnqueueLaterZadd(p)
  BY <1>1, <1>5 DEF EnqueueLaterZadd, Return
<1>6. CASE EnqueueDeps(p)
  <2>1. CASE ReadMet(p, "enq_zadd") /\ UNCHANGED <<arg, back>>
    BY <1>1, <1>6, <2>1 DEF EnqueueDeps, ReadMet
  <2>2. CASE ReadUnmet(p) /\ Return(p)
    BY <1>1, <1>6, <2>2 DEF EnqueueDeps, ReadUnmet, Return
  <2> QED
    BY <1>6, <2>1, <2>2 DEF EnqueueDeps
<1>7. CASE EnqueueZadd(p)
  <2>1. \A j \in Jobs : Priority[j] \in 0 .. 3
    BY SchedulerAssumption
  <2>2. heap' \in [Jobs -> 0 .. 3]
    BY <2>1, <1>7 DEF EnqueueZadd
  <2> QED
    BY <2>2, <1>7 DEF EnqueueZadd
<1>8. CASE EnqueueSave(p)
  BY <1>1, <1>8, SaveJobType DEF EnqueueSave, Return
<1> QED
  BY <1>3, <1>4, <1>5, <1>6, <1>7, <1>8 DEF EnqueueStep

(* A score is that of the base priority or of a raised one.                *)
LEMMA Scores ==
  ASSUME NEW j \in Jobs
  PROVE  1 .. Priority[j] \subseteq 0 .. 3 /\ Priority[j] \in 0 .. 3
<1>1. Priority[j] \in 1 .. 3
  BY SchedulerAssumption
<1> QED
  BY <1>1

(* The steps of dequeue, promotion included, and of release_lock.          *)
LEMMA DequeueType ==
  ASSUME TypeOK, Sound, NEW w \in Workers, UNCHANGED history,
         DequeueStep(w) \/ ReleaseLock(w)
  PROVE  TypeOK'
<1> USE DEF TypeOK, Goto, Labels, EnqueueLabels, DequeueLabels, TryLabels
<1>1. /\ w \in Procs
      /\ arg[w] \in Document /\ job[w] \in Document /\ NoDocument \in Document
      /\ \A j \in Jobs : /\ store[j] \in Document /\ store[j].id = j
                         /\ Absent(j) \in Document /\ DependsOn[j] \subseteq Jobs
      /\ Holding(w) => job[w].id \in Jobs
  BY InHand DEF Sound, Local, Procs
<1>2. \A rest : NextDue(rest) \in Labels
  BY DEF NextDue
<1>3. \A j \in Jobs : 1 .. Priority[j] \subseteq 0 .. 3 /\ Priority[j] \in 0 .. 3
  BY Scores
<1>4. CASE PromoteScan(w)
  BY <1>1, <1>2, <1>4 DEF PromoteScan, DueEntries
<1>5. CASE PromoteGet(w)
  BY <1>1, <1>5 DEF PromoteGet
<1>6. CASE PromoteZrem(w)
  <2>1. [arg[w] EXCEPT !.future = FALSE] \in Document
    BY <1>1, Passes
  <2>2. arg' = [arg EXCEPT ![w] = NoDocument] \/ arg' = [arg EXCEPT ![w].future = FALSE]
    BY <1>6 DEF PromoteZrem
  <2>3. arg' \in [Procs -> Document]
    BY <1>1, <2>1, <2>2
  <2>4. pc' \in [Procs -> Labels]
    BY <1>2, <1>6 DEF PromoteZrem
  <2> QED
    BY <1>6, <2>3, <2>4 DEF PromoteZrem, Unschedule
<1>7. CASE PromoteZadd(w)
  <2>1. heap' \in [Jobs -> 0 .. 3]
    BY <1>3, <1>7 DEF PromoteZadd
  <2> QED
    BY <1>7, <2>1 DEF PromoteZadd
<1>8. CASE PromoteSave(w)
  BY <1>1, <1>2, <1>8, SaveJobType DEF PromoteSave
<1>9. CASE PopEmpty(w)
  BY <1>9 DEF PopEmpty
<1>10. CASE Pop(w)
  BY <1>1, <1>10 DEF Pop
<1>11. CASE DequeueGet(w)
  <2> DEFINE d == store[job[w].id]
  <2>1. d \in Document /\ DependsOn[d.id] \subseteq Jobs
    BY <1>1, <1>11 DEF DequeueGet, Holding
  <2>2. need' \in [Procs -> SUBSET Jobs] /\ job' \in [Procs -> Document]
    BY <1>1, <1>11, <2>1 DEF DequeueGet, CheckDependencies
  <2>3. pc' \in [Procs -> Labels]
    BY <1>11 DEF DequeueGet, CheckDependencies
  <2> QED
    BY <1>11, <2>2, <2>3 DEF DequeueGet
<1>12. CASE DequeueDeps(w)
  <2>1. CASE ReadMet(w, "lock")
    BY <1>1, <1>12, <2>1 DEF DequeueDeps, ReadMet
  <2>2. CASE ReadUnmet(w) /\ Goto(w, "requeue")
    BY <1>1, <1>12, <2>2 DEF DequeueDeps, ReadUnmet
  <2> QED
    BY <1>12, <2>1, <2>2 DEF DequeueDeps
<1>13. ASSUME NEW label, NEW scored, Requeue(w, label, scored),
              Holding(w) => scored \subseteq 0 .. 3, label \in {"requeue", "contended"}
       PROVE  TypeOK'
  <2>1. heap' \in [Jobs -> 0 .. 3] /\ job' \in [Procs -> Document]
    BY <1>1, <1>13 DEF Requeue, Holding
  <2> QED
    BY <1>13, <2>1 DEF Requeue
<1>14. CASE RequeueBlocked(w)
  BY <1>1, <1>3, <1>13, <1>14 DEF RequeueBlocked
<1>15. CASE RequeueContended(w)
  BY <1>1, <1>3, <1>13, <1>15 DEF RequeueContended
<1>16. CASE ReleaseLock(w)
  BY <1>1, <1>16 DEF ReleaseLock
<1> QED
  BY <1>4, <1>5, <1>6, <1>7, <1>8, <1>9, <1>10, <1>11, <1>12, <1>14, <1>15,
     <1>16 DEF DequeueStep

(* The steps of the three requests outside enqueue.                        *)
LEMMA RequestType ==
  ASSUME TypeOK, Sound, NEW c \in Clients,
         Arrive(c) \/ CreateRegister(c) \/ CancelSave(c) \/ CancelRemove(c) \/ RetrySave(c)
  PROVE  TypeOK'
<1> USE DEF TypeOK, Goto, Labels, EnqueueLabels, CallEnqueue
<1>1. /\ c \in Procs
      /\ arg[c] \in Document /\ NoDocument \in Document
      /\ \A j \in Jobs : /\ store[j] \in Document /\ store[j].id = j
                         /\ DependsOn[j] \subseteq Jobs
      /\ Carrying(c) => arg[c].id \in Jobs
  BY InHand DEF Sound, Local, Procs
<1>2. CASE CreateSave(c)
  <2>1. PICK j \in Jobs, later \in BOOLEAN :
          /\ SaveJob(NewJob(j, later))
          /\ ahead' = IF later THEN ahead \cup {j} ELSE ahead
          /\ \/ CallEnqueue(c, NewJob(j, later), "idle")
             \/ /\ arg' = [arg EXCEPT ![c] = NewJob(j, later)]
                /\ pc' = [pc EXCEPT ![c] = "register"]
                /\ UNCHANGED back
    BY <1>2, ServiceAssumption DEF CreateSave
  <2>2. NewJob(j, later) \in Document
    BY NewDocuments
  <2>3. store' \in [Jobs -> Document] /\ \A k \in Jobs : store'[k].id = k
    BY <2>1, <2>2, SaveJobType
  <2>4. pc' \in [Procs -> Labels]
    BY <2>1
  <2>5. /\ arg' \in [Procs -> Document]
        /\ back' \in [Procs -> {"idle", "unlock_get", "recur", "tail", "release"}]
    BY <1>1, <2>1, <2>2
  <2> QED
    BY <1>2, <2>1, <2>3, <2>4, <2>5 DEF CreateSave
<1>3. CASE CreateRegister(c)
  <2>1. dependents' \in [Jobs -> SUBSET Jobs]
    BY <1>1, <1>3 DEF CreateRegister, RegisterDependents, Carrying
  <2> QED
    BY <1>1, <1>3, <2>1 DEF CreateRegister
<1>4. CASE CancelGet(c)
  <2>1. "cancelled" \in Status
    BY DEF Status
  <2>2. PICK j \in Jobs : arg' = [arg EXCEPT ![c] = [store[j] EXCEPT !.status = "cancelled"]]
    BY <1>4 DEF CancelGet, Created
  <2>3. arg' \in [Procs -> Document]
    BY <1>1, <2>1, <2>2, Updates
  <2> QED
    BY <1>4, <2>3 DEF CancelGet
<1>5. CASE CancelSave(c)
  BY <1>1, <1>5, SaveJobType DEF CancelSave
<1>6. CASE CancelRemove(c)
  <2>1. heap' = [heap EXCEPT ![arg[c].id] = 0] /\ sched' = [sched EXCEPT ![arg[c].id] = "out"]
    BY <1>6 DEF CancelRemove, Remove
  <2>2. heap' \in [Jobs -> 0 .. 3]
    <3>1. 0 \in 0 .. 3 /\ heap \in [Jobs -> 0 .. 3]
      OBVIOUS
    <3> QED
      BY <2>1, <3>1
  <2>3. sched' \in [Jobs -> {"out", "future", "due"}]
    BY <2>1
  <2>4. arg' \in [Procs -> Document] /\ pc' \in [Procs -> Labels]
    BY <1>1, <1>6 DEF CancelRemove, DequeueLabels
  <2> QED
    BY <1>6, <2>2, <2>3, <2>4 DEF CancelRemove
<1>7. CASE RetryGet(c)
  <2>1. PICK j \in Jobs : arg' = [arg EXCEPT ![c] = Retried(store[j])]
    BY <1>7 DEF RetryGet, Created
  <2>2. arg' \in [Procs -> Document]
    BY <1>1, <2>1, DlqUpdate
  <2> QED
    BY <1>7, <2>2 DEF RetryGet
<1>8. CASE RetrySave(c)
  BY <1>1, <1>8, SaveJobType DEF RetrySave
<1> QED
  BY <1>2, <1>3, <1>4, <1>5, <1>6, <1>7, <1>8 DEF Arrive

(* Every continuation after a dependent is a label of the worker.          *)
LEMMA NextLabels ==
  ASSUME NEW w, NEW rest
  PROVE  NextDependent(w, rest) \in {"unlock_get", "recur", "tail"}
  BY DEF NextDependent

(* The steps of process_job that handle the job itself.                    *)
LEMMA RunType ==
  ASSUME TypeOK, Sound, NEW w \in Workers,
         \/ Acquire(w) \/ Start(w) \/ HandlerReturns(w) \/ HandlerRaises(w)
         \/ Recheck(w) \/ Complete(w) \/ GetDependents(w)
         \/ Finish(w) \/ ScheduleRetry(w) \/ MoveToDlq(w)
  PROVE  TypeOK'
<1> USE DEF TypeOK, Goto, Labels, EnqueueLabels, TryLabels
<1>1. /\ w \in Procs
      /\ arg[w] \in Document /\ job[w] \in Document
      /\ Holding(w) => job[w].id \in Jobs
      /\ pc[w] = "retry_save" => job[w].retries < MaxRetries
      /\ {"processing", "completed"} \subseteq Status
  BY InHand DEF Sound, Local, Procs, Status
<1>2. CASE Acquire(w)
  <2>1. pc' \in [Procs -> Labels]
    BY <1>2 DEF Acquire, AcquireLock, DequeueLabels
  <2>2. lock' \in [Jobs -> BOOLEAN]
    BY <1>2 DEF Acquire, AcquireLock
  <2> QED
    BY <1>2, <2>1, <2>2 DEF Acquire, AcquireLock
<1>3. CASE Start(w)
  <2> DEFINE d == [job[w] EXCEPT !.status = "processing"]
  <2>1. d \in Document
    BY <1>1, Updates
  <2>2. SaveJob(d) /\ job' = [job EXCEPT ![w] = d]
    BY <1>3 DEF Start
  <2>3. started' \subseteq Jobs
    BY <1>1, <1>3 DEF Start, Holding
  <2> HIDE DEF d
  <2>4. store' \in [Jobs -> Document] /\ \A k \in Jobs : store'[k].id = k
    BY <2>1, <2>2, SaveJobType
  <2>5. job' \in [Procs -> Document]
    BY <2>1, <2>2
  <2> QED
    BY <1>3, <2>3, <2>4, <2>5 DEF Start
<1>4. CASE HandlerReturns(w)
  BY <1>1, <1>4 DEF HandlerReturns, Holding
<1>5. CASE HandlerRaises(w)
  BY <1>5 DEF HandlerRaises, OnException
<1>6. CASE Recheck(w)
  BY <1>6 DEF Recheck
<1>7. CASE Complete(w)
  <2> DEFINE d == [job[w] EXCEPT !.status = "completed"]
  <2>1. d \in Document
    BY <1>1, Updates
  <2>2. SaveJob(d) /\ job' = [job EXCEPT ![w] = d]
    BY <1>7 DEF Complete
  <2> HIDE DEF d
  <2>4. store' \in [Jobs -> Document] /\ \A k \in Jobs : store'[k].id = k
    BY <2>1, <2>2, SaveJobType
  <2>5. job' \in [Procs -> Document]
    BY <2>1, <2>2
  <2> QED
    BY <1>7, <2>4, <2>5 DEF Complete
<1>8. CASE GetDependents(w)
  <2>1. job[w].id \in Jobs
    BY <1>1, <1>8 DEF GetDependents, Holding
  <2>2. todo' \in [Procs -> SUBSET Jobs]
    BY <1>8, <2>1 DEF GetDependents
  <2>3. pc' \in [Procs -> Labels]
    <3>1. pc' = [pc EXCEPT ![w] = NextDependent(w, dependents[job[w].id])]
      BY <1>8 DEF GetDependents
    <3> QED
      BY <3>1, NextLabels
  <2> QED
    BY <1>8, <2>2, <2>3 DEF GetDependents
<1>9. CASE Finish(w)
  BY <1>9 DEF Finish
<1>10. CASE ScheduleRetry(w)
  <2> DEFINE d == Rescheduled(job[w])
  <2>1. d \in Document /\ d.id \in Jobs
    BY <1>1, <1>10, RetryUpdate DEF ScheduleRetry, Holding
  <2>2. /\ SaveJob(d) /\ job' = [job EXCEPT ![w] = d]
        /\ CallEnqueue(w, d, "release") /\ ahead' = ahead \cup {d.id}
    BY <1>10 DEF ScheduleRetry
  <2> HIDE DEF d
  <2>3. store' \in [Jobs -> Document] /\ \A k \in Jobs : store'[k].id = k
    BY <2>1, <2>2, SaveJobType
  <2>4. /\ job' \in [Procs -> Document] /\ arg' \in [Procs -> Document]
        /\ back' \in [Procs -> {"idle", "unlock_get", "recur", "tail", "release"}]
        /\ pc' \in [Procs -> Labels] /\ ahead' \subseteq Jobs
    BY <2>1, <2>2 DEF CallEnqueue
  <2> QED
    BY <1>10, <2>3, <2>4 DEF ScheduleRetry
<1>11. CASE MoveToDlq(w)
  <2> DEFINE d == DeadLettered(job[w])
  <2>1. d \in Document
    BY <1>1, FailedUpdate
  <2>2. SaveJob(d) /\ job' = [job EXCEPT ![w] = d]
    BY <1>11 DEF MoveToDlq
  <2> HIDE DEF d
  <2>4. store' \in [Jobs -> Document] /\ \A k \in Jobs : store'[k].id = k
    BY <2>1, <2>2, SaveJobType
  <2>5. job' \in [Procs -> Document]
    BY <2>1, <2>2
  <2> QED
    BY <1>11, <2>4, <2>5 DEF MoveToDlq
<1> QED
  BY <1>2, <1>3, <1>4, <1>5, <1>6, <1>7, <1>8, <1>9, <1>10, <1>11

(* The steps that unlock dependents and schedule recurrences.              *)
LEMMA TailType ==
  ASSUME TypeOK, Sound, NEW w \in Workers,
         UnlockGet(w) \/ UnlockDeps(w) \/ Recur(w)
  PROVE  TypeOK'
<1> USE DEF TypeOK, Goto, Labels, EnqueueLabels, TryLabels
<1> DEFINE Backs == {"idle", "unlock_get", "recur", "tail", "release"}
<1>1. /\ w \in Procs
      /\ arg[w] \in Document /\ NoDocument \in Document /\ back[w] \in Labels
      /\ \A j \in Jobs : store[j] \in Document /\ DependsOn[j] \subseteq Jobs
  BY InHand DEF Procs
<1>2. CASE UnlockGet(w)
  <2>1. PICK j \in todo[w] :
          /\ todo' = [todo EXCEPT ![w] = @ \ {j}]
          /\ \/ /\ arg' = [arg EXCEPT ![w] = store[j]]
                /\ back' = [back EXCEPT ![w] = NextDependent(w, todo[w] \ {j})]
                /\ CheckDependencies(w, j, "unlock_deps", "enqueue")
             \/ /\ pc' = [pc EXCEPT ![w] = NextDependent(w, todo[w] \ {j})]
                /\ UNCHANGED <<need, arg, back>>
    BY <1>2 DEF UnlockGet
  <2>2. j \in Jobs /\ todo' \in [Procs -> SUBSET Jobs]
    BY <1>1, <2>1
  <2>3. NextDependent(w, todo[w] \ {j}) \in Backs \cap Labels
    BY NextLabels
  <2>4. pc' \in [Procs -> Labels]
    BY <2>1, <2>3 DEF CheckDependencies
  <2>5. need' \in [Procs -> SUBSET Jobs]
    BY <1>1, <2>1, <2>2 DEF CheckDependencies
  <2>6. arg' \in [Procs -> Document] /\ back' \in [Procs -> Backs]
    BY <1>1, <2>1, <2>2, <2>3
  <2> QED
    BY <1>2, <2>2, <2>4, <2>5, <2>6 DEF UnlockGet
<1>3. CASE UnlockDeps(w)
  <2>1. CASE ReadMet(w, "enqueue") /\ UNCHANGED <<arg, back>>
    BY <1>1, <1>3, <2>1 DEF UnlockDeps, ReadMet
  <2>2. CASE ReadUnmet(w) /\ Return(w)
    BY <1>1, <1>3, <2>2 DEF UnlockDeps, ReadUnmet, Return
  <2> QED
    BY <1>3, <2>1, <2>2 DEF UnlockDeps
<1>4. CASE Recur(w)
  <2>1. CASE pc' = [pc EXCEPT ![w] = "tail"] /\ UNCHANGED <<store, ahead, arg, back>>
    BY <1>4, <2>1 DEF Recur
  <2>2. ASSUME NEW k \in Jobs, SaveJob(NewJob(k, TRUE)), ahead' = ahead \cup {k},
               CallEnqueue(w, NewJob(k, TRUE), "tail")
        PROVE  TypeOK'
    <3>1. NewJob(k, TRUE) \in Document
      BY NewDocuments
    <3>2. store' \in [Jobs -> Document] /\ \A j \in Jobs : store'[j].id = j
      BY <2>2, <3>1, SaveJobType
    <3>3. /\ arg' \in [Procs -> Document] /\ pc' \in [Procs -> Labels]
          /\ back' \in [Procs -> Backs] /\ ahead' \subseteq Jobs
      BY <1>1, <2>2, <3>1 DEF CallEnqueue
    <3> QED
      BY <1>4, <3>2, <3>3 DEF Recur
  <2> QED
    BY <1>4, <2>1, <2>2, ServiceAssumption DEF Recur
<1> QED
  BY <1>2, <1>3, <1>4

(* Crashes and raised commands leave labels and empty hands.               *)
LEMMA FaultType ==
  ASSUME TypeOK, NEW p \in Procs, RaiseInTry(p) \/ Abort(p)
  PROVE  TypeOK'
<1> USE DEF TypeOK, Goto, Labels, DequeueLabels
<1>1. NoDocument \in Document
  BY InHand
<1>2. hit' \subseteq Jobs
  BY DEF RaiseInTry, Abort, InHands
<1>3. CASE RaiseInTry(p)
  <2>1. pc' \in [Procs -> Labels]
    BY <1>3 DEF RaiseInTry, OnException
  <2> QED
    BY <1>1, <1>2, <1>3, <2>1 DEF RaiseInTry
<1>4. CASE Abort(p)
  BY <1>1, <1>2, <1>4 DEF Abort
<1> QED
  BY <1>3, <1>4

(* When the clock passes a schedule instant, no document changes otherwise.*)
LEMMA DueDocuments ==
  ASSUME TypeOK, NEW j \in Jobs, Due(j)
  PROVE  /\ store' \in [Jobs -> Document]
         /\ job' \in [Procs -> Document] /\ arg' \in [Procs -> Document]
         /\ \A k \in Jobs : store'[k].id = store[k].id /\ store'[k].status = store[k].status
         /\ \A p \in Procs :
              /\ job'[p].id = job[p].id /\ job'[p].status = job[p].status
              /\ job'[p].retries = job[p].retries
              /\ arg'[p].id = arg[p].id /\ arg'[p].status = arg[p].status
<1> DEFINE Pass(d) == IF d.id = j THEN [d EXCEPT !.future = FALSE] ELSE d
<1>1. \A d \in Document : /\ Pass(d) \in Document /\ Pass(d).id = d.id
                          /\ Pass(d).status = d.status /\ Pass(d).retries = d.retries
  BY Passes
<1>2. \A k \in Jobs : store[k] \in Document
  BY DEF TypeOK
<1>3. \A p \in Procs : job[p] \in Document /\ arg[p] \in Document
  BY InHand
<1>4. store' = [store EXCEPT ![j] = [store[j] EXCEPT !.future = FALSE]]
  BY DEF Due
<1>5. [store[j] EXCEPT !.future = FALSE] = Pass(store[j])
  BY DEF TypeOK
<1>6. job' = [p \in Procs |-> Pass(job[p])] /\ arg' = [p \in Procs |-> Pass(arg[p])]
  BY DEF Due
<1> HIDE DEF Pass
<1>7. store' \in [Jobs -> Document]
  <2>1. Pass(store[j]) \in Document /\ store \in [Jobs -> Document]
    BY <1>1, <1>2 DEF TypeOK
  <2>2. store' = [store EXCEPT ![j] = Pass(store[j])]
    BY <1>4, <1>5
  <2> QED
    BY <2>1, <2>2
<1>8. \A k \in Jobs : store'[k].id = store[k].id /\ store'[k].status = store[k].status
  <2>1. \A k \in Jobs : store'[k] = store[k] \/ store'[k] = Pass(store[k])
    BY <1>4, <1>5 DEF TypeOK
  <2> QED
    BY <1>1, <1>2, <2>1
<1> QED
  BY <1>1, <1>3, <1>6, <1>7, <1>8

(* The clock and the expiry of keys.                                       *)
LEMMA TimeType ==
  ASSUME TypeOK, NEW j \in Jobs, Time(j)
  PROVE  TypeOK'
<1>1. CASE Due(j)
  <2>1. sched' \in [Jobs -> {"out", "future", "due"}] /\ ahead' \subseteq Jobs
    BY <1>1 DEF TypeOK, Due
  <2>2. /\ store' \in [Jobs -> Document] /\ \A k \in Jobs : store'[k].id = k
        /\ job' \in [Procs -> Document] /\ arg' \in [Procs -> Document]
    BY <1>1, DueDocuments DEF TypeOK
  <2>3. UNCHANGED <<pc, dependents, heap, lock, need, todo, back, history>>
    BY <1>1 DEF Due, Time
  <2> QED
    BY <2>1, <2>2, <2>3 DEF TypeOK
<1>2. CASE LockExpires(j)
  BY <1>2 DEF TypeOK, LockExpires, Time
<1> QED
  BY <1>1, <1>2 DEF Time

(* Empty Redis, everyone idle.                                             *)
LEMMA InitType == Init => TypeOK
<1> SUFFICES ASSUME Init PROVE TypeOK
  OBVIOUS
<1>1. NoDocument \in Document /\ \A j \in Jobs : Absent(j) \in Document /\ Absent(j).id = j
  BY AbsentDocuments DEF NoDocument
<1>2. StoreTypeOK
  BY <1>1 DEF Init, StoreInit
<1>3. SchedulerTypeOK
  <2>1. heap \in [Jobs -> 0 .. 3]
    <3>1. 0 \in 0 .. 3 /\ heap = [j \in Jobs |-> 0]
      BY DEF Init, SchedulerInit
    <3> QED
      BY <3>1
  <2> QED
    BY <1>1, <2>1 DEF Init, SchedulerInit
<1> QED
  BY <1>2, <1>3 DEF TypeOK, Init, SchedulerInit, Labels, DequeueLabels

(* All steps together.                                                     *)
LEMMA StepType ==
  ASSUME TypeOK, Sound, [Next]_vars
  PROVE  TypeOK'
<1>1. ASSUME NEW w \in Workers, WorkerStep(w) PROVE TypeOK'
  <2>1. w \in Procs
    BY DEF Procs
  <2> QED
    BY <1>1, <2>1, DequeueType, EnqueueType, RunType, TailType DEF WorkerStep, ProcessStep
<1>2. ASSUME NEW c \in Clients, Arrive(c) \/ RequestStep(c) PROVE TypeOK'
  <2>1. c \in Procs
    BY DEF Procs
  <2> QED
    BY <1>2, <2>1, EnqueueType, RequestType DEF RequestStep
<1>3. ASSUME NEW w \in Workers, RaiseInTry(w) PROVE TypeOK'
  BY <1>3, FaultType DEF Procs
<1>4. CASE UNCHANGED vars
  BY <1>4 DEF TypeOK, vars
<1> QED
  BY <1>1, <1>2, <1>3, <1>4, FaultType, TimeType DEF Next
=============================================================================
