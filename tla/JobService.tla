----------------------------- MODULE JobService -----------------------------
(***************************************************************************)
(* The job life cycle of backend/app/services/job_service.py: the requests *)
(* POST /jobs, DELETE /jobs/{id} and POST /dlq/{id}/retry, and the worker  *)
(* loop of backend/app/worker/main.py with process_job, all sharing one    *)
(* Redis through the heap scheduler.  Any two Redis commands of a request  *)
(* or a worker can have steps of the others between them.                  *)
(***************************************************************************)
EXTENDS HeapScheduler

CONSTANTS
  Unhandled,   \* jobs whose type has no entry in HANDLERS
  Recurring,   \* jobs created with an interval
  Spare,       \* identifiers kept for recurrences; bounds their number
  Requests,    \* the endpoints in use besides POST /jobs
  Delays,      \* may POST /jobs carry a future scheduled_at? (a set of BOOLEAN)
  Faults       \* do processes die and Redis commands raise?

ASSUME ServiceAssumption ==
  /\ Unhandled \subseteq Jobs
  /\ Recurring \subseteq Jobs
  /\ Spare \subseteq Recurring \ Unhandled
  /\ Requests \subseteq {"cancel", "retry"}
  /\ Delays \subseteq BOOLEAN
  /\ Faults \in BOOLEAN

(* History: the jobs ever marked processing, those whose handler ever      *)
(* returned, and those ever in the hands of a coroutine that was cut short.*)
VARIABLES started, succeeded, hit

history == <<started, succeeded, hit>>

vars == <<pc, redisVars, localVars, history>>

(***************************************************************************)
(* create_job.  A client can name only parents it has seen.                *)
(***************************************************************************)
(* Mutant: the parents are never told of their dependent.                  *)
CreateSave_NotRegistered(c) ==
  /\ pc[c] = "idle"
  /\ \E j \in Jobs \ (Created \cup Spare), later \in Delays :
       /\ DependsOn[j] \subseteq Created
       /\ SaveJob(NewJob(j, later))
       /\ ahead' = IF later THEN ahead \cup {j} ELSE ahead
       /\ CallEnqueue(c, NewJob(j, later), "idle")
  /\ UNCHANGED <<dependents, heap, sched, lock, need, job, todo, history>>

CreateSave(c) ==
  /\ pc[c] = "idle"
  /\ \E j \in Jobs \ (Created \cup Spare), later \in Delays :
       /\ DependsOn[j] \subseteq Created
       /\ SaveJob(NewJob(j, later))
       /\ ahead' = IF later THEN ahead \cup {j} ELSE ahead
       /\ IF DependsOn[j] = {}
            THEN CallEnqueue(c, NewJob(j, later), "idle")
            ELSE /\ arg' = [arg EXCEPT ![c] = NewJob(j, later)]
                 /\ Goto(c, "register")
                 /\ UNCHANGED back
  /\ UNCHANGED <<dependents, heap, sched, lock, need, job, todo, history>>

CreateRegister(c) ==
  /\ pc[c] = "register"
  /\ RegisterDependents(arg[c].id)
  /\ CallEnqueue(c, arg[c], "idle")
  /\ UNCHANGED <<store, queueVars, need, job, todo, history>>

(***************************************************************************)
(* cancel_job: read, write back as cancelled, take out of the queues.      *)
(***************************************************************************)
CancelGet(c) ==
  /\ pc[c] = "idle"
  /\ "cancel" \in Requests
  /\ \E j \in Created :
       /\ store[j].status \notin {"completed", "failed", "cancelled"}
       /\ arg' = [arg EXCEPT ![c] = [store[j] EXCEPT !.status = "cancelled"]]
  /\ Goto(c, "cancel_save")
  /\ UNCHANGED <<redisVars, need, job, todo, back, history>>

CancelSave(c) ==
  /\ pc[c] = "cancel_save"
  /\ SaveJob(arg[c])
  /\ Goto(c, "cancel_remove")
  /\ UNCHANGED <<dependents, queueVars, localVars, history>>

CancelRemove(c) ==
  /\ pc[c] = "cancel_remove"
  /\ Remove(arg[c].id)
  /\ arg' = [arg EXCEPT ![c] = NoDocument]
  /\ Goto(c, "idle")
  /\ UNCHANGED <<store, dependents, lock, ahead, need, job, todo, back, history>>

(***************************************************************************)
(* retry_from_dlq.                                                         *)
(***************************************************************************)
(* Mutant: any job that ended without success can be retried.              *)
Retriable_Cancelled(d) == d.status \in {"failed", "cancelled"}

Retriable(d) == d.in_dlq

(* Mutant: the job keeps its place in the dead-letter queue.               *)
Retried_StillInDlq(d) == [d EXCEPT !.status = "pending", !.retries = 0]

Retried(d) ==
  [d EXCEPT !.status = "pending", !.retries = 0, !.in_dlq = FALSE]

RetryGet(c) ==
  /\ pc[c] = "idle"
  /\ "retry" \in Requests
  /\ \E j \in Created :
       /\ Retriable(store[j])
       /\ arg' = [arg EXCEPT ![c] = Retried(store[j])]
  /\ Goto(c, "dlq_retry_save")
  /\ UNCHANGED <<redisVars, need, job, todo, back, history>>

RetrySave(c) ==
  /\ pc[c] = "dlq_retry_save"
  /\ SaveJob(arg[c])
  /\ CallEnqueue(c, arg[c], "idle")
  /\ UNCHANGED <<dependents, queueVars, need, job, todo, history>>

(***************************************************************************)
(* process_job.                                                            *)
(***************************************************************************)
(* dequeue hands over a job; one without a handler goes straight to the    *)
(* dead-letter queue.                                                      *)
Acquire(w) ==
  /\ AcquireLock(w, IF job[w].id \in Unhandled THEN "dlq_save" ELSE "start")
  /\ UNCHANGED history

Start(w) ==
  /\ pc[w] = "start"
  /\ LET d == [job[w] EXCEPT !.status = "processing"] IN
       /\ SaveJob(d)
       /\ job' = [job EXCEPT ![w] = d]
  /\ started' = started \cup {job[w].id}
  /\ Goto(w, "run")
  /\ UNCHANGED <<dependents, queueVars, need, arg, todo, back, succeeded, hit>>

HandlerReturns(w) ==
  /\ pc[w] = "run"
  /\ succeeded' = succeeded \cup {job[w].id}
  /\ Goto(w, "recheck")
  /\ UNCHANGED <<redisVars, localVars, started, hit>>

(* Mutant: one retry too many.                                             *)
OnException_OneMore(w) ==
  Goto(w, IF job[w].retries <= MaxRetries THEN "retry_save" ELSE "dlq_save")

(* The except clause: retry while the budget lasts, else dead-letter.      *)
OnException(w) ==
  Goto(w, IF job[w].retries < MaxRetries THEN "retry_save" ELSE "dlq_save")

HandlerRaises(w) ==
  /\ pc[w] = "run"
  /\ OnException(w)
  /\ UNCHANGED <<redisVars, localVars, history>>

(* The look at the stored status before the result is committed.           *)
Recheck(w) ==
  /\ pc[w] = "recheck"
  /\ Goto(w, IF store[job[w].id].status = "cancelled"
               THEN "release" ELSE "complete")
  /\ UNCHANGED <<redisVars, localVars, history>>

Complete(w) ==
  /\ pc[w] = "complete"
  /\ LET d == [job[w] EXCEPT !.status = "completed"] IN
       /\ SaveJob(d)
       /\ job' = [job EXCEPT ![w] = d]
  /\ Goto(w, "dependents")
  /\ UNCHANGED <<dependents, queueVars, need, arg, todo, back, history>>

(* _unlock_dependents, then _schedule_recurring if there is an interval;   *)
(* "tail" is the end of the try block.                                     *)
NextDependent(w, rest) ==
  CASE rest # {}                                -> "unlock_get"
    [] rest = {} /\ job[w].id \in Recurring     -> "recur"
    [] rest = {} /\ job[w].id \notin Recurring  -> "tail"

GetDependents(w) ==
  /\ pc[w] = "dependents"
  /\ LET deps == dependents[job[w].id] IN
       /\ todo' = [todo EXCEPT ![w] = deps]
       /\ Goto(w, NextDependent(w, deps))
  /\ UNCHANGED <<redisVars, need, job, arg, back, history>>

UnlockGet(w) ==
  /\ pc[w] = "unlock_get"
  /\ \E j \in todo[w] :
       LET next == NextDependent(w, todo[w] \ {j}) IN
       /\ todo' = [todo EXCEPT ![w] = @ \ {j}]
       /\ \/ /\ store[j].status = "pending"
             /\ arg' = [arg EXCEPT ![w] = store[j]]
             /\ back' = [back EXCEPT ![w] = next]
             /\ CheckDependencies(w, j, "unlock_deps", "enqueue")
          \/ /\ store[j].status # "pending"
             /\ Goto(w, next)
             /\ UNCHANGED <<need, arg, back>>
  /\ UNCHANGED <<redisVars, job, history>>

(* A dependent whose parents are all completed is enqueued as it was read. *)
UnlockDeps(w) ==
  /\ pc[w] = "unlock_deps"
  /\ \/ ReadMet(w, "enqueue") /\ UNCHANGED <<arg, back>>
     \/ ReadUnmet(w) /\ Return(w)
  /\ UNCHANGED <<redisVars, job, todo, history>>

(* _schedule_recurring saves a new document like the one completed; its    *)
(* parents are not registered.  Once Spare is used up nothing recurs.      *)
Recur(w) ==
  /\ pc[w] = "recur"
  /\ LET fresh == {k \in Spare \ Created :
                    /\ DependsOn[k] = DependsOn[job[w].id]
                    /\ Priority[k] = Priority[job[w].id]}
     IN \/ \E k \in fresh :
             /\ SaveJob(NewJob(k, TRUE))
             /\ ahead' = ahead \cup {k}
             /\ CallEnqueue(w, NewJob(k, TRUE), "tail")
        \/ /\ fresh = {}
           /\ Goto(w, "tail")
           /\ UNCHANGED <<store, ahead, arg, back>>
  /\ UNCHANGED <<dependents, heap, sched, lock, need, job, todo, history>>

Finish(w) ==
  /\ pc[w] = "tail"
  /\ Goto(w, "release")
  /\ UNCHANGED <<redisVars, localVars, history>>

(* _schedule_retry: the backoff is a new instant in the future.            *)
Rescheduled(d) ==
  [d EXCEPT !.retries = @ + 1, !.status = "pending", !.future = TRUE]

ScheduleRetry(w) ==
  /\ pc[w] = "retry_save"
  /\ LET d == Rescheduled(job[w]) IN
       /\ SaveJob(d)
       /\ job' = [job EXCEPT ![w] = d]
       /\ ahead' = ahead \cup {d.id}
       /\ CallEnqueue(w, d, "release")
  /\ UNCHANGED <<dependents, heap, sched, lock, need, todo, history>>

DeadLettered(d) == [d EXCEPT !.status = "failed", !.in_dlq = TRUE]

(* Mutant: a job that failed for good recurs as well.                      *)
MoveToDlq_Recurs(w) ==
  /\ pc[w] = "dlq_save"
  /\ SaveJob(DeadLettered(job[w]))
  /\ Goto(w, NextDependent(w, {}))
  /\ UNCHANGED <<dependents, queueVars, localVars, history>>

MoveToDlq(w) ==
  /\ pc[w] = "dlq_save"
  /\ LET d == DeadLettered(job[w]) IN
       /\ SaveJob(d)
       /\ job' = [job EXCEPT ![w] = d]
  /\ Goto(w, "release")
  /\ UNCHANGED <<dependents, queueVars, need, arg, todo, back, history>>

(***************************************************************************)
(* Failures.                                                               *)
(***************************************************************************)
TryLabels == {"recheck", "complete", "dependents", "unlock_get",
              "unlock_deps", "recur", "tail"}

(* The jobs p works on or has listed for its loop and, when it has just    *)
(* saved a job as completed, the dependents it has still to look up.       *)
InHands(p) ==
  {j \in Jobs : \/ j \in {job[p].id, arg[p].id} \cup todo[p]
                \/ pc[p] = "dependents" /\ j \in dependents[job[p].id]}

(* A Redis command raises inside process_job's try block: the except       *)
(* clause treats it like a failed handler.                                 *)
RaiseInTry(w) ==
  /\ Faults
  /\ \/ pc[w] \in TryLabels
     \/ pc[w] \in EnqueueLabels /\ back[w] # "release"
  /\ OnException(w)
  /\ arg' = [arg EXCEPT ![w] = NoDocument]
  /\ todo' = [todo EXCEPT ![w] = {}]
  /\ need' = [need EXCEPT ![w] = {}]
  /\ back' = [back EXCEPT ![w] = "idle"]
  /\ hit' = hit \cup InHands(w)
  /\ UNCHANGED <<redisVars, job, started, succeeded>>

(* Process p dies and is restarted, or a Redis command raises outside the  *)
(* try block (the worker loop logs it, the API answers 500): p loses what  *)
(* it was doing.  A lock it holds stays until it expires.                  *)
Abort(p) ==
  /\ Faults
  /\ pc[p] # "idle"
  /\ Goto(p, "idle")
  /\ job' = [job EXCEPT ![p] = NoDocument]
  /\ arg' = [arg EXCEPT ![p] = NoDocument]
  /\ todo' = [todo EXCEPT ![p] = {}]
  /\ need' = [need EXCEPT ![p] = {}]
  /\ back' = [back EXCEPT ![p] = "idle"]
  /\ hit' = hit \cup InHands(p)
  /\ UNCHANGED <<redisVars, started, succeeded>>

(***************************************************************************)
(* The specification.                                                      *)
(***************************************************************************)
(* process_job, whichever scheduler serves it.                             *)
ProcessStep(w) ==
  \/ Start(w) \/ HandlerReturns(w) \/ HandlerRaises(w)
  \/ Recheck(w) \/ Complete(w) \/ GetDependents(w) \/ UnlockGet(w)
  \/ UnlockDeps(w) \/ Recur(w) \/ Finish(w)
  \/ ScheduleRetry(w) \/ MoveToDlq(w)

(* What a worker does on its own: dequeue, process, release.               *)
WorkerStep(w) ==
  \/ (DequeueStep(w) \/ EnqueueStep(w) \/ ReleaseLock(w)) /\ UNCHANGED history
  \/ Acquire(w)
  \/ ProcessStep(w)

(* A request arrives ...                                                   *)
Arrive(c) == CreateSave(c) \/ CancelGet(c) \/ RetryGet(c)

(* ... and is served.                                                      *)
RequestStep(c) ==
  \/ EnqueueStep(c) /\ UNCHANGED history
  \/ CreateRegister(c) \/ CancelSave(c) \/ CancelRemove(c) \/ RetrySave(c)

Time(j) == (Due(j) \/ LockExpires(j)) /\ UNCHANGED history

Next ==
  \/ \E w \in Workers : WorkerStep(w) \/ RaiseInTry(w)
  \/ \E c \in Clients : Arrive(c) \/ RequestStep(c)
  \/ \E p \in Procs : Abort(p)
  \/ \E j \in Jobs : Time(j)

Init ==
  /\ StoreInit
  /\ SchedulerInit
  /\ pc = [p \in Procs |-> "idle"]
  /\ started = {}
  /\ succeeded = {}
  /\ hit = {}

Spec == Init /\ [][Next]_vars

(* The loops of worker processes and the API's event loop keep running,    *)
(* time passes, and Redis expires keys.  Nothing obliges a client to send  *)
(* a request or a fault to happen.                                         *)
FairSpec ==
  /\ Spec
  /\ \A w \in Workers : WF_vars(WorkerStep(w))
  /\ \A c \in Clients : WF_vars(RequestStep(c))
  /\ \A j \in Jobs : WF_vars(Due(j) /\ UNCHANGED history)
  /\ \A j \in Jobs : WF_vars(LockExpires(j) /\ UNCHANGED history)

(***************************************************************************)
(* Properties.                                                             *)
(***************************************************************************)
Labels ==
  DequeueLabels \cup EnqueueLabels \cup TryLabels \cup
  {"register", "cancel_save", "cancel_remove", "dlq_retry_save",
   "start", "run", "retry_save", "dlq_save", "release"}

(* Every variable has its type; in particular no document ever records     *)
(* more than MaxRetries retries, however stale the copy a worker bumps.    *)
TypeOK ==
  /\ pc \in [Procs -> Labels]
  /\ back \in [Procs -> {"idle", "unlock_get", "recur", "tail", "release"}]
  /\ StoreTypeOK
  /\ SchedulerTypeOK
  /\ started \subseteq Jobs
  /\ succeeded \subseteq Jobs
  /\ hit \subseteq Jobs

(* docs/architecture.md section 9.1: the NX lock keeps two workers from    *)
(* executing the same job concurrently.                                    *)
MutualExclusion ==
  \A v, w \in Workers :
    v # w /\ Executing(v) /\ Executing(w) => job[v].id # job[w].id

(* Section 8: a job is executed only when the handler of every parent has  *)
(* succeeded, whichever of the four paths put it into the heap.            *)
DependencyOrder ==
  \A w \in Workers : Executing(w) => DependsOn[job[w].id] \subseteq succeeded

(* Together, as an implementation of the abstract specification: a worker  *)
(* runs the job it holds from taking its lock until it goes idle.          *)
Dispatched == INSTANCE Dispatch WITH
  running <- [w \in Workers |-> IF Executing(w) THEN job[w].id ELSE NoJob],
  done <- succeeded

ImplementsDispatch == Dispatched!Spec

(* A pending job in no queue and in nobody's hands: parked if it was never *)
(* started; else a late save has written over its end (EnqueueSave).       *)
Adrift(j) ==
  /\ store[j].status = "pending"
  /\ heap[j] = 0 /\ sched[j] = "out"
  /\ \A p \in Procs : arg[p].id # j /\ job[p].id # j /\ j \notin todo[p]

Parked(j) == Adrift(j) /\ j \notin started
Erased(j) == Adrift(j) /\ j \in started

(* A parent for which section 8 has its dependents wait: it is queued or   *)
(* in somebody's hands, it has failed, or its end is still to be stored or *)
(* its completion to be announced.                                         *)
Outstanding(d) ==
  \/ store[d].status = "pending" /\ ~Adrift(d)
  \/ store[d].status = "failed"
  \/ \E w \in Workers :
       /\ job[w].id = d
       /\ pc[w] \in {"run", "recheck", "complete", "dlq_save", "dependents"}

Awaits(j) == \E d \in DependsOn[j] : Outstanding(d) \/ Erased(d)

(* Parked jobs with all that is parked before them.                        *)
Lines ==
  LET parked == {j \in Jobs : Parked(j)} IN
  {S \in SUBSET parked : S # {} /\ \A j \in S : DependsOn[j] \cap parked \subseteq S}

(* Sections 3.2 and 8: no wakeup of a dependent is lost between a client   *)
(* that registers it and checks its parents and the workers that complete  *)
(* them.  Among a parked job and the parked jobs before it there is one    *)
(* with a parent outstanding, or erased: what erasures cost is not claimed *)
(* here, see SuccessUnlocks.                                               *)
NoLostWakeup == \A S \in Lines : \E j \in S : Awaits(j)

(* Nothing finds a lost job again, so a process that dies or a command     *)
(* that raises must not lose more than the coroutine cut short had in its  *)
(* hands and what depends on that: among a parked job and the parked jobs  *)
(* before it there is one that was in such hands, or has a parent that     *)
(* was, or waits as in NoLostWakeup.                                       *)
LossIsLocal ==
  \A S \in Lines : \E j \in S : ({j} \cup DependsOn[j]) \cap hit # {} \/ Awaits(j)

(* Section 4.1, scheduled_at: do not run before this instant, the last one *)
(* set for the job, be it by the client or by the backoff of a retry.      *)
NeverEarly == \A w \in Workers : pc[w] = "start" => job[w].id \notin ahead

(* A job whose handler has succeeded is not started again.                 *)
RunsOnce == \A w \in Workers : pc[w] \in {"start", "run"} => job[w].id \notin succeeded

(* Section 7.2: a job is in the dead-letter queue exactly while it is      *)
(* failed, after exhausting its retries.                                   *)
DlqMeansFailed ==
  \A j \in Jobs : /\ store[j].in_dlq <=> store[j].status = "failed"
                  /\ store[j].in_dlq => \/ store[j].retries = MaxRetries
                                        \/ j \in Unhandled

(* Section 9.2: between runs, every successful run of a recurring job has  *)
(* begotten one successor, and nothing else has (while there are           *)
(* identifiers for it).  Only a run whose result was discarded begets      *)
(* none, and then the job is still cancelled.                              *)
RecurrenceConserved ==
  (\A w \in Workers : ~Executing(w)) =>
    LET AtMostSpare(n) == IF n < Cardinality(Spare) THEN n ELSE Cardinality(Spare)
        runs == succeeded \cap Recurring
        kept == {j \in runs : store[j].status # "cancelled"}
    IN  Cardinality(Created \cap Spare)
          \in AtMostSpare(Cardinality(kept)) .. AtMostSpare(Cardinality(runs))

(* Section 5.2 and cancel_job: once no coroutine holds a copy read before  *)
(* the cancel, a cancelled job stays cancelled whatever is left of it in   *)
(* the queues.                                                             *)
CancelSettled(j) ==
  /\ store[j].status = "cancelled"
  /\ \A p \in Procs : arg[p].id # j /\ job[p].id # j

CancelIsFinal ==
  \A j \in Jobs :
    [](CancelSettled(j) => [](store[j].status = "cancelled"))

(* Sections 3.2, 6.2 and 8: a pending job that was never started and whose *)
(* parents have all completed is eventually run by a worker, unless it is  *)
(* cancelled: "return highest-priority ready job".                         *)
Ready(j) ==
  /\ store[j].status = "pending"
  /\ j \notin started
  /\ \A d \in DependsOn[j] : store[d].status = "completed"

EveryReadyJobRuns ==
  \A j \in Jobs :
    Ready(j) ~> \/ \E w \in Workers : Executing(w) /\ job[w].id = j
                \/ store[j].status = "cancelled"

(* Section 3.3 and section 6: a scheduled job, a backed-off retry included,*)
(* does not stay scheduled for ever: it is run, or cancelled, or taken out *)
(* by a cancel that is under way, or a parent has failed and blocks it.  A *)
(* client that never stops retrying dead letters can keep it waiting.      *)
EveryScheduledJobRuns ==
  <>[](\A c \in Clients : pc[c] # "dlq_retry_save") => \A j \in Jobs :
    sched[j] # "out" ~> \/ \E w \in Workers : Executing(w) /\ job[w].id = j
                        \/ store[j].status = "cancelled"
                        \/ \E c \in Clients : pc[c] = "cancel_remove" /\ arg[c].id = j
                        \/ \E d \in DependsOn[j] : store[d].status = "failed"

(***************************************************************************)
(* What the documentation says and the code does not keep.                 *)
(***************************************************************************)
(* docs/architecture.md, section 5.1: the table of transitions has none    *)
(* out of completed or cancelled, and section 5.2 has the worker discard   *)
(* what it did for a cancelled job.                                        *)
EndedIsFinal ==
  [][\A j \in Jobs : store[j].status \in {"completed", "cancelled"}
                       => store'[j].status = store[j].status]_vars

(* Section 8: when a parent completes, its children are evaluated, and a   *)
(* child all of whose parents are completed is enqueued; only a parent in  *)
(* the DLQ blocks it for good.  So a child whose parents have succeeded is *)
(* parked only as long as one of them is outstanding.                      *)
SuccessUnlocks ==
  \A j \in Jobs : Parked(j) /\ DependsOn[j] \subseteq succeeded =>
    \E d \in DependsOn[j] : Outstanding(d)
=============================================================================
