--------------------------- MODULE HeapScheduler ----------------------------
(***************************************************************************)
(* The heap scheduler of backend/app/scheduler/heap_scheduler.py: the      *)
(* sorted sets queue:heap and queue:scheduled, the locks lock:job:{id},    *)
(* and the coroutines enqueue, dequeue, promote_due_scheduled, remove and  *)
(* release_lock, one action per Redis command.                             *)
(*                                                                         *)
(* Of a heap score the model keeps the effective priority, which dominates *)
(* it (module HeapOrder); ties are popped in any order.  Of a schedule     *)
(* instant it keeps whether it has passed.                                 *)
(***************************************************************************)
EXTENDS JobStore

CONSTANTS
  Priority,      \* Priority[j]: 1 (high), 2 or 3 (low)
  TtlCoversRun   \* does a lock's 30 s outlive the run it protects?

ASSUME SchedulerAssumption ==
  /\ Priority \in [Jobs -> 1 .. 3]
  /\ TtlCoversRun \in BOOLEAN

VARIABLES
  heap,   \* heap[j]: 0 if j is not in queue:heap, else the priority scored
  sched,  \* sched[j]: is j in queue:scheduled, and has its instant passed?
  lock,   \* lock[j]: does the key lock:job:{j} exist?
  ahead,  \* the jobs whose last set scheduled_at the clock has not reached
  job,    \* job[w]: the document the worker loop is dequeuing or processing
  arg,    \* arg[p]: the document p is enqueuing, promoting or updating
  todo,   \* todo[p]: the identifiers left in p's loop (due jobs, dependents)
  back    \* back[p]: where p goes on when enqueue returns

queueVars == <<heap, sched, lock, ahead>>
redisVars == <<store, dependents, queueVars>>
localVars == <<need, job, arg, todo, back>>

(* Labels inside enqueue; only the timing wheel comes to "enq_slot".       *)
EnqueueLabels == {"enqueue", "enq_later", "enq_sched", "enq_slot", "enq_deps",
                  "enq_zadd", "enq_save"}

(* Labels of the worker before it owns a job: waiting, or inside dequeue.  *)
DequeueLabels == {"idle", "promote_get", "promote_zrem", "promote_zadd",
                  "promote_save", "pop", "get", "deps", "requeue", "lock",
                  "contended"}

(***************************************************************************)
(* enqueue(job), called by requests and by workers alike.                  *)
(***************************************************************************)
CallEnqueue(p, d, return) ==
  /\ arg' = [arg EXCEPT ![p] = d]
  /\ back' = [back EXCEPT ![p] = return]
  /\ Goto(p, "enqueue")

Return(p) ==
  /\ Goto(p, back[p])
  /\ arg' = [arg EXCEPT ![p] = NoDocument]
  /\ back' = [back EXCEPT ![p] = "idle"]

(* No await separates reading the clock from the branch taken on it.       *)
Enqueue(p) ==
  /\ pc[p] = "enqueue"
  /\ \/ /\ arg[p].future
        /\ Goto(p, "enq_later")
        /\ UNCHANGED need
     \/ /\ ~arg[p].future
        /\ CheckDependencies(p, arg[p].id, "enq_deps", "enq_zadd")
  /\ UNCHANGED <<redisVars, job, arg, todo, back>>

EnqueueLaterSave(p) ==
  /\ pc[p] = "enq_later"
  /\ SaveJob(arg[p])
  /\ Goto(p, "enq_sched")
  /\ UNCHANGED <<dependents, queueVars, localVars>>

EnqueueLaterZadd(p) ==
  /\ pc[p] = "enq_sched"
  /\ sched' = [sched EXCEPT ![arg[p].id] =
                 IF arg[p].future THEN "future" ELSE "due"]
  /\ Return(p)
  /\ UNCHANGED <<store, dependents, heap, lock, ahead, need, job, todo>>

EnqueueDeps(p) ==
  /\ pc[p] = "enq_deps"
  /\ \/ ReadMet(p, "enq_zadd") /\ UNCHANGED <<arg, back>>
     \/ ReadUnmet(p) /\ Return(p)
  /\ UNCHANGED <<redisVars, job, todo>>

(* The job becomes visible to workers here ...                             *)
EnqueueZadd(p) ==
  /\ pc[p] = "enq_zadd"
  /\ heap' = [heap EXCEPT ![arg[p].id] = Priority[arg[p].id]]
  /\ Goto(p, "enq_save")
  /\ UNCHANGED <<store, dependents, sched, lock, ahead, localVars>>

(* ... and only then is the document, as the caller knew it, written back. *)
EnqueueSave(p) ==
  /\ pc[p] = "enq_save"
  /\ SaveJob(arg[p])
  /\ Return(p)
  /\ UNCHANGED <<dependents, queueVars, need, job, todo>>

EnqueueStep(p) ==
  \/ Enqueue(p) \/ EnqueueLaterSave(p) \/ EnqueueLaterZadd(p)
  \/ EnqueueDeps(p) \/ EnqueueZadd(p) \/ EnqueueSave(p)

(***************************************************************************)
(* promote_due_scheduled(), the first thing every dequeue does.            *)
(***************************************************************************)
NextDue(rest) == IF rest = {} THEN "pop" ELSE "promote_get"

(* Mutant: the range of scores has no upper bound.                         *)
DueEntries_All == {j \in Jobs : sched[j] # "out"}

DueEntries == {j \in Jobs : sched[j] = "due"}

PromoteScan(w) ==
  /\ pc[w] = "idle"
  /\ todo' = [todo EXCEPT ![w] = DueEntries]
  /\ Goto(w, NextDue(DueEntries))
  /\ UNCHANGED <<redisVars, need, job, arg, back>>

PromoteGet(w) ==
  /\ pc[w] = "promote_get"
  /\ \E j \in todo[w] :
       /\ arg' = [arg EXCEPT ![w] = store[j]]
       /\ todo' = [todo EXCEPT ![w] = @ \ {j}]
  /\ Goto(w, "promote_zrem")
  /\ UNCHANGED <<redisVars, need, job, back>>

(* Mutant: the promoted entry stays in queue:scheduled.                    *)
Unschedule_Kept(j) == UNCHANGED sched

(* ZREM does not look at how many members it removed.                      *)
Unschedule(j) == sched' = [sched EXCEPT ![j] = "out"]

PromoteZrem(w) ==
  /\ pc[w] = "promote_zrem"
  /\ Unschedule(arg[w].id)
  /\ \/ /\ arg[w].status \in {"absent", "cancelled"}
        /\ arg' = [arg EXCEPT ![w] = NoDocument]
        /\ Goto(w, NextDue(todo[w]))
     \/ /\ arg[w].status \notin {"absent", "cancelled"}
        /\ arg' = [arg EXCEPT ![w].future = FALSE]
        /\ Goto(w, "promote_zadd")
  /\ UNCHANGED <<store, dependents, heap, lock, ahead, need, job, todo, back>>

(* Mutant: the promoted job never reaches the heap.                        *)
PromoteZadd_Lost(w) ==
  /\ pc[w] = "promote_zadd"
  /\ Goto(w, "promote_save")
  /\ UNCHANGED <<redisVars, localVars>>

(* Parents are not looked at here.                                         *)
PromoteZadd(w) ==
  /\ pc[w] = "promote_zadd"
  /\ heap' = [heap EXCEPT ![arg[w].id] = Priority[arg[w].id]]
  /\ Goto(w, "promote_save")
  /\ UNCHANGED <<store, dependents, sched, lock, ahead, localVars>>

PromoteSave(w) ==
  /\ pc[w] = "promote_save"
  /\ SaveJob(arg[w])
  /\ arg' = [arg EXCEPT ![w] = NoDocument]
  /\ Goto(w, NextDue(todo[w]))
  /\ UNCHANGED <<dependents, queueVars, need, job, todo, back>>

(***************************************************************************)
(* The loop of dequeue().                                                  *)
(***************************************************************************)
First(j) == heap[j] # 0 /\ \A k \in Jobs : heap[k] # 0 => heap[j] <= heap[k]

PopEmpty(w) ==
  /\ pc[w] = "pop"
  /\ \A j \in Jobs : heap[j] = 0
  /\ Goto(w, "idle")
  /\ UNCHANGED <<redisVars, localVars>>

Pop(w) ==
  /\ pc[w] = "pop"
  /\ \E j \in Jobs :
       /\ First(j)
       /\ heap' = [heap EXCEPT ![j] = 0]
       /\ job' = [job EXCEPT ![w] = Absent(j)]
  /\ Goto(w, "get")
  /\ UNCHANGED <<store, dependents, sched, lock, ahead, need, arg, todo, back>>

(* Mutant: only a missing document is dropped.                             *)
DequeueGet_Cancelled(w) ==
  /\ pc[w] = "get"
  /\ LET d == store[job[w].id] IN
       \/ /\ d.status = "absent"
          /\ job' = [job EXCEPT ![w] = NoDocument]
          /\ Goto(w, "pop")
          /\ UNCHANGED need
       \/ /\ d.status # "absent"
          /\ job' = [job EXCEPT ![w] = d]
          /\ CheckDependencies(w, d.id, "deps", "lock")
  /\ UNCHANGED <<redisVars, arg, todo, back>>

(* A popped identifier is dropped only if its document is missing or       *)
(* cancelled; no other status is looked at.                                *)
DequeueGet(w) ==
  /\ pc[w] = "get"
  /\ LET d == store[job[w].id] IN
       \/ /\ d.status \in {"absent", "cancelled"}
          /\ job' = [job EXCEPT ![w] = NoDocument]
          /\ Goto(w, "pop")
          /\ UNCHANGED need
       \/ /\ d.status \notin {"absent", "cancelled"}
          /\ job' = [job EXCEPT ![w] = d]
          /\ CheckDependencies(w, d.id, "deps", "lock")
  /\ UNCHANGED <<redisVars, arg, todo, back>>

DequeueDeps(w) ==
  /\ pc[w] = "deps"
  /\ \/ ReadMet(w, "lock")
     \/ ReadUnmet(w) /\ Goto(w, "requeue")
  /\ UNCHANGED <<redisVars, job, arg, todo, back>>

Requeue(w, label, scored) ==
  /\ pc[w] = label
  /\ \E q \in scored : heap' = [heap EXCEPT ![job[w].id] = q]
  /\ job' = [job EXCEPT ![w] = NoDocument]
  /\ Goto(w, "pop")
  /\ UNCHANGED <<store, dependents, sched, lock, ahead, need, arg, todo, back>>

(* queued_at was reset just before, so the score is the base priority.     *)
RequeueBlocked(w) == Requeue(w, "requeue", {Priority[job[w].id]})

(* queued_at is the stored one: the wait may have raised the priority.     *)
RequeueContended(w) == Requeue(w, "contended", 1 .. Priority[job[w].id])

(* Mutant: SET without NX always succeeds.                                 *)
AcquireLock_NoNX(w, owned) ==
  /\ pc[w] = "lock"
  /\ lock' = [lock EXCEPT ![job[w].id] = TRUE]
  /\ Goto(w, owned)
  /\ UNCHANGED <<store, dependents, heap, sched, ahead, localVars>>

(* SET lock:job:{id} 1 NX EX 30; on success dequeue returns the job and    *)
(* the caller continues at label owned.                                    *)
AcquireLock(w, owned) ==
  /\ pc[w] = "lock"
  /\ \/ /\ lock[job[w].id]
        /\ Goto(w, "contended")
        /\ UNCHANGED lock
     \/ /\ ~lock[job[w].id]
        /\ lock' = [lock EXCEPT ![job[w].id] = TRUE]
        /\ Goto(w, owned)
  /\ UNCHANGED <<store, dependents, heap, sched, ahead, localVars>>

DequeueStep(w) ==
  \/ PromoteScan(w) \/ PromoteGet(w) \/ PromoteZrem(w)
  \/ PromoteZadd(w) \/ PromoteSave(w) \/ PopEmpty(w) \/ Pop(w)
  \/ DequeueGet(w) \/ DequeueDeps(w)
  \/ RequeueBlocked(w) \/ RequeueContended(w)

(* remove(j): one MULTI of ZREMs.                                          *)
Remove(j) ==
  /\ heap' = [heap EXCEPT ![j] = 0]
  /\ sched' = [sched EXCEPT ![j] = "out"]

(* release_lock: DEL, whoever set the key.                                 *)
ReleaseLock(w) ==
  /\ pc[w] = "release"
  /\ lock' = [lock EXCEPT ![job[w].id] = FALSE]
  /\ job' = [job EXCEPT ![w] = NoDocument]
  /\ Goto(w, "idle")
  /\ UNCHANGED <<store, dependents, heap, sched, ahead, need, arg, todo, back>>

Executing(w) == pc[w] \notin DequeueLabels

(* The 30 s of EX run out.  With TtlCoversRun they do so only once no      *)
(* worker is running the job any more (its holder died or failed).         *)
LockExpires(j) ==
  /\ lock[j]
  /\ TtlCoversRun => \A w \in Workers : Executing(w) => job[w].id # j
  /\ lock' = [lock EXCEPT ![j] = FALSE]
  /\ UNCHANGED <<pc, store, dependents, heap, sched, ahead, localVars>>

(* The clock passes the schedule instant of j, in every copy of it.        *)
Due(j) ==
  LET Pass(d) == IF d.id = j THEN [d EXCEPT !.future = FALSE] ELSE d IN
  /\ j \in ahead
  /\ ahead' = ahead \ {j}
  /\ store' = [store EXCEPT ![j].future = FALSE]
  /\ sched' = [sched EXCEPT ![j] = IF @ = "future" THEN "due" ELSE @]
  /\ job' = [p \in Procs |-> Pass(job[p])]
  /\ arg' = [p \in Procs |-> Pass(arg[p])]
  /\ UNCHANGED <<pc, dependents, heap, lock, need, todo, back>>

SchedulerTypeOK ==
  /\ heap \in [Jobs -> 0 .. 3]
  /\ sched \in [Jobs -> {"out", "future", "due"}]
  /\ lock \in [Jobs -> BOOLEAN]
  /\ ahead \subseteq Jobs
  /\ job \in [Procs -> Document]
  /\ arg \in [Procs -> Document]
  /\ todo \in [Procs -> SUBSET Jobs]

SchedulerInit ==
  /\ heap = [j \in Jobs |-> 0]
  /\ sched = [j \in Jobs |-> "out"]
  /\ lock = [j \in Jobs |-> FALSE]
  /\ ahead = {}
  /\ job = [p \in Procs |-> NoDocument]
  /\ arg = [p \in Procs |-> NoDocument]
  /\ todo = [p \in Procs |-> {}]
  /\ back = [p \in Procs |-> "idle"]
=============================================================================
