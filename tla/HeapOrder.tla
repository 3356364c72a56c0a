------------------------------ MODULE HeapOrder -----------------------------
(***************************************************************************)
(* The order in which the heap hands out jobs: effective_priority of       *)
(* backend/app/models/job.py, compute_score of backend/app/scheduler/      *)
(* base.py, and every place of heap_scheduler.py that scores a job, with   *)
(* the copies of documents that coroutines score and save.                 *)
(*                                                                         *)
(* A score is a double.  Near p * 1e15 doubles lie 1/8, 1/4 and 1/2 s of   *)
(* created_at apart for p = 1, 2 and 3, so time is counted in sixteenths   *)
(* of a second and sums are rounded to the Grain of their priority.        *)
(* Whether a job is blocked by a parent, locked by another worker, fails,  *)
(* ends, becomes unlocked or is retried from the dead-letter queue is left *)
(* open; JobService has the conditions.  Cancels score nothing; they and   *)
(* commands that fail are left out.                                        *)
(***************************************************************************)
EXTENDS Integers

CONSTANTS
  Jobs,
  Coroutines, \* workers and requests
  NoJob,
  Weight,     \* 1e15, the weight of a priority
  Scale,      \* 1e3, the weight of a schedule time
  Interval,   \* settings.aging_interval_seconds
  Boost,      \* settings.aging_boost_levels
  Priorities, \* the priorities that clients ask for
  Instants,   \* the scheduled_at that clients ask for, besides none
  Backoffs,   \* the delays of retries
  Times,      \* the instants at which anything happens
  MaxClock,   \* bounds them
  Latest,     \* bounds the schedule times
  MaxCalls    \* bounds the calls of enqueue besides the creators'

Grain == <<2, 4, 8>>

ASSUME OrderAssumption ==
  /\ NoJob \notin Jobs
  /\ Scale \in Nat /\ Interval \in Nat \ {0} /\ Boost \in Nat
  /\ MaxClock \in Nat /\ Latest \in Nat /\ MaxCalls \in Nat
  /\ Times \subseteq 0 .. MaxClock
  /\ Instants \subseteq 1 .. Latest
  /\ Backoffs \subseteq Nat \ {0}
  /\ Priorities \subseteq 1 .. 3
  /\ Weight \in Nat /\ Weight % 8 = 0
  /\ Weight > Scale * Latest + MaxClock + 16

VARIABLES
  clock,
  priority, \* priority: 1 (high), 2 or 3 (low)
  created,  \* created_at, -1 while there is no such job
  at,       \* the stored scheduled_at, 0 for None
  queued,   \* the stored queued_at, -1 for None
  heap,     \* heap[j]: the score of j in queue:heap, 0 if it is not there
  sched,    \* sched[j]: the score of j in queue:scheduled, 0 if not there
  hand,     \* hand[p]: what p does next, and its copy of a document
  calls,    \* the calls of enqueue so far, besides the creators'
  entry     \* history: what j was last scored with

jobVars == <<priority, created>>

storeVars == <<at, queued>>

vars == <<clock, jobVars, storeVars, heap, sched, hand, calls, entry>>

Exists(j) == created[j] # -1

(***************************************************************************)
(* The score.                                                              *)
(***************************************************************************)
Highest(a, b) == IF a > b THEN a ELSE b

(* Mutant: an interval counts as soon as it has begun.                     *)
EffectivePriority_RoundsUp(j, since, now) ==
  IF since = -1 THEN priority[j]
  ELSE Highest(1, priority[j] - ((now - since + Interval - 1) \div Interval) * Boost)

(* Mutant: priorities better than high.                                    *)
EffectivePriority_Unbounded(j, since, now) ==
  IF since = -1 THEN priority[j]
  ELSE priority[j] - ((now - since) \div Interval) * Boost

(* max(Priority.HIGH, base - boosts), a wait counted in whole intervals.   *)
EffectivePriority(j, since, now) ==
  IF since = -1 THEN priority[j]
  ELSE Highest(1, priority[j] - ((now - since) \div Interval) * Boost)

(* x to the nearest multiple of g, a tie to the even one.                  *)
Rounded(x, g) ==
  LET q == x \div g
      r == x % g
  IN  IF 2 * r < g \/ (2 * r = g /\ q % 2 = 0) THEN g * q ELSE g * (q + 1)

(* Mutant: the schedule time is not scaled.                                *)
Score_Unscaled(p, s, c) == Rounded(Rounded(p * Weight + s, Grain[p]) + c, Grain[p])

(* p * 1e15 + s * 1e3 + c, added from left to right.                       *)
Score(p, s, c) ==
  Rounded(Rounded(p * Weight + s * Scale, Grain[p]) + c, Grain[p])

(***************************************************************************)
(* The copies.                                                             *)
(***************************************************************************)
(* A copy of the document of j with schedule time s, queued since q.  due  *)
(* are the jobs still to be promoted.                                      *)
Copy(step, j, s, q) ==
  [step |-> step, job |-> j, at |-> s, queued |-> q, level |-> 0, due |-> {}]

Idle == Copy("idle", NoJob, 0, -1)

Stored(step, j) == Copy(step, j, at[j], queued[j])

(* The same, scored with a wait since q and about to be added.             *)
Scored(step, j, s, q, now) ==
  [Copy(step, j, s, q) EXCEPT !.level = EffectivePriority(j, q, now)]

Holds(p, h) == hand' = [hand EXCEPT ![p] = h]

Goes(p, step) == Holds(p, [hand[p] EXCEPT !.step = step])

SaveJob(h) ==
  /\ at' = [at EXCEPT ![h.job] = h.at]
  /\ queued' = [queued EXCEPT ![h.job] = h.queued]

(* The rest of the due jobs, with the now they were found due.             *)
Promoting(due, now) ==
  IF due = {} THEN Idle
  ELSE [Copy("promote", NoJob, 0, now) EXCEPT !.due = due]

(* The entry of a job that is not in the heap.                             *)
NoEntry == [level |-> 1, at |-> 0, since |-> -1]

(* Another call of enqueue.                                                *)
Called == calls < MaxCalls /\ calls' = calls + 1

(***************************************************************************)
(* enqueue                                                                 *)
(***************************************************************************)
(* create_job; a client may ask for any instant, past ones included.       *)
Create(p) ==
  /\ hand[p].step = "idle"
  /\ \E j \in Jobs, l \in Priorities, s \in Instants \cup {0} :
       /\ ~Exists(j)
       /\ priority' = [priority EXCEPT ![j] = l]
       /\ created' = [created EXCEPT ![j] = clock]
       /\ SaveJob(Copy("enqueue", j, s, -1))
       /\ Holds(p, Copy("enqueue", j, s, -1))
  /\ UNCHANGED <<clock, heap, sched, calls, entry>>

(* An early job is saved and goes to queue:scheduled.                      *)
EnqueueLater(p) ==
  /\ hand[p].step = "enqueue"
  /\ hand[p].at > clock
  /\ SaveJob(hand[p])
  /\ Goes(p, "schedule")
  /\ UNCHANGED <<clock, jobVars, heap, sched, calls, entry>>

Schedule(p) ==
  /\ hand[p].step = "schedule"
  /\ sched' = [sched EXCEPT ![hand[p].job] = hand[p].at]
  /\ Holds(p, Idle)
  /\ UNCHANGED <<clock, jobVars, storeVars, heap, calls, entry>>

(* A due one is scored with queued_at = now.                               *)
Enqueue(p) ==
  /\ hand[p].step = "enqueue"
  /\ hand[p].at <= clock
  /\ Holds(p, Scored("add", hand[p].job, hand[p].at, clock, clock))
  /\ UNCHANGED <<clock, jobVars, storeVars, heap, sched, calls, entry>>

Zadd(p) ==
  /\ hand[p].step \in {"add", "readd"}
  /\ LET h == hand[p] IN
       /\ heap' = [heap EXCEPT ![h.job] = Score(h.level, h.at, created[h.job])]
       /\ entry' = [entry EXCEPT ![h.job] =
                      [level |-> h.level, at |-> h.at, since |-> h.queued]]
       /\ Holds(p, IF h.step = "add" THEN [h EXCEPT !.step = "save"] ELSE Idle)
  /\ UNCHANGED <<clock, jobVars, storeVars, sched, calls>>

(* Only now does the document get the new queued_at, and, after a          *)
(* promotion, lose its schedule time.                                      *)
Save(p) ==
  /\ hand[p].step = "save"
  /\ SaveJob(hand[p])
  /\ Holds(p, Promoting(hand[p].due, hand[p].queued))
  /\ UNCHANGED <<clock, jobVars, heap, sched, calls, entry>>

(***************************************************************************)
(* promote_due_scheduled                                                   *)
(***************************************************************************)
PromoteDue(p) ==
  /\ hand[p].step = "idle"
  /\ Holds(p, Promoting({j \in Jobs : sched[j] # 0 /\ sched[j] <= clock}, clock))
  /\ UNCHANGED <<clock, jobVars, storeVars, heap, sched, calls, entry>>

(* Whatever has happened since to its entry in queue:scheduled.            *)
PromoteGet(p) ==
  /\ hand[p].step = "promote"
  /\ \E j \in hand[p].due :
       LET now == hand[p].queued IN
       Holds(p, [Scored("unschedule", j, 0, now, now) EXCEPT !.due = hand[p].due \ {j}])
  /\ UNCHANGED <<clock, jobVars, storeVars, heap, sched, calls, entry>>

PromoteZrem(p) ==
  /\ hand[p].step = "unschedule"
  /\ sched' = [sched EXCEPT ![hand[p].job] = 0]
  /\ Goes(p, "add")
  /\ UNCHANGED <<clock, jobVars, storeVars, heap, calls, entry>>

(***************************************************************************)
(* dequeue                                                                 *)
(***************************************************************************)
ZpopMin(p) ==
  /\ hand[p].step = "idle"
  /\ \E j \in Jobs :
       /\ heap[j] # 0
       /\ \A k \in Jobs : heap[k] # 0 => heap[j] <= heap[k]
       /\ heap' = [heap EXCEPT ![j] = 0]
       /\ entry' = [entry EXCEPT ![j] = NoEntry]
       /\ Holds(p, Copy("get", j, 0, -1))
  /\ UNCHANGED <<clock, jobVars, storeVars, sched, calls>>

Get(p) ==
  /\ hand[p].step = "get"
  /\ Holds(p, Stored("got", hand[p].job))
  /\ UNCHANGED <<clock, jobVars, storeVars, heap, sched, calls, entry>>

(* A parent is not completed: scored with queued_at = now, which is not    *)
(* saved.                                                                  *)
Blocked(p) ==
  /\ hand[p].step = "got"
  /\ Holds(p, Scored("readd", hand[p].job, hand[p].at, clock, clock))
  /\ UNCHANGED <<clock, jobVars, storeVars, heap, sched, calls, entry>>

(* The lock is taken: scored with the queued_at that was read.             *)
Contended(p) ==
  /\ hand[p].step = "got"
  /\ Holds(p, Scored("readd", hand[p].job, hand[p].at, hand[p].queued, clock))
  /\ UNCHANGED <<clock, jobVars, storeVars, heap, sched, calls, entry>>

(* enqueue and dequeue drop a job with an unmet dependency or a cancel.    *)
Drop(p) ==
  /\ hand[p].step \in {"enqueue", "got"}
  /\ Holds(p, Idle)
  /\ UNCHANGED <<clock, jobVars, storeVars, heap, sched, calls, entry>>

(***************************************************************************)
(* process_job, _unlock_dependents and retry_from_dlq                      *)
(***************************************************************************)
Start(p) ==
  /\ hand[p].step = "got"
  /\ SaveJob(hand[p])
  /\ Goes(p, "run")
  /\ UNCHANGED <<clock, jobVars, heap, sched, calls, entry>>

(* completed, or dead-lettered, for want of a handler before it has run.   *)
Finish(p) ==
  /\ hand[p].step \in {"got", "run"}
  /\ SaveJob(hand[p])
  /\ Holds(p, Idle)
  /\ UNCHANGED <<clock, jobVars, heap, sched, calls, entry>>

(* _schedule_retry, which calls enqueue.                                   *)
Retry(p) ==
  /\ hand[p].step = "run"
  /\ Called
  /\ \E d \in Backoffs :
       LET h == Copy("enqueue", hand[p].job, clock + d, hand[p].queued) IN
       h.at <= Latest /\ SaveJob(h) /\ Holds(p, h)
  /\ UNCHANGED <<clock, jobVars, heap, sched, entry>>

(* The GET of a dependent that is enqueued, at whatever time.              *)
UnlockGet(p) ==
  /\ hand[p].step = "idle"
  /\ Called
  /\ \E j \in Jobs : Exists(j) /\ Holds(p, Stored("enqueue", j))
  /\ UNCHANGED <<clock, jobVars, storeVars, heap, sched, entry>>

RedriveGet(p) ==
  /\ hand[p].step = "idle"
  /\ Called
  /\ \E j \in Jobs : Exists(j) /\ Holds(p, Copy("redrive", j, at[j], -1))
  /\ UNCHANGED <<clock, jobVars, storeVars, heap, sched, entry>>

RedriveSave(p) ==
  /\ hand[p].step = "redrive"
  /\ SaveJob(hand[p])
  /\ Goes(p, "enqueue")
  /\ UNCHANGED <<clock, jobVars, heap, sched, calls, entry>>

Tick ==
  /\ \E t \in Times : clock < t /\ clock' = t
  /\ UNCHANGED <<jobVars, storeVars, heap, sched, hand, calls, entry>>

Next ==
  \/ \E p \in Coroutines :
       \/ Create(p) \/ EnqueueLater(p) \/ Schedule(p) \/ Enqueue(p)
       \/ Zadd(p) \/ Save(p)
       \/ PromoteDue(p) \/ PromoteGet(p) \/ PromoteZrem(p)
       \/ ZpopMin(p) \/ Get(p) \/ Blocked(p) \/ Contended(p) \/ Drop(p)
       \/ Start(p) \/ Finish(p) \/ Retry(p)
       \/ UnlockGet(p) \/ RedriveGet(p) \/ RedriveSave(p)
  \/ Tick

Init ==
  /\ clock = 0
  /\ priority = [j \in Jobs |-> 1]
  /\ created = [j \in Jobs |-> -1]
  /\ at = [j \in Jobs |-> 0]
  /\ queued = [j \in Jobs |-> -1]
  /\ heap = [j \in Jobs |-> 0]
  /\ sched = [j \in Jobs |-> 0]
  /\ hand = [p \in Coroutines |-> Idle]
  /\ calls = 0
  /\ entry = [j \in Jobs |-> NoEntry]

Spec == Init /\ [][Next]_vars

(***************************************************************************)
(* Properties.                                                             *)
(***************************************************************************)
Steps == {"idle", "enqueue", "schedule", "add", "readd", "save", "promote",
          "unschedule", "get", "got", "run", "redrive"}

(* Every variable has its type; what is in the heap carries the score of   *)
(* its entry, an effective priority between high and its own.              *)
OrderTypeOK ==
  /\ clock \in 0 .. MaxClock
  /\ priority \in [Jobs -> 1 .. 3]
  /\ created \in [Jobs -> -1 .. MaxClock]
  /\ at \in [Jobs -> 0 .. Latest]
  /\ queued \in [Jobs -> -1 .. MaxClock]
  /\ heap \in [Jobs -> Int]
  /\ sched \in [Jobs -> 0 .. Latest]
  /\ hand \in [Coroutines ->
               [step : Steps, job : Jobs \cup {NoJob}, at : 0 .. Latest,
                queued : -1 .. MaxClock, level : 0 .. 3, due : SUBSET Jobs]]
  /\ calls \in 0 .. MaxCalls
  /\ entry \in [Jobs -> [level : 1 .. 3, at : 0 .. Latest, since : -1 .. MaxClock]]
  /\ \A j \in Jobs : heap[j] # 0 =>
       /\ Exists(j)
       /\ entry[j].level <= priority[j]
       /\ heap[j] = Score(entry[j].level, entry[j].at, created[j])

PopsBefore(j, k) == heap[j] # 0 /\ heap'[j] = 0 /\ heap[k] # 0

InOrder(j, k) ==
  LET g == Grain[entry[j].level] IN
  \/ entry[j].level < entry[k].level
  \/ /\ entry[j].level = entry[k].level
     /\ entry[j].at = entry[k].at => created[j] <= created[k] + g
     /\ entry[j].at > entry[k].at =>
          (entry[j].at - entry[k].at) * Scale <= created[k] - created[j] + 2 * g

(* What the code makes of the "ordering guarantees" of                     *)
(* docs/architecture.md, section 6.1.  The priority scored at the last     *)
(* ZADD decides whatever the times are, and then the schedule time, but    *)
(* not against every creation time: a job is popped before one scheduled a *)
(* millisecond earlier if it was created a second earlier, and so on in    *)
(* proportion (up to two grains).  Of two jobs with the same schedule time *)
(* the one created first is popped first, up to one grain.                 *)
PopsInOrder ==
  [][\A j, k \in Jobs : PopsBefore(j, k) => InOrder(j, k)]_vars

(* Sections 6.1 and 6.2: a job is popped before one of a higher priority   *)
(* only if the time since the queued_at it was scored with is worth the    *)
(* levels between them, and it existed then, through whatever requeues,    *)
(* late saves and retries.  That queued_at may be one of an earlier        *)
(* enqueue, when the job was popped before the last one had saved it.      *)
OvertakesOnlyAged ==
  [][\A j, k \in Jobs : PopsBefore(j, k) /\ priority[j] > priority[k] =>
       LET since == entry[j].since IN
       /\ since # -1 /\ created[j] <= since
       /\ ((clock - since) \div Interval) * Boost >= priority[j] - priority[k]]_vars

(* What section 6.2 says and the code does not keep: a job that has waited *)
(* longer than the interval has a lower score and is dequeued sooner, so   *)
(* no job is popped by its lower score while the wait of another one gives *)
(* that one a better effective priority.                                   *)
AgedFirst ==
  [][\A j, k \in Jobs : PopsBefore(j, k) /\ heap[j] < heap[k] =>
       EffectivePriority(j, queued[j], clock) <= EffectivePriority(k, queued[k], clock)]_vars

(* What section 6.1 and the comments of heap_scheduler.py:7-10 and         *)
(* base.py:39-42 say and the code does not keep: of two jobs that have a   *)
(* schedule time and are scored with the same priority, the one with the   *)
(* earlier schedule time has the lower score, whenever they were created.  *)
ScheduleFirst ==
  [][\A j, k \in Jobs :
       /\ PopsBefore(j, k) /\ heap[j] < heap[k]
       /\ entry[j].level = entry[k].level
       /\ entry[j].at # 0 /\ entry[k].at # 0
       => entry[j].at <= entry[k].at]_vars
=============================================================================
