# Dilamme job scheduler: TLA+ models, checks and proofs

The repository is a job scheduler: a FastAPI service and a pool of worker
processes that share nothing but one Redis.  Nothing is coordinated in memory;
all correctness rests on the order of single Redis commands issued by
concurrent coroutines.  That is what these modules model, one action per command.

## 1. Inventory

| Component | Code (under `src/backend/app`) | State | Operations |
|---|---|---|---|
| Job document | `models/job.py` | one JSON document per job | status, retry count, `scheduled_at`, `effective_priority()` |
| Job store | `services/job_store.py` | `job:{id}`, `jobs:index`, `dlq:index`, `job:dependents:{id}` | `save_job`, `get_job`, `register_dependents`, `get_dependents`, `dependencies_met`, listings |
| Heap scheduler | `scheduler/heap_scheduler.py`, `scheduler/base.py` | `queue:heap`, `queue:scheduled`, `lock:job:{id}` | `enqueue`, `dequeue`, `promote_due_scheduled`, `remove`, `release_lock`, score |
| Job service | `services/job_service.py` | none of its own | `create_job`, `cancel_job`, `retry_from_dlq`, `process_job`, `_schedule_retry`, `_move_to_dlq`, `_schedule_recurring`, `_unlock_dependents` |
| Worker | `worker/main.py` | a document in hand, a shutdown flag | loop: dequeue, process, release the lock |
| REST API | `api/routes.py`, `main.py` | none | create, cancel, retry from the DLQ, read, workflow |
| Timing wheel | `scheduler/timing_wheel.py`, `scheduler/factory.py` | `wheel:slot:{n}`, `wheel:scheduled`, `wheel:cursor` | the same interface, opt-in |
| Events, SSE, dashboard | `services/events.py`, `api/routes.py`, `src/frontend/src/{app/page.tsx,hooks/useSSE.ts}` | a pub/sub channel; a page's stream, its fetches under way, the stats it shows | publish, subscribe, stream, refetch, dead-letter alert |
| Handlers and workflow | `handlers/`, `api/routes.py` | outside world | a table from job type to handler; return or raise |
| Benchmark, Redis client, settings, logging, deployment, other pages | `api/benchmark.py`, `db/`, `config.py`, ... | - | - |

**Interaction.** A request and a worker call the same `enqueue`.  A request
writes a document, registers it with its parents, and enqueues it.  A worker
promotes what is due, pops, re-reads the document and its parents, takes a lock,
runs the handler, writes the result back, enqueues the dependents that became
ready, and deletes the lock.  A save replaces the *whole* document with the copy
in the caller's hands.

**What is hard.**

* Every `await` is a preemption point.  Copies of documents are held across them
  and written back later: cancel, retry, enqueue and completion overwrite each other.
* A dependent can be enqueued by its creator, by the worker of any parent, by
  promotion of its `scheduled_at` and by a dead-letter retry, concurrently.
* `ZREM` in the promotion ignores its result; two workers may promote the same job.
* Locks expire by time, and are deleted by whoever finishes, not by the owner.
* A command that raises *inside* the try block of `process_job` is treated as a
  failed handler; one *outside* it, or a dead process, loses what was in hand.
* The loop inside `dequeue` re-adds what it cannot run and pops again.
* On the timing wheel a slot is an instant modulo the wheel's circumference, a scheduled job sits in
  a slot *and* in `wheel:scheduled`, and `dequeue` looks at ten slots only.
* A heap score packs priority, schedule time and creation time into one double near 1e15, whose
  spacing is a fraction of a second; priorities age, but only when a score is computed.
* Alerts rest on a count that reads one document per command while others change; the
  dashboard rests on events that may be lost and on answers that may arrive in any order.

**What makes each correct.** Store: documents are only ever those somebody
wrote, and no wakeup of a dependent is lost.  Scheduler: nothing runs early,
twice at once, or before its parents; what is ready or due is eventually run.
Service: retry budget, DLQ membership, recurrence and cancellation agree with
the status, and a fault loses no more than what was in hand.  Heap: the priority
scored decides what is popped first, then creation and schedule time as their sum tells, and only waits overtake.  Dashboard: no alert is missed, and a page that listens catches up.
The full list of hazards, each at its line, with the properties
aimed at it, is in `PROJECT.json` (`hazards`).

## 2. Modules

```
JobStore         documents, dependents, dependencies_met
  HeapScheduler  the queues, locks, enqueue / dequeue / promote / remove; time
    JobService   requests, process_job, faults; Next, Spec, FairSpec, the properties
      MCJobService         constants for TLC
      JobServiceTypes      inductive invariant; proofs of type correctness
        JobServiceProofs   soundness, mutual exclusion, refinement; the theorems
          WakeupProofs     no wakeup is lost, faults lose only what was in hand
          SoloProofs       what a single worker keeps: one entry per job, balanced recurrences
            RaceProofs     what holds under any races: schedules, settled cancels
      TimingWheel          the other scheduler under the same job service
        MCTimingWheel      constants for TLC
        WheelProofs        (also extends RaceProofs) types, refinement, schedules, cancels and entries on the wheel
Dispatch         abstract specification, implemented by JobService (INSTANCE ... WITH)
HeapOrder        effective_priority, compute_score in doubles, copies scored and saved late
  MCHeapOrder, HeapOrderProofs
Dashboard        events, get_stats, the dead-letter alert, the stream and the page
  MCDashboard, DashboardProofs
```

`HeapOrder` and `Dashboard` are separate from `JobService` because they look at data it leaves
out, the digits of a score and the age of an answer; of the control around that data they keep only what
decides when it is computed, read or written.

**The order of the heap.**  In `HeapOrder`, `hand[p]` is what coroutine `p` does next and the copy of a document it has:
`scheduled_at`, `queued_at`, the level it has scored, and the due jobs `promote_due_scheduled` has listed and not yet promoted.
Scoring, `ZREM`, `ZADD` and the late save are steps of their own, so another worker may pop a job before its new `queued_at` is
saved, and score it with an older one.  `entry[j]` is history: the level, schedule time and `queued_at` that `j` was last added to the heap with.

**Dispatch** is the promise in eight lines: `running[w]` is the job worker `w` runs, `done`
the jobs that succeeded.  A run begins only for a job nobody runs and
whose parents are in `done`; it may succeed; it ends.  `JobService` implements it with
`running[w]` = the job held from taking the lock to going idle, and `done` = the
history variable `succeeded`.

**State.** `store[j]` is the document at `job:{j}` (status `"absent"`: no key).
`jobs:index` and `dlq:index` are written in the same MULTI as the document and are
functions of it, so they are not variables.  `heap[j]` is 0 or the priority `j`
was scored with; `sched[j]` says whether `j` is in `queue:scheduled` and whether its
instant has passed; `lock[j]` whether the lock key exists.  A coroutine `p` has a program
counter `pc[p]`, naming the command it issues next, a document it is passing to
`enqueue` or about to save (`arg[p]`), the rest of the set it iterates (`todo[p]`, `need[p]`),
the label to which `enqueue` returns (`back[p]`) and, for a worker, the document it
processes (`job[p]`).  History variables: `started`, `succeeded` and `hit`, the jobs
that a coroutine had in its hands when a fault cut it short.

**Actions.** Each is one Redis command with the local code up to the next
`await`; `PROJECT.json` (`map`) gives the lines.  `MULTI` pipelines are one action.  For example
`enqueue` is `Enqueue`, then either `EnqueueLaterSave`, `EnqueueLaterZadd` or a number of
`EnqueueDeps`, `EnqueueZadd`, `EnqueueSave`.  `dependencies_met` reads one
parent per step (`ReadMet`, `ReadUnmet`) and may see them at different times; parents are
read in any order.

**Faults.**  `Abort(p)` is a process that dies and is restarted, or a command that raises where the worker
loop or the API catches it; `RaiseInTry(w)` one that raises inside `process_job`'s try block, whose
except clause retries or dead-letters the job.  Both forget what the coroutine had in its hands and leave Redis
as it is, locks included.

**The timing wheel.**  `TimingWheel` extends `JobService`: `sched` now stands for
`wheel:scheduled`, `heap` stays empty, and `wheel[n]` is the set in slot `n`.  The steps that the
two schedulers have in common (branching, parents, saves, the promotion's reads, the lock) are
`HeapScheduler`'s own, conjoined with what happens to the wheel; the steps that write or pop a slot are new.
There is a clock of whole seconds: `at[j]` is the second of the instant set for `j`,
and `WheelDue(j)`, the instant passing, may come at any moment of that second, since
slots and times are compared to the second by the code but `scheduled_at` is not.
`seen[p]` is the time from which `p` computed the slot it is about to use, which may lie in the past by
then; `probe[w]` counts the prior slots that `dequeue` found empty.
The clock waits for nobody: a `dequeue` that spins may work with a slot of long ago.

**Abstractions.**

* *Time.* `future` in a document says its `scheduled_at` has not come.
  `Due(j)` is the instant passing, in all copies at once.  `ahead` is history: the jobs whose last
  set instant has not come, against which `NeverEarly` is stated.  A backoff is such an instant.
* *Scores.* In `JobService`, of a score only the effective priority is kept, equal ones are popped in any
  order.  `RequeueContended` is scored with any priority at least as high as
  the base one, since the stored `queued_at` may have aged; all other scores are computed right
  after `queued_at` is reset, when no time has passed.
* *Score arithmetic.* `HeapOrder` has the sum `p * 1e15 + s * 1e3 + c` with the rounding of doubles: between
  1e15 and 4e15 they lie 1/8, 1/4 and 1/2 s apart, so times are integers that count sixteenths of a
  second, and each addition rounds to the `Grain` of the priority, ties to even.  `Weight`, `Scale` and
  `Interval` are constants.  Whether a job is blocked, contended, retried or ended is left open there; cancels, which score nothing, and
  commands that raise are left out.
* *Stats.* `Dashboard` numbers the saves and keeps of an answer to `/stats` only how recent it is, and of
  events only their number, since the page does the same for each.  Of a document it keeps whether it is in
  the dead-letter queue.
* *Handlers* return or raise at any time, whatever the payload; the workflow of the API is three calls of `create_job`.
* *Clients* name only parents that exist, which is what a client that got the
  parents' identifiers from the API does.
* *Recurrence.* Each recurrence takes an identifier from `Spare`, which bounds them;
  once it is used up, none is created.
* *Omitted*: logs, results, the content of events, and endpoints that only read.

## 3. Runs

The constants of a run are in `<module>_<run>.cfg`.  Deadlock is checked in all runs of the job
service and the wheel: an idle worker polls, so the system never stops.  In `heap_order`, `aging`, `schedule_order` and `dashboard` it is not,
because there the bound on the clock or on the number of saves stops the model.

| Run | Instance | Shows |
|---|---|---|
| `diamond` | 3 jobs due at once, `j3` waits for `j1` and `j2`, 2 workers, 1 client, fair | `TypeOK`; `DependencyOrder`; `NoLostWakeup`: among a parked job (pending, never started, in no queue and nobody's hands) and the parked jobs before it, one has a parent that is outstanding (queued, in hands, failed, its completion still to be stored or announced) or erased (see `wakeup_erased`); `ImplementsDispatch`; under fairness `EveryReadyJobRuns` |
| `faults` | the same jobs and workers, crashes and raising commands at every step | `MutualExclusion` while locks outlive runs; `LossIsLocal`: as `NoLostWakeup`, or a coroutine cut short had the job or a parent of it in its hands |
| `solo` | 3 jobs, one without handler, one recurring with a spare identifier, cancels, DLQ retries, delays, 1 retry, 1 worker, fair | `NeverEarly`, `RunsOnce`, `DlqMeansFailed`, `RecurrenceConserved`, `CancelIsFinal`, `EveryScheduledJobRuns` |
| `wheel` | 4 slots, `dequeue` looks one back, parent and child, cancel, waits of 1 s, 1 worker, locks that expire at any time, no retries, seconds 0 to 3 | `WheelTypeOK`; `SecondsKept`: as long as every `dequeue` is brisk, nothing runs before its second; `NothingLost`: a pending job never started and in no slot, schedule or hands waits for a parent, cancels apart; `CancelIsFinal` and `ImplementsDispatch` on the wheel |
| `heap_order` | 2 jobs, 2 coroutines that each score, add and save in separate steps, delays, re-adds, one retry, unlocking or DLQ retry | `OrderTypeOK`; `PopsInOrder`: the priority scored first, then what the sum of schedule and creation time tells; `OvertakesOnlyAged` |
| `dashboard` | 3 jobs, 2 coroutines, threshold 2, 4 saves, 1 page | `DashboardTypeOK`; `NoMissedAlert`; `NewsShown` |

**Why the bounds are enough.**  The races are between one creator and two
completing parents (three coroutines on three jobs: `diamond`, and `faults` with any of them cut short at any command);
between a cancel or a DLQ retry and one worker (`solo`).  `diamond` and `faults` have no delays: a dependent promoted before its
parents is in run `child_first`, and in the theorem `DependenciesRespected`, which has all delays.  One retry reaches both sides of the budget.
A spare identifier lets a job recur and lets the supply run out.  Every property of a
passing run is broken by a mutant of the modelled code, listed under `mutants`.

On the wheel a `dequeue` is brisk while at most `MaxLag` seconds have begun since it read the time.  Nothing in the code
makes it so: its loop spins on a job that is blocked or locked.  `SecondsKept` is therefore a conditional, and
the end of this section says what happens without the condition.  `Waits + MaxLag + Reach < Slots` keeps the slots that a brisk dequeue
looks at apart from those that jobs scheduled for later are put into; with the code's 3600 slots, nine looked back at and a dequeue
of at most a second, it says that jobs are scheduled less than 3590 s ahead.  In four seconds on four slots the last
slot is both ahead of a job and, looked back at from the first second, behind: a slow `dequeue` does pop a job before its second there.

In `heap_order` the clock jumps between 0, 2 and 6 and the interval is 3, so that jobs age by one and by two levels, and a wait of two
ticks, less than a whole interval, earns nothing.  `Weight` 56 is the least multiple of 8 that the assumption
`Weight > Scale * Latest + MaxClock + 16` allows, so a spill of times into priorities would show; `Scale` 5 is less than the largest difference of
creation times, so the order of schedule times is overruled as in run `schedule_order`; and grains of 2,
4 and 8 are coarser than a tick, so rounding misplaces jobs as it does in the code.  `MaxCalls` 1 allows one call of `enqueue` besides the creators',
by a retry, an unlocking worker or a DLQ retry; re-adds and promotions are not bounded.  Retries beyond `Latest` 6 are cut off.

In `dashboard` two coroutines on three jobs can
both be counting while a third job changes, and four saves let the count pass the threshold, fall below and pass it again.

`NeverEarly`, `RunsOnce`, `DlqMeansFailed` and `CancelIsFinal` are claimed for *one* worker because the code keeps
them only there.  With two workers a double promotion breaks `NeverEarly`.  `RunsOnce` also needs jobs without parents: creator and unlocking
worker may both enqueue a dependent, and `dequeue` drops only missing or cancelled
documents, so the second entry runs a completed job again.  `SecondsKept` is claimed without retries
(`MaxRetries = 0`): a job promoted in a later second than its own has two slot entries, and the one
left over can run its first retry before the backoff.  `NoLostWakeup` and `LossIsLocal` are claimed without delays
and retries: with two workers a promotion's save of a copy read earlier (`heap_scheduler.py:109`) can take a
parent's `completed` back after the dependent's creator relied on the announcement.  Without delays the late save of `enqueue` can still
erase a completion; both properties, and `NothingLost`, count a job behind an erased parent as waiting,
which is the most they can say: run `wakeup_erased` shows that it waits for ever.

`NewsShown` claims what the page's code gives.  A change counts as news if it was
announced while the stream was open, until the stream breaks (`onerror` closes it and nothing reopens it), until
its fetch fails, and unless it was answered while an older fetch was under way: the older answer may come
last and stays on the page.

**Fairness** (`FairSpec`).  Weak fairness of each worker's loop (processes that keep running)
and of each accepted request (the event loop), of `Due` (time passes) and of `LockExpires`
(Redis expires keys).  None for the arrival of requests, for faults, or for whether
a handler returns or raises; that a handler does one of the two is an assumption about handlers.
There is no strong fairness and none per job: that a worker picks a particular job out of
several must follow from the code.  `EveryScheduledJobRuns` is stated for behaviours in which dead-letter retries come to
an end, for each gives a job its whole retry budget again, and a client that never stops can keep the only worker busy.

### What the documentation says and the code does not keep

Six runs (`expect: violation`) each end in a counterexample.

| Run | Property | What happens |
|---|---|---|
| `ended_overwritten` | `EndedIsFinal` | a cancel lands between the worker's read of the job and its save of `processing`, and is undone |
| `child_first` | `EveryReadyJobRuns` | promotion puts a scheduled dependent into the heap whatever its parents are; one that outranks its parent `dequeue` pops and re-adds for ever; the parent is never run |
| `wakeup_erased` | `SuccessUnlocks` | a worker completes a job between the `ZADD` and the save of its creator's `enqueue`; the save makes it pending again, in no queue, and a dependent created next is parked behind a parent that succeeded, with nothing to wake it |
| `wheel_early` | `NotBeforeSecond` | a job due a whole turn of the wheel ahead, as an hourly recurrence is, sits in the current slot and runs at once |
| `schedule_order` | `ScheduleFirst` | of two jobs of one priority the one scheduled later has the lower score, because it was created earlier by more than the scaled difference of the schedule times, so the documented lexicographic order does not hold |
| `aging` | `AgedFirst` | a job that has waited its interval in the heap keeps the score of its enqueue, and a younger one is popped first |

`EndedIsFinal` stands for a family: the same counterexample exists at every save of a copy
held across an `await` (the finding lists the lines): a cancel before the save of `completed`, of a retry
or of a dead letter, and a completion before the late save of `enqueue` or of a promotion.

Related behaviours found while choosing the bounds, not stated as properties of a run: without `TtlCoversRun` a run that outlasts the 30 s
of its lock is run twice at once, and the first to finish deletes the other's lock; a
cancel that races with a late save of `enqueue` leaves the job pending
in no queue although the API reported it cancelled; two concurrent DLQ retries
of one job run it twice; a job without a handler can be dead-lettered before its creator's `enqueue` saves it
as pending, and then it is in no queue; and while `dequeue` spins on a blocked job, nothing due later is
promoted by that worker, since promotion happens only when `dequeue` starts.  On the wheel, a
scheduled job promoted in a later second leaves its first entry behind and is run a second time after it
completed; a job whose slot falls ten seconds behind while all workers are busy waits for the next turn.

Three violations TLC finds when a run is changed.  `NeverEarly` fails on the heap with two workers, one retry and no requests: both
see an entry of `queue:scheduled`, `promote_due_scheduled` ignores how many members its `ZREM` removed, and the second `ZADD` comes after the first
worker has run the job and backed off again, so that the retry starts before its instant (in a run with one retry the creator's late save
must reset the count as well; with the code's three it need not).  `NotBeforeSecond` fails in run `wheel` without
`Brisk`: a `dequeue` is still in its loop, which has no bound, when a slot that it looks at is about to come round again, and a job scheduled
for that second, less than a turn ahead, is popped and run at once.  `MutualExclusion` fails in run `faults` with `TtlCoversRun = FALSE`.

The workflow of the API does not get past its first step: `generate_report` and `upload_file` are mapped to `handle_send_email`
(`handlers/__init__.py`), which raises for a payload without `to`, at every attempt.  Payloads are not modelled.

## 4. Proofs

`tlapm` proves the following for every value of the constants: every set of jobs, workers and clients, every
dependency relation (even a cyclic one: its jobs never run), every retry budget, all requests and faults, unless
a condition is named.

| Module | Theorem | Says |
|---|---|---|
| `JobServiceProofs` | `TypeCorrect` | `Spec => []TypeOK`, including that no copy of a document exceeds `MaxRetries` |
| | `DependenciesRespected` | `Spec => []DependencyOrder` |
| | `MutuallyExclusive` | `TtlCoversRun` implies `Spec => []MutualExclusion` |
| | `Refinement` | `TtlCoversRun` implies `Spec => ImplementsDispatch` |
| `WakeupProofs` | `LossesAreLocal` | `Plain` implies `Spec => []LossIsLocal`: what is parked was in hands cut short, depends on such a job, or waits as below |
| | `WakeupsNotLost` | `Plain` and no faults imply `Spec => []NoLostWakeup`: the only wakeups lost are those of an erased completion |
| `SoloProofs` | `NothingRunsEarly` | `Solo` implies `Spec => []NeverEarly` |
| | `SuccessIsLast` | `Solo` implies `Spec => []RunsOnce` |
| | `DlqHoldsTheFailed` | `Solo` implies `Spec => []DlqMeansFailed` |
| | `SuccessorsAreCounted` | `Alike` implies `Spec => []RecurrenceConserved` |
| `RaceProofs` | `ScheduleIsKept` | `MaxRetries = 0` implies `Spec => []NeverEarly`: any workers, dependencies and faults |
| | `CancelsAreFinal` | `Spec => CancelIsFinal`, if `Solo` holds or nobody retries dead letters |
| `WheelProofs` | `WheelTypeCorrect` | `WheelSpec => []WheelTypeOK` |
| | `WheelRefinement` | `TtlCoversRun` implies `WheelSpec => ImplementsDispatch` |
| | `SecondsAreKept` | `WheelSpec => SecondsKept`, that is `[]Brisk => []NotBeforeSecond`, if `MaxRetries = 0` and each wait `d` has `d + MaxLag + Reach < Slots` |
| | `WheelCancelsAreFinal` | `WheelSpec => CancelIsFinal`, if nobody retries dead letters |
| | `NoEntryLost` | `Forthright` implies `WheelSpec => []NothingLost` |
| `HeapOrderProofs` | `OrderTypeCorrect` | `Spec => []OrderTypeOK`: what is in the heap carries the score of its entry, at a level between high and its own |
| | `PoppedInOrder` | `Spec => PopsInOrder` |
| | `OvertakingIsEarned` | `Spec => OvertakesOnlyAged` |
| `DashboardProofs` | `DashboardTypeCorrect` | `Spec => []DashboardTypeOK`, including that a count never exceeds the jobs read |
| | `AlertNotMissed` | `Spec => []NoMissedAlert` |
| | `NewsIsShown` | `Spec => []NewsShown` |

Assumptions: `StoreAssumption`, `SchedulerAssumption`, `ServiceAssumption` (the types of the constants,
workers are not clients, `NoJob` is no job), `WheelAssumption` (`Reach < Slots`, waits of at least a second), `OrderAssumption` (positive intervals; the weight of a priority exceeds all scaled times and roundings, as 1e15
does) and `DashboardAssumption` (finitely many jobs, a positive threshold), which TLC evaluates in the runs.
`TtlCoversRun`, that a lock expires only when no worker is running its job, is what the code needs and cannot
ensure.  `Plain` says that jobs are due at once and there are no cancels, retries, recurrences and missing
handlers: each of these brings stale copies of documents, or jobs nobody registers, with which a wakeup can be lost.
`Solo` says that there is one worker, no job has parents, nothing fails, and if dead letters are retried it is by one client:
these are the four ways in which a job gets a second entry in the queues (two workers promote it; its creator and
its parent's completion enqueue it; two clients retry it; a command that raises after the success retries it).
`Alike` is `Solo` with one client, finitely many spare identifiers, and the same priority for all recurring jobs and
spares, since the successor has its job's priority; with two clients the late save of one's `enqueue` can undo
the other's cancel after the worker discarded a result for it, and then nothing tells which success has
a successor.  With `MaxRetries = 0` no worker sets a schedule time for a job that it has run; section 3 says what two workers do with
a retry.  The bound on the waits in `SecondsAreKept` is the one that run `wheel_early` breaks, with a wait of a whole turn.
`Forthright` says that a job is tried once and has a handler, that the successors of recurring jobs have no parents, and that either
nothing is delayed and there are no recurrences, or there is one worker and parents have no parents themselves.  Run `wheel` has the second kind of
constants.  Cancels and any number of clients are allowed, delays, recurrences and chains within these limits.  Each part is needed: TLC finds
`NothingLost` violated with one retry, with two workers and delays, and with a chain of three jobs and delays, since then a promotion
can write an old `completed` over a document that has gone on, and a dependent that looks at it is stranded or believes in a
completion nobody announces; a job without a handler can be dead-lettered before its creator's late save makes it pending; and a
successor is never registered with its parents.

**The argument** (`JobServiceTypes`, `JobServiceProofs`).  `IInv == TypeOK /\ Sound /\ Locked`.

* `TypeOK` is not inductive: popping, saving and locking index Redis by the id of the
  document in hand, and `_schedule_retry` increments a counter of a copy.  `Local(p)` says when
  there is a job in hand and that a copy about to be retried is below the budget.
* `DependencyOrder` is not inductive either: `dependencies_met` trusts documents, and documents are
  overwritten by stale copies all the time.  `Sound` is what saves it: a copy that says `completed`,
  wherever it is, is of a job whose handler returned (`Truthful`), a fact that
  no later step falsifies; the parents already read by a worker in `dequeue` have succeeded; so have
  all of them once it tries for the lock.  `OwnSound` reduces each step to its
  own coroutine: it touches no other's copies and writes at most one truthful document.
* `Locked`: an executing worker's lock exists, and no other worker executes its
  job.  The lemmas ending in `Shape` sort all steps into those that begin an execution
  (lock free before, taken after), succeed, end one, let a lock expire, or leave executions alone.
  `StepLocked` and `StepDispatch` use nothing else, so mutual exclusion and refinement share that analysis.

**No lost wakeup, local losses** (`WakeupProofs`).  Two sides share the duty: the creator registers the dependent with its parents and then
looks at them; a worker stores a completion and then reads the dependents.  `WInv` says of every
coroutine what it has in its hands at each step (`Hands`), that a job's parents know it from its registration
on (`Registered`), and that a job about to be saved by `enqueue` was `Seen`: it is in the heap, in somebody's
hands, or started, or was lost by a fault.  So what the late save of `enqueue` makes pending without a queue was started, which is
what `Erased` says.  Steps that leave Redis alone
are treated once (`QuietKeeps`): whatever such a step drops awaits a parent, ended, or was
started.  Saves of documents that are not completed are treated once as well (`OverwriteKeeps`).
The two steps that carry the weight are `CompleteKeeps` (the parent's document stops being a reason to wait
exactly when the worker becomes one) and `AnnounceKeeps` (a dependent is either in the list the worker reads, or still in the hands
of its creator, who has yet to look).  A fault adds to `hit` all that the coroutine had in its hands; if it was about to announce a
completion, that includes the dependents registered by then, and the others are in the hands of creators who will look (`FaultKeeps`).

`WInv` only says that a parked job has a parent whose document is not completed.  That such a parent is outstanding, erased or parked itself
is `WaitsFor`, from a second invariant, `Grounded`: a document that says `processing` is of a job that somebody runs or a fault lost, and parents
were created before their children, so that the parked jobs before a parked one have a first (`LinesEnd`), whose parents are not parked.

**One worker** (`SoloProofs`).  The code has no rule that a job is in one place.  `SInv` states it: for every job, `OneEntry`
says that it is in the heap, or in `queue:scheduled`, or *one* coroutine is bringing it there or running it (`Brings`).
This makes the rest of `Fine(j)` inductive: a job ahead of its time is nowhere from which it could reach the heap (`Delayed`), one
that succeeded or failed has left the queues and is in no hands that would put it back (`Ran`, `Dead`), and every document in Redis is in the
DLQ exactly if it failed (`Honest`).  `Tidy(p)` is what `p` knows at each label.  One lemma per command says which roles it
gives away and which it takes.  The three single-worker properties are read off the same invariant.

**Recurrence** (`SoloProofs`).  `RecurrenceConserved` compares two counts, and no state says which success has
begotten.  `RInv` says that there is a set `R` of successes with as many elements as spare identifiers have been used (up to the
supply), and that every other success of a recurring job is one its worker has yet to finish or one that stands cancelled.  A step that creates a
successor adds its job to `R`; a step that returns from a handler adds an element outside `R`; all other steps keep `R` (`BegotKept`).

**Races** (`RaceProofs`).  With several workers nothing can be said of a job that anybody has a copy of.  Two things hold
nevertheless.  `OnTime(j)`: until its instant a job that nobody ever took is in no queue but `queue:scheduled`, and
whoever has a copy, its creator, knows that it is early; so any number of workers, parents and faults cannot run it early.
`Gone(j)`: once nobody has a copy of a cancelled job but `dequeue`, which will read it or drop it, no step writes to it.
`Known`, that all identifiers in queues and hands exist, is needed for both.

**The wheel** (`WheelProofs`).  `Shared` splits the steps of the wheel into those that are steps of `JobService` with an empty heap, of which
the results of the other modules are cited, and the few that read or write a slot (`SlotStep`).  So types, `Sound`, `Known` and
mutual exclusion carry over, and with them the refinement of `Dispatch`; locks expire on the wheel as on the heap, so the last two need
`TtlCoversRun` here too.  For `SecondsKept`, `Early(j)` says
where a job can be whose second is to come: only in the slot of that second, or with somebody who computed that slot from the
same instant (`Aimed`); and, as long as `Brisk` holds, `Probes`, that a `dequeue` looks at slots of at most `MaxLag + Reach` seconds ago.  The arithmetic (`Instants` and the
slots modulo the circumference) shows that the two never meet as long as every wait is shorter than a turn less those seconds.

A cancelled job may return to a slot after `remove` has emptied all of them; as the steps on slots write no
document (`SlotGone`), it is read there as cancelled and dropped, so `WheelCancelsAreFinal` needs no more than `Gone`.

**No entry lost** (`WheelProofs`).  Unlike on the heap, cancels, delays and recurrences are allowed, so documents do get overwritten by old
copies, and the proof is about which copies can be old.  `Ledger`, the inductive invariant, consists of an account of every job, of what
every coroutine has in its hands, and of who may write what back.

* `Accounted(j)`: a job that exists is known to its parents from its registration on (`Introduced`), and it is `Noticed` (in a slot, in a
  worker's hands, started or asked to be cancelled), or `Coming` (scheduled, or in hands that will put it into a slot), or
  `Blocked` (a parent is not completed, was cancelled, or is about to read its dependents).  Only a job that was noticed can have been worked on.
* `Hands(p)`: what `p` holds at each label, and that it drops nothing that was not noticed or is not blocked.
* `Loyal`: a promotion that writes `completed` back finds it completed, or cancelled, or without dependents.  This is the part that fails without
  `Forthright`.  It follows from one of two things.  Without delays nothing is ever promoted (`Prompt`).  With a single worker and parents without
  parents, `Singular` says that while somebody is on the way to a slot with such a parent, nobody else has it in
  hand; so its late save cannot come between the worker's read and write of the same document.

Every step is `Proper`: it leaves its hands in order, loses nothing (`Carries`), writes no unfounded completion (`Records`), and begins
to queue a root only if it is new (`Lone`).  One lemma per group of commands shows this; `BookStays`, `OthersHold`, `SingularStays` and `LoyalStays`
derive from it, once for all steps, that the ledger is kept.

**The order of the heap** (`HeapOrderProofs`).  Rounding moves a number by at most half a grain.  So a score of
priority `p` is within a grain of `p * Weight` plus the times, below
every score of `p + 1` (`PriorityDominates`); two scores of one priority with the same schedule time are the same sum up to the second rounding
(`SameSchedule`), and with different ones comparable up to two grains.  The invariant follows `queued_at` through Redis and all hands: wherever one is
kept, in a document, a copy, or an entry of the heap, it is an instant of the past at which its job existed (`Waited`), and a level below
the job's own, in a hand or an entry, is worth whole intervals since the `queued_at` beside it (`Earned`).  It does not matter that the stored `queued_at` is
another one by then; waits only grow while a copy is on its way.

**Alerts and news** (`DashboardProofs`).  An alert is owed from a failure that leaves the DLQ at its
threshold until somebody alerts or the DLQ falls below it.  `AlertInv`: while one is owed, the DLQ is at the threshold and some
coroutine is still to count, about to alert, or counting, and then the dead jobs it will not read
again are no more than it has counted, so that at the end of its loop the count reaches the threshold.  A job may
leave the DLQ behind the reader's back, which only helps the inequality; one that enters it behind the reader's back comes with a
coroutine that counts afresh.  `NewsInv`: as long as a page has news to show, the event is still to be published or
delivered, or a fetch that will see the news is under way, or it is shown and no older answer can come.

**Model-checked only.**  Liveness (`EveryReadyJobRuns`, `EveryScheduledJobRuns`) is out of the prover's reach.
Every invariant and every action property of the passing runs is stated by a theorem, under the conditions named above.

## 5. Not modelled

* Of the timing wheel: `wheel:cursor` (written, never read), the order within a slot, dead-letter retries
  and faults on it, and more than one worker (its state space; the heap's runs cover the shared steps).
* Redis failover and persistence: one Redis that executes commands atomically and keeps its data.
* The worker's shutdown flag: it stops a worker between jobs, which the safety runs contain
  as a worker that takes no more steps.
* Of the frontend: pages other than the dashboard (they refetch a list by the same hook) and forms (they call the API).
* The validation of requests and the listings of the API, which change no state.
* The benchmark (it measures time on a flushed database), what handlers send, configuration, logging,
  deployment: no state of the scheduler.

## 6. Plan

Done: the job store, the heap scheduler with its scores, the job service with faults, the timing wheel, the
workflow, events and the dashboard, with the runs and theorems above.  Next, in order:

1. The wheel with retries, two workers and fairness: an abstract schedule it refines, a bound on
   how long a ready job is stranded, its theorems.
2. Two concurrent requests (cancel against DLQ retry, two DLQ retries) and the worker's shutdown.
3. Proofs: `WakeupsNotLost` on the heap for more than `Plain`, by the ledger of the wheel.
