---------------------------- MODULE TimingWheel -----------------------------
(***************************************************************************)
(* The opt-in scheduler of backend/app/scheduler/timing_wheel.py under the *)
(* same job service.  The sorted sets wheel:slot:{n} take the place of     *)
(* queue:heap, which stays empty here, and wheel:scheduled that of         *)
(* queue:scheduled, so the steps which the two schedulers have in common   *)
(* are those of HeapScheduler.                                             *)
(*                                                                         *)
(* The clock counts whole seconds, and at[j] is the second of an instant,  *)
(* which comes (WheelDue) at some moment of that second.  Within a slot    *)
(* jobs are popped in any order; wheel:cursor, which nothing reads, is     *)
(* left out.  So are dead-letter retries and faults.                       *)
(***************************************************************************)
EXTENDS JobService

CONSTANTS
  Slots,     \* settings.timing_wheel_slots, 3600
  Reach,     \* min(10, Slots) - 1, the earlier slots a dequeue looks at
  Waits,     \* the delays asked for, backed off or recurring, in seconds
  MaxLag,    \* a time in which a dequeue of a Brisk run ends
  MaxClock   \* bounds the clock

ASSUME WheelAssumption ==
  /\ Slots \in Nat \ {0}
  /\ Reach \in 0 .. Slots - 1
  /\ Waits \subseteq Nat \ {0}
  /\ MaxLag \in Nat \ {0}
  /\ MaxClock \in Nat

VARIABLES
  clock,
  wheel,  \* wheel[n]: the set at key wheel:slot:{n}
  at,     \* at[j]: the scheduled_at last set for j, 0 once it has come
  seen,   \* seen[p]: the instant whose slot p is using, else 0
  probe,  \* probe[w]: the slots behind it already found empty, or NoProbe
  asked   \* history: the jobs a client has asked to cancel

wheelVars == <<clock, wheel, at, seen, probe, asked>>

NoProbe == Slots

Insert(j, t) == wheel' = [wheel EXCEPT ![t % Slots] = @ \cup {j}]

ReadClock(p) == seen' = [seen EXCEPT ![p] = clock]

SlotUsed(p) == seen' = [seen EXCEPT ![p] = 0]

(***************************************************************************)
(* enqueue(job).                                                           *)
(***************************************************************************)
(* A future job is to go to the slot of its instant, any other to the one  *)
(* which is current after the last parent was read.                        *)
WheelEnqueue(p) ==
  /\ Enqueue(p) \/ EnqueueDeps(p)
  /\ seen' = [seen EXCEPT ![p] = IF arg[p].future THEN at[arg[p].id] ELSE clock]
  /\ UNCHANGED <<clock, wheel, at, probe, asked>>

(* The future job goes into wheel:scheduled ...                            *)
WheelLaterZadd(p) ==
  /\ pc[p] = "enq_sched"
  /\ sched' = [sched EXCEPT ![arg[p].id] =
                 IF arg[p].future THEN "future" ELSE "due"]
  /\ Goto(p, "enq_slot")
  /\ UNCHANGED <<store, dependents, heap, lock, ahead, localVars, wheelVars>>

(* ... and into the slot of its instant as well.                           *)
WheelLaterSlot(p) ==
  /\ pc[p] = "enq_slot"
  /\ Insert(arg[p].id, seen[p])
  /\ Return(p)
  /\ SlotUsed(p)
  /\ UNCHANGED <<redisVars, need, job, todo, clock, at, probe, asked>>

WheelZadd(p) ==
  /\ pc[p] = "enq_zadd"
  /\ Insert(arg[p].id, seen[p])
  /\ Goto(p, "enq_save")
  /\ SlotUsed(p)
  /\ UNCHANGED <<redisVars, localVars, clock, at, probe, asked>>

WheelEnqueueStep(p) ==
  \/ WheelEnqueue(p)
  \/ (EnqueueLaterSave(p) \/ EnqueueSave(p)) /\ UNCHANGED wheelVars
  \/ WheelLaterZadd(p) \/ WheelLaterSlot(p) \/ WheelZadd(p)

(***************************************************************************)
(* promote_due_scheduled() and dequeue().                                  *)
(***************************************************************************)
WheelPromoteZrem(w) ==
  /\ PromoteZrem(w)
  /\ ReadClock(w)
  /\ UNCHANGED <<clock, wheel, at, probe, asked>>

(* A second entry, in the current slot; the first stays in its own.        *)
WheelPromoteZadd(w) ==
  /\ pc[w] = "promote_zadd"
  /\ Insert(arg[w].id, seen[w])
  /\ Goto(w, "promote_save")
  /\ SlotUsed(w)
  /\ UNCHANGED <<redisVars, localVars, clock, at, probe, asked>>

(* _advance_wheel(), then the slot is fixed for the whole loop.            *)
AdvanceWheel(w) ==
  /\ pc[w] = "pop" /\ probe[w] = NoProbe
  /\ ReadClock(w)
  /\ probe' = [probe EXCEPT ![w] = 0]
  /\ UNCHANGED <<pc, redisVars, localVars, clock, wheel, at, asked>>

(* Mutant: the slots ahead are taken for overdue ones.                     *)
ProbedSlot_Ahead(w) == (seen[w] + probe[w]) % Slots

ProbedSlot(w) == (seen[w] + Slots - probe[w]) % Slots

ZpopMin(w) ==
  /\ pc[w] = "pop" /\ probe[w] # NoProbe
  /\ \E j \in wheel[ProbedSlot(w)] :
       /\ wheel' = [wheel EXCEPT ![ProbedSlot(w)] = @ \ {j}]
       /\ job' = [job EXCEPT ![w] = Absent(j)]
  /\ probe' = [probe EXCEPT ![w] = 0]
  /\ Goto(w, "get")
  /\ UNCHANGED <<redisVars, need, arg, todo, back, clock, at, seen, asked>>

(* Mutant: one slot more than the range gives.                             *)
SlotEmpty_OneMore(w) ==
  /\ pc[w] = "pop" /\ probe[w] # NoProbe
  /\ wheel[ProbedSlot(w)] = {}
  /\ \/ /\ probe[w] <= Reach
        /\ probe' = [probe EXCEPT ![w] = @ + 1]
        /\ UNCHANGED <<pc, seen>>
     \/ /\ probe[w] > Reach
        /\ probe' = [probe EXCEPT ![w] = NoProbe]
        /\ SlotUsed(w)
        /\ Goto(w, "idle")
  /\ UNCHANGED <<redisVars, localVars, clock, wheel, at, asked>>

SlotEmpty(w) ==
  /\ pc[w] = "pop" /\ probe[w] # NoProbe
  /\ wheel[ProbedSlot(w)] = {}
  /\ \/ /\ probe[w] < Reach
        /\ probe' = [probe EXCEPT ![w] = @ + 1]
        /\ UNCHANGED <<pc, seen>>
     \/ /\ probe[w] = Reach
        /\ probe' = [probe EXCEPT ![w] = NoProbe]
        /\ SlotUsed(w)
        /\ Goto(w, "idle")
  /\ UNCHANGED <<redisVars, localVars, clock, wheel, at, asked>>

(* Blocked or locked jobs go to the slot the loop started with.            *)
WheelRequeue(w) ==
  /\ pc[w] \in {"requeue", "contended"}
  /\ Insert(job[w].id, seen[w])
  /\ job' = [job EXCEPT ![w] = NoDocument]
  /\ Goto(w, "pop")
  /\ UNCHANGED <<redisVars, need, arg, todo, back, clock, at, seen, probe, asked>>

WheelAcquire(w) ==
  /\ Acquire(w)
  /\ \/ lock[job[w].id] /\ UNCHANGED <<probe, seen>>
     \/ /\ ~lock[job[w].id]
        /\ probe' = [probe EXCEPT ![w] = NoProbe]
        /\ SlotUsed(w)
  /\ UNCHANGED <<clock, wheel, at, asked>>

WheelDequeueStep(w) ==
  \/ (PromoteScan(w) \/ PromoteGet(w) \/ PromoteSave(w)) /\ UNCHANGED wheelVars
  \/ WheelPromoteZrem(w) \/ WheelPromoteZadd(w)
  \/ AdvanceWheel(w) \/ ZpopMin(w) \/ SlotEmpty(w)
  \/ (DequeueGet(w) \/ DequeueDeps(w)) /\ UNCHANGED wheelVars
  \/ WheelRequeue(w)

(***************************************************************************)
(* The job service on the wheel.                                           *)
(***************************************************************************)
(* The jobs in S get a scheduled_at, some wait from now.                   *)
Schedule(S) ==
  \E d \in Waits : at' = [j \in Jobs |-> IF j \in S THEN clock + d ELSE at[j]]

WheelCreate(c) ==
  /\ CreateSave(c)
  /\ Schedule(ahead' \ ahead)
  /\ UNCHANGED <<clock, wheel, seen, probe, asked>>

WheelCancelGet(c) ==
  /\ CancelGet(c)
  /\ asked' = asked \cup {arg'[c].id}
  /\ UNCHANGED <<clock, wheel, at, seen, probe>>

(* Mutant: the slots are deleted with all that is in them.                 *)
WheelRemove_WholeSlot(c) ==
  /\ CancelRemove(c)
  /\ wheel' = [n \in 0 .. Slots - 1 |->
                IF arg[c].id \in wheel[n] THEN {} ELSE wheel[n]]
  /\ UNCHANGED <<clock, at, seen, probe, asked>>

(* remove(j): one pipeline of ZREMs over every slot.                       *)
WheelRemove(c) ==
  /\ CancelRemove(c)
  /\ wheel' = [n \in 0 .. Slots - 1 |-> wheel[n] \ {arg[c].id}]
  /\ UNCHANGED <<clock, at, seen, probe, asked>>

WheelProcess(w) ==
  /\ ProcessStep(w)
  /\ Schedule((ahead' \ ahead) \cup
              IF pc[w] = "retry_save" THEN {job[w].id} ELSE {})
  /\ UNCHANGED <<clock, wheel, seen, probe, asked>>

(* A second ends when all its instants have come, whatever a dequeue does. *)
Tick ==
  /\ clock < MaxClock
  /\ \A j \in ahead : at[j] > clock
  /\ clock' = clock + 1
  /\ UNCHANGED <<vars, wheel, at, seen, probe, asked>>

WheelDue(j) ==
  /\ at[j] <= clock
  /\ Due(j)
  /\ at' = [at EXCEPT ![j] = 0]
  /\ UNCHANGED <<history, clock, wheel, seen, probe, asked>>

WheelNext ==
  \/ \E p \in Procs : WheelEnqueueStep(p) /\ UNCHANGED history
  \/ \E w \in Workers :
       \/ WheelDequeueStep(w) /\ UNCHANGED history
       \/ WheelAcquire(w) \/ WheelProcess(w)
       \/ ReleaseLock(w) /\ UNCHANGED <<history, wheelVars>>
  \/ \E c \in Clients :
       \/ WheelCreate(c) \/ WheelCancelGet(c) \/ WheelRemove(c)
       \/ (CreateRegister(c) \/ CancelSave(c)) /\ UNCHANGED wheelVars
  \/ \E j \in Jobs :
       \/ WheelDue(j)
       \/ LockExpires(j) /\ UNCHANGED <<history, wheelVars>>
  \/ Tick

WheelInit ==
  /\ Init
  /\ clock = 0
  /\ wheel = [n \in 0 .. Slots - 1 |-> {}]
  /\ at = [j \in Jobs |-> 0]
  /\ seen = [p \in Procs |-> 0]
  /\ probe = [w \in Workers |-> NoProbe]
  /\ asked = {}

WheelSpec == WheelInit /\ [][WheelNext]_<<vars, wheelVars>>

(***************************************************************************)
(* Properties, besides ImplementsDispatch of JobService.                   *)
(***************************************************************************)
(* Every variable has its type; a dequeue never looks further back than    *)
(* Reach slots.                                                            *)
WheelTypeOK ==
  /\ TypeOK
  /\ clock \in 0 .. MaxClock
  /\ wheel \in [0 .. Slots - 1 -> SUBSET Jobs]
  /\ at \in [Jobs -> Nat]
  /\ seen \in [Procs -> Nat]
  /\ probe \in [Workers -> 0 .. Reach \cup {NoProbe}]
  /\ asked \subseteq Jobs

(* docs/architecture.md, section 4.1: a job with a scheduled_at does not   *)
(* run before this instant; on the wheel, not before the second of it.     *)
NotBeforeSecond == \A w \in Workers : pc[w] = "start" => at[job[w].id] <= clock

(* The loop of dequeue keeps the slot it began with, and nothing bounds    *)
(* it: a blocked or locked job makes it spin.  It is brisk while no second *)
(* later than MaxLag after that has come.                                  *)
Brisk == \A w \in Workers : probe[w] # NoProbe => clock <= seen[w] + MaxLag

(* NotBeforeSecond, as long as every dequeue has been brisk.               *)
SecondsKept == []Brisk => []NotBeforeSecond

(* No entry is lost between slots: a job that is pending, was never        *)
(* started, and is in no slot, not scheduled and in nobody's hands, waits  *)
(* for a parent whose document does not say completed (an erased one, see  *)
(* SuccessUnlocks, included) or which is still to announce its completion, *)
(* unless it or a parent was asked to be cancelled.                        *)
NothingLost ==
  \A j \in Jobs :
    Parked(j) /\ (\A n \in 0 .. Slots - 1 : j \notin wheel[n]) =>
      \/ asked \cap ({j} \cup DependsOn[j]) # {}
      \/ \E d \in DependsOn[j] :
           \/ store[d].status # "completed"
           \/ \E w \in Workers : pc[w] = "dependents" /\ job[w].id = d
=============================================================================
