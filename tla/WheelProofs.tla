----------------------------- MODULE WheelProofs -----------------------------
(***************************************************************************)
(* What the job service keeps on the timing wheel, for any number of jobs, *)
(* workers, clients and slots and any dependency graph: its types, the     *)
(* abstract specification Dispatch, as long as no lock expires under its   *)
(* run, the schedule, as long as no wait comes near the circumference of   *)
(* the wheel and no dequeue spins, and, as long as no old document is      *)
(* written back over a new one, every entry of a slot.                     *)
(*                                                                         *)
(* Most steps are steps of JobService too (Shared), so what the other      *)
(* modules prove of those is only cited here.  The rest are the few that   *)
(* read or write a slot (SlotStep).                                        *)
(***************************************************************************)
EXTENDS Integers, TimingWheel, RaceProofs

USE DEF queueVars, redisVars, localVars, history, StoreTypeOK, SchedulerTypeOK, Adrift

SlotStep(p) ==
  \/ WheelLaterZadd(p) \/ WheelLaterSlot(p) \/ WheelZadd(p)
  \/ p \in Workers /\ (WheelPromoteZadd(p) \/ ZpopMin(p) \/ WheelRequeue(p))

(* queue:heap stays empty, and what is in a slot exists.                   *)
Heapless == \A j \in Jobs : heap[j] = 0

Slotted == \A n \in 0 .. Slots - 1 : wheel[n] \subseteq Created

(* A promotion has a document to move.                                     *)
Moving == \A w \in Workers : pc[w] \in MoveLabels => arg[w].id \in Jobs

WInv ==
  /\ WheelTypeOK
  /\ Sound /\ Known
  /\ Heapless /\ Slotted /\ Moving
  /\ TtlCoversRun => Locked

(***************************************************************************)
(* The two kinds of steps.                                                 *)
(***************************************************************************)
(* A step of the wheel is a step of JobService that leaves queue:heap      *)
(* empty, or it is one of the steps above.                                 *)
LEMMA Shared ==
  ASSUME TypeOK, Heapless, WheelNext
  PROVE  \/ [Next]_vars /\ Heapless'
         \/ \E p \in Procs : SlotStep(p) /\ UNCHANGED history
<1>1. DOMAIN heap = Jobs
  BY DEF TypeOK
<1>2. ASSUME NEW p \in Procs, WheelEnqueueStep(p), UNCHANGED history, ~SlotStep(p)
      PROVE  [Next]_vars /\ Heapless'
  <2>1. EnqueueStep(p) /\ heap' = heap
    BY <1>2 DEF WheelEnqueueStep, SlotStep, WheelEnqueue, EnqueueStep, Enqueue, EnqueueDeps,
       EnqueueLaterSave, EnqueueSave
  <2>2. Next
    BY <1>2, <2>1 DEF Next, WorkerStep, RequestStep, Procs
  <2> QED
    BY <2>1, <2>2 DEF Heapless
<1>3. ASSUME NEW w \in Workers, WheelDequeueStep(w), UNCHANGED history, ~SlotStep(w)
      PROVE  [Next]_vars /\ Heapless'
  <2>1. CASE AdvanceWheel(w) \/ (SlotEmpty(w) /\ pc' = pc)
    BY <1>3, <2>1 DEF AdvanceWheel, SlotEmpty, vars, Heapless
  <2>2. ASSUME ~AdvanceWheel(w), ~(SlotEmpty(w) /\ pc' = pc)
        PROVE  DequeueStep(w) /\ heap' = heap
    <3>1. CASE SlotEmpty(w)
      BY <2>2, <3>1 DEF SlotEmpty, DequeueStep, PopEmpty, Heapless
    <3> QED
      BY <1>3, <2>2, <3>1 DEF WheelDequeueStep, SlotStep, WheelPromoteZrem, DequeueStep, PromoteScan,
         PromoteGet, PromoteSave, PromoteZrem, DequeueGet, DequeueDeps
  <2> QED
    BY <1>3, <2>1, <2>2 DEF Next, WorkerStep, Heapless
<1>4. ASSUME NEW w \in Workers,
             \/ WheelAcquire(w) \/ WheelProcess(w)
             \/ ReleaseLock(w) /\ UNCHANGED <<history, wheelVars>>
      PROVE  [Next]_vars /\ Heapless'
  <2>1. WorkerStep(w)
    BY <1>4 DEF WorkerStep, WheelAcquire, WheelProcess
  <2>2. heap' = heap
    BY <1>4 DEF WheelAcquire, WheelProcess, Acquire, AcquireLock, ReleaseLock, ProcessStep, Start,
       HandlerReturns, HandlerRaises, Recheck, Complete, GetDependents, UnlockGet, UnlockDeps,
       Recur, Finish, ScheduleRetry, MoveToDlq
  <2> QED
    BY <2>1, <2>2 DEF Next, Heapless
<1>5. ASSUME NEW c \in Clients,
             \/ WheelCreate(c) \/ WheelCancelGet(c) \/ WheelRemove(c)
             \/ (CreateRegister(c) \/ CancelSave(c)) /\ UNCHANGED wheelVars
      PROVE  [Next]_vars /\ Heapless'
  <2>1. Arrive(c) \/ RequestStep(c)
    BY <1>5 DEF Arrive, RequestStep, WheelCreate, WheelCancelGet, WheelRemove
  <2>2. \A j \in Jobs : heap'[j] \in {heap[j], 0}
    BY <1>1, <1>5 DEF WheelCreate, WheelCancelGet, WheelRemove, CreateSave, CancelGet, CancelRemove,
       Remove, CreateRegister, CancelSave
  <2> QED
    BY <2>1, <2>2 DEF Next, Heapless
<1>6. ASSUME NEW j \in Jobs, WheelDue(j) \/ (LockExpires(j) /\ UNCHANGED <<history, wheelVars>>)
      PROVE  [Next]_vars /\ Heapless'
  BY <1>6 DEF WheelDue, Next, Time, Due, LockExpires, Heapless
<1>7. CASE Tick
  BY <1>7 DEF Tick, vars, Heapless
<1> QED
  BY <1>2, <1>3, <1>4, <1>5, <1>6, <1>7 DEF WheelNext, Procs

(* What the others leave alone.                                            *)
LEMMA SlotFrame ==
  ASSUME TypeOK, Sound, NEW p \in Procs, SlotStep(p), UNCHANGED history
  PROVE  /\ Own(p) /\ Elsewhere(p)
         /\ UNCHANGED <<store, dependents, heap, lock, ahead, need, todo, history>>
  BY DEF TypeOK, Own, Elsewhere, SlotStep, WheelLaterZadd, WheelLaterSlot, WheelZadd, WheelPromoteZadd,
     ZpopMin, WheelRequeue, Goto, Return

(* Arithmetic of slots.                                                    *)
LEMMA Modulo ==
  ASSUME NEW a \in Int
  PROVE  /\ a % Slots \in 0 .. Slots - 1
         /\ a \div Slots \in Int /\ a = Slots * (a \div Slots) + (a % Slots)
<1>1. Slots \in Int /\ Slots > 0
  BY WheelAssumption
<1>2. a % Slots \in 0 .. Slots - 1
  BY <1>1
<1>3. a \div Slots \in Int
  BY <1>1
<1>4. a = Slots * (a \div Slots) + (a % Slots)
  BY <1>1
<1> QED
  BY <1>2, <1>3, <1>4

(* Two instants less than a turn apart have different slots.               *)
LEMMA WithinOneTurn ==
  ASSUME NEW a \in Int, NEW b \in Int, a < b, b < a + Slots
  PROVE  a % Slots # b % Slots
<1>1. Slots \in Int /\ Slots > 0
  BY WheelAssumption
<1>2. /\ a = Slots * (a \div Slots) + (a % Slots) /\ b = Slots * (b \div Slots) + (b % Slots)
      /\ a \div Slots \in Int /\ b \div Slots \in Int
      /\ a % Slots \in Int /\ b % Slots \in Int
  BY Modulo
<1> SUFFICES ASSUME a % Slots = b % Slots PROVE FALSE
  OBVIOUS
<1>3. PICK k \in Int : k = (b \div Slots) - (a \div Slots)
  BY <1>2
<1>4. Slots * k = b - a
  BY <1>1, <1>2, <1>3
<1>5. (k >= 1 => Slots * k >= Slots) /\ (k <= 0 => Slots * k <= 0)
  BY <1>1, <1>3
<1> QED
  BY <1>1, <1>3, <1>4, <1>5

(* What a probe of a slot leaves alone.                                    *)
LEMMA Probed ==
  ASSUME WheelTypeOK, NEW w \in Workers
  PROVE  /\ ProbedSlot(w) \in 0 .. Slots - 1
         /\ seen[w] + Slots - probe[w] \in Int
<1>1. seen[w] \in Int /\ probe[w] \in Int /\ Slots \in Int
  BY WheelAssumption DEF WheelTypeOK, Procs, NoProbe
<1>2. seen[w] + Slots - probe[w] \in Int
  BY <1>1
<1> QED
  BY <1>2, Modulo DEF ProbedSlot

(* What such a step does to its own coroutine.                             *)
LEMMA SlotEffect ==
  ASSUME WheelTypeOK, Sound, Slotted, NEW p \in Procs, SlotStep(p)
  PROVE  \/ /\ pc[p] = "enq_sched" /\ pc'[p] = "enq_slot" /\ job' = job /\ arg' = arg
            /\ arg[p].id \in Jobs /\ back' = back
            /\ sched' = [sched EXCEPT ![arg[p].id] = IF arg[p].future THEN "future" ELSE "due"]
         \/ /\ pc[p] = "enq_slot" /\ pc'[p] = back[p] /\ job' = job /\ sched' = sched
            /\ arg'[p] = NoDocument /\ back'[p] = "idle"
         \/ /\ pc[p] = "enq_zadd" /\ pc'[p] = "enq_save"
            /\ UNCHANGED <<job, arg, back, sched>>
         \/ /\ pc[p] = "promote_zadd" /\ pc'[p] = "promote_save" /\ p \in Workers
            /\ UNCHANGED <<job, arg, back, sched>>
         \/ /\ pc[p] = "pop" /\ pc'[p] = "get" /\ p \in Workers /\ UNCHANGED <<arg, back, sched>>
            /\ \E j \in Created : job'[p] = Absent(j)
         \/ /\ pc[p] \in {"requeue", "contended"} /\ pc'[p] = "pop" /\ p \in Workers
            /\ UNCHANGED <<arg, back, sched>> /\ job'[p] = NoDocument
<1> TypeOK
  BY DEF WheelTypeOK
<1>1. /\ pc \in [Procs -> Labels] /\ job \in [Procs -> Document] /\ arg \in [Procs -> Document]
      /\ DOMAIN back = Procs
  BY DEF TypeOK
<1> USE DEF Goto, Return
<1>2. CASE WheelLaterZadd(p)
  <2>1. arg[p].id \in Jobs
    BY <1>2 DEF WheelLaterZadd, Sound, Local, Carrying, EnqueueLabels
  <2> QED
    BY <1>1, <1>2, <2>1 DEF WheelLaterZadd
<1>3. CASE WheelLaterSlot(p)
  BY <1>1, <1>3 DEF WheelLaterSlot
<1>4. CASE WheelZadd(p) \/ (p \in Workers /\ WheelPromoteZadd(p))
  BY <1>1, <1>4 DEF WheelZadd, WheelPromoteZadd
<1>5. CASE p \in Workers /\ ZpopMin(p)
  <2>1. ProbedSlot(p) \in 0 .. Slots - 1
    BY <1>5, Probed
  <2> QED
    BY <1>1, <1>5, <2>1 DEF ZpopMin, Slotted
<1>6. CASE p \in Workers /\ WheelRequeue(p)
  BY <1>1, <1>6 DEF WheelRequeue
<1> QED
  BY <1>2, <1>3, <1>4, <1>5, <1>6 DEF SlotStep

(* It keeps the types ...                                                  *)
LEMMA SlotType ==
  ASSUME WheelTypeOK, Sound, Slotted, NEW p \in Procs, SlotStep(p), UNCHANGED history
  PROVE  TypeOK'
<1> TypeOK
  BY DEF WheelTypeOK
<1>1. /\ UNCHANGED <<store, dependents, heap, lock, ahead, need, todo, history>>
      /\ Elsewhere(p)
  BY SlotFrame
<1>2. /\ DOMAIN pc' = Procs /\ DOMAIN job' = Procs /\ DOMAIN arg' = Procs /\ DOMAIN back' = Procs
      /\ pc' = [q \in Procs |-> pc'[q]] /\ job' = [q \in Procs |-> job'[q]]
      /\ arg' = [q \in Procs |-> arg'[q]] /\ back' = [q \in Procs |-> back'[q]]
      /\ sched' \in [Jobs -> {"out", "future", "due"}]
  BY SlotEffect DEF TypeOK, SlotStep, WheelLaterZadd, WheelLaterSlot, WheelZadd, WheelPromoteZadd,
     ZpopMin, WheelRequeue, Goto, Return
<1>3. /\ job[p] \in Document /\ arg[p] \in Document /\ NoDocument \in Document
      /\ \A j \in Jobs : Absent(j) \in Document
      /\ back[p] \in {"idle", "unlock_get", "recur", "tail", "release"}
  BY InHand DEF TypeOK
<1>4. /\ job'[p] \in Document /\ arg'[p] \in Document
      /\ back'[p] \in {"idle", "unlock_get", "recur", "tail", "release"}
  BY <1>3, SlotEffect DEF Created
<1>5. pc'[p] \in Labels
  BY <1>3, SlotEffect DEF Labels, EnqueueLabels, DequeueLabels, TryLabels
<1>6. \A q \in Procs : /\ pc'[q] \in Labels /\ job'[q] \in Document /\ arg'[q] \in Document
                       /\ back'[q] \in {"idle", "unlock_get", "recur", "tail", "release"}
  BY <1>1, <1>4, <1>5 DEF Elsewhere, TypeOK
<1> QED
  BY <1>1, <1>2, <1>6 DEF TypeOK

(* ... and what the documents say of success ...                           *)
LEMMA SlotSound ==
  ASSUME WheelTypeOK, Sound, Slotted, NEW p \in Procs, SlotStep(p), UNCHANGED history
  PROVE  Sound'
<1> TypeOK
  BY DEF WheelTypeOK
<1>1. Own(p) /\ UNCHANGED <<store, need, succeeded>>
  BY SlotFrame
<1>2. /\ Local(p) /\ Truthful(NoDocument) /\ \A j \in Jobs : Truthful(Absent(j)) /\ Absent(j).id = j
      /\ back[p] \in {"idle", "unlock_get", "recur", "tail", "release"}
      /\ Created \subseteq Jobs
  BY InHand, Modest, AbsentDocuments DEF Sound, TypeOK, Created
<1>3. Truthful(job[p])' /\ Truthful(arg[p])'
  BY <1>1, <1>2, SlotEffect DEF Local, Truthful
<1>4. Carrying(p)' => (arg[p].id \in Jobs)'
  BY <1>2, SlotEffect DEF Local, Carrying, EnqueueLabels
<1>5. ASSUME p \in Workers
      PROVE  /\ Holding(p)' => (job[p].id \in Jobs)'
             /\ pc'[p] \notin {"retry_save", "recheck", "complete", "deps", "lock"}
             /\ Executing(p)' => (DependsOn[job[p].id] \subseteq succeeded)'
  BY <1>1, <1>2, <1>5, SlotEffect DEF Local, Holding, Executing, EnqueueLabels, DequeueLabels
<1>6. Local(p)'
  BY <1>3, <1>4, <1>5 DEF Local
<1> QED
  BY <1>1, <1>6, OwnSound

(* ... takes up only what exists ...                                       *)
LEMMA SlotKnown ==
  ASSUME WheelTypeOK, Sound, Known, Slotted, NEW p \in Procs, SlotStep(p), UNCHANGED history
  PROVE  Known' /\ Created' = Created
<1> TypeOK
  BY DEF WheelTypeOK
<1>1. Elsewhere(p) /\ UNCHANGED <<store, dependents, heap, todo>> /\ Created' = Created
  BY SlotFrame DEF Created
<1>2. Has(p)'
  BY <1>1, SlotEffect, Docs DEF Has
<1>3. \A j \in Jobs \ Created : sched[j] = "out" => sched'[j] = "out"
  BY SlotEffect, Docs DEF Has
<1> QED
  BY <1>1, <1>2, <1>3, KnownKeeps, Docs

(* ... and begins no execution.                                            *)
LEMMA SlotShape ==
  ASSUME WheelTypeOK, Sound, Slotted, NEW p \in Procs, SlotStep(p), UNCHANGED history
  PROVE  Shape
<1> TypeOK
  BY DEF WheelTypeOK
<1>1. Own(p) /\ UNCHANGED <<lock, succeeded>>
  BY SlotFrame
<1>2. CASE p \in Clients
  BY <1>1, <1>2, ClientShape
<1>3. CASE p \in Workers /\ Executing(p)'
  <2>1. Same(p)
    BY <1>3, SlotEffect DEF Same, Executing, DequeueLabels
  <2> QED
    BY <1>1, <1>3, <2>1, WorkerShape
<1>4. CASE p \in Workers /\ ~Executing(p)'
  BY <1>1, <1>4, EndShape
<1> QED
  BY <1>2, <1>3, <1>4 DEF Procs

(***************************************************************************)
(* The inductive invariant.                                                *)
(***************************************************************************)
(* Only the promotion itself goes on to move a document.                   *)
LEMMA Promoting ==
  ASSUME TypeOK, Sound, NEW w \in Workers, StepOf(w), pc'[w] \in MoveLabels
  PROVE  PromoteGet(w) \/ PromoteZrem(w) \/ PromoteZadd(w)
<1>1. /\ w \in Procs /\ w \notin Clients /\ pc \in [Procs -> Labels]
      /\ back[w] \in {"idle", "unlock_get", "recur", "tail", "release"}
  BY StoreAssumption DEF TypeOK, Procs
<1> USE DEF Goto, MoveLabels
<1>2. ~EnqueueStep(w)
  BY <1>1 DEF EnqueueStep, Enqueue, EnqueueLaterSave, EnqueueLaterZadd, EnqueueDeps, EnqueueZadd,
     EnqueueSave, CheckDependencies, ReadMet, ReadUnmet, Return
<1>3. ~ReleaseLock(w) /\ ~Abort(w) /\ ~RaiseInTry(w)
  BY <1>1 DEF ReleaseLock, Abort, RaiseInTry, OnException
<1>4. ~Acquire(w)
  BY <1>1 DEF Acquire, AcquireLock
<1>5. ~ProcessStep(w)
  BY <1>1 DEF ProcessStep, Start, HandlerReturns, HandlerRaises, OnException, Recheck, Complete,
     GetDependents, UnlockGet, UnlockDeps, Recur, Finish, ScheduleRetry, MoveToDlq, NextDependent,
     CallEnqueue, CheckDependencies, ReadMet, ReadUnmet, Return
<1>6. ~PromoteScan(w) /\ ~PromoteSave(w) /\ ~PopEmpty(w) /\ ~Pop(w)
  BY <1>1 DEF PromoteScan, PromoteSave, NextDue, PopEmpty, Pop
<1>7. ~DequeueGet(w) /\ ~DequeueDeps(w) /\ ~RequeueBlocked(w) /\ ~RequeueContended(w)
  BY <1>1 DEF DequeueGet, DequeueDeps, CheckDependencies, ReadMet, ReadUnmet, RequeueBlocked,
     RequeueContended, Requeue
<1> QED
  BY <1>1, <1>2, <1>3, <1>4, <1>5, <1>6, <1>7 DEF StepOf, WorkerStep, DequeueStep

(* The shared steps keep a document in hand while a promotion moves it.    *)
LEMMA SharedMoving ==
  ASSUME TypeOK, Sound, Known, Moving, [Next]_vars
  PROVE  Moving'
<1>1. ASSUME NEW p \in Procs, StepOf(p) PROVE Moving'
  <2>1. Elsewhere(p)
    BY <1>1, Apart
  <2>2. ASSUME p \in Workers, pc'[p] \in MoveLabels PROVE arg'[p].id \in Jobs
    <3>1. CASE PromoteGet(p)
      BY <1>1, <3>1, Docs DEF PromoteGet, TypeOK
    <3>2. CASE PromoteZadd(p)
      BY <2>2, <3>2 DEF PromoteZadd, Moving, MoveLabels
    <3>3. CASE PromoteZrem(p)
      <4>1. [arg[p] EXCEPT !.future = FALSE].id = arg[p].id /\ arg[p].id \in Jobs
        BY <2>2, <3>3, Passes, Docs DEF PromoteZrem, Moving, MoveLabels
      <4>2. \/ pc'[p] \in {"pop", "promote_get"}
            \/ arg' = [arg EXCEPT ![p].future = FALSE]
        BY <1>1, <3>3, Docs DEF PromoteZrem, Goto, NextDue
      <4> QED
        BY <1>1, <2>2, <4>1, <4>2, Docs DEF MoveLabels
    <3> QED
      BY <1>1, <2>2, <3>1, <3>2, <3>3, Promoting
  <2> QED
    BY <2>1, <2>2 DEF Moving, Elsewhere, Procs
<1>2. ASSUME NEW j \in Jobs, Time(j) PROVE Moving'
  <2>1. pc' = pc /\ \A w \in Workers : arg'[w].id = arg[w].id
    BY <1>2, DueDocuments DEF Time, Due, LockExpires, Procs
  <2> QED
    BY <2>1 DEF Moving
<1>3. CASE UNCHANGED vars
  BY <1>3 DEF vars, Moving
<1> QED
  BY <1>1, <1>2, <1>3 DEF Next, StepOf, Procs

(* What JobService promises of its state holds on the wheel.               *)
LEMMA WheelServes ==
  ASSUME WheelTypeOK, Sound, Known, Moving, Heapless, Slotted, [WheelNext]_<<vars, wheelVars>>
  PROVE  /\ TypeOK' /\ Sound' /\ Known' /\ Moving' /\ Created \subseteq Created'
         /\ Heapless' /\ Shape
<1>1. TypeOK
  BY DEF WheelTypeOK
<1>2. CASE [Next]_vars /\ Heapless'
  BY <1>1, <1>2, StepType, StepSound, StepKnown, StepShape, SharedMoving
<1>3. ASSUME NEW p \in Procs, SlotStep(p), UNCHANGED history
      PROVE  /\ TypeOK' /\ Sound' /\ Known' /\ Moving' /\ Created \subseteq Created'
             /\ Heapless' /\ Shape
  <2>1. heap' = heap /\ Elsewhere(p)
    BY <1>1, <1>3, SlotFrame
  <2>2. p \in Workers /\ pc'[p] \in MoveLabels => arg'[p].id \in Jobs
    <3>1. back[p] \notin MoveLabels
      BY <1>1 DEF TypeOK, MoveLabels
    <3> QED
      BY <1>3, <3>1, SlotEffect DEF MoveLabels, Moving
  <2>3. Moving'
    BY <2>1, <2>2 DEF Moving, Elsewhere, Procs
  <2> QED
    BY <1>3, <2>1, <2>3, SlotType, SlotSound, SlotKnown, SlotShape DEF Heapless
<1>4. UNCHANGED vars => [Next]_vars /\ Heapless'
  BY DEF vars, Heapless
<1> QED
  BY <1>1, <1>2, <1>3, <1>4, Shared DEF vars

(* What a step may do to the slots: take entries out, or put one in.       *)
Fills(p) ==
  \/ pc[p] \in {"enq_slot", "enq_zadd"} /\ Insert(arg[p].id, seen[p])
  \/ p \in Workers /\ pc[p] = "promote_zadd" /\ Insert(arg[p].id, seen[p])
  \/ p \in Workers /\ pc[p] \in {"requeue", "contended"} /\ Insert(job[p].id, seen[p])

Drains == wheel' \in [0 .. Slots - 1 -> SUBSET Jobs] /\ \A n \in 0 .. Slots - 1 : wheel'[n] \subseteq wheel[n]

(* A step takes entries out of the slots, or puts one in.                  *)
LEMMA WheelTraffic ==
  ASSUME WheelTypeOK, [WheelNext]_<<vars, wheelVars>>
  PROVE  Drains \/ \E p \in Procs : Fills(p)
<1>1. wheel \in [0 .. Slots - 1 -> SUBSET Jobs]
  BY DEF WheelTypeOK
<1>2. CASE wheel' = wheel
  BY <1>1, <1>2 DEF Drains
<1>3. ASSUME NEW p \in Procs, WheelLaterSlot(p) \/ WheelZadd(p) PROVE Fills(p)
  BY <1>3 DEF WheelLaterSlot, WheelZadd, Fills
<1>4. ASSUME NEW w \in Workers, WheelPromoteZadd(w) \/ WheelRequeue(w) PROVE Fills(w)
  BY <1>4 DEF WheelPromoteZadd, WheelRequeue, Fills
<1>5. ASSUME NEW w \in Workers, ZpopMin(w) PROVE Drains
  BY <1>1, <1>5 DEF ZpopMin, Drains
<1>6. ASSUME NEW c \in Clients, WheelRemove(c) PROVE Drains
  BY <1>1, <1>6 DEF WheelRemove, Drains
<1>7. ASSUME WheelNext, wheel' # wheel
      PROVE  \/ \E p \in Procs : WheelLaterSlot(p) \/ WheelZadd(p)
             \/ \E w \in Workers : WheelPromoteZadd(w) \/ WheelRequeue(w) \/ ZpopMin(w)
             \/ \E c \in Clients : WheelRemove(c)
  BY <1>7 DEF WheelNext, WheelEnqueueStep, WheelEnqueue, WheelLaterZadd, WheelDequeueStep,
     WheelPromoteZrem, AdvanceWheel, SlotEmpty, WheelAcquire, WheelProcess, WheelCreate,
     WheelCancelGet, WheelDue, Tick, wheelVars
<1>8. UNCHANGED <<vars, wheelVars>> => wheel' = wheel
  BY DEF wheelVars
<1> QED
  BY <1>2, <1>3, <1>4, <1>5, <1>6, <1>7, <1>8 DEF Procs

(* Slots hold jobs that exist.                                             *)
LEMMA WheelSlots ==
  ASSUME WheelTypeOK, Sound, Known, Moving, Slotted, Created \subseteq Created', [WheelNext]_<<vars, wheelVars>>
  PROVE  wheel' \in [0 .. Slots - 1 -> SUBSET Jobs] /\ Slotted'
<1>1. wheel \in [0 .. Slots - 1 -> SUBSET Jobs] /\ Created \subseteq Jobs /\ TypeOK
  BY DEF WheelTypeOK, Created
<1>2. CASE Drains
  BY <1>2 DEF Drains, Slotted
<1>3. ASSUME NEW p \in Procs, Fills(p) PROVE wheel' \in [0 .. Slots - 1 -> SUBSET Jobs] /\ Slotted'
  <2>1. PICK i \in Created : Insert(i, seen[p])
    <3>1. Local(p) /\ Has(p)
      BY DEF Sound, Known
    <3>2. CASE pc[p] \in {"enq_slot", "enq_zadd"} /\ Insert(arg[p].id, seen[p])
      BY <3>1, <3>2 DEF Local, Carrying, EnqueueLabels, Has
    <3>3. CASE p \in Workers /\ pc[p] \in {"requeue", "contended"} /\ Insert(job[p].id, seen[p])
      BY <3>1, <3>3 DEF Local, Holding, Has
    <3>4. CASE p \in Workers /\ pc[p] = "promote_zadd" /\ Insert(arg[p].id, seen[p])
      BY <3>1, <3>4 DEF Moving, MoveLabels, Has
    <3> QED
      BY <1>3, <3>2, <3>3, <3>4 DEF Fills
  <2> QED
    BY <1>1, <2>1 DEF Insert, Slotted
<1> QED
  BY <1>2, <1>3, WheelTraffic

(* The clock, the instants and the cursors of the dequeues.                *)
LEMMA WheelTypes ==
  ASSUME WheelTypeOK, Sound, WheelNext
  PROVE  /\ clock' \in 0 .. MaxClock /\ at' \in [Jobs -> Nat] /\ seen' \in [Procs -> Nat]
         /\ probe' \in [Workers -> 0 .. Reach \cup {NoProbe}] /\ asked' \subseteq Jobs
<1> USE DEF WheelTypeOK
<1>1. /\ clock \in Nat /\ Waits \subseteq Nat /\ Reach \in Nat /\ MaxClock \in Nat
      /\ 0 \in 0 .. Reach /\ Slots \in Nat
  BY WheelAssumption
<1>2. ASSUME NEW p, ReadClock(p) \/ SlotUsed(p) PROVE seen' \in [Procs -> Nat]
  BY <1>1, <1>2 DEF ReadClock, SlotUsed
<1>3. ASSUME NEW S, Schedule(S) PROVE at' \in [Jobs -> Nat]
  BY <1>1, <1>3 DEF Schedule
<1>4. ASSUME NEW w, probe' = [probe EXCEPT ![w] = 0] \/ probe' = [probe EXCEPT ![w] = NoProbe]
      PROVE  probe' \in [Workers -> 0 .. Reach \cup {NoProbe}]
  BY <1>1, <1>4
<1>5. ASSUME NEW p \in Procs, WheelEnqueueStep(p)
      PROVE  UNCHANGED <<clock, at, probe, asked>> /\ seen' \in [Procs -> Nat]
  <2>1. CASE WheelEnqueue(p)
    <3>1. arg[p].id \in Jobs
      BY <2>1 DEF WheelEnqueue, Enqueue, EnqueueDeps, Sound, Local, Carrying, EnqueueLabels
    <3> QED
      BY <1>1, <2>1, <3>1 DEF WheelEnqueue
  <2> QED
    BY <1>2, <1>5, <2>1 DEF WheelEnqueueStep, wheelVars, WheelLaterZadd, WheelLaterSlot, WheelZadd
<1>6. ASSUME NEW w \in Workers, WheelDequeueStep(w)
      PROVE  /\ UNCHANGED <<clock, at, asked>> /\ seen' \in [Procs -> Nat]
             /\ probe' \in [Workers -> 0 .. Reach \cup {NoProbe}]
  <2>1. CASE SlotEmpty(w)
    <3>1. CASE probe[w] < Reach /\ probe' = [probe EXCEPT ![w] = @ + 1] /\ UNCHANGED <<pc, seen>>
      <4>1. probe[w] \in 0 .. Reach
        BY <2>1 DEF SlotEmpty
      <4>2. probe[w] + 1 \in 0 .. Reach
        BY <1>1, <3>1, <4>1
      <4> QED
        BY <2>1, <3>1, <4>2 DEF SlotEmpty
    <3>2. CASE probe' = [probe EXCEPT ![w] = NoProbe] /\ SlotUsed(w)
      BY <1>2, <1>4, <2>1, <3>2 DEF SlotEmpty
    <3> QED
      BY <2>1, <3>1, <3>2 DEF SlotEmpty
  <2>2. CASE AdvanceWheel(w) \/ ZpopMin(w)
    BY <1>2, <1>4, <2>2 DEF AdvanceWheel, ZpopMin
  <2> QED
    BY <1>2, <1>6, <2>1, <2>2 DEF WheelDequeueStep, wheelVars, WheelPromoteZrem, WheelPromoteZadd,
       WheelRequeue
<1>7. ASSUME NEW w \in Workers, WheelAcquire(w) \/ WheelProcess(w)
      PROVE  /\ UNCHANGED <<clock, asked>> /\ seen' \in [Procs -> Nat]
             /\ at' \in [Jobs -> Nat] /\ probe' \in [Workers -> 0 .. Reach \cup {NoProbe}]
  <2>1. CASE WheelAcquire(w)
    BY <1>2, <1>4, <2>1 DEF WheelAcquire
  <2>2. CASE WheelProcess(w)
    BY <1>3, <2>2 DEF WheelProcess
  <2> QED
    BY <1>7, <2>1, <2>2
<1>8. ASSUME NEW c \in Clients, WheelCreate(c) \/ WheelCancelGet(c) \/ WheelRemove(c)
      PROVE  /\ UNCHANGED <<clock, seen, probe>> /\ at' \in [Jobs -> Nat] /\ asked' \subseteq Jobs
  <2>1. CASE WheelCreate(c)
    BY <1>3, <2>1 DEF WheelCreate
  <2>2. CASE WheelCancelGet(c)
    <3>1. arg'[c].id \in Jobs
      <4>1. PICK j \in Created : arg' = [arg EXCEPT ![c] = [store[j] EXCEPT !.status = "cancelled"]]
        BY <2>2 DEF WheelCancelGet, CancelGet
      <4>2. j \in Jobs /\ store[j] \in Document /\ store[j].id = j
        BY <4>1 DEF TypeOK, Created
      <4>3. [store[j] EXCEPT !.status = "cancelled"].id = j
        BY <4>2 DEF Document
      <4> QED
        BY <4>1, <4>2, <4>3 DEF TypeOK, Procs
    <3> QED
      BY <2>2, <3>1 DEF WheelCancelGet
  <2>3. CASE WheelRemove(c)
    BY <2>3 DEF WheelRemove
  <2> QED
    BY <1>8, <2>1, <2>2, <2>3
<1>9. ASSUME NEW j \in Jobs, WheelDue(j)
      PROVE  UNCHANGED <<clock, seen, probe, asked>> /\ at' \in [Jobs -> Nat]
  BY <1>9 DEF WheelDue
<1>10. CASE Tick
  BY <1>1, <1>10 DEF Tick
<1>11. ASSUME UNCHANGED wheelVars
       PROVE  UNCHANGED <<clock, at, seen, probe, asked>>
  BY <1>11 DEF wheelVars
<1> QED
  BY <1>5, <1>6, <1>7, <1>8, <1>9, <1>10, <1>11 DEF WheelNext

(* The beginning.                                                          *)
LEMMA WheelStart == WheelInit => WInv
<1> SUFFICES ASSUME WheelInit PROVE WInv
  OBVIOUS
<1>1. Init /\ TypeOK /\ Sound /\ Known
  BY InitType, InitSound, InitKnown DEF WheelInit
<1>2. \A w \in Workers : ~Executing(w) /\ pc[w] = "idle"
  BY <1>1 DEF Init, Executing, DequeueLabels, Procs
<1>3. WheelTypeOK
  BY <1>1, WheelAssumption DEF WheelTypeOK, WheelInit
<1>4. Heapless /\ Slotted /\ Moving
  BY <1>1, <1>2 DEF Heapless, Slotted, Moving, MoveLabels, WheelInit, Init, SchedulerInit
<1> QED
  BY <1>1, <1>2, <1>3, <1>4 DEF WInv, Locked, MutualExclusion

(* No step breaks it: an executing worker holds the lock of its job until  *)
(* the lock expires.                                                       *)
LEMMA WheelStep ==
  ASSUME WInv, [WheelNext]_<<vars, wheelVars>>
  PROVE  WInv' /\ Shape
<1>1. /\ WheelTypeOK /\ TypeOK /\ Sound /\ Known /\ Moving /\ Heapless /\ Slotted
      /\ TtlCoversRun => Locked
  BY DEF WInv, WheelTypeOK
<1>2. /\ TypeOK' /\ Sound' /\ Known' /\ Moving' /\ Created \subseteq Created'
      /\ Heapless' /\ Shape
  BY <1>1, WheelServes
<1>3. WheelTypeOK' /\ Slotted'
  <2>1. wheel' \in [0 .. Slots - 1 -> SUBSET Jobs] /\ Slotted'
    BY <1>1, <1>2, WheelSlots
  <2>2. CASE WheelNext
    BY <1>1, <1>2, <2>1, <2>2, WheelTypes DEF WheelTypeOK
  <2>3. CASE UNCHANGED <<vars, wheelVars>>
    BY <1>1, <1>2, <2>1, <2>3 DEF WheelTypeOK, wheelVars
  <2> QED
    BY <2>1, <2>2, <2>3
<1>4. TtlCoversRun => Locked'
  BY <1>1, <1>2, StepLocked
<1> QED
  BY <1>2, <1>3, <1>4 DEF WInv

(* WInv is an invariant.                                                   *)
LEMMA WheelAlways == WheelSpec => []WInv
BY WheelStart, WheelStep, PTL DEF WheelSpec

(***************************************************************************)
(* The theorems.                                                           *)
(***************************************************************************)
(* Every variable of the wheel keeps its type; a dequeue never probes more *)
(* than Reach slots behind the one it began with.                          *)
THEOREM WheelTypeCorrect == WheelSpec => []WheelTypeOK
<1>1. WInv => WheelTypeOK
  BY DEF WInv
<1> QED
  BY <1>1, WheelAlways, PTL

(* The wheel keeps the promises of Dispatch as well: mutual exclusion and  *)
(* the order of dependencies, although a job may have entries in several   *)
(* slots at once.  A lock has the same EX 30 as on the heap, so here too   *)
(* no run may outlast it.                                                  *)
THEOREM WheelRefinement ==
  ASSUME TtlCoversRun
  PROVE  WheelSpec => ImplementsDispatch
<1>1. WheelInit => Dispatched!Init
  BY DEF WheelInit, Init, SchedulerInit, Dispatched!Init, Executing, DequeueLabels, Procs
<1>2. WInv /\ WInv' /\ [WheelNext]_<<vars, wheelVars>> => [Dispatched!Next]_<<Running, succeeded>>
  <2>1. WInv => IInv
    BY DEF WInv, WheelTypeOK, IInv
  <2>2. WInv' => IInv'
    BY DEF WInv, WheelTypeOK, IInv
  <2> QED
    BY <2>1, <2>2, WheelStep, StepDispatch
<1> QED
  BY <1>1, <1>2, WheelAlways, PTL DEF WheelSpec, ImplementsDispatch, Dispatched!Spec, Running

(* Who puts a job into a slot, or takes one out, writes no document.       *)
LEMMA SlotGone ==
  ASSUME WInv, NEW j \in Jobs, Gone(j), NEW p \in Procs, SlotStep(p), UNCHANGED history
  PROVE  Gone(j)'
<1>1. Own(p) /\ store' = store
  BY SlotFrame DEF WInv, WheelTypeOK
<1>2. /\ arg[p].id = j => pc[p] = "promote_zrem"
      /\ job[p].id = j => pc[p] = "get"
      /\ NoDocument.id # j
  BY StoreAssumption, AbsentDocuments DEF Gone, NoDocument
<1>3. /\ arg'[p] \in {arg[p], NoDocument}
      /\ job'[p] \in {job[p], NoDocument} \/ pc'[p] = "get"
      /\ pc[p] \notin {"promote_zrem", "get"}
  BY SlotEffect DEF WInv
<1> QED
  BY <1>1, <1>2, <1>3, GoneKeeps

(* Section 5.2 and cancel_job on the wheel: a cancelled job of which       *)
(* nobody holds a copy stays cancelled, although an enqueue, a promotion   *)
(* or a dequeue may put it back into a slot after the cancel has emptied   *)
(* all of them.                                                            *)
THEOREM WheelCancelsAreFinal ==
  ASSUME "retry" \notin Requests
  PROVE  WheelSpec => CancelIsFinal
<1>1. ASSUME NEW j \in Jobs
      PROVE  WheelSpec => [](CancelSettled(j) => [](store[j].status = "cancelled"))
  <2>1. CancelSettled(j) => Gone(j)
    BY DEF CancelSettled, Gone
  <2>2. WInv /\ Gone(j) /\ [WheelNext]_<<vars, wheelVars>> => Gone(j)'
    <3> SUFFICES ASSUME WInv, Gone(j), [WheelNext]_<<vars, wheelVars>> PROVE Gone(j)'
      OBVIOUS
    <3>1. TypeOK /\ Sound /\ Heapless
      BY DEF WInv, WheelTypeOK
    <3>2. \/ [Next]_vars
          \/ \E p \in Procs : SlotStep(p) /\ UNCHANGED history
      BY <3>1, Shared
    <3> QED
      BY <3>1, <3>2, StepGone, SlotGone
  <2>3. Gone(j) => store[j].status = "cancelled"
    BY DEF Gone
  <2> QED
    BY <2>1, <2>2, <2>3, WheelAlways, PTL DEF WheelSpec
<1> QED
  BY <1>1 DEF CancelIsFinal

(***************************************************************************)
(* Instants.                                                               *)
(***************************************************************************)
AimLabels == {"enq_later", "enq_sched", "enq_slot"}

(* p, about to put j into a slot, has the slot of its instant in mind.     *)
Aimed(p, j) == pc[p] \in AimLabels /\ arg[p].id = j => seen[p] = at[j]

Entries(j) == \A n \in 0 .. Slots - 1 : j \in wheel[n] => n = at[j] % Slots

(* A job whose second has not begun has been taken from no slot, is in no  *)
(* slot but that of its instant, and is less than a turn away.             *)
Early(j) ==
  at[j] > clock =>
    /\ j \in ahead /\ OnTime(j)
    /\ Entries(j)
    /\ \E d \in Waits : at[j] <= clock + d
    /\ \A p \in Procs : Aimed(p, j)

(* A dequeue works with the slot of a second that has begun.               *)
ProbeLabels == {"pop", "get", "deps", "requeue", "lock", "contended"}

Probes ==
  \A w \in Workers :
    probe[w] # NoProbe => pc[w] \in ProbeLabels /\ seen[w] <= clock

(* How the instant of j may change: it comes, time passes, or j is new.    *)
Fresh(j) ==
  /\ j \in ahead' /\ j \notin ahead /\ j \notin Created /\ wheel' = wheel
  /\ \E d \in Waits : at'[j] <= clock' + d
  /\ \E p \in Procs : pc'[p] \in {"enqueue", "register"} /\ Elsewhere(p)

(* Arithmetic of instants, seconds and slots.                              *)
LEMMA Instants ==
  ASSUME MaxRetries = 0, WInv, WheelNext, NEW j \in Jobs
  PROVE  \/ at'[j] <= clock'
         \/ /\ at'[j] = at[j] /\ clock <= clock'
            /\ j \in ahead /\ at[j] > clock => j \in ahead'
         \/ Fresh(j)
<1>1. /\ TypeOK /\ Sound /\ at \in [Jobs -> Nat] /\ clock \in Nat /\ Waits \subseteq Nat
      /\ pc \in [Procs -> Labels]
  BY WheelAssumption DEF WInv, WheelTypeOK, TypeOK
<1>2. CASE UNCHANGED <<at, clock, ahead>>
  BY <1>1, <1>2
<1>3. ASSUME NEW S, Schedule(S), j \in S, clock' = clock
      PROVE  \E d \in Waits : at'[j] <= clock' + d
  BY <1>1, <1>3 DEF Schedule
<1>4. ASSUME NEW S, Schedule(S), j \notin S PROVE at'[j] = at[j]
  BY <1>4 DEF Schedule
<1>5. ASSUME NEW c \in Clients, WheelCreate(c)
      PROVE  Fresh(j) \/ (at'[j] = at[j] /\ clock' = clock /\ ahead \subseteq ahead')
  <2>1. PICK k \in Jobs \ Created, later \in BOOLEAN :
          ahead' = IF later THEN ahead \cup {k} ELSE ahead
    BY <1>5, ServiceAssumption DEF WheelCreate, CreateSave
  <2>2. CASE j \in ahead' \ ahead
    <3>1. Elsewhere(c)
      BY <1>1, <1>5, Apart DEF WheelCreate, StepOf, Arrive, Procs
    <3>2. pc'[c] \in {"enqueue", "register"} /\ c \in Procs
      BY <1>1, <1>5 DEF WheelCreate, CreateSave, CallEnqueue, Goto, Procs
    <3> QED
      BY <1>3, <1>5, <2>1, <2>2, <3>1, <3>2 DEF WheelCreate, Fresh
  <2>3. CASE j \notin ahead' \ ahead
    BY <1>4, <1>5, <2>1, <2>3 DEF WheelCreate
  <2> QED
    BY <2>2, <2>3
<1>6. ASSUME NEW w \in Workers, WheelProcess(w)
      PROVE  Fresh(j) \/ (at'[j] = at[j] /\ clock' = clock /\ ahead \subseteq ahead')
  <2>1. pc[w] # "retry_save"
    <3>1. ~(job[w].retries < MaxRetries)
      BY <1>1 DEF TypeOK, Document, Procs
    <3> QED
      BY <1>1, <3>1 DEF Sound, Local, Procs
  <2>2. Schedule(ahead' \ ahead)
    <3>1. (ahead' \ ahead) \cup {} = ahead' \ ahead
      OBVIOUS
    <3> QED
      BY <1>6, <2>1, <3>1 DEF WheelProcess
  <2>3. CASE ahead' = ahead
    BY <1>4, <1>6, <2>2, <2>3 DEF WheelProcess
  <2>4. CASE Recur(w)
    <3>1. \/ ahead' = ahead
          \/ \E k \in Jobs \ Created : ahead' = ahead \cup {k} /\ Goto(w, "enqueue")
      BY <2>4, ServiceAssumption DEF Recur, CallEnqueue
    <3>2. CASE j \in ahead' \ ahead
      <4>1. Elsewhere(w)
        BY <1>1, <1>6, Apart DEF WheelProcess, StepOf, WorkerStep, Procs
      <4>2. pc'[w] \in {"enqueue", "register"} /\ w \in Procs /\ j \notin Created
        BY <1>1, <3>1, <3>2 DEF Goto, Procs
      <4> QED
        BY <1>3, <1>6, <2>2, <3>2, <4>1, <4>2 DEF WheelProcess, Fresh
    <3>3. CASE j \notin ahead' \ ahead
      BY <1>4, <1>6, <2>2, <3>1, <3>3 DEF WheelProcess
    <3> QED
      BY <3>2, <3>3
  <2> QED
    BY <1>6, <2>1, <2>3, <2>4 DEF WheelProcess, ProcessStep, Start, HandlerReturns, HandlerRaises,
       Recheck, Complete, GetDependents, UnlockGet, UnlockDeps, Finish, ScheduleRetry, MoveToDlq
<1>7. ASSUME NEW i \in Jobs, WheelDue(i)
      PROVE  \/ at'[j] <= clock'
             \/ at'[j] = at[j] /\ clock' = clock /\ (j \in ahead => j \in ahead')
  BY <1>1, <1>7 DEF WheelDue, Due
<1>8. CASE Tick
  BY <1>1, <1>8 DEF Tick, vars
<1>9. ASSUME \A c \in Clients : ~WheelCreate(c), \A w \in Workers : ~WheelProcess(w),
             \A i \in Jobs : ~WheelDue(i), ~Tick
      PROVE  UNCHANGED <<at, clock, ahead>>
  BY <1>9 DEF WheelNext, WheelEnqueueStep, WheelEnqueue, Enqueue, EnqueueDeps, EnqueueLaterSave,
     EnqueueSave, WheelLaterZadd, WheelLaterSlot, WheelZadd, WheelDequeueStep, PromoteScan, PromoteGet,
     PromoteSave, WheelPromoteZrem, PromoteZrem, WheelPromoteZadd, AdvanceWheel, ZpopMin, SlotEmpty,
     DequeueGet, DequeueDeps, WheelRequeue, WheelAcquire, Acquire, AcquireLock, ReleaseLock,
     WheelCancelGet, CancelGet, WheelRemove, CancelRemove, CreateRegister, CancelSave, LockExpires,
     wheelVars
<1> QED
  BY <1>1, <1>2, <1>5, <1>6, <1>7, <1>8, <1>9

(* A slot is filled with an early job only by whoever aims at its instant. *)
LEMMA SlotOnTime ==
  ASSUME WInv, NEW j \in Jobs, OnTime(j), NEW p \in Procs, SlotStep(p), UNCHANGED history,
         p \in Workers /\ ZpopMin(p) => j \notin wheel[ProbedSlot(p)] \/ j \notin ahead
  PROVE  OnTime(j)'
<1>1. /\ TypeOK /\ WheelTypeOK /\ Sound /\ Known /\ Slotted
  BY DEF WInv, WheelTypeOK
<1>2. /\ Elsewhere(p) /\ UNCHANGED <<store, dependents, heap, ahead, todo>> /\ Created' = Created
  BY <1>1, SlotFrame DEF Created
<1>3. CASE j \notin ahead
  BY <1>2, <1>3 DEF OnTime
<1>4. CASE j \in ahead
  <2>1. /\ Patient(p, j) /\ store[j].future /\ heap[j] = 0 /\ sched[j] # "due" /\ NoDocument.id # j
    BY <1>1, <1>4, Docs DEF OnTime
  <2>2. sched'[j] # "due"
    BY <1>1, <2>1, SlotEffect, Docs DEF Patient
  <2>3. back[p] \in {"idle", "unlock_get", "recur", "tail", "release"}
    BY <1>1 DEF TypeOK
  <2>4. job'[p].id # j
    <3>1. CASE p \in Workers /\ ZpopMin(p)
      <4>1. PICK i \in wheel[ProbedSlot(p)] : job' = [job EXCEPT ![p] = Absent(i)]
        BY <3>1 DEF ZpopMin
      <4>2. i # j /\ i \in Jobs
        BY <1>1, <1>4, <3>1, <4>1, Probed DEF WheelTypeOK
      <4> QED
        BY <1>1, <4>1, <4>2, Docs
    <3>2. ASSUME ~(p \in Workers /\ ZpopMin(p)) PROVE job'[p] \in {job[p], NoDocument}
      BY <1>1, <3>2, Docs DEF SlotStep, WheelLaterZadd, WheelLaterSlot, WheelZadd, WheelPromoteZadd,
         WheelRequeue
    <3> QED
      BY <2>1, <3>1, <3>2 DEF Patient
  <2>5. arg'[p].id = j => /\ arg'[p] = arg[p]
                         /\ pc'[p] \notin {"enq_deps", "enq_zadd", "enq_save"} \cup MoveLabels
    BY <1>1, <2>1, <2>3, SlotEffect DEF Patient, MoveLabels
  <2>6. j \in todo'[p] => pc'[p] \notin PromoteLabels
    BY <1>1, <1>2, <2>1, <2>3, SlotEffect DEF Patient, PromoteLabels
  <2>7. Patient(p, j)'
    BY <2>1, <2>4, <2>5, <2>6 DEF Patient
  <2> QED
    BY <1>2, <1>4, <2>1, <2>2, <2>7, WaitsOn
<1> QED
  BY <1>3, <1>4

(* A brisk dequeue does not come to a slot before its second.              *)
LEMMA NotProbed ==
  ASSUME WInv, Probes, Brisk, \A d \in Waits : d + MaxLag + Reach < Slots,
         NEW j \in Jobs, Early(j), at[j] > clock, NEW w \in Workers, ZpopMin(w)
  PROVE  j \notin wheel[ProbedSlot(w)]
<1>1. PICK d \in Waits : at[j] <= clock + d
  BY DEF Early
<1>2. /\ at[j] \in Nat /\ clock \in Nat /\ d \in Nat /\ MaxLag \in Nat /\ Slots \in Nat
      /\ Reach \in Nat /\ seen[w] \in Nat
      /\ probe[w] # NoProbe /\ probe[w] \in 0 .. Reach
      /\ d + MaxLag + Reach < Slots
  BY <1>1, WheelAssumption DEF WInv, WheelTypeOK, ZpopMin, Procs
<1>3. seen[w] <= clock /\ clock <= seen[w] + MaxLag
  BY <1>2 DEF Probes, Brisk
<1>4. PICK t \in Int : t = seen[w] + Slots - probe[w]
  BY <1>2
<1>5. at[j] < t /\ t < at[j] + Slots
  BY <1>1, <1>2, <1>3, <1>4
<1>6. at[j] % Slots # t % Slots
  BY <1>2, <1>4, <1>5, WithinOneTurn
<1>7. ProbedSlot(w) = t % Slots /\ ProbedSlot(w) \in 0 .. Slots - 1
  BY <1>4, Probed DEF ProbedSlot, WInv
<1> QED
  BY <1>6, <1>7 DEF Early, Entries

(* One step of p on the wheel.                                             *)
WheelStepOf(p) ==
  \/ WheelEnqueueStep(p) /\ UNCHANGED history
  \/ p \in Workers /\ \/ WheelDequeueStep(p) /\ UNCHANGED history
                      \/ WheelAcquire(p) \/ WheelProcess(p)
                      \/ ReleaseLock(p) /\ UNCHANGED <<history, wheelVars>>
  \/ p \in Clients /\ \/ WheelCreate(p) \/ WheelCancelGet(p) \/ WheelRemove(p)
                      \/ (CreateRegister(p) \/ CancelSave(p)) /\ UNCHANGED wheelVars

(* It leaves the others alone, their cursors too.                          *)
LEMMA WheelApart ==
  ASSUME WInv, NEW p \in Procs, WheelStepOf(p)
  PROVE  /\ Elsewhere(p) /\ clock' = clock
         /\ \A q \in Procs \ {p} : seen'[q] = seen[q]
         /\ \A v \in Workers \ {p} : probe'[v] = probe[v]
<1>1. /\ TypeOK /\ Sound /\ seen \in [Procs -> Nat] /\ DOMAIN probe = Workers
  BY DEF WInv, WheelTypeOK
<1>2. \/ StepOf(p)
      \/ SlotStep(p) /\ UNCHANGED history
      \/ p \in Workers /\ (AdvanceWheel(p) \/ SlotEmpty(p))
  BY DEF WheelStepOf, StepOf, WorkerStep, Arrive, RequestStep, SlotStep, WheelEnqueueStep, WheelEnqueue,
     EnqueueStep, WheelDequeueStep, DequeueStep, WheelPromoteZrem, WheelAcquire, WheelProcess, WheelCreate,
     WheelCancelGet, WheelRemove, Procs
<1>3. p \in Workers /\ (AdvanceWheel(p) \/ SlotEmpty(p)) => Elsewhere(p)
  BY <1>1 DEF AdvanceWheel, SlotEmpty, Elsewhere, Goto, TypeOK
<1>4. Elsewhere(p)
  BY <1>1, <1>2, <1>3, Apart, SlotFrame
<1>5. clock' = clock
  BY DEF WheelStepOf, WheelEnqueueStep, WheelEnqueue, WheelLaterZadd, WheelLaterSlot, WheelZadd,
     WheelDequeueStep, WheelPromoteZrem, WheelPromoteZadd, AdvanceWheel, ZpopMin, SlotEmpty,
     WheelRequeue, WheelAcquire, WheelProcess, WheelCreate, WheelCancelGet, WheelRemove, wheelVars
<1>6. seen' = seen \/ \E x \in Nat : seen' = [seen EXCEPT ![p] = x]
  <2>1. /\ clock \in Nat /\ 0 \in Nat /\ \A x : ReadClock(x) => seen' = [seen EXCEPT ![x] = clock]
        /\ \A x : SlotUsed(x) => seen' = [seen EXCEPT ![x] = 0]
    BY WheelAssumption DEF ReadClock, SlotUsed, WInv, WheelTypeOK
  <2>2. CASE WheelEnqueue(p)
    <3>1. arg[p].id \in Jobs
      BY <1>1, <2>2 DEF WheelEnqueue, Enqueue, EnqueueDeps, Sound, Local, Carrying, EnqueueLabels
    <3> QED
      BY <2>1, <2>2, <3>1 DEF WheelEnqueue, WInv, WheelTypeOK
  <2> QED
    BY <2>1, <2>2 DEF WheelStepOf, WheelEnqueueStep, WheelLaterZadd, WheelLaterSlot, WheelZadd,
       WheelDequeueStep, WheelPromoteZrem, WheelPromoteZadd, AdvanceWheel, ZpopMin, SlotEmpty,
       WheelRequeue, WheelAcquire, WheelProcess, WheelCreate, WheelCancelGet, WheelRemove, wheelVars
<1>7. probe' = probe \/ \E x : probe' = [probe EXCEPT ![p] = x]
  BY DEF WheelStepOf, WheelEnqueueStep, WheelEnqueue, WheelLaterZadd, WheelLaterSlot, WheelZadd,
     WheelDequeueStep, WheelPromoteZrem, WheelPromoteZadd, AdvanceWheel, ZpopMin, SlotEmpty,
     WheelRequeue, WheelAcquire, WheelProcess, WheelCreate, WheelCancelGet, WheelRemove, wheelVars
<1> QED
  BY <1>1, <1>4, <1>5, <1>6, <1>7

(* p comes to aim at a slot only as enqueue sets out for it.               *)
LEMMA Aiming ==
  ASSUME WInv, NEW p \in Procs, WheelStepOf(p), pc'[p] \in AimLabels
  PROVE  /\ arg'[p] = arg[p]
         /\ \/ pc[p] \in AimLabels /\ seen'[p] = seen[p]
            \/ seen'[p] = at[arg[p].id]
<1>1. /\ TypeOK /\ pc \in [Procs -> Labels] /\ seen \in [Procs -> Nat]
      /\ back[p] \in {"idle", "unlock_get", "recur", "tail", "release"}
  BY DEF WInv, WheelTypeOK, TypeOK
<1> USE DEF Goto, AimLabels
<1>2. CASE WheelEnqueueStep(p)
  <2>1. CASE WheelEnqueue(p)
    BY <1>1, <2>1 DEF WheelEnqueue, Enqueue, EnqueueDeps, CheckDependencies, ReadMet, ReadUnmet, Return
  <2>2. CASE (EnqueueLaterSave(p) \/ EnqueueSave(p)) /\ UNCHANGED wheelVars
    BY <1>1, <2>2 DEF EnqueueLaterSave, EnqueueSave, Return, wheelVars
  <2>3. CASE WheelLaterZadd(p)
    BY <1>1, <2>3 DEF WheelLaterZadd, wheelVars
  <2>4. CASE WheelLaterSlot(p) \/ WheelZadd(p)
    BY <1>1, <2>4 DEF WheelLaterSlot, WheelZadd, Return
  <2> QED
    BY <1>2, <2>1, <2>2, <2>3, <2>4 DEF WheelEnqueueStep
<1>3. ~(p \in Workers /\ WheelDequeueStep(p))
  <2>1. ~(PromoteScan(p) \/ PromoteGet(p) \/ PromoteSave(p) \/ PromoteZrem(p))
    BY <1>1 DEF PromoteScan, PromoteGet, PromoteSave, PromoteZrem, NextDue
  <2>2. ~(WheelPromoteZadd(p) \/ AdvanceWheel(p) \/ ZpopMin(p) \/ SlotEmpty(p) \/ WheelRequeue(p))
    BY <1>1 DEF WheelPromoteZadd, AdvanceWheel, ZpopMin, SlotEmpty, WheelRequeue
  <2>3. ~(DequeueGet(p) \/ DequeueDeps(p))
    BY <1>1 DEF DequeueGet, DequeueDeps, CheckDependencies, ReadMet, ReadUnmet
  <2> QED
    BY <2>1, <2>2, <2>3 DEF WheelDequeueStep, WheelPromoteZrem
<1>4. ~(Acquire(p) \/ ProcessStep(p) \/ ReleaseLock(p))
  BY <1>1 DEF Acquire, AcquireLock, ReleaseLock, ProcessStep, Start, HandlerReturns, HandlerRaises,
     OnException, Recheck, Complete, GetDependents, UnlockGet, UnlockDeps, Recur, Finish, ScheduleRetry,
     MoveToDlq, NextDependent, CallEnqueue, CheckDependencies, ReadMet, ReadUnmet, Return
<1>5. ~(CreateSave(p) \/ CancelGet(p) \/ CancelRemove(p) \/ CreateRegister(p) \/ CancelSave(p))
  BY <1>1 DEF CreateSave, CallEnqueue, CancelGet, CancelRemove, CreateRegister, CancelSave
<1> QED
  BY <1>2, <1>3, <1>4, <1>5 DEF WheelStepOf, WheelAcquire, WheelProcess, WheelCreate, WheelCancelGet,
     WheelRemove

(* No dequeue comes to work ahead of the clock.                            *)
LEMMA ProbesStep ==
  ASSUME WInv, Probes, [WheelNext]_<<vars, wheelVars>>
  PROVE  Probes'
<1>1. /\ TypeOK /\ clock \in Nat /\ seen \in [Procs -> Nat]
      /\ probe \in [Workers -> 0 .. Reach \cup {NoProbe}]
      /\ pc \in [Procs -> Labels] /\ Workers \cap Clients = {}
  BY WheelAssumption, StoreAssumption DEF WInv, WheelTypeOK, TypeOK
<1>2. ASSUME NEW w \in Workers, WheelStepOf(w), probe'[w] # NoProbe
      PROVE  pc'[w] \in ProbeLabels /\ seen'[w] <= clock
  <2>1. w \in Procs /\ w \notin Clients /\ seen[w] \in Nat
    BY <1>1 DEF Procs
  <2> USE DEF Goto, ProbeLabels
  <2>2. ASSUME pc[w] \notin ProbeLabels, probe'[w] = probe[w] PROVE FALSE
    BY <1>2, <2>2 DEF Probes
  <2>3. ASSUME seen' = seen, probe[w] # NoProbe, pc'[w] \in ProbeLabels
        PROVE  pc'[w] \in ProbeLabels /\ seen'[w] <= clock
    BY <2>3 DEF Probes
  <2>4. CASE WheelEnqueueStep(w)
    <3>1. pc[w] \in EnqueueLabels /\ probe' = probe
      BY <2>4 DEF WheelEnqueueStep, WheelEnqueue, Enqueue, EnqueueDeps, EnqueueLaterSave, EnqueueSave,
         WheelLaterZadd, WheelLaterSlot, WheelZadd, EnqueueLabels, wheelVars
    <3> QED
      BY <2>2, <3>1 DEF EnqueueLabels
  <2>5. CASE PromoteScan(w) \/ PromoteGet(w) \/ PromoteSave(w) \/ WheelPromoteZrem(w) \/ WheelPromoteZadd(w)
    <3>1. pc[w] \notin ProbeLabels
      BY <2>5 DEF PromoteScan, PromoteGet, PromoteSave, WheelPromoteZrem, PromoteZrem, WheelPromoteZadd
    <3>2. probe' = probe
      BY <1>2, <2>1, <2>5, <3>1 DEF WheelStepOf, WheelEnqueueStep, WheelEnqueue, WheelLaterZadd, WheelLaterSlot,
         WheelZadd, WheelDequeueStep, WheelPromoteZrem, WheelPromoteZadd, AdvanceWheel, ZpopMin, SlotEmpty,
         WheelRequeue, WheelAcquire, Acquire, AcquireLock, WheelProcess, wheelVars
    <3> QED
      BY <2>2, <3>1, <3>2
  <2>6. CASE AdvanceWheel(w)
    BY <1>1, <2>1, <2>6 DEF AdvanceWheel, ReadClock
  <2>7. CASE ZpopMin(w)
    <3>1. seen' = seen /\ probe[w] # NoProbe /\ pc'[w] = "get"
      BY <1>1, <2>1, <2>7 DEF ZpopMin
    <3> QED
      BY <2>3, <3>1
  <2>8. CASE SlotEmpty(w)
    <3>1. seen' = seen /\ probe[w] # NoProbe /\ pc' = pc /\ pc[w] = "pop"
      BY <1>1, <1>2, <2>1, <2>8 DEF SlotEmpty
    <3> QED
      BY <2>3, <3>1
  <2>9. CASE (DequeueGet(w) \/ DequeueDeps(w)) /\ UNCHANGED wheelVars
    <3>1. seen' = seen /\ probe' = probe /\ pc'[w] \in {"pop", "deps", "lock", "requeue"}
      BY <1>1, <2>1, <2>9 DEF DequeueGet, DequeueDeps, CheckDependencies, ReadMet, ReadUnmet, wheelVars
    <3> QED
      BY <1>2, <2>3, <3>1
  <2>10. CASE WheelRequeue(w)
    <3>1. seen' = seen /\ probe' = probe /\ pc'[w] = "pop"
      BY <1>1, <2>1, <2>10 DEF WheelRequeue
    <3> QED
      BY <1>2, <2>3, <3>1
  <2>11. CASE WheelAcquire(w)
    <3>1. CASE lock[job[w].id] /\ UNCHANGED <<probe, seen>>
      <4>1. pc'[w] = "contended"
        BY <1>1, <2>1, <2>11, <3>1 DEF WheelAcquire, Acquire, AcquireLock
      <4> QED
        BY <1>2, <2>3, <3>1, <4>1
    <3>2. CASE probe' = [probe EXCEPT ![w] = NoProbe]
      BY <1>1, <1>2, <3>2
    <3> QED
      BY <2>11, <3>1, <3>2 DEF WheelAcquire
  <2>12. CASE WheelProcess(w) \/ (ReleaseLock(w) /\ UNCHANGED wheelVars)
    <3>1. probe' = probe /\ pc[w] \notin ProbeLabels
      BY <2>12 DEF WheelProcess, wheelVars, ReleaseLock, ProcessStep, Start, HandlerReturns, HandlerRaises,
         Recheck, Complete, GetDependents, UnlockGet, UnlockDeps, Recur, Finish, ScheduleRetry, MoveToDlq
    <3> QED
      BY <2>2, <3>1
  <2> QED
    BY <1>2, <2>1, <2>4, <2>5, <2>6, <2>7, <2>8, <2>9, <2>10, <2>11, <2>12 DEF WheelStepOf, WheelDequeueStep
<1>3. ASSUME NEW p \in Procs, WheelStepOf(p) PROVE Probes'
  <2>1. /\ Elsewhere(p) /\ clock' = clock
        /\ \A q \in Procs \ {p} : seen'[q] = seen[q]
        /\ \A v \in Workers \ {p} : probe'[v] = probe[v]
    BY <1>3, WheelApart
  <2> QED
    BY <1>2, <1>3, <2>1 DEF Probes, Elsewhere, Procs
<1>4. ASSUME NEW j \in Jobs, WheelDue(j) \/ (LockExpires(j) /\ UNCHANGED wheelVars) PROVE Probes'
  BY <1>4 DEF WheelDue, Due, LockExpires, wheelVars, Probes
<1>5. CASE Tick
  BY <1>1, <1>5 DEF Tick, Probes, vars, Procs
<1>6. CASE UNCHANGED <<vars, wheelVars>>
  BY <1>6 DEF Probes, vars, wheelVars
<1> QED
  BY <1>3, <1>4, <1>5, <1>6 DEF WheelNext, WheelStepOf, Procs

(* Every step keeps jobs whose second is to come out of the slots probed.  *)
LEMMA EarlyStep ==
  ASSUME MaxRetries = 0, \A d \in Waits : d + MaxLag + Reach < Slots,
         WInv, Probes, Brisk, NEW j \in Jobs, Early(j), WheelNext
  PROVE  Early(j)'
<1>1. /\ TypeOK /\ WheelTypeOK /\ Sound /\ Known /\ Moving /\ Heapless /\ Slotted
      /\ at[j] \in Nat /\ clock \in Nat /\ Waits \subseteq Nat
  BY WheelAssumption DEF WInv, WheelTypeOK
<1>2. CASE at'[j] <= clock'
  <2>1. at'[j] \in Nat /\ clock' \in Nat
    BY <1>1, WheelTypes
  <2> QED
    BY <1>2, <2>1 DEF Early
<1>3. ASSUME OnTime(j),
             \A w \in Workers : ZpopMin(w) => j \notin wheel[ProbedSlot(w)] \/ j \notin ahead
      PROVE  OnTime(j)'
  BY <1>1, <1>3, Shared, StepWaits, SlotOnTime
<1>4. CASE Fresh(j)
  <2>1. OnTime(j)'
    BY <1>3, <1>4 DEF Fresh, OnTime
  <2>2. Entries(j)'
    BY <1>1, <1>4 DEF Fresh, Entries, Slotted
  <2>3. PICK p \in Procs : pc'[p] \in {"enqueue", "register"} /\ Elsewhere(p)
    BY <1>4 DEF Fresh
  <2>4. \A q \in Procs : arg[q].id # j
    BY <1>1, <1>4 DEF Known, Has, Fresh
  <2>5. \A q \in Procs : Aimed(q, j)'
    BY <2>3, <2>4 DEF Aimed, AimLabels, Elsewhere
  <2> QED
    BY <1>4, <2>1, <2>2, <2>5 DEF Early, Fresh
<1>5. CASE /\ at'[j] = at[j] /\ clock <= clock'
           /\ j \in ahead /\ at[j] > clock => j \in ahead'
  <2> SUFFICES ASSUME at'[j] > clock' PROVE Early(j)'
    BY DEF Early
  <2>1. at[j] > clock
    <3>1. clock' \in Nat
      BY <1>1, WheelTypes
    <3> QED
      BY <1>1, <1>5, <3>1
  <2>2. /\ j \in ahead /\ j \in ahead' /\ OnTime(j) /\ Entries(j)
        /\ \A p \in Procs : Aimed(p, j)
    BY <1>5, <2>1 DEF Early
  <2>3. OnTime(j)'
    BY <1>3, <2>1, <2>2, NotProbed
  <2>4. \E d \in Waits : at'[j] <= clock' + d
    <3>1. clock' \in Nat
      BY <1>1, WheelTypes
    <3>2. PICK d \in Waits : at[j] <= clock + d
      BY <2>1 DEF Early
    <3>3. at'[j] <= clock' + d
      BY <1>1, <1>5, <3>1, <3>2
    <3> QED
      BY <3>3
  <2>5. Entries(j)'
    <3>1. wheel \in [0 .. Slots - 1 -> SUBSET Jobs]
      BY <1>1 DEF WheelTypeOK
    <3>2. CASE Drains
      BY <1>5, <2>2, <3>2 DEF Drains, Entries
    <3>3. ASSUME NEW i, NEW t, Insert(i, t), i = j => t = at[j] PROVE Entries(j)'
      BY <1>5, <2>2, <3>1, <3>3 DEF Insert, Entries
    <3>4. ASSUME NEW p \in Procs, Fills(p) PROVE Entries(j)'
      <4>1. Patient(p, j) /\ Aimed(p, j)
        BY <2>2 DEF OnTime
      <4> QED
        BY <3>3, <3>4, <4>1 DEF Fills, Patient, MoveLabels, Aimed, AimLabels
    <3> QED
      BY <1>1, <3>2, <3>4, WheelTraffic
  <2>6. \A p \in Procs : Aimed(p, j)'
    <3>1. ASSUME NEW p \in Procs, WheelStepOf(p) PROVE \A q \in Procs : Aimed(q, j)'
      <4>1. Aimed(p, j)'
        BY <1>5, <2>2, <3>1, Aiming DEF Aimed
      <4>2. ASSUME NEW q \in Procs \ {p} PROVE Aimed(q, j)'
        BY <1>5, <2>2, <3>1, WheelApart DEF Aimed, Elsewhere
      <4> QED
        BY <4>1, <4>2
    <3>2. ASSUME NEW i \in Jobs, WheelDue(i) \/ (LockExpires(i) /\ UNCHANGED wheelVars)
          PROVE  \A q \in Procs : Aimed(q, j)'
      <4>1. pc' = pc /\ seen' = seen /\ \A q \in Procs : arg'[q].id = arg[q].id
        BY <1>1, <3>2, DueDocuments DEF WheelDue, Due, LockExpires, wheelVars
      <4> QED
        BY <1>5, <2>2, <4>1 DEF Aimed
    <3>3. CASE Tick
      BY <1>5, <2>2, <3>3 DEF Tick, Aimed, vars
    <3> QED
      BY <3>1, <3>2, <3>3 DEF WheelNext, WheelStepOf, Procs
  <2> QED
    BY <2>2, <2>3, <2>4, <2>5, <2>6 DEF Early
<1> QED
  BY <1>2, <1>4, <1>5, Instants

(* docs/architecture.md, section 4.1, on the wheel: as long as every wait  *)
(* is shorter than a turn of the wheel, less the slots a dequeue looks     *)
(* back on and the time it takes, no job runs before the second of its     *)
(* scheduled_at.  With a longer wait it does, and so may a retry; it also  *)
(* does once a dequeue spins longer than that, which nothing in its loop   *)
(* rules out: hence Brisk, in SecondsKept.                                 *)
THEOREM SecondsAreKept ==
  ASSUME MaxRetries = 0, \A d \in Waits : d + MaxLag + Reach < Slots
  PROVE  WheelSpec => SecondsKept
<1> DEFINE AllEarly == \A j \in Jobs : Early(j)
<1>1. WheelInit => Probes /\ AllEarly
  <2>1. \A j \in Jobs : ~(0 > 0)
    OBVIOUS
  <2> QED
    BY <2>1 DEF WheelInit, Probes, Early
<1>2. WInv /\ Brisk /\ Probes /\ AllEarly /\ [WheelNext]_<<vars, wheelVars>> => (Probes /\ AllEarly)'
  <2>1. WInv /\ Brisk /\ Probes /\ AllEarly /\ WheelNext => AllEarly'
    BY EarlyStep
  <2>2. AllEarly /\ UNCHANGED <<vars, wheelVars>> => AllEarly'
    BY DEF vars, wheelVars, Early, OnTime, Patient, Entries, Aimed, Created
  <2> QED
    BY <2>1, <2>2, ProbesStep
<1>3. WInv /\ AllEarly => NotBeforeSecond
  <2> SUFFICES ASSUME WInv, AllEarly, NEW w \in Workers, pc[w] = "start"
               PROVE  at[job[w].id] <= clock
    BY DEF NotBeforeSecond
  <2>1. job[w].id \in Jobs /\ at[job[w].id] \in Nat /\ clock \in Nat
    <3>1. Local(w) /\ Holding(w)
      BY DEF WInv, Sound, Holding, Procs
    <3> QED
      BY <3>1, WheelAssumption DEF WInv, WheelTypeOK, Local
  <2>2. PICK j \in Jobs : j = job[w].id
    BY <2>1
  <2>3. ~(at[j] > clock)
    BY <2>2 DEF Early, OnTime, Patient, Procs
  <2> QED
    BY <2>1, <2>2, <2>3
<1> QED
  BY <1>1, <1>2, <1>3, WheelAlways, PTL DEF WheelSpec, SecondsKept

(***************************************************************************)
(* No entry is lost between the slots.                                     *)
(***************************************************************************)
RequestLabels == {"cancel_save", "cancel_remove"}

QueueLabels == EnqueueLabels \cup {"register", "unlock_deps"}

HandLabels == QueueLabels \cup MoveLabels \cup RequestLabels

InSlot(j) == \E n \in 0 .. Slots - 1 : j \in wheel[n]

(* j has reached a slot: it still is in one, or a worker took it out, or   *)
(* it need not be in any more.                                             *)
Noticed(j) ==
  \/ InSlot(j)
  \/ j \in started \cup asked
  \/ \E w \in Workers : job[w].id = j

(* j is on its way to a slot.                                              *)
Coming(j) == sched[j] # "out" \/ \E p \in Procs : arg[p].id = j \/ j \in todo[p]

(* A parent of j is still to complete, or to announce it, or never will.   *)
Blocked(j) ==
  \E d \in DependsOn[j] :
    \/ d \in asked
    \/ store[d].status # "completed"
    \/ \E w \in Workers : pc[w] = "dependents" /\ job[w].id = d

(* The parents of j know it from its registration on.                      *)
Introduced(j) ==
  \/ \A d \in DependsOn[j] : j \in dependents[d]
  \/ \E c \in Clients : pc[c] = "register" /\ arg[c].id = j

(* No job is forgotten, and none but a job that reached a slot says that   *)
(* it has been worked on.                                                  *)
Accounted(j) ==
  /\ j \in Created => Introduced(j) /\ (Noticed(j) \/ Coming(j) \/ Blocked(j))
  /\ ~Noticed(j) => store[j].status \in {"absent", "pending"}
  /\ store[j].status = "cancelled" => j \in asked
  /\ \A k \in dependents[j] : j \in DependsOn[k]

(* What p has in its hands, and why it may drop it.                        *)
Hands(p) ==
  /\ arg[p].id \in Jobs <=> pc[p] \in HandLabels
  /\ pc[p] \in QueueLabels => arg[p].status = "pending"
  /\ pc[p] \in RequestLabels \/ arg[p].status = "cancelled" => arg[p].id \in asked
  /\ pc[p] \in {"enq_save", "promote_save"} => Noticed(arg[p].id)
  /\ pc[p] \in {"enq_deps", "unlock_deps"} => need[p] \subseteq DependsOn[arg[p].id]
  /\ todo[p] # {} => pc[p] \in PromoteLabels \cup {"unlock_get"} \/ back[p] = "unlock_get"
  /\ pc[p] \notin PromoteLabels => \A j \in todo[p] : DependsOn[j] # {}
  /\ back[p] = "unlock_get" => pc[p] \in EnqueueLabels \cup {"unlock_deps"}
  /\ p \in Workers =>
       /\ pc[p] \in EnqueueLabels \cup {"unlock_deps"} => back[p] # "idle"
       /\ pc[p] \in {"idle", "pop"} \cup PromoteLabels => job[p].id \notin Jobs
       /\ Executing(p) /\ pc[p] # "start" => job[p].id \in started

(* A promotion that writes a success back writes nothing new.              *)
Loyal ==
  \A w \in Workers :
    pc[w] \in MoveLabels /\ arg[w].status = "completed" =>
      \/ arg[w].id \in asked
      \/ store[arg[w].id].status = "completed"
      \/ \A j \in Jobs : arg[w].id \notin DependsOn[j]

Booked == Loyal /\ (\A j \in Jobs : Accounted(j)) /\ \A p \in Procs : Hands(p)

(***************************************************************************)
(* One step of p.                                                          *)
(***************************************************************************)
(* Nothing is lost on its way ...                                          *)
Carries(p) ==
  /\ started \subseteq started' /\ asked \subseteq asked'
  /\ \A j \in Jobs : Noticed(j) => Noticed(j)'
  /\ \A j \in Jobs : sched[j] # "out" \/ arg[p].id = j \/ j \in todo[p]
                       => Noticed(j)' \/ Coming(j)' \/ Blocked(j)
  /\ p \in Workers /\ pc[p] = "dependents" => todo'[p] = dependents[job[p].id]

(* ... nor in the documents.                                               *)
Records(p) ==
  \A j \in Jobs :
    /\ store'[j].status = "completed" =>
         \/ store[j].status = "completed" \/ j \in asked
         \/ p \in Workers /\ pc'[p] = "dependents" /\ job'[p].id = j
         \/ \A k \in Jobs : j \notin DependsOn[k]
    /\ ~Noticed(j)' => store'[j].status \in {store[j].status, "pending"}
    /\ store'[j].status = "cancelled" => store[j].status = "cancelled" \/ j \in asked
    /\ j \in Created' =>
         \/ j \in Created
         \/ arg'[p].id = j /\ (DependsOn[j] = {} \/ (p \in Clients /\ pc'[p] = "register"))
    /\ dependents[j] \subseteq dependents'[j]
    /\ \A k \in dependents'[j] : k \in dependents[j] \/ j \in DependsOn[k]
    /\ pc[p] = "register" /\ arg[p].id = j => \A d \in DependsOn[j] : j \in dependents'[d]

(* What the others have in their hands is not disturbed.                   *)
LEMMA OthersHold ==
  ASSUME NEW p \in Procs, NEW q \in Procs \ {p}, Hands(q), Elsewhere(p), need'[q] = need[q],
         started \subseteq started', asked \subseteq asked',
         \A j \in Jobs : Noticed(j) => Noticed(j)'
  PROVE  Hands(q)'
<1>1. /\ pc'[q] = pc[q] /\ back'[q] = back[q] /\ need'[q] = need[q]
      /\ job'[q] = job[q] /\ arg'[q] = arg[q] /\ todo'[q] = todo[q]
  BY DEF Elsewhere
<1>2. (pc[q] \in {"enq_save", "promote_save"} => Noticed(arg[q].id))'
  <2>1. PICK i : i = arg[q].id
    OBVIOUS
  <2>2. pc[q] \in {"enq_save", "promote_save"} => i \in Jobs /\ Noticed(i)
    BY <2>1 DEF Hands, HandLabels, QueueLabels, EnqueueLabels, MoveLabels
  <2>3. pc[q] \in {"enq_save", "promote_save"} => Noticed(i)'
    BY <2>2
  <2> QED
    BY <1>1, <2>1, <2>3 DEF Noticed, InSlot
<1>3. Executing(q)' <=> Executing(q)
  BY <1>1 DEF Executing
<1> QED
  BY <1>1, <1>2, <1>3 DEF Hands

(* The account is kept.                                                    *)
LEMMA BookStays ==
  ASSUME WInv, Booked, NEW p \in Procs, Elsewhere(p), Carries(p), Records(p),
         NEW j \in Jobs
  PROVE  Accounted(j)'
<1>1. Accounted(j)
  BY DEF Booked
<1>2. /\ \A q \in Procs \ {p} : arg'[q] = arg[q] /\ pc'[q] = pc[q] /\ todo'[q] = todo[q] /\ job'[q] = job[q]
      /\ Workers \subseteq Procs /\ Clients \subseteq Procs /\ DependsOn[j] \subseteq Jobs
      /\ Workers \cap Clients = {}
  BY StoreAssumption DEF Elsewhere, Procs
<1>3. ASSUME j \in Created'
      PROVE  Introduced(j)'
  <2>1. CASE j \notin Created
    BY <1>2, <1>3, <2>1 DEF Records, Introduced
  <2>2. CASE \A d \in DependsOn[j] : j \in dependents[d]
    BY <1>2, <2>2 DEF Records, Introduced
  <2>3. ASSUME NEW c \in Clients, pc[c] = "register", arg[c].id = j PROVE Introduced(j)'
    BY <1>2, <2>3 DEF Records, Introduced
  <2> QED
    BY <1>1, <2>1, <2>2, <2>3 DEF Accounted, Introduced
<1>4. ASSUME j \in Created', ~Noticed(j)', ~Coming(j)'
      PROVE  Blocked(j)'
  <2>1. j \in Created
    BY <1>3, <1>4 DEF Records, Coming
  <2>2. Introduced(j) /\ (Coming(j) \/ Blocked(j))
    BY <1>1, <1>4, <2>1 DEF Accounted, Carries
  <2>3. Coming(j) => Blocked(j)
    BY <1>2, <1>4 DEF Coming, Carries
  <2>4. PICK d \in DependsOn[j] :
          \/ d \in asked
          \/ store[d].status # "completed"
          \/ \E w \in Workers : pc[w] = "dependents" /\ job[w].id = d
    BY <2>2, <2>3 DEF Blocked
  <2>5. CASE d \in asked
    BY <2>5 DEF Carries, Blocked
  <2>6. CASE store[d].status # "completed"
    BY <1>2, <2>6 DEF Records, Carries, Blocked
  <2>7. ASSUME NEW w \in Workers, pc[w] = "dependents", job[w].id = d PROVE Blocked(j)'
    <3>1. CASE w = p
      <4>1. j \notin dependents[d]
        BY <1>2, <1>4, <2>7, <3>1 DEF Carries, Coming
      <4>2. PICK c \in Clients : pc[c] = "register" /\ arg[c].id = j
        BY <2>2, <4>1 DEF Introduced
      <4> QED
        BY <1>2, <1>4, <3>1, <4>2 DEF Coming
    <3>2. CASE w # p
      BY <1>2, <2>7, <3>2 DEF Blocked
    <3> QED
      BY <3>1, <3>2
  <2> QED
    BY <2>4, <2>5, <2>6, <2>7
<1>5. ~Noticed(j)' => store'[j].status \in {"absent", "pending"}
  BY <1>1 DEF Accounted, Carries, Records
<1>6. store'[j].status = "cancelled" => j \in asked'
  BY <1>1 DEF Accounted, Carries, Records
<1>7. \A k \in dependents'[j] : j \in DependsOn[k]
  BY <1>1 DEF Accounted, Records
<1> QED
  BY <1>3, <1>4, <1>5, <1>6, <1>7 DEF Accounted

(***************************************************************************)
(* The documents written back by a promotion.                              *)
(***************************************************************************)
(* p is on its way to put j into a slot.                                   *)
Queueing(p, j) == pc[p] \in QueueLabels \ {"enq_slot"} /\ arg[p].id = j

(* Meanwhile nobody else has j in hand, except to cancel it.               *)
Singular(j) ==
  \A p \in Procs :
    Queueing(p, j) =>
      /\ sched[j] = "out"
      /\ \A q \in Procs : j \notin todo[q]
      /\ \A q \in Procs \ {p} : arg[q].id = j => pc[q] \in RequestLabels

(* What a step does with a job that has no parents.                        *)
Lone(p) ==
  /\ \A j \in Jobs : DependsOn[j] = {} =>
       /\ Queueing(p, j)' => Queueing(p, j) \/ j \notin Created
       /\ sched'[j] # "out" =>
            sched[j] # "out" \/ (pc[p] = "enq_sched" /\ arg[p].id = j /\ pc'[p] = "enq_slot")
       /\ j \in todo'[p] => j \in todo[p] \/ sched[j] # "out"
       /\ arg'[p].id = j /\ pc'[p] \notin RequestLabels =>
            \/ arg[p].id = j /\ pc[p] \notin RequestLabels
            \/ j \in todo[p] \/ j \notin Created
       /\ store'[j].status # store[j].status =>
            j \in asked \/ Queueing(p, j) \/ p \in Workers \/ j \notin Created
  /\ pc'[p] \in MoveLabels =>
       /\ store' = store
       /\ \/ pc[p] \in MoveLabels /\ arg'[p].id = arg[p].id /\ arg'[p].status = arg[p].status
          \/ arg'[p].status = store[arg'[p].id].status

(* It stays the only one.                                                  *)
LEMMA SingularStays ==
  ASSUME WInv, NEW j \in Jobs, DependsOn[j] = {}, Singular(j), NEW p \in Procs, Elsewhere(p), Lone(p)
  PROVE  Singular(j)'
<1>1. /\ \A q \in Procs \ {p} : pc'[q] = pc[q] /\ arg'[q] = arg[q] /\ todo'[q] = todo[q]
      /\ "enq_sched" \in QueueLabels \ {"enq_slot"} /\ "enq_sched" \notin RequestLabels
  BY DEF Elsewhere, QueueLabels, EnqueueLabels, RequestLabels
<1>2. ASSUME j \notin Created
      PROVE  sched[j] = "out" /\ \A q \in Procs : arg[q].id # j /\ j \notin todo[q]
  BY <1>2 DEF WInv, Known, Has
<1>3. ASSUME NEW q \in Procs \ {p}, Queueing(q, j)' PROVE Queueing(q, j)
  BY <1>1, <1>3 DEF Queueing
<1>4. ASSUME NEW q \in Procs, Queueing(q, j)'
      PROVE  /\ sched[j] = "out" /\ sched'[j] = "out"
             /\ \A r \in Procs : j \notin todo[r] /\ j \notin todo'[r]
             /\ \A r \in Procs \ {q} : arg'[r].id = j => pc'[r] \in RequestLabels
  <2>1. CASE q # p
    <3>1. /\ Queueing(q, j) /\ q \in Procs \ {p} /\ p \in Procs \ {q}
      BY <1>3, <1>4, <2>1
    <3>2. j \in Created /\ sched[j] = "out" /\ (\A r \in Procs : j \notin todo[r])
          /\ \A r \in Procs \ {q} : arg[r].id = j => pc[r] \in RequestLabels
      BY <1>2, <3>1 DEF Singular, Queueing
    <3>3. sched'[j] = "out"
      BY <1>1, <3>1, <3>2 DEF Lone
    <3>4. j \notin todo'[p] /\ (arg'[p].id = j => pc'[p] \in RequestLabels)
      BY <3>1, <3>2 DEF Lone
    <3> QED
      BY <1>1, <3>2, <3>3, <3>4
  <2>2. CASE q = p
    <3>1. Queueing(p, j) \/ j \notin Created
      BY <1>4, <2>2 DEF Lone
    <3>2. /\ sched[j] = "out" /\ (\A r \in Procs : j \notin todo[r])
          /\ \A r \in Procs \ {p} : arg[r].id = j => pc[r] \in RequestLabels
      BY <1>2, <3>1 DEF Singular
    <3>3. pc'[p] # "enq_slot"
      BY <1>4, <2>2 DEF Queueing
    <3>4. sched'[j] = "out" /\ j \notin todo'[p]
      BY <3>2, <3>3 DEF Lone
    <3> QED
      BY <1>1, <2>2, <3>2, <3>4
  <2> QED
    BY <2>1, <2>2
<1> QED
  BY <1>4 DEF Singular

(* So the only worker there is promotes what it read.                      *)
LEMMA LoyalStays ==
  ASSUME WInv, Loyal, \A v, w \in Workers : v = w,
         \A j \in Jobs : \A d \in DependsOn[j] : DependsOn[d] = {} /\ Singular(d),
         NEW p \in Procs, Elsewhere(p), Lone(p), asked \subseteq asked'
  PROVE  Loyal'
<1> SUFFICES ASSUME NEW w \in Workers, NEW j \in Jobs, NEW d \in DependsOn[j],
                    pc'[w] \in MoveLabels, arg'[w].status = "completed", arg'[w].id = d
             PROVE  d \in asked' \/ store'[d].status = "completed"
  BY DEF Loyal
<1>1. d \in Jobs /\ w \in Procs /\ DependsOn[d] = {} /\ Singular(d)
  BY StoreAssumption DEF Procs
<1>2. CASE w = p
  BY <1>1, <1>2 DEF Lone, Loyal
<1>3. CASE w # p
  <2>1. pc[w] \in MoveLabels /\ arg[w].status = "completed" /\ arg[w].id = d /\ p \notin Workers
    BY <1>1, <1>3 DEF Elsewhere
  <2>2. d \in Created /\ pc[w] \notin RequestLabels
    BY <1>1, <2>1 DEF WInv, Known, Has, MoveLabels, RequestLabels
  <2>3. ~Queueing(p, d)
    BY <1>1, <1>3, <2>1, <2>2 DEF Singular
  <2>4. d \in asked \/ store'[d].status = store[d].status
    BY <1>1, <2>1, <2>2, <2>3 DEF Lone
  <2> QED
    BY <2>1, <2>4 DEF Loyal
<1> QED
  BY <1>2, <1>3

(***************************************************************************)
(* What each kind of step does, in short.                                  *)
(***************************************************************************)
Proper(p) == Hands(p)' /\ Carries(p) /\ Records(p) /\ Lone(p)

(* The labels and documents in the hands of p.                             *)
LEMMA Ours ==
  ASSUME WInv, Booked, NEW p \in Procs
  PROVE  /\ Hands(p) /\ Has(p) /\ Local(p) /\ Loyal /\ WheelTypeOK /\ TypeOK /\ Sound /\ Known
         /\ \A j \in Jobs : Accounted(j)
         /\ back[p] \in {"idle", "unlock_get", "recur", "tail", "release"}
         /\ pc[p] \in Labels
         /\ pc \in [Procs -> Labels] /\ need \in [Procs -> SUBSET Jobs] /\ DOMAIN back = Procs
         /\ started \subseteq Jobs /\ asked \subseteq Jobs
         /\ wheel \in [0 .. Slots - 1 -> SUBSET Jobs]
         /\ seen \in [Procs -> Nat] /\ DOMAIN at = Jobs
         /\ sched \in [Jobs -> {"out", "future", "due"}]
         /\ \A j \in Jobs : DependsOn[j] \subseteq Jobs
         /\ p \in Workers \/ p \in Clients
BY StoreAssumption DEF WInv, WheelTypeOK, TypeOK, Booked, Sound, Known, Procs

(* What is enough to carry everything on.                                  *)
LEMMA Stays ==
  ASSUME NEW p \in Procs, Elsewhere(p), started \subseteq started', asked \subseteq asked',
         \A j \in Jobs :
           /\ InSlot(j) => InSlot(j)' \/ j \in asked' \/ (p \in Workers /\ job'[p].id = j)
           /\ p \in Workers /\ job[p].id = j =>
                job'[p].id = j \/ j \in started' \cup asked' \/ InSlot(j)'
           /\ sched[j] # "out" \/ arg[p].id = j \/ j \in todo[p] =>
                \/ sched'[j] # "out" \/ arg'[p].id = j \/ j \in todo'[p]
                \/ Noticed(j) \/ j \in asked' \/ InSlot(j)' \/ Blocked(j),
         p \in Workers /\ pc[p] = "dependents" => todo'[p] = dependents[job[p].id]
  PROVE  Carries(p)
<1>1. ASSUME NEW j \in Jobs, Noticed(j) PROVE Noticed(j)'
  <2>1. CASE InSlot(j) \/ j \in started \cup asked
    BY <2>1 DEF Noticed
  <2>2. ASSUME NEW w \in Workers, job[w].id = j PROVE Noticed(j)'
    <3>1. w # p => job'[w] = job[w]
      BY DEF Elsewhere, Procs
    <3> QED
      BY <2>2, <3>1 DEF Noticed
  <2> QED
    BY <1>1, <2>1, <2>2 DEF Noticed
<1>2. ASSUME NEW j \in Jobs, sched[j] # "out" \/ arg[p].id = j \/ j \in todo[p]
      PROVE  Noticed(j)' \/ Coming(j)' \/ Blocked(j)
  BY <1>1, <1>2 DEF Coming, Noticed
<1> QED
  BY <1>1, <1>2 DEF Carries

(* Most steps touch no slot.                                               *)
LEMMA Leaves ==
  ASSUME NEW p \in Procs, Elsewhere(p), UNCHANGED <<wheel, sched>>,
         started \subseteq started', asked \subseteq asked',
         job'[p].id = job[p].id, pc[p] # "dependents",
         \A j \in Jobs : arg[p].id = j \/ j \in todo[p] =>
           arg'[p].id = j \/ j \in todo'[p] \/ Noticed(j) \/ Blocked(j)
  PROVE  Carries(p)
<1>1. \A j \in Jobs : InSlot(j)' <=> InSlot(j)
  BY DEF InSlot
<1> QED
  BY <1>1, Stays

(* Most steps write no document ...                                        *)
LEMMA Unwritten ==
  ASSUME NEW p \in Procs, UNCHANGED <<store, dependents>>, pc[p] # "register"
  PROVE  Records(p)
BY DEF Records, Created

(* ... and the others write one.                                           *)
LEMMA Written ==
  ASSUME WInv, NEW p \in Procs, NEW d, SaveJob(d), dependents' = dependents, pc[p] # "register",
         d.id \in Jobs,
         d.status = "completed" =>
           \/ store[d.id].status = "completed" \/ d.id \in asked
           \/ p \in Workers /\ pc'[p] = "dependents" /\ job'[p].id = d.id
           \/ \A k \in Jobs : d.id \notin DependsOn[k],
         \A j \in Jobs : j = d.id /\ ~Noticed(j)' => d.status = "pending",
         d.status = "cancelled" => d.id \in asked,
         d.id \notin Created =>
           arg'[p].id = d.id /\ (DependsOn[d.id] = {} \/ (p \in Clients /\ pc'[p] = "register"))
  PROVE  Records(p)
<1>1. store \in [Jobs -> Document]
  BY DEF WInv, WheelTypeOK, TypeOK
<1>2. \A j \in Jobs : store'[j] = IF j = d.id THEN d ELSE store[j]
  BY <1>1 DEF SaveJob
<1> QED
  BY <1>2 DEF Records, Created

(* Most steps bring nothing new into the hands of p.                       *)
LEMMA NothingNew ==
  ASSUME WInv, Booked, NEW p \in Procs,
         arg'[p].id \in Jobs =>
           /\ arg'[p].id = arg[p].id
           /\ pc'[p] \notin RequestLabels => pc[p] \notin RequestLabels
           /\ pc'[p] \in QueueLabels \ {"enq_slot"} => pc[p] \in QueueLabels \ {"enq_slot"},
         todo'[p] \subseteq todo[p],
         \A j \in Jobs : sched'[j] \in {sched[j], "out"},
         pc'[p] \notin MoveLabels,
         \/ store' = store \/ p \in Workers
         \/ SaveJob(arg[p]) /\ (pc[p] \in QueueLabels \ {"enq_slot"} \/ arg[p].id \in asked)
  PROVE  Lone(p)
<1>1. store \in [Jobs -> Document]
  BY DEF WInv, WheelTypeOK, TypeOK
<1>2. ASSUME NEW j \in Jobs, store'[j].status # store[j].status
      PROVE  j \in asked \/ Queueing(p, j) \/ p \in Workers
  BY <1>1, <1>2 DEF SaveJob, Queueing
<1> QED
  BY <1>2 DEF Lone, Queueing

(* Back to the caller of enqueue.                                          *)
LEMMA ReturnHolds ==
  ASSUME WInv, Booked, NEW p \in Procs, pc[p] \in EnqueueLabels \cup {"unlock_deps"},
         pc'[p] = back[p], back'[p] = "idle", arg'[p] = NoDocument,
         UNCHANGED <<job, todo, started>>
  PROVE  Hands(p)'
<1>1. /\ Hands(p) /\ pc'[p] \in {"idle", "unlock_get", "recur", "tail", "release"}
      /\ NoDocument.id \notin Jobs /\ NoDocument.status = "absent"
  BY Ours, Docs
<1>2. /\ pc'[p] \notin HandLabels /\ pc'[p] \notin QueueLabels /\ pc'[p] \notin PromoteLabels
      /\ pc'[p] \notin RequestLabels
      /\ pc'[p] \notin {"enq_save", "promote_save", "enq_deps", "unlock_deps", "pop"} \cup EnqueueLabels
  BY <1>1 DEF HandLabels, QueueLabels, EnqueueLabels, MoveLabels, RequestLabels, PromoteLabels
<1>3. /\ todo[p] # {} => back[p] = "unlock_get"
      /\ \A j \in todo[p] : DependsOn[j] # {}
  BY <1>1 DEF Hands, PromoteLabels, EnqueueLabels
<1>4. p \in Workers => pc'[p] # "idle" /\ job[p].id \in started
  BY <1>1 DEF Hands, Executing, DequeueLabels, EnqueueLabels
<1> QED
  BY <1>1, <1>2, <1>3, <1>4 DEF Hands

(***************************************************************************)
(* enqueue().                                                              *)
(***************************************************************************)
LEMMA EnqueueProper ==
  ASSUME WInv, Booked, NEW p \in Procs, Elsewhere(p), WheelEnqueueStep(p), UNCHANGED history
  PROVE  Proper(p)
<1>1. /\ Hands(p) /\ arg[p].id \in Jobs /\ arg[p].id \in Created /\ pc[p] \in EnqueueLabels
      /\ arg[p].status = "pending"
  <2>1. pc[p] \in EnqueueLabels
    BY DEF WheelEnqueueStep, WheelEnqueue, Enqueue, EnqueueDeps, EnqueueLaterSave, EnqueueSave,
       WheelLaterZadd, WheelLaterSlot, WheelZadd, EnqueueLabels
  <2> QED
    BY <2>1, Ours DEF Hands, Has, HandLabels, QueueLabels
<1> USE DEF Goto
<1>2. CASE WheelEnqueue(p)
  <2>1. UNCHANGED <<redisVars, job, todo, wheel, asked, history>>
    BY <1>2 DEF WheelEnqueue, Enqueue, EnqueueDeps
  <2>2. CASE /\ pc[p] = "enqueue" /\ pc'[p] \in {"enq_later", "enq_zadd", "enq_deps"}
             /\ pc'[p] = "enq_deps" => need'[p] = DependsOn[arg[p].id]
             /\ UNCHANGED <<arg, back>>
    <3>1. Hands(p)'
      BY <1>1, <2>1, <2>2 DEF Hands, HandLabels, QueueLabels, EnqueueLabels, MoveLabels, RequestLabels,
         PromoteLabels, Executing, DequeueLabels
    <3>2. Carries(p) /\ Records(p)
      BY <2>1, <2>2, Leaves, Unwritten
    <3>3. Lone(p)
      BY <2>1, <2>2, NothingNew DEF MoveLabels, RequestLabels, QueueLabels, EnqueueLabels
    <3> QED
      BY <3>1, <3>2, <3>3 DEF Proper
  <2>3. CASE /\ pc[p] = "enq_deps" /\ pc'[p] \in {"enq_deps", "enq_zadd"}
             /\ need'[p] \subseteq need[p]
             /\ UNCHANGED <<arg, back>>
    <3>1. Hands(p)'
      BY <1>1, <2>1, <2>3 DEF Hands, HandLabels, QueueLabels, EnqueueLabels, MoveLabels, RequestLabels,
         PromoteLabels, Executing, DequeueLabels
    <3>2. Carries(p) /\ Records(p)
      BY <2>1, <2>3, Leaves, Unwritten
    <3>3. Lone(p)
      BY <2>1, <2>3, NothingNew DEF MoveLabels, RequestLabels, QueueLabels, EnqueueLabels
    <3> QED
      BY <3>1, <3>2, <3>3 DEF Proper
  <2>4. CASE /\ pc[p] = "enq_deps" /\ pc'[p] = back[p] /\ back'[p] = "idle"
             /\ arg'[p] = NoDocument
             /\ \E d \in need[p] : store[d].status # "completed"
    <3>1. Hands(p)'
      BY <2>1, <2>4, ReturnHolds DEF EnqueueLabels
    <3>2. Blocked(arg[p].id)
      BY <1>1, <2>4 DEF Hands, Blocked
    <3>3. Carries(p) /\ Records(p)
      BY <2>1, <2>4, <3>2, Leaves, Unwritten
    <3>4. Lone(p)
      BY <2>1, <2>4, NothingNew, Ours, Docs DEF MoveLabels
    <3> QED
      BY <3>1, <3>3, <3>4 DEF Proper
  <2>5. pc[p] = "enqueue" \/ pc[p] = "enq_deps"
    BY <1>2 DEF WheelEnqueue, Enqueue, EnqueueDeps
  <2>6. ASSUME Enqueue(p)
        PROVE  /\ pc[p] = "enqueue" /\ pc'[p] \in {"enq_later", "enq_zadd", "enq_deps"}
               /\ pc'[p] = "enq_deps" => need'[p] = DependsOn[arg[p].id]
               /\ UNCHANGED <<arg, back>>
    BY <2>6, Ours DEF Enqueue, CheckDependencies
  <2>7. ASSUME EnqueueDeps(p)
        PROVE  /\ pc[p] = "enq_deps"
               /\ \/ /\ pc'[p] \in {"enq_deps", "enq_zadd"} /\ need'[p] \subseteq need[p]
                     /\ UNCHANGED <<arg, back>>
                  \/ /\ pc'[p] = back[p] /\ back'[p] = "idle" /\ arg'[p] = NoDocument
                     /\ \E d \in need[p] : store[d].status # "completed"
    BY <2>7, Ours, Docs DEF EnqueueDeps, ReadMet, ReadUnmet, Return
  <2> QED
    BY <1>2, <2>2, <2>3, <2>4, <2>6, <2>7 DEF WheelEnqueue
<1>3. CASE EnqueueLaterSave(p) /\ UNCHANGED wheelVars
  <2>1. /\ UNCHANGED <<dependents, queueVars, localVars, wheelVars, history>> /\ SaveJob(arg[p])
        /\ pc[p] = "enq_later" /\ pc'[p] = "enq_sched"
    BY <1>3, Ours DEF EnqueueLaterSave
  <2>2. UNCHANGED <<wheel, asked>>
    BY <2>1 DEF wheelVars
  <2>3. Hands(p)'
    BY <1>1, <2>1, <2>2 DEF Hands, HandLabels, QueueLabels, EnqueueLabels, MoveLabels, RequestLabels,
       PromoteLabels, Executing, DequeueLabels
  <2>4. Carries(p)
    BY <2>1, <2>2, Leaves
  <2>5. Records(p)
    BY <1>1, <2>1, Written
  <2>6. Lone(p)
    BY <1>1, <2>1, NothingNew DEF MoveLabels, RequestLabels, QueueLabels, EnqueueLabels
  <2> QED
    BY <2>3, <2>4, <2>5, <2>6 DEF Proper
<1>4. CASE EnqueueSave(p) /\ UNCHANGED wheelVars
  <2>1. /\ UNCHANGED <<dependents, queueVars, need, job, todo, wheelVars, history>> /\ SaveJob(arg[p])
        /\ pc[p] = "enq_save" /\ pc'[p] = back[p] /\ back'[p] = "idle" /\ arg'[p] = NoDocument
    BY <1>4, Ours, Docs DEF EnqueueSave, Return
  <2>2. UNCHANGED <<wheel, asked>>
    BY <2>1 DEF wheelVars
  <2>3. Hands(p)'
    BY <2>1, ReturnHolds DEF EnqueueLabels
  <2>4. Carries(p)
    BY <1>1, <2>1, <2>2, Leaves DEF Hands
  <2>5. Records(p)
    BY <1>1, <2>1, Written
  <2>6. Lone(p)
    BY <1>1, <2>1, NothingNew, Ours, Docs DEF MoveLabels, QueueLabels, EnqueueLabels
  <2> QED
    BY <2>3, <2>4, <2>5, <2>6 DEF Proper
<1>5. CASE WheelLaterZadd(p)
  <2>1. /\ UNCHANGED <<store, dependents, localVars, wheelVars, history>>
        /\ pc[p] = "enq_sched" /\ pc'[p] = "enq_slot"
        /\ \A j \in Jobs : j # arg[p].id => sched'[j] = sched[j]
        /\ sched'[arg[p].id] # "out"
    BY <1>1, <1>5, Ours DEF WheelLaterZadd
  <2>2. UNCHANGED <<wheel, asked>>
    BY <2>1 DEF wheelVars
  <2>3. Hands(p)'
    BY <1>1, <2>1, <2>2 DEF Hands, HandLabels, QueueLabels, EnqueueLabels, MoveLabels, RequestLabels,
       PromoteLabels, Executing, DequeueLabels
  <2>4. Carries(p)
    BY <2>1, <2>2, Stays DEF InSlot
  <2>5. Records(p)
    BY <2>1, Unwritten
  <2>6. Lone(p)
    BY <2>1 DEF Lone, Queueing, MoveLabels, RequestLabels
  <2> QED
    BY <2>3, <2>4, <2>5, <2>6 DEF Proper
<1>6. ASSUME NEW t, t = seen[p], Insert(arg[p].id, t)
      PROVE  /\ \A j \in Jobs : InSlot(j) => InSlot(j)'
             /\ \A j \in Jobs : j = arg[p].id => InSlot(j)'
  <2>1. t % Slots \in 0 .. Slots - 1
    BY <1>6, Modulo, Ours
  <2> QED
    BY <1>6, <2>1, Ours DEF Insert, InSlot
<1>7. CASE WheelLaterSlot(p)
  <2>1. /\ UNCHANGED <<redisVars, need, job, todo, asked, history>>
        /\ pc[p] = "enq_slot" /\ pc'[p] = back[p] /\ back'[p] = "idle" /\ arg'[p] = NoDocument
    BY <1>7, Ours, Docs DEF WheelLaterSlot, Return
  <2>2. /\ \A j \in Jobs : InSlot(j) => InSlot(j)'
        /\ \A j \in Jobs : j = arg[p].id => InSlot(j)'
    BY <1>6, <1>7 DEF WheelLaterSlot
  <2>3. Hands(p)'
    BY <2>1, ReturnHolds DEF EnqueueLabels
  <2>4. Carries(p)
    BY <2>1, <2>2, Stays
  <2>5. Records(p)
    BY <2>1, Unwritten
  <2>6. Lone(p)
    BY <2>1, NothingNew, Ours, Docs DEF MoveLabels
  <2> QED
    BY <2>3, <2>4, <2>5, <2>6 DEF Proper
<1>8. CASE WheelZadd(p)
  <2>1. /\ UNCHANGED <<redisVars, localVars, asked, history>>
        /\ pc[p] = "enq_zadd" /\ pc'[p] = "enq_save"
    BY <1>8, Ours DEF WheelZadd
  <2>2. /\ \A j \in Jobs : InSlot(j) => InSlot(j)'
        /\ \A j \in Jobs : j = arg[p].id => InSlot(j)'
    BY <1>6, <1>8 DEF WheelZadd
  <2>3. Noticed(arg[p].id)'
    BY <1>1, <2>1, <2>2 DEF Noticed, InSlot
  <2>4. Hands(p)'
    BY <1>1, <2>1, <2>3 DEF Hands, HandLabels, QueueLabels, EnqueueLabels, MoveLabels, RequestLabels,
       PromoteLabels, Executing, DequeueLabels
  <2>5. Carries(p)
    BY <2>1, <2>2, Stays
  <2>6. Records(p)
    BY <2>1, Unwritten
  <2>7. Lone(p)
    BY <2>1, NothingNew DEF MoveLabels, RequestLabels, QueueLabels, EnqueueLabels
  <2> QED
    BY <2>4, <2>5, <2>6, <2>7 DEF Proper
<1> QED
  BY <1>2, <1>3, <1>4, <1>5, <1>7, <1>8 DEF WheelEnqueueStep

(***************************************************************************)
(* dequeue().                                                              *)
(***************************************************************************)
LEMMA PromoteProper ==
  ASSUME WInv, Booked, NEW w \in Workers, Elsewhere(w), UNCHANGED history,
         \/ (PromoteScan(w) \/ PromoteGet(w) \/ PromoteSave(w)) /\ UNCHANGED wheelVars
         \/ WheelPromoteZrem(w) \/ WheelPromoteZadd(w)
  PROVE  Proper(w)
<1>1. /\ w \in Procs /\ Hands(w) /\ Has(w) /\ Created \subseteq Jobs
      /\ NoDocument.id \notin Jobs /\ NoDocument.status = "absent"
      /\ pc \in [Procs -> Labels] /\ arg \in [Procs -> Document] /\ todo \in [Procs -> SUBSET Jobs]
      /\ \A j \in Jobs : store[j].id = j
  <2>1. w \in Procs
    BY DEF Procs
  <2> QED
    BY <2>1, Ours, Docs
<1> USE DEF Goto
<1>2. UNCHANGED wheelVars => UNCHANGED <<wheel, asked>>
  BY DEF wheelVars
<1>3. CASE PromoteScan(w) /\ UNCHANGED wheelVars
  <2>1. /\ UNCHANGED <<redisVars, need, job, arg, back, wheel, asked, history>>
        /\ pc[w] = "idle" /\ pc'[w] \in {"pop", "promote_get"} /\ todo'[w] = DueEntries
        /\ pc'[w] # "promote_get" => DueEntries = {}
    BY <1>1, <1>2, <1>3 DEF PromoteScan, NextDue
  <2>2. todo[w] = {} /\ back[w] # "unlock_get"
    BY <1>1, <2>1 DEF Hands, PromoteLabels, EnqueueLabels
  <2>3. Hands(w)'
    BY <1>1, <2>1, <2>2 DEF Hands, HandLabels, QueueLabels, EnqueueLabels, MoveLabels, RequestLabels,
       PromoteLabels, Executing, DequeueLabels
  <2>4. Carries(w) /\ Records(w)
    BY <1>1, <2>1, <2>2, Leaves, Unwritten
  <2>5. Lone(w)
    BY <1>1, <2>1 DEF Lone, Queueing, QueueLabels, EnqueueLabels, MoveLabels, RequestLabels, DueEntries
  <2> QED
    BY <2>3, <2>4, <2>5 DEF Proper
<1>4. CASE PromoteGet(w) /\ UNCHANGED wheelVars
  <2>1. PICK i \in todo[w] : arg'[w] = store[i] /\ todo'[w] = todo[w] \ {i}
    BY <1>1, <1>4 DEF PromoteGet
  <2>2. /\ UNCHANGED <<redisVars, need, job, back, wheel, asked, history>>
        /\ pc[w] = "promote_get" /\ pc'[w] = "promote_zrem"
        /\ i \in Jobs /\ store[i].id = i /\ arg[w].id \notin Jobs
    BY <1>1, <1>2, <1>4, <2>1 DEF PromoteGet, Hands, HandLabels, QueueLabels, EnqueueLabels,
       MoveLabels, RequestLabels
  <2>3. store[i].status = "cancelled" => i \in asked
    BY <1>1, <2>2, Ours DEF Accounted
  <2>4. Hands(w)'
    BY <1>1, <2>1, <2>2, <2>3 DEF Hands, HandLabels, QueueLabels, EnqueueLabels, MoveLabels,
       RequestLabels, PromoteLabels, Executing, DequeueLabels
  <2>5. Carries(w) /\ Records(w)
    BY <1>1, <2>1, <2>2, Leaves, Unwritten
  <2>6. Lone(w)
    BY <2>1, <2>2 DEF Lone, Queueing, QueueLabels, EnqueueLabels, MoveLabels, RequestLabels
  <2> QED
    BY <2>4, <2>5, <2>6 DEF Proper
<1>5. CASE PromoteSave(w) /\ UNCHANGED wheelVars
  <2>1. /\ UNCHANGED <<dependents, queueVars, need, job, todo, back, wheel, asked, history>>
        /\ SaveJob(arg[w])
        /\ pc[w] = "promote_save" /\ arg'[w] = NoDocument
        /\ pc'[w] \in {"pop", "promote_get"} /\ (pc'[w] # "promote_get" => todo[w] = {})
    BY <1>1, <1>2, <1>5 DEF PromoteSave, NextDue
  <2>2. /\ Noticed(arg[w].id) /\ arg[w].id \in Jobs /\ arg[w].id \in Created
    BY <1>1, <2>1 DEF Hands, HandLabels, MoveLabels, Has
  <2>3. Hands(w)'
    BY <1>1, <2>1 DEF Hands, HandLabels, QueueLabels, EnqueueLabels, MoveLabels, RequestLabels,
       PromoteLabels, Executing, DequeueLabels
  <2>4. Carries(w)
    BY <1>1, <2>1, <2>2, Leaves
  <2>5. Records(w)
    <3>1. arg[w].status = "completed" =>
            \/ arg[w].id \in asked \/ store[arg[w].id].status = "completed"
            \/ \A k \in Jobs : arg[w].id \notin DependsOn[k]
      BY <1>1, <2>1, Ours DEF Loyal, MoveLabels
    <3>2. \A j \in Jobs : j = arg[w].id => Noticed(j)'
      BY <2>2, <2>4 DEF Carries
    <3> QED
      BY <1>1, <2>1, <2>2, <3>1, <3>2, Written DEF Hands
  <2>6. Lone(w)
    BY <1>1, <2>1, NothingNew DEF MoveLabels
  <2> QED
    BY <2>3, <2>4, <2>5, <2>6 DEF Proper
<1>6. CASE WheelPromoteZrem(w)
  <2>1. /\ UNCHANGED <<store, dependents, need, job, todo, back, wheel, asked, history>>
        /\ pc[w] = "promote_zrem"
        /\ \A j \in Jobs : sched'[j] = IF j = arg[w].id THEN "out" ELSE sched[j]
    BY <1>1, <1>6, Ours DEF WheelPromoteZrem, PromoteZrem, Unschedule
  <2>2. arg[w].id \in Jobs /\ arg[w].status # "absent"
    BY <1>1, <2>1 DEF Hands, HandLabels, MoveLabels, Has
  <2>3. CASE /\ arg[w].status = "cancelled" /\ arg'[w] = NoDocument
             /\ pc'[w] \in {"pop", "promote_get"} /\ (pc'[w] # "promote_get" => todo[w] = {})
    <3>1. arg[w].id \in asked
      BY <1>1, <2>3 DEF Hands
    <3>2. Hands(w)'
      BY <1>1, <2>1, <2>3 DEF Hands, HandLabels, QueueLabels, EnqueueLabels, MoveLabels, RequestLabels,
         PromoteLabels, Executing, DequeueLabels
    <3>3. Carries(w)
      BY <1>1, <2>1, <3>1, Stays DEF InSlot
    <3>4. Records(w)
      BY <1>1, <2>1, Unwritten
    <3>5. Lone(w)
      BY <1>1, <2>1, <2>3, NothingNew DEF MoveLabels
    <3> QED
      BY <3>2, <3>3, <3>4, <3>5 DEF Proper
  <2>4. CASE /\ arg'[w].id = arg[w].id /\ arg'[w].status = arg[w].status
             /\ pc'[w] = "promote_zadd"
    <3>1. Hands(w)'
      BY <1>1, <2>1, <2>4 DEF Hands, HandLabels, QueueLabels, EnqueueLabels, MoveLabels, RequestLabels,
         PromoteLabels, Executing, DequeueLabels
    <3>2. Carries(w)
      BY <1>1, <2>1, <2>4, Stays DEF InSlot
    <3>3. Records(w)
      BY <1>1, <2>1, Unwritten
    <3>4. Lone(w)
      BY <1>1, <2>1, <2>4 DEF Lone, Queueing, QueueLabels, EnqueueLabels, MoveLabels, RequestLabels
    <3> QED
      BY <3>1, <3>2, <3>3, <3>4 DEF Proper
  <2>5. /\ [arg[w] EXCEPT !.future = FALSE].id = arg[w].id
        /\ [arg[w] EXCEPT !.future = FALSE].status = arg[w].status
    BY <1>1, Passes
  <2> QED
    BY <1>1, <1>6, <2>2, <2>3, <2>4, <2>5 DEF WheelPromoteZrem, PromoteZrem, NextDue
<1>7. CASE WheelPromoteZadd(w)
  <2>1. /\ UNCHANGED <<redisVars, localVars, asked, history>>
        /\ pc[w] = "promote_zadd" /\ pc'[w] = "promote_save"
    BY <1>1, <1>7 DEF WheelPromoteZadd
  <2>2. arg[w].id \in Jobs /\ seen[w] % Slots \in 0 .. Slots - 1
    <3>1. seen[w] \in Int
      BY <1>1, Ours
    <3> QED
      BY <1>1, <2>1, <3>1, Modulo DEF Hands, HandLabels, MoveLabels
  <2>3. /\ \A j \in Jobs : InSlot(j) => InSlot(j)'
        /\ \A j \in Jobs : j = arg[w].id => InSlot(j)'
    BY <1>1, <1>7, <2>2, Ours DEF WheelPromoteZadd, Insert, InSlot
  <2>4. Noticed(arg[w].id)'
    BY <2>1, <2>2, <2>3 DEF Noticed, InSlot
  <2>5. Hands(w)'
    BY <1>1, <2>1, <2>4 DEF Hands, HandLabels, QueueLabels, EnqueueLabels, MoveLabels, RequestLabels,
       PromoteLabels, Executing, DequeueLabels
  <2>6. Carries(w)
    BY <1>1, <2>1, <2>3, Stays
  <2>7. Records(w)
    BY <1>1, <2>1, Unwritten
  <2>8. Lone(w)
    BY <1>1, <2>1 DEF Lone, Queueing, QueueLabels, EnqueueLabels, MoveLabels, RequestLabels
  <2> QED
    BY <2>5, <2>6, <2>7, <2>8 DEF Proper
<1> QED
  BY <1>3, <1>4, <1>5, <1>6, <1>7

(* Steps that only read, while no document is carried about.               *)
LEMMA MuteProper ==
  ASSUME WInv, Booked, NEW w \in Workers, Elsewhere(w),
         UNCHANGED <<store, dependents, sched, wheel, started, asked, arg, todo, back>>,
         job'[w].id = job[w].id,
         pc[w] \notin HandLabels \cup PromoteLabels \cup {"dependents", "unlock_get"},
         pc'[w] \notin HandLabels \cup PromoteLabels,
         pc'[w] \in {"idle", "pop"} => pc[w] \in {"idle", "pop"},
         pc'[w] \in DequeueLabels \cup {"start"} \/ pc[w] \notin DequeueLabels \cup {"start"}
  PROVE  Proper(w)
<1>1. w \in Procs /\ Hands(w)
  BY Ours DEF Procs
<1>2. todo[w] = {} /\ back[w] # "unlock_get"
  BY <1>1 DEF Hands, HandLabels, QueueLabels
<1>3. Hands(w)'
  BY <1>1, <1>2 DEF Hands, HandLabels, QueueLabels, MoveLabels, PromoteLabels, EnqueueLabels, Executing
<1>4. Carries(w)
  BY <1>1, Leaves
<1>5. Records(w)
  BY <1>1, Unwritten DEF HandLabels, QueueLabels
<1>6. Lone(w)
  BY <1>1, NothingNew DEF HandLabels, Hands
<1> QED
  BY <1>3, <1>4, <1>5, <1>6 DEF Proper

(* A dequeue that takes a job from a slot has it in hand until it puts it  *)
(* back, drops it as ended, or runs it; so has a worker at its end.        *)
LEMMA PopProper ==
  ASSUME WInv, Booked, NEW w \in Workers, Elsewhere(w), UNCHANGED history,
         \/ AdvanceWheel(w) \/ ZpopMin(w) \/ SlotEmpty(w)
         \/ (DequeueGet(w) \/ DequeueDeps(w)) /\ UNCHANGED wheelVars
         \/ WheelRequeue(w)
         \/ ReleaseLock(w) /\ UNCHANGED wheelVars
  PROVE  Proper(w)
<1>1. /\ w \in Procs /\ Hands(w) /\ Has(w) /\ Created \subseteq Jobs
      /\ NoDocument.id \notin Jobs /\ NoDocument.status = "absent"
      /\ pc \in [Procs -> Labels] /\ job \in [Procs -> Document]
      /\ \A j \in Jobs : store[j].id = j /\ Absent(j).id = j
  <2>1. w \in Procs
    BY DEF Procs
  <2> QED
    BY <2>1, Ours, Docs
<1> USE DEF Goto
<1>2. UNCHANGED wheelVars => UNCHANGED <<wheel, asked>>
  BY DEF wheelVars
<1>3. ASSUME UNCHANGED <<store, dependents, sched, wheel, started, asked, arg, todo, back>>,
             job'[w].id = job[w].id,
             \/ pc[w] = "pop" /\ pc'[w] \in {"pop", "idle"}
             \/ pc[w] \in {"get", "deps"} /\ pc'[w] \in {"deps", "lock", "requeue"}
      PROVE  Proper(w)
  BY <1>3, MuteProper DEF HandLabels, QueueLabels, MoveLabels, RequestLabels, PromoteLabels, EnqueueLabels,
     DequeueLabels
<1>4. CASE AdvanceWheel(w) \/ SlotEmpty(w)
  BY <1>1, <1>3, <1>4 DEF AdvanceWheel, SlotEmpty
<1>5. ASSUME UNCHANGED <<store, dependents, sched, started, asked, arg, todo, back>>,
             pc[w] \in {"pop", "get", "requeue", "contended", "release"}, pc'[w] \in {"get", "pop", "idle"},
             \/ pc'[w] = "get" \/ job'[w] = NoDocument,
             \A j \in Jobs : InSlot(j) => InSlot(j)' \/ job'[w].id = j,
             \A j \in Jobs : job[w].id = j => j \in started \cup asked \/ InSlot(j)'
      PROVE  Proper(w)
  <2>1. todo[w] = {} /\ back[w] # "unlock_get"
    BY <1>1, <1>5 DEF Hands, PromoteLabels, EnqueueLabels
  <2>2. Hands(w)'
    BY <1>1, <1>5, <2>1 DEF Hands, HandLabels, QueueLabels, MoveLabels, RequestLabels, PromoteLabels,
       EnqueueLabels, Executing, DequeueLabels
  <2>3. Carries(w)
    BY <1>1, <1>5, Stays
  <2>4. Records(w)
    BY <1>1, <1>5, Unwritten
  <2>5. Lone(w)
    BY <1>1, <1>5, NothingNew DEF MoveLabels, RequestLabels, QueueLabels, EnqueueLabels
  <2> QED
    BY <2>2, <2>3, <2>4, <2>5 DEF Proper
<1>6. CASE ZpopMin(w)
  <2>1. ProbedSlot(w) \in 0 .. Slots - 1
    BY <1>1, Probed, Ours
  <2>2. PICK i \in wheel[ProbedSlot(w)] :
          /\ wheel' = [wheel EXCEPT ![ProbedSlot(w)] = @ \ {i}]
          /\ job' = [job EXCEPT ![w] = Absent(i)]
    BY <1>6 DEF ZpopMin
  <2>3. i \in Jobs /\ wheel \in [0 .. Slots - 1 -> SUBSET Jobs]
    BY <1>1, <2>1, <2>2, Ours
  <2>4. job'[w].id = i
    BY <1>1, <2>2, <2>3
  <2>5. \A j \in Jobs : InSlot(j) => InSlot(j)' \/ j = i
    BY <2>1, <2>2, <2>3 DEF InSlot
  <2>6. /\ UNCHANGED <<redisVars, arg, todo, back, asked, history>>
        /\ pc[w] = "pop" /\ pc'[w] = "get"
    BY <1>1, <1>6 DEF ZpopMin
  <2>7. job[w].id \notin Jobs
    BY <1>1, <2>6 DEF Hands
  <2> QED
    BY <1>5, <2>4, <2>5, <2>6, <2>7
<1>7. CASE DequeueGet(w) /\ UNCHANGED wheelVars
  <2>1. /\ UNCHANGED <<redisVars, arg, todo, back, wheel, asked, history>> /\ pc[w] = "get"
    BY <1>2, <1>7 DEF DequeueGet
  <2>2. job[w].id \in Created
    BY <1>1, <2>1, Ours DEF Local, Holding, Has
  <2>3. CASE store[job[w].id].status = "cancelled" /\ job'[w] = NoDocument /\ pc'[w] = "pop"
    <3>1. job[w].id \in asked
      BY <1>1, <2>2, <2>3, Ours DEF Accounted
    <3> QED
      BY <1>5, <2>1, <2>3, <3>1 DEF InSlot
  <2>4. CASE job'[w].id = job[w].id /\ pc'[w] \in {"deps", "lock"}
    BY <1>3, <2>1, <2>4
  <2> QED
    BY <1>1, <1>7, <2>2, <2>3, <2>4 DEF DequeueGet, CheckDependencies, Created
<1>8. CASE DequeueDeps(w) /\ UNCHANGED wheelVars
  <2>1. /\ UNCHANGED <<redisVars, arg, todo, back, job, wheel, asked, history>>
        /\ pc[w] = "deps" /\ pc'[w] \in {"deps", "lock", "requeue"}
    BY <1>1, <1>2, <1>8 DEF DequeueDeps, ReadMet, ReadUnmet
  <2> QED
    BY <1>3, <2>1
<1>9. CASE WheelRequeue(w)
  <2>1. /\ UNCHANGED <<redisVars, arg, todo, back, asked, history>>
        /\ pc[w] \in {"requeue", "contended"} /\ pc'[w] = "pop" /\ job'[w] = NoDocument
    BY <1>1, <1>9 DEF WheelRequeue
  <2>2. seen[w] % Slots \in 0 .. Slots - 1
    <3>1. seen[w] \in Int
      BY <1>1, Ours
    <3> QED
      BY <3>1, Modulo
  <2>3. /\ \A j \in Jobs : InSlot(j) => InSlot(j)'
        /\ \A j \in Jobs : j = job[w].id => InSlot(j)'
    BY <1>1, <1>9, <2>2, Ours DEF WheelRequeue, Insert, InSlot
  <2> QED
    BY <1>5, <2>1, <2>3
<1>10. CASE ReleaseLock(w) /\ UNCHANGED wheelVars
  <2>1. /\ UNCHANGED <<store, dependents, sched, arg, todo, back, wheel, asked, history>>
        /\ pc[w] = "release" /\ pc'[w] = "idle" /\ job'[w] = NoDocument
    BY <1>1, <1>2, <1>10 DEF ReleaseLock
  <2>2. job[w].id \in started
    BY <1>1, <2>1 DEF Hands, Executing, DequeueLabels
  <2> QED
    BY <1>5, <2>1, <2>2 DEF InSlot
<1> QED
  BY <1>4, <1>6, <1>7, <1>8, <1>9, <1>10

(***************************************************************************)
(* process_job().                                                          *)
(***************************************************************************)
(* A worker writes down what became of the job it has begun.               *)
LEMMA ResultProper ==
  ASSUME WInv, Booked, NEW w \in Workers, Elsewhere(w), NEW d,
         SaveJob(d), d.id = job[w].id, job[w].id \in Jobs, job'[w] = d,
         d.status \in {"processing", "completed", "failed"},
         d.status = "completed" => pc'[w] = "dependents",
         UNCHANGED <<dependents, sched, wheel, asked, arg, todo, back>>,
         started' = started \cup {job[w].id},
         pc[w] \in {"start", "complete", "dlq_save"}, pc'[w] \in {"run", "dependents", "release"}
  PROVE  Proper(w)
<1>1. w \in Procs /\ Hands(w) /\ Has(w)
  BY Ours DEF Procs
<1>2. todo[w] = {} /\ back[w] # "unlock_get"
  BY <1>1 DEF Hands, PromoteLabels, EnqueueLabels
<1>3. Hands(w)'
  BY <1>1, <1>2 DEF Hands, HandLabels, QueueLabels, MoveLabels, RequestLabels, PromoteLabels,
     EnqueueLabels, Executing
<1>4. Carries(w)
  BY <1>1, Leaves
<1>5. Records(w)
  <2>1. \A j \in Jobs : j = d.id => Noticed(j)'
    BY <1>1 DEF Noticed
  <2> QED
    BY <1>1, <2>1, Written, Docs DEF Has, WInv, WheelTypeOK
<1>6. Lone(w)
  BY <1>1, NothingNew DEF MoveLabels, QueueLabels, EnqueueLabels, RequestLabels
<1> QED
  BY <1>3, <1>4, <1>5, <1>6 DEF Proper

(* A run of a job, from the lock to the result.                            *)
LEMMA RunProper ==
  ASSUME WInv, Booked, MaxRetries = 0, Unhandled = {}, NEW w \in Workers, Elsewhere(w),
         \/ WheelAcquire(w)
         \/ /\ Start(w) \/ HandlerReturns(w) \/ HandlerRaises(w) \/ Recheck(w) \/ Complete(w)
               \/ Finish(w) \/ ScheduleRetry(w) \/ MoveToDlq(w)
            /\ UNCHANGED <<wheel, asked>>
  PROVE  Proper(w)
<1>1. /\ w \in Procs /\ Hands(w) /\ Has(w) /\ Local(w) /\ Created \subseteq Jobs
      /\ pc \in [Procs -> Labels] /\ job \in [Procs -> Document] /\ job[w] \in Document
  <2>1. w \in Procs
    BY DEF Procs
  <2> QED
    BY <2>1, Ours, Docs
<1>2. ~(job[w].retries < MaxRetries)
  BY <1>1 DEF Document
<1> USE DEF Goto
<1>3. ASSUME UNCHANGED <<store, dependents, sched, wheel, started, asked, arg, todo, back, job>>,
             \/ pc[w] = "lock" /\ pc'[w] \in {"contended", "start"}
             \/ pc[w] \in {"run", "recheck", "tail"}
                /\ pc'[w] \in {"recheck", "dlq_save", "release", "complete"}
      PROVE  Proper(w)
  BY <1>3, MuteProper DEF HandLabels, QueueLabels, MoveLabels, RequestLabels, PromoteLabels, EnqueueLabels,
     DequeueLabels
<1>4. CASE WheelAcquire(w)
  BY <1>1, <1>3, <1>4 DEF WheelAcquire, Acquire, AcquireLock
<1>5. CASE HandlerReturns(w) /\ UNCHANGED <<wheel, asked>>
  BY <1>1, <1>3, <1>5 DEF HandlerReturns
<1>6. CASE HandlerRaises(w) /\ UNCHANGED <<wheel, asked>>
  BY <1>1, <1>2, <1>3, <1>6 DEF HandlerRaises, OnException
<1>7. CASE (Recheck(w) \/ Finish(w)) /\ UNCHANGED <<wheel, asked>>
  BY <1>1, <1>3, <1>7 DEF Recheck, Finish
<1>8. pc[w] \in {"start", "complete", "dlq_save"} =>
        job[w].id \in Jobs /\ (pc[w] # "start" => job[w].id \in started)
  BY <1>1 DEF Local, Holding, Hands, Executing, DequeueLabels
<1>9. \A s \in {"processing", "completed"} :
        [job[w] EXCEPT !.status = s].id = job[w].id /\ [job[w] EXCEPT !.status = s].status = s
  BY <1>1 DEF Document
<1>10. CASE Start(w) /\ UNCHANGED <<wheel, asked>>
  <2>1. PICK d : /\ SaveJob(d) /\ job' = [job EXCEPT ![w] = d]
                 /\ d.id = job[w].id /\ d.status = "processing"
    BY <1>9, <1>10 DEF Start
  <2> QED
    BY <1>1, <1>8, <1>10, <2>1, ResultProper DEF Start
<1>11. CASE Complete(w) /\ UNCHANGED <<wheel, asked>>
  <2>1. PICK d : /\ SaveJob(d) /\ job' = [job EXCEPT ![w] = d]
                 /\ d.id = job[w].id /\ d.status = "completed"
    BY <1>9, <1>11 DEF Complete
  <2> QED
    BY <1>1, <1>8, <1>11, <2>1, ResultProper DEF Complete
<1>12. CASE MoveToDlq(w) /\ UNCHANGED <<wheel, asked>>
  <2>1. DeadLettered(job[w]).id = job[w].id /\ DeadLettered(job[w]).status = "failed"
    BY <1>1 DEF DeadLettered, Document
  <2>2. PICK d : /\ SaveJob(d) /\ job' = [job EXCEPT ![w] = d]
                 /\ d.id = job[w].id /\ d.status = "failed"
    BY <1>12, <2>1 DEF MoveToDlq
  <2> QED
    BY <1>1, <1>8, <1>12, <2>2, ResultProper DEF MoveToDlq
<1>13. ~ScheduleRetry(w)
  BY <1>1, <1>2 DEF ScheduleRetry, Local
<1> QED
  BY <1>4, <1>5, <1>6, <1>7, <1>10, <1>11, <1>12, <1>13

(* The dependents are listed, and looked at one by one.                    *)
LEMMA UnlockProper ==
  ASSUME WInv, Booked, NEW w \in Workers, Elsewhere(w), UNCHANGED <<wheel, asked>>,
         GetDependents(w) \/ UnlockGet(w) \/ UnlockDeps(w)
  PROVE  Proper(w)
<1>1. /\ w \in Procs /\ Hands(w) /\ Has(w) /\ Local(w) /\ Created \subseteq Jobs
      /\ NoDocument.id \notin Jobs /\ NoDocument.status = "absent"
      /\ pc \in [Procs -> Labels] /\ arg \in [Procs -> Document] /\ todo \in [Procs -> SUBSET Jobs]
      /\ need \in [Procs -> SUBSET Jobs] /\ DOMAIN back = Procs
      /\ \A j \in Jobs : store[j].id = j /\ Accounted(j)
  <2>1. w \in Procs
    BY DEF Procs
  <2> QED
    BY <2>1, Ours, Docs
<1> USE DEF Goto
<1>2. \A rest : /\ NextDependent(w, rest) \in {"unlock_get", "recur", "tail"}
                /\ NextDependent(w, rest) = "unlock_get" <=> rest # {}
  BY DEF NextDependent
<1>3. CASE GetDependents(w)
  <2>1. /\ UNCHANGED <<redisVars, need, job, arg, back, wheel, asked, history>>
        /\ pc[w] = "dependents" /\ todo'[w] = dependents[job[w].id]
        /\ pc'[w] = NextDependent(w, todo'[w])
    BY <1>1, <1>3 DEF GetDependents
  <2>2. todo[w] = {} /\ back[w] # "unlock_get" /\ job[w].id \in Jobs
    BY <1>1, <2>1 DEF Hands, PromoteLabels, EnqueueLabels, Local, Holding
  <2>3. \A j \in todo'[w] : DependsOn[j] # {}
    BY <1>1, <2>1, <2>2 DEF Accounted
  <2>4. Hands(w)'
    BY <1>1, <1>2, <2>1, <2>2, <2>3 DEF Hands, HandLabels, QueueLabels, EnqueueLabels, MoveLabels,
       RequestLabels, PromoteLabels, Executing, DequeueLabels
  <2>5. Carries(w)
    BY <1>1, <2>1, <2>2, Stays DEF InSlot
  <2>6. Records(w)
    BY <1>1, <2>1, Unwritten
  <2>7. Lone(w)
    BY <1>1, <1>2, <2>1, <2>3 DEF Lone, Queueing, QueueLabels, EnqueueLabels, MoveLabels, RequestLabels
  <2> QED
    BY <2>4, <2>5, <2>6, <2>7 DEF Proper
<1>4. CASE UnlockGet(w)
  <2>1. PICK i \in todo[w] :
          LET next == NextDependent(w, todo[w] \ {i}) IN
          /\ todo' = [todo EXCEPT ![w] = @ \ {i}]
          /\ \/ /\ store[i].status = "pending"
                /\ arg' = [arg EXCEPT ![w] = store[i]]
                /\ back' = [back EXCEPT ![w] = next]
                /\ CheckDependencies(w, i, "unlock_deps", "enqueue")
             \/ /\ store[i].status # "pending"
                /\ Goto(w, next)
                /\ UNCHANGED <<need, arg, back>>
    BY <1>4 DEF UnlockGet
  <2>2. PICK next : next = NextDependent(w, todo[w] \ {i})
    OBVIOUS
  <2>3. next \in {"unlock_get", "recur", "tail"} /\ (next = "unlock_get" <=> todo[w] \ {i} # {})
    BY <1>2, <2>2
  <2>4. /\ UNCHANGED <<redisVars, job, wheel, asked, history>>
        /\ pc[w] = "unlock_get" /\ i \in Jobs /\ i \in Created /\ todo'[w] = todo[w] \ {i}
    BY <1>1, <1>4, <2>1 DEF UnlockGet, Has
  <2>5. /\ arg[w].id \notin Jobs /\ DependsOn[i] # {} /\ back[w] # "unlock_get"
        /\ \A j \in todo[w] : DependsOn[j] # {}
    BY <1>1, <2>4 DEF Hands, HandLabels, QueueLabels, EnqueueLabels, MoveLabels, RequestLabels,
       PromoteLabels
  <2>6. CASE /\ arg'[w] = store[i] /\ store[i].status = "pending" /\ back'[w] = next
             /\ need'[w] = DependsOn[i] /\ pc'[w] \in {"unlock_deps", "enqueue"}
    <3>1. Hands(w)'
      BY <1>1, <2>3, <2>4, <2>5, <2>6 DEF Hands, HandLabels, QueueLabels, EnqueueLabels, MoveLabels,
         RequestLabels, PromoteLabels, Executing, DequeueLabels
    <3>2. Carries(w)
      BY <1>1, <2>4, <2>5, <2>6, Leaves
    <3>3. Records(w)
      BY <1>1, <2>4, Unwritten
    <3>4. Lone(w)
      BY <1>1, <2>4, <2>5, <2>6 DEF Lone, Queueing, QueueLabels, EnqueueLabels, MoveLabels, RequestLabels
    <3> QED
      BY <3>1, <3>2, <3>3, <3>4 DEF Proper
  <2>7. CASE /\ store[i].status # "pending" /\ pc'[w] = next /\ UNCHANGED <<arg, back>>
    <3>1. Hands(w)'
      BY <1>1, <2>3, <2>4, <2>5, <2>7 DEF Hands, HandLabels, QueueLabels, EnqueueLabels, MoveLabels,
         RequestLabels, PromoteLabels, Executing, DequeueLabels
    <3>2. Noticed(i)
      BY <1>1, <2>4, <2>7 DEF Accounted, Created
    <3>3. Carries(w)
      BY <1>1, <2>4, <2>5, <2>7, <3>2, Leaves
    <3>4. Records(w)
      BY <1>1, <2>4, Unwritten
    <3>5. Lone(w)
      BY <1>1, <2>3, <2>4, <2>5, <2>7, NothingNew DEF QueueLabels, EnqueueLabels, MoveLabels, RequestLabels
    <3> QED
      BY <3>1, <3>3, <3>4, <3>5 DEF Proper
  <2> QED
    BY <1>1, <2>1, <2>2, <2>5, <2>6, <2>7 DEF CheckDependencies
<1>5. CASE UnlockDeps(w)
  <2>1. /\ UNCHANGED <<redisVars, job, todo, wheel, asked, history>> /\ pc[w] = "unlock_deps"
    BY <1>5 DEF UnlockDeps
  <2>2. CASE /\ UNCHANGED <<arg, back>> /\ need'[w] \subseteq need[w]
             /\ pc'[w] \in {"unlock_deps", "enqueue"}
    <3>1. Hands(w)'
      BY <1>1, <2>1, <2>2 DEF Hands, HandLabels, QueueLabels, EnqueueLabels, MoveLabels,
         RequestLabels, PromoteLabels, Executing, DequeueLabels
    <3>2. Carries(w) /\ Records(w)
      BY <1>1, <2>1, <2>2, Leaves, Unwritten
    <3>3. Lone(w)
      BY <1>1, <2>1, <2>2, NothingNew DEF QueueLabels, EnqueueLabels, MoveLabels, RequestLabels
    <3> QED
      BY <3>1, <3>2, <3>3 DEF Proper
  <2>3. CASE /\ pc'[w] = back[w] /\ back'[w] = "idle" /\ arg'[w] = NoDocument
             /\ \E d \in need[w] : store[d].status # "completed"
    <3>1. Hands(w)'
      BY <1>1, <2>1, <2>3, ReturnHolds
    <3>2. Blocked(arg[w].id)
      BY <1>1, <2>1, <2>3 DEF Hands, Blocked
    <3>3. Carries(w) /\ Records(w)
      BY <1>1, <2>1, <2>3, <3>2, Leaves, Unwritten
    <3>4. Lone(w)
      BY <1>1, <2>1, <2>3, NothingNew, Ours DEF MoveLabels
    <3> QED
      BY <3>1, <3>3, <3>4 DEF Proper
  <2> QED
    BY <1>1, <1>5, <2>2, <2>3 DEF UnlockDeps, ReadMet, ReadUnmet, Return
<1> QED
  BY <1>3, <1>4, <1>5

(***************************************************************************)
(* Requests, and recurrences.                                              *)
(***************************************************************************)
(* A new document is on its way as soon as it is there.                    *)
LEMMA NewProper ==
  ASSUME WInv, Booked, NEW p \in Procs, Elsewhere(p), UNCHANGED <<dependents, sched, wheel, asked>>,
         NEW k \in Jobs \ Created, NEW later \in BOOLEAN, SaveJob(NewJob(k, later)),
         arg'[p] = NewJob(k, later), UNCHANGED <<need, job, todo, started>>,
         \/ pc'[p] = "enqueue" /\ DependsOn[k] = {} /\ back'[p] \in {"idle", "tail"}
         \/ pc'[p] = "register" /\ p \in Clients /\ back'[p] = back[p],
         \/ pc[p] = "idle" /\ p \notin Workers
         \/ pc[p] = "recur" /\ p \in Workers /\ back'[p] = "tail"
  PROVE  Proper(p)
<1>1. /\ Hands(p) /\ NewJob(k, later).id = k /\ NewJob(k, later).status = "pending"
  BY Ours, NewDocuments
<1>2. todo[p] = {} /\ back'[p] # "unlock_get" /\ arg[p].id \notin Jobs
  BY <1>1 DEF Hands, HandLabels, QueueLabels, EnqueueLabels, MoveLabels, RequestLabels, PromoteLabels
<1>3. Hands(p)'
  BY <1>1, <1>2 DEF Hands, HandLabels, QueueLabels, EnqueueLabels, MoveLabels, RequestLabels,
     PromoteLabels, Executing, DequeueLabels
<1>4. Carries(p)
  BY <1>2, Leaves
<1>5. Records(p)
  BY <1>1, Written
<1>6. Lone(p)
  <2>1. \A j \in Jobs : j # k => store'[j] = store[j]
    BY <1>1 DEF SaveJob, WInv, WheelTypeOK, TypeOK
  <2> QED
    BY <1>1, <1>2, <2>1 DEF Lone, Queueing, QueueLabels, EnqueueLabels, MoveLabels, RequestLabels
<1> QED
  BY <1>3, <1>4, <1>5, <1>6 DEF Proper

(* A successor begins as a job of a client does.                           *)
LEMMA RecurProper ==
  ASSUME WInv, Booked, \A k \in Spare : DependsOn[k] = {},
         NEW w \in Workers, Elsewhere(w), UNCHANGED <<wheel, asked>>, Recur(w)
  PROVE  Proper(w)
<1>1. /\ w \in Procs /\ pc[w] = "recur" /\ UNCHANGED <<dependents, sched, need, job, todo, history>>
      /\ DOMAIN arg = Procs /\ DOMAIN back = Procs /\ DOMAIN pc = Procs
  <2>1. w \in Procs
    BY DEF Procs
  <2> QED
    BY <2>1, Ours, Docs DEF Recur
<1> USE DEF Goto
<1>2. CASE Goto(w, "tail") /\ UNCHANGED <<store, ahead, arg, back>>
  BY <1>1, <1>2, MuteProper DEF HandLabels, QueueLabels, MoveLabels, RequestLabels, PromoteLabels,
     EnqueueLabels, DequeueLabels
<1>3. ASSUME NEW k \in Spare \ Created, SaveJob(NewJob(k, TRUE)), CallEnqueue(w, NewJob(k, TRUE), "tail")
      PROVE  Proper(w)
  <2>1. k \in Jobs \ Created /\ DependsOn[k] = {} /\ TRUE \in BOOLEAN
    BY ServiceAssumption
  <2>2. pc'[w] = "enqueue" /\ back'[w] = "tail" /\ arg'[w] = NewJob(k, TRUE)
    BY <1>1, <1>3 DEF CallEnqueue
  <2> QED
    BY <1>1, <1>3, <2>1, <2>2, NewProper
<1> QED
  BY <1>2, <1>3 DEF Recur

(* What a client asks for.                                                 *)
LEMMA RequestProper ==
  ASSUME WInv, Booked, NEW c \in Clients, Elsewhere(c),
         \/ WheelCreate(c) \/ WheelCancelGet(c) \/ WheelRemove(c)
         \/ (CreateRegister(c) \/ CancelSave(c)) /\ UNCHANGED wheelVars
  PROVE  Proper(c)
<1>1. /\ c \in Procs /\ c \notin Workers /\ Hands(c) /\ Has(c) /\ Created \subseteq Jobs
      /\ NoDocument.id \notin Jobs /\ NoDocument.status = "absent" /\ NoDocument.id = NoJob
      /\ DOMAIN pc = Procs /\ DOMAIN arg = Procs /\ DOMAIN back = Procs
      /\ \A j \in Jobs : store[j].id = j /\ store[j] \in Document
  <2>1. c \in Procs /\ c \notin Workers
    BY StoreAssumption DEF Procs
  <2> QED
    BY <2>1, Ours, Docs
<1> USE DEF Goto
<1>2. UNCHANGED wheelVars => UNCHANGED <<wheel, asked>>
  BY DEF wheelVars
<1>3. pc[c] = "idle" => todo[c] = {} /\ back[c] # "unlock_get" /\ arg[c].id \notin Jobs
  BY <1>1 DEF Hands, HandLabels, QueueLabels, EnqueueLabels, MoveLabels, RequestLabels, PromoteLabels
<1>4. CASE WheelCreate(c)
  <2>1. /\ pc[c] = "idle" /\ UNCHANGED <<dependents, sched, wheel, asked, need, job, todo, history>>
    BY <1>4 DEF WheelCreate, CreateSave
  <2>2. PICK k \in Jobs \ Created, later \in BOOLEAN :
          /\ SaveJob(NewJob(k, later))
          /\ arg'[c] = NewJob(k, later)
          /\ \/ pc'[c] = "enqueue" /\ DependsOn[k] = {} /\ back'[c] = "idle"
             \/ pc'[c] = "register" /\ back'[c] = back[c]
    BY <1>1, <1>4, ServiceAssumption DEF WheelCreate, CreateSave, CallEnqueue
  <2> QED
    BY <1>1, <2>1, <2>2, NewProper
<1>5. CASE CreateRegister(c) /\ UNCHANGED wheelVars
  <2>1. /\ UNCHANGED <<store, queueVars, need, job, todo, wheel, asked, history>>
        /\ pc[c] = "register" /\ pc'[c] = "enqueue" /\ back'[c] = "idle" /\ arg'[c] = arg[c]
        /\ dependents' = [d \in Jobs |-> IF d \in DependsOn[arg[c].id]
                                           THEN dependents[d] \cup {arg[c].id} ELSE dependents[d]]
    BY <1>1, <1>2, <1>5 DEF CreateRegister, CallEnqueue, RegisterDependents
  <2>2. arg[c].id \in Jobs /\ \A j \in Jobs : DependsOn[j] \subseteq Jobs
    BY <1>1, <2>1, StoreAssumption DEF Hands, HandLabels, QueueLabels
  <2>3. todo[c] = {}
    BY <1>1, <2>1 DEF Hands, EnqueueLabels, PromoteLabels
  <2>4. Hands(c)'
    BY <1>1, <2>1, <2>2, <2>3 DEF Hands, HandLabels, QueueLabels, EnqueueLabels, MoveLabels,
       RequestLabels, PromoteLabels
  <2>5. Carries(c)
    BY <1>1, <2>1, Leaves
  <2>6. Records(c)
    BY <2>1, <2>2 DEF Records, Created
  <2>7. Lone(c)
    BY <1>1, <2>1, NothingNew DEF QueueLabels, EnqueueLabels, MoveLabels, RequestLabels
  <2> QED
    BY <2>4, <2>5, <2>6, <2>7 DEF Proper
<1>6. CASE WheelCancelGet(c)
  <2>1. PICK i \in Created : arg' = [arg EXCEPT ![c] = [store[i] EXCEPT !.status = "cancelled"]]
    BY <1>6 DEF WheelCancelGet, CancelGet
  <2>2. i \in Jobs /\ arg'[c].id = i
    BY <1>1, <2>1 DEF Document
  <2>3. /\ UNCHANGED <<redisVars, need, job, todo, back, wheel, history>>
        /\ pc[c] = "idle" /\ pc'[c] = "cancel_save" /\ asked' = asked \cup {i}
    BY <1>1, <1>6, <2>2 DEF WheelCancelGet, CancelGet
  <2>4. Hands(c)'
    BY <1>1, <1>3, <2>2, <2>3 DEF Hands, HandLabels, QueueLabels, EnqueueLabels, MoveLabels,
       RequestLabels, PromoteLabels
  <2>5. Carries(c)
    BY <1>1, <1>3, <2>2, <2>3, Leaves
  <2>6. Records(c)
    BY <1>1, <2>3, Unwritten
  <2>7. Lone(c)
    BY <1>1, <2>2, <2>3 DEF Lone, Queueing, QueueLabels, EnqueueLabels, MoveLabels, RequestLabels
  <2> QED
    BY <2>4, <2>5, <2>6, <2>7 DEF Proper
<1>7. CASE CancelSave(c) /\ UNCHANGED wheelVars
  <2>1. /\ UNCHANGED <<dependents, queueVars, localVars, wheel, asked, history>>
        /\ SaveJob(arg[c]) /\ pc[c] = "cancel_save" /\ pc'[c] = "cancel_remove"
    BY <1>1, <1>2, <1>7 DEF CancelSave
  <2>2. arg[c].id \in Jobs /\ arg[c].id \in asked /\ arg[c].id \in Created
    BY <1>1, <2>1 DEF Hands, HandLabels, RequestLabels, Has
  <2>3. Hands(c)'
    BY <1>1, <2>1 DEF Hands, HandLabels, QueueLabels, EnqueueLabels, MoveLabels, RequestLabels,
       PromoteLabels
  <2>4. Carries(c)
    BY <1>1, <2>1, Leaves
  <2>5. Records(c)
    <3>1. \A j \in Jobs : j = arg[c].id => Noticed(j)'
      BY <2>1, <2>2 DEF Noticed
    <3> QED
      BY <1>1, <2>1, <2>2, <3>1, Written
  <2>6. Lone(c)
    BY <1>1, <2>1, <2>2, NothingNew DEF QueueLabels, EnqueueLabels, MoveLabels, RequestLabels
  <2> QED
    BY <2>3, <2>4, <2>5, <2>6 DEF Proper
<1>8. CASE WheelRemove(c)
  <2>1. /\ UNCHANGED <<store, dependents, need, job, todo, back, asked, history>>
        /\ pc[c] = "cancel_remove" /\ pc'[c] = "idle" /\ arg'[c] = NoDocument
        /\ wheel' = [n \in 0 .. Slots - 1 |-> wheel[n] \ {arg[c].id}]
        /\ \A j \in Jobs : j # arg[c].id => sched'[j] = sched[j]
        /\ \A j \in Jobs : sched'[j] \in {sched[j], "out"}
    BY <1>1, <1>8, Docs, Ours DEF WheelRemove, CancelRemove, Remove
  <2>2. arg[c].id \in asked
    BY <1>1, <2>1 DEF Hands, RequestLabels
  <2>3. Hands(c)'
    BY <1>1, <2>1 DEF Hands, HandLabels, QueueLabels, EnqueueLabels, MoveLabels, RequestLabels,
       PromoteLabels
  <2>4. Carries(c)
    BY <1>1, <2>1, <2>2, Stays DEF InSlot
  <2>5. Records(c)
    BY <1>1, <2>1, Unwritten
  <2>6. Lone(c)
    BY <1>1, <2>1, NothingNew DEF MoveLabels
  <2> QED
    BY <2>3, <2>4, <2>5, <2>6 DEF Proper
<1> QED
  BY <1>4, <1>5, <1>6, <1>7, <1>8

(***************************************************************************)
(* Nothing is scheduled without delays.                                    *)
(***************************************************************************)
LaterLabels == PromoteLabels \cup {"enq_later", "enq_sched", "enq_slot"}

(* No document is early, and nobody is about to schedule one.              *)
Prompt ==
  /\ \A j \in Jobs : sched[j] = "out" /\ ~store[j].future
  /\ \A p \in Procs : ~arg[p].future /\ ~job[p].future /\ pc[p] \notin LaterLabels

(* A step that neither schedules nor delays keeps it so ...                *)
LEMMA PromptAfter ==
  ASSUME WInv, Prompt, NEW p \in Procs, Elsewhere(p),
         \A j \in Jobs : sched'[j] \in {sched[j], "out"},
         store' = store \/ \E d : SaveJob(d) /\ ~d.future,
         arg'[p] = arg[p] \/ ~arg'[p].future,
         job'[p] = job[p] \/ ~job'[p].future,
         pc'[p] \notin LaterLabels
  PROVE  Prompt'
<1>1. store \in [Jobs -> Document]
  BY DEF WInv, WheelTypeOK, TypeOK
<1>2. \A j \in Jobs : ~store'[j].future
  BY <1>1 DEF Prompt, SaveJob
<1> QED
  BY <1>2 DEF Prompt, Elsewhere

(* ... and without delays and retries all steps are such.                  *)
LEMMA PromptStep ==
  ASSUME WInv, Prompt, MaxRetries = 0, TRUE \notin Delays, Spare = {},
         NEW p \in Procs, Elsewhere(p), WheelStepOf(p)
  PROVE  Prompt'
<1>1. /\ TypeOK /\ Known /\ Local(p) /\ ~arg[p].future /\ ~job[p].future /\ pc[p] \notin LaterLabels
      /\ \A j \in Jobs : sched[j] = "out" /\ ~store[j].future
      /\ back[p] \in {"idle", "unlock_get", "recur", "tail", "release"}
      /\ DOMAIN back = Procs
  BY DEF WInv, WheelTypeOK, TypeOK, Sound, Prompt
<1>2. /\ pc \in [Procs -> Labels] /\ job \in [Procs -> Document] /\ arg \in [Procs -> Document]
      /\ todo \in [Procs -> SUBSET Jobs] /\ DOMAIN sched = Jobs
      /\ \A j \in Jobs : store[j] \in Document
      /\ job[p] \in Document /\ job[p].retries = 0
  <2>1. job[p] \in Document /\ job[p].retries = 0
    BY <1>1, Docs DEF Document
  <2> QED
    BY <1>1, <2>1, Docs
<1>3. ~NoDocument.future /\ \A j : ~Absent(j).future /\ \A b : NewJob(j, b).future = b
  BY DEF NoDocument, Absent, NewJob
<1>4. \A d \in Document, s \in Status : [d EXCEPT !.status = s].future = d.future
  BY DEF Document
<1> USE DEF Goto, LaterLabels
<1>5. CASE WheelEnqueueStep(p)
  <2>1. CASE WheelEnqueue(p)
    BY <1>1, <1>2, <1>3, <2>1, PromptAfter DEF WheelEnqueue, Enqueue, EnqueueDeps, CheckDependencies,
       ReadMet, ReadUnmet, Return, PromoteLabels
  <2>2. CASE EnqueueSave(p)
    BY <1>1, <1>2, <1>3, <2>2, PromptAfter DEF EnqueueSave, Return, PromoteLabels
  <2>3. CASE WheelZadd(p)
    BY <1>1, <1>2, <2>3, PromptAfter DEF WheelZadd, PromoteLabels
  <2>4. ~(EnqueueLaterSave(p) \/ WheelLaterZadd(p) \/ WheelLaterSlot(p))
    BY <1>1 DEF EnqueueLaterSave, WheelLaterZadd, WheelLaterSlot
  <2> QED
    BY <1>5, <2>1, <2>2, <2>3, <2>4 DEF WheelEnqueueStep
<1>6. CASE p \in Workers /\ (WheelDequeueStep(p) \/ WheelAcquire(p) \/ ReleaseLock(p))
  <2>1. CASE PromoteScan(p)
    <3>1. DueEntries = {}
      BY <1>1 DEF DueEntries
    <3> QED
      BY <1>1, <1>2, <2>1, <3>1, PromptAfter DEF PromoteScan, NextDue, PromoteLabels
  <2>2. ~(PromoteGet(p) \/ PromoteSave(p) \/ WheelPromoteZrem(p) \/ WheelPromoteZadd(p))
    BY <1>1 DEF PromoteGet, PromoteSave, WheelPromoteZrem, PromoteZrem, WheelPromoteZadd, PromoteLabels
  <2>3. CASE AdvanceWheel(p) \/ SlotEmpty(p) \/ ZpopMin(p) \/ WheelRequeue(p)
    BY <1>1, <1>2, <1>3, <2>3, PromptAfter DEF AdvanceWheel, SlotEmpty, ZpopMin, WheelRequeue, PromoteLabels
  <2>4. CASE DequeueGet(p)
    <3>1. job[p].id \in Jobs
      BY <1>1, <1>6, <2>4 DEF Local, Holding, DequeueGet
    <3> QED
      BY <1>1, <1>2, <1>3, <2>4, <3>1, PromptAfter DEF DequeueGet, CheckDependencies, PromoteLabels
  <2>5. CASE DequeueDeps(p)
    BY <1>1, <1>2, <2>5, PromptAfter DEF DequeueDeps, ReadMet, ReadUnmet, PromoteLabels
  <2>6. CASE WheelAcquire(p)
    BY <1>1, <1>2, <2>6, PromptAfter DEF WheelAcquire, Acquire, AcquireLock, PromoteLabels
  <2>7. CASE ReleaseLock(p)
    BY <1>1, <1>2, <1>3, <2>7, PromptAfter DEF ReleaseLock, PromoteLabels
  <2> QED
    BY <1>6, <2>1, <2>2, <2>3, <2>4, <2>5, <2>6, <2>7 DEF WheelDequeueStep
<1>7. CASE p \in Workers /\ ProcessStep(p)
  <2>1. CASE Start(p) \/ Complete(p)
    <3>1. PICK d : SaveJob(d) /\ job' = [job EXCEPT ![p] = d] /\ ~d.future
      <4>1. ~[job[p] EXCEPT !.status = "processing"].future /\ ~[job[p] EXCEPT !.status = "completed"].future
        BY <1>1, <1>2, <1>4 DEF Status
      <4> QED
        BY <2>1, <4>1 DEF Start, Complete
    <3> QED
      BY <1>1, <1>2, <2>1, <3>1, PromptAfter DEF Start, Complete, PromoteLabels
  <2>2. CASE MoveToDlq(p)
    <3>1. DeadLettered(job[p]).future = job[p].future
      BY <1>2 DEF DeadLettered, Document
    <3>2. PICK d : SaveJob(d) /\ job' = [job EXCEPT ![p] = d] /\ ~d.future
      BY <1>1, <2>2, <3>1 DEF MoveToDlq
    <3> QED
      BY <1>1, <1>2, <2>2, <3>2, PromptAfter DEF MoveToDlq, PromoteLabels
  <2>3. CASE HandlerReturns(p) \/ HandlerRaises(p) \/ Recheck(p) \/ Finish(p)
    BY <1>1, <1>2, <2>3, PromptAfter DEF HandlerReturns, HandlerRaises, OnException, Recheck, Finish,
       PromoteLabels
  <2>4. CASE GetDependents(p)
    BY <1>1, <1>2, <2>4, NextLabels, PromptAfter DEF GetDependents, PromoteLabels
  <2>5. CASE UnlockGet(p)
    <3>1. PICK i \in todo[p] :
            \/ arg' = [arg EXCEPT ![p] = store[i]] /\ CheckDependencies(p, i, "unlock_deps", "enqueue")
            \/ Goto(p, NextDependent(p, todo[p] \ {i})) /\ UNCHANGED arg
      BY <2>5 DEF UnlockGet
    <3>2. NextDependent(p, todo[p] \ {i}) \in {"unlock_get", "recur", "tail"}
      BY NextLabels
    <3>3. pc'[p] \in {"unlock_deps", "enqueue", "unlock_get", "recur", "tail"}
      BY <1>2, <3>1, <3>2 DEF CheckDependencies
    <3>4. arg'[p] = arg[p] \/ ~arg'[p].future
      BY <1>1, <1>2, <3>1
    <3>5. UNCHANGED <<store, sched, job>>
      BY <2>5 DEF UnlockGet
    <3> QED
      BY <3>3, <3>4, <3>5, PromptAfter DEF PromoteLabels
  <2>6. CASE UnlockDeps(p)
    BY <1>1, <1>2, <1>3, <2>6, PromptAfter DEF UnlockDeps, ReadMet, ReadUnmet, Return, PromoteLabels
  <2>7. CASE Recur(p)
    BY <1>1, <1>2, <2>7, PromptAfter DEF Recur, PromoteLabels
  <2>8. ~ScheduleRetry(p)
    BY <1>1, <1>2, <1>7 DEF ScheduleRetry, Local
  <2> QED
    BY <1>7, <2>1, <2>2, <2>3, <2>4, <2>5, <2>6, <2>7, <2>8 DEF ProcessStep
<1>8. CASE p \in Clients /\ (CreateSave(p) \/ CreateRegister(p))
  <2>1. CASE CreateSave(p)
    <3>1. PICK d : /\ SaveJob(d) /\ ~d.future /\ arg' = [arg EXCEPT ![p] = d]
                   /\ pc'[p] \in {"enqueue", "register"}
      <4>1. \A later \in Delays : later = FALSE
        BY ServiceAssumption
      <4> QED
        BY <1>2, <1>3, <2>1, <4>1 DEF CreateSave, CallEnqueue
    <3> QED
      BY <1>1, <1>2, <2>1, <3>1, PromptAfter DEF CreateSave, PromoteLabels
  <2>2. CASE CreateRegister(p)
    BY <1>1, <1>2, <2>2, PromptAfter DEF CreateRegister, CallEnqueue, PromoteLabels
  <2> QED
    BY <1>8, <2>1, <2>2
<1>9. CASE p \in Clients /\ (CancelGet(p) \/ CancelSave(p) \/ CancelRemove(p))
  <2>1. CASE CancelGet(p)
    <3>1. PICK i \in Created : arg' = [arg EXCEPT ![p] = [store[i] EXCEPT !.status = "cancelled"]]
      BY <2>1 DEF CancelGet
    <3>2. ~arg'[p].future
      BY <1>1, <1>2, <1>4, <3>1 DEF Created, Status
    <3> QED
      BY <1>1, <1>2, <2>1, <3>2, PromptAfter DEF CancelGet, PromoteLabels
  <2>2. CASE CancelSave(p)
    BY <1>1, <1>2, <2>2, PromptAfter DEF CancelSave, PromoteLabels
  <2>3. CASE CancelRemove(p)
    BY <1>1, <1>2, <1>3, <2>3, PromptAfter DEF CancelRemove, Remove, PromoteLabels
  <2> QED
    BY <1>9, <2>1, <2>2, <2>3
<1> QED
  BY <1>5, <1>6, <1>7, <1>8, <1>9 DEF WheelStepOf, WheelProcess, WheelCreate, WheelCancelGet, WheelRemove

(***************************************************************************)
(* The theorem.                                                            *)
(***************************************************************************)
(* The parents being read are read by one coroutine alone.                 *)
LEMMA NeedApart ==
  ASSUME WInv, NEW p \in Procs, WheelStepOf(p), NEW q \in Procs \ {p}
  PROVE  need'[q] = need[q]
<1>1. need' = need \/ \E S : need' = [need EXCEPT ![p] = S]
  BY DEF WheelStepOf, WheelEnqueueStep, WheelEnqueue, Enqueue, EnqueueDeps, EnqueueLaterSave, EnqueueSave,
     WheelLaterZadd, WheelLaterSlot, WheelZadd, WheelDequeueStep, PromoteScan, PromoteGet, PromoteSave,
     WheelPromoteZrem, PromoteZrem, WheelPromoteZadd, AdvanceWheel, ZpopMin, SlotEmpty, DequeueGet,
     DequeueDeps, WheelRequeue, WheelAcquire, Acquire, AcquireLock, ReleaseLock, WheelProcess, ProcessStep,
     Start, HandlerReturns, HandlerRaises, Recheck, Complete, GetDependents, UnlockGet, UnlockDeps, Recur,
     Finish, ScheduleRetry, MoveToDlq, WheelCreate, CreateSave, WheelCancelGet, CancelGet, WheelRemove,
     CancelRemove, CreateRegister, CancelSave, CheckDependencies, ReadMet, ReadUnmet
<1> QED
  BY <1>1 DEF WInv, WheelTypeOK, TypeOK

(* Time changes nothing of it.                                             *)
LEMMA TimeBooks ==
  ASSUME WInv, Booked, UNCHANGED <<pc, dependents, wheel, started, asked, todo, back, need>>,
         \A j \in Jobs : store'[j].status = store[j].status /\ (sched'[j] = "out" <=> sched[j] = "out"),
         \A p \in Procs : /\ arg'[p].id = arg[p].id /\ arg'[p].status = arg[p].status
                          /\ job'[p].id = job[p].id
  PROVE  Booked' /\ \A j \in Jobs : Singular(j) => Singular(j)'
<1>1. /\ Workers \subseteq Procs /\ Clients \subseteq Procs
      /\ \A j \in Jobs : DependsOn[j] \subseteq Jobs
  BY StoreAssumption DEF Procs
<1>2. \A j \in Jobs : /\ (Noticed(j)' <=> Noticed(j)) /\ (Coming(j)' <=> Coming(j))
                      /\ (Blocked(j)' <=> Blocked(j)) /\ (Introduced(j)' <=> Introduced(j))
                      /\ (j \in Created' <=> j \in Created)
  BY <1>1 DEF Noticed, InSlot, Coming, Blocked, Introduced, Created
<1>3. \A j \in Jobs : Accounted(j)'
  BY <1>2 DEF Booked, Accounted
<1>4. ASSUME NEW p \in Procs PROVE Hands(p)'
  <2>1. Hands(p) /\ (Executing(p)' <=> Executing(p))
    BY DEF Booked, Executing
  <2>2. (pc[p] \in {"enq_save", "promote_save"} => Noticed(arg[p].id))'
    BY <1>1, <2>1 DEF Hands, Noticed, InSlot
  <2> QED
    BY <2>1, <2>2 DEF Hands
<1>5. Loyal'
  <2>1. \A w \in Workers : pc[w] \in MoveLabels => arg[w].id \in Jobs
    BY DEF WInv, Moving
  <2> QED
    BY <1>1, <2>1 DEF Booked, Loyal
<1>6. ASSUME NEW j \in Jobs, Singular(j) PROVE Singular(j)'
  BY <1>6 DEF Singular, Queueing
<1> QED
  BY <1>3, <1>4, <1>5, <1>6 DEF Booked

(* No forged success: a handler is tried once, every job has one, and      *)
(* what a promotion writes back is what it has read.                       *)
Forthright ==
  /\ MaxRetries = 0 /\ Unhandled = {}
  /\ \A k \in Spare : DependsOn[k] = {}
  /\ \/ TRUE \notin Delays /\ Spare = {}
     \/ /\ \A v, w \in Workers : v = w
        /\ \A j \in Jobs : \A d \in DependsOn[j] : DependsOn[d] = {}

(* The inductive invariant.                                                *)
Ledger ==
  /\ Booked
  /\ TRUE \notin Delays /\ Spare = {} => Prompt
  /\ \A j \in Jobs : DependsOn[j] = {} => Singular(j)

(* Every step of a coroutine is proper.                                    *)
LEMMA ProperStep ==
  ASSUME Forthright, WInv, Booked, NEW p \in Procs, Elsewhere(p), WheelStepOf(p)
  PROVE  Proper(p)
<1>1. /\ MaxRetries = 0 /\ Unhandled = {} /\ \A k \in Spare : DependsOn[k] = {}
  BY DEF Forthright
<1>2. CASE WheelEnqueueStep(p) /\ UNCHANGED history
  BY <1>2, EnqueueProper
<1>3. ASSUME p \in Workers, WheelDequeueStep(p), UNCHANGED history PROVE Proper(p)
  <2>1. CASE \/ (PromoteScan(p) \/ PromoteGet(p) \/ PromoteSave(p)) /\ UNCHANGED wheelVars
             \/ WheelPromoteZrem(p) \/ WheelPromoteZadd(p)
    BY <1>3, <2>1, PromoteProper
  <2>2. CASE \/ AdvanceWheel(p) \/ ZpopMin(p) \/ SlotEmpty(p)
             \/ (DequeueGet(p) \/ DequeueDeps(p)) /\ UNCHANGED wheelVars
             \/ WheelRequeue(p)
    BY <1>3, <2>2, PopProper
  <2> QED
    BY <1>3, <2>1, <2>2 DEF WheelDequeueStep
<1>4. ASSUME p \in Workers, WheelProcess(p) PROVE Proper(p)
  <2>1. ProcessStep(p) /\ UNCHANGED <<wheel, asked>>
    BY <1>4 DEF WheelProcess
  <2>2. CASE \/ Start(p) \/ HandlerReturns(p) \/ HandlerRaises(p) \/ Recheck(p) \/ Complete(p)
             \/ Finish(p) \/ ScheduleRetry(p) \/ MoveToDlq(p)
    BY <1>1, <1>4, <2>1, <2>2, RunProper
  <2>3. CASE GetDependents(p) \/ UnlockGet(p) \/ UnlockDeps(p)
    BY <1>4, <2>1, <2>3, UnlockProper
  <2>4. CASE Recur(p)
    BY <1>1, <1>4, <2>1, <2>4, RecurProper
  <2> QED
    BY <2>1, <2>2, <2>3, <2>4 DEF ProcessStep
<1>5. ASSUME p \in Workers, WheelAcquire(p) PROVE Proper(p)
  BY <1>1, <1>5, RunProper
<1>6. ASSUME p \in Workers, ReleaseLock(p), UNCHANGED <<history, wheelVars>> PROVE Proper(p)
  BY <1>6, PopProper
<1>7. ASSUME p \in Clients,
             \/ WheelCreate(p) \/ WheelCancelGet(p) \/ WheelRemove(p)
             \/ (CreateRegister(p) \/ CancelSave(p)) /\ UNCHANGED wheelVars
      PROVE  Proper(p)
  BY <1>7, RequestProper
<1> QED
  BY <1>2, <1>3, <1>4, <1>5, <1>6, <1>7 DEF WheelStepOf

(* The ledger is kept by the coroutines ...                                *)
LEMMA LedgerStep ==
  ASSUME Forthright, WInv, Ledger, NEW p \in Procs, WheelStepOf(p)
  PROVE  Ledger'
<1>1. Booked /\ Loyal /\ Elsewhere(p)
  BY WheelApart DEF Ledger, Booked
<1>2. Hands(p)' /\ Carries(p) /\ Records(p) /\ Lone(p)
  BY <1>1, ProperStep DEF Proper
<1>3. \A j \in Jobs : Accounted(j)'
  BY <1>1, <1>2, BookStays
<1>4. ASSUME NEW q \in Procs \ {p} PROVE Hands(q)'
  <2>1. Hands(q) /\ need'[q] = need[q]
    BY <1>1, NeedApart DEF Booked
  <2> QED
    BY <1>1, <1>2, <2>1, OthersHold DEF Carries
<1>5. ASSUME NEW j \in Jobs, DependsOn[j] = {} PROVE Singular(j)'
  BY <1>1, <1>2, <1>5, SingularStays DEF Ledger
<1>6. ASSUME TRUE \notin Delays, Spare = {} PROVE Prompt'
  BY <1>1, <1>6, PromptStep DEF Ledger, Forthright
<1>7. Loyal'
  <2>1. CASE TRUE \notin Delays /\ Spare = {}
    BY <1>6, <2>1 DEF Prompt, Loyal, LaterLabels, MoveLabels, PromoteLabels, Procs
  <2>2. CASE /\ \A v, w \in Workers : v = w
             /\ \A j \in Jobs : \A d \in DependsOn[j] : DependsOn[d] = {}
    <3>1. \A j \in Jobs : \A d \in DependsOn[j] : DependsOn[d] = {} /\ Singular(d)
      BY <2>2, StoreAssumption DEF Ledger
    <3> QED
      BY <1>1, <1>2, <2>2, <3>1, LoyalStays DEF Carries
  <2> QED
    BY <2>1, <2>2 DEF Forthright
<1> QED
  BY <1>2, <1>3, <1>4, <1>5, <1>6, <1>7 DEF Ledger, Booked

(* ... and by time.                                                        *)
LEMMA LedgerWaits ==
  ASSUME WInv, Ledger,
         \/ \E k \in Jobs : WheelDue(k) \/ (LockExpires(k) /\ UNCHANGED <<history, wheelVars>>)
         \/ Tick
         \/ UNCHANGED <<vars, wheelVars>>
  PROVE  Ledger'
<1>1. /\ store \in [Jobs -> Document] /\ sched \in [Jobs -> {"out", "future", "due"}]
      /\ arg \in [Procs -> Document] /\ job \in [Procs -> Document]
  BY Docs DEF WInv, WheelTypeOK, TypeOK
<1>2. ASSUME NEW k \in Jobs, WheelDue(k) \/ (LockExpires(k) /\ UNCHANGED <<history, wheelVars>>)
      PROVE  /\ UNCHANGED <<pc, dependents, wheel, started, asked, todo, back, need>>
             /\ \A j \in Jobs : /\ store'[j].status = store[j].status
                                /\ store'[j].future => store[j].future
                                /\ sched'[j] = "out" <=> sched[j] = "out"
             /\ \A p \in Procs : /\ arg'[p].id = arg[p].id /\ arg'[p].status = arg[p].status
                                 /\ arg'[p].future => arg[p].future
                                 /\ job'[p].id = job[p].id
                                 /\ job'[p].future => job[p].future
  <2>1. CASE WheelDue(k)
    BY <1>1, <2>1 DEF WheelDue, Due, Document
  <2>2. CASE LockExpires(k) /\ UNCHANGED <<history, wheelVars>>
    BY <2>2 DEF LockExpires, wheelVars
  <2> QED
    BY <1>2, <2>1, <2>2
<1>3. ASSUME Tick \/ UNCHANGED <<vars, wheelVars>>
      PROVE  UNCHANGED <<pc, store, sched, dependents, wheel, started, asked, todo, back, need, arg, job>>
  BY <1>3 DEF Tick, vars, wheelVars
<1>4. /\ UNCHANGED <<pc, dependents, wheel, started, asked, todo, back, need>>
      /\ \A j \in Jobs : store'[j].status = store[j].status /\ (sched'[j] = "out" <=> sched[j] = "out")
      /\ \A p \in Procs : /\ arg'[p].id = arg[p].id /\ arg'[p].status = arg[p].status
                          /\ job'[p].id = job[p].id
  <2>1. CASE \E k \in Jobs : WheelDue(k) \/ (LockExpires(k) /\ UNCHANGED <<history, wheelVars>>)
    BY <1>2, <2>1
  <2>2. CASE Tick \/ UNCHANGED <<vars, wheelVars>>
    BY <1>3, <2>2
  <2> QED
    BY <2>1, <2>2
<1>5. Booked' /\ \A j \in Jobs : Singular(j) => Singular(j)'
  BY <1>4, TimeBooks DEF Ledger
<1>6. Prompt => Prompt'
  BY <1>2, <1>3 DEF Prompt
<1> QED
  BY <1>5, <1>6 DEF Ledger

(* Nothing is in it at first.                                              *)
LEMMA LedgerStart == WheelInit => Ledger
<1> SUFFICES ASSUME WheelInit PROVE Ledger
  OBVIOUS
<1>1. /\ pc = [p \in Procs |-> "idle"] /\ started = {} /\ asked = {}
      /\ store = [j \in Jobs |-> Absent(j)] /\ dependents = [j \in Jobs |-> {}]
      /\ sched = [j \in Jobs |-> "out"]
      /\ arg = [p \in Procs |-> NoDocument] /\ job = [p \in Procs |-> NoDocument]
      /\ todo = [p \in Procs |-> {}] /\ back = [p \in Procs |-> "idle"]
  BY DEF WheelInit, Init, StoreInit, SchedulerInit
<1>2. /\ NoDocument.id \notin Jobs /\ NoDocument.status = "absent" /\ ~NoDocument.future
      /\ \A j \in Jobs : Absent(j).status = "absent" /\ ~Absent(j).future
  BY StoreAssumption DEF NoDocument, Absent, NewJob
<1> USE DEF HandLabels, QueueLabels, EnqueueLabels, MoveLabels, RequestLabels, PromoteLabels
<1>3. \A j \in Jobs : Accounted(j)
  BY <1>1, <1>2 DEF Accounted, Created, Introduced
<1>4. \A p \in Procs : Hands(p)
  BY <1>1, <1>2 DEF Hands, Executing, DequeueLabels
<1>5. Loyal
  BY <1>1 DEF Loyal, Procs
<1>6. Prompt /\ \A j \in Jobs : Singular(j)
  BY <1>1, <1>2 DEF Prompt, LaterLabels, Singular, Queueing
<1> QED
  BY <1>3, <1>4, <1>5, <1>6 DEF Ledger, Booked

(* No entry is lost between slots: a pending job that was never started    *)
(* and is in no slot, not scheduled and in nobody's hands waits for a      *)
(* parent, unless it or a parent was asked to be cancelled, for any number *)
(* of jobs, clients and slots.  A retry, or a promotion with another       *)
(* worker or a longer chain about, may write an old document back over a   *)
(* new one, and then a parent can seem to have completed that has not yet  *)
(* announced it; hence Forthright.                                         *)
THEOREM NoEntryLost ==
  ASSUME Forthright
  PROVE  WheelSpec => []NothingLost
<1>1. WInv /\ Ledger /\ [WheelNext]_<<vars, wheelVars>> => Ledger'
  BY LedgerStep, LedgerWaits DEF WheelNext, WheelStepOf, Procs
<1>2. Ledger => NothingLost
  <2> SUFFICES ASSUME Ledger, NEW j \in Jobs, Parked(j), \A n \in 0 .. Slots - 1 : j \notin wheel[n],
                      asked \cap ({j} \cup DependsOn[j]) = {}
               PROVE  \E d \in DependsOn[j] :
                        \/ store[d].status # "completed"
                        \/ \E w \in Workers : pc[w] = "dependents" /\ job[w].id = d
    BY DEF NothingLost
  <2>1. j \in Created /\ ~Coming(j) /\ ~Noticed(j)
    BY DEF Parked, Created, Coming, Noticed, InSlot, Procs
  <2>2. Blocked(j)
    BY <2>1 DEF Ledger, Booked, Accounted
  <2> QED
    BY <2>2 DEF Blocked
<1> QED
  BY <1>1, <1>2, LedgerStart, WheelAlways, PTL DEF WheelSpec

=============================================================================
