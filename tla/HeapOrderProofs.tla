--------------------------- MODULE HeapOrderProofs ---------------------------
(***************************************************************************)
(* Proofs about the order of the heap, for all jobs, priorities, times and *)
(* settings.                                                               *)
(***************************************************************************)
EXTENDS HeapOrder, TLAPS

(***************************************************************************)
(* Rounding.                                                               *)
(***************************************************************************)
LEMMA GrainType == \A p \in 1 .. 3 : Grain[p] \in {2, 4, 8}
  BY DEF Grain

(* A sum is off by half a grain at most.                                   *)
LEMMA RoundedNear ==
  ASSUME NEW g \in {2, 4, 8}, NEW x \in Int
  PROVE  /\ Rounded(x, g) \in Int
         /\ 2 * Rounded(x, g) <= 2 * x + g
         /\ 2 * x <= 2 * Rounded(x, g) + g
  <1>1. CASE g = 2 BY <1>1 DEF Rounded
  <1>2. CASE g = 4 BY <1>2 DEF Rounded
  <1>3. CASE g = 8 BY <1>3 DEF Rounded
  <1> QED BY <1>1, <1>2, <1>3

(***************************************************************************)
(* What comparing two scores tells.                                        *)
(***************************************************************************)
LEMMA ScoreBounds ==
  ASSUME NEW p \in 1 .. 3, NEW s \in Nat, NEW c \in Nat
  PROVE  /\ Score(p, s, c) \in Int
         /\ Score(p, s, c) <= p * Weight + s * Scale + c + Grain[p]
         /\ p * Weight + s * Scale + c <= Score(p, s, c) + Grain[p]
  <1> DEFINE g == Grain[p]
             x == p * Weight + s * Scale
  <1>1. g \in {2, 4, 8} BY GrainType
  <1>2. x \in Int BY OrderAssumption DEF OrderAssumption
  <1> HIDE DEF g, x
  <1>3. /\ Rounded(x, g) \in Int
        /\ 2 * Rounded(x, g) <= 2 * x + g
        /\ 2 * x <= 2 * Rounded(x, g) + g
    BY <1>1, <1>2, RoundedNear
  <1> DEFINE y == Rounded(x, g) + c
  <1>4. y \in Int BY <1>3
  <1> HIDE DEF y
  <1>5. /\ Rounded(y, g) \in Int
        /\ 2 * Rounded(y, g) <= 2 * y + g
        /\ 2 * y <= 2 * Rounded(y, g) + g
    BY <1>1, <1>4, RoundedNear
  <1>6. Score(p, s, c) = Rounded(y, g) BY DEF Score, x, g, y
  <1>7. Score(p, s, c) \in Int /\ Score(p, s, c) <= x + c + g /\ x + c <= Score(p, s, c) + g
    BY <1>1, <1>2, <1>3, <1>5, <1>6 DEF y
  <1> QED BY <1>7 DEF x, g

(* Of two jobs with the same schedule time, the second rounding alone can  *)
(* exchange their creation times.                                          *)
LEMMA SameSchedule ==
  ASSUME NEW p \in 1 .. 3, NEW s \in Nat, NEW c \in Nat, NEW d \in Nat,
         Score(p, s, c) <= Score(p, s, d)
  PROVE  c <= d + Grain[p]
  <1> DEFINE g == Grain[p]
             z == Rounded(p * Weight + s * Scale, g)
  <1>1. g \in {2, 4, 8} BY GrainType
  <1>2. p * Weight + s * Scale \in Int BY OrderAssumption DEF OrderAssumption
  <1>3. z \in Int BY <1>1, <1>2, RoundedNear
  <1>4. Score(p, s, c) = Rounded(z + c, g) /\ Score(p, s, d) = Rounded(z + d, g)
    BY DEF Score
  <1> HIDE DEF g, z
  <1> DEFINE x == z + c
             y == z + d
  <1>5. x \in Int /\ y \in Int BY <1>3
  <1> HIDE DEF x, y
  <1>6. /\ Rounded(x, g) \in Int /\ Rounded(y, g) \in Int
        /\ 2 * x <= 2 * Rounded(x, g) + g
        /\ 2 * Rounded(y, g) <= 2 * y + g
    BY <1>1, <1>5, RoundedNear
  <1>7. Rounded(x, g) <= Rounded(y, g) BY <1>4 DEF x, y
  <1>8. x <= y + g BY <1>1, <1>5, <1>6, <1>7
  <1>9. c <= d + g BY <1>1, <1>3, <1>8 DEF x, y
  <1> QED BY <1>9 DEF g

(* The weight of a priority outdoes all times together.                    *)
LEMMA PriorityDominates ==
  ASSUME NEW p \in 1 .. 3, NEW q \in 1 .. 3, q < p,
         NEW s \in 0 .. Latest, NEW c \in 0 .. MaxClock,
         NEW t \in 0 .. Latest, NEW d \in 0 .. MaxClock
  PROVE  Score(q, t, d) < Score(p, s, c)
  <1>0. Scale \in Nat /\ MaxClock \in Nat /\ Latest \in Nat /\ Weight \in Nat
        /\ Weight > Scale * Latest + MaxClock + 16
    BY OrderAssumption DEF OrderAssumption
  <1>1. t * Scale <= Scale * Latest /\ t * Scale \in Nat
        /\ s * Scale \in Nat /\ Scale * Latest \in Nat
    BY <1>0
  <1>2. q * Weight + Weight <= p * Weight /\ q * Weight \in Nat /\ p * Weight \in Nat
    BY <1>0
  <1>3. Grain[p] \in {2, 4, 8} /\ Grain[q] \in {2, 4, 8} BY GrainType
  <1>a. s \in Nat /\ c \in Nat /\ t \in Nat /\ d \in Nat BY <1>0
  <1>4. /\ Score(p, s, c) \in Int
        /\ p * Weight + s * Scale + c <= Score(p, s, c) + Grain[p]
    BY <1>a, ScoreBounds
  <1>5. /\ Score(q, t, d) \in Int
        /\ Score(q, t, d) <= q * Weight + t * Scale + d + Grain[q]
    BY <1>a, ScoreBounds
  <1> DEFINE wp == p * Weight
             wq == q * Weight
             ts == t * Scale
             ss == s * Scale
             m == Scale * Latest
             a == Score(p, s, c)
             b == Score(q, t, d)
  <1> HIDE DEF wp, wq, ts, ss, m, a, b
  <1>6. Weight > m + MaxClock + 16 BY <1>0 DEF m
  <1>7. ts <= m /\ ts \in Nat /\ ss \in Nat /\ m \in Nat BY <1>1 DEF ts, ss, m
  <1>8. wq + Weight <= wp /\ wq \in Nat /\ wp \in Nat BY <1>2 DEF wp, wq
  <1>9. a \in Int /\ wp + ss + c <= a + Grain[p] BY <1>4 DEF a, wp, ss
  <1>10. b \in Int /\ b <= wq + ts + d + Grain[q] BY <1>5 DEF b, wq, ts
  <1>11. b < a BY <1>0, <1>3, <1>6, <1>7, <1>8, <1>9, <1>10
  <1> QED BY <1>11 DEF a, b

LEMMA ScorePositive ==
  ASSUME NEW p \in 1 .. 3, NEW s \in Nat, NEW c \in Nat
  PROVE  Score(p, s, c) > 0
  <1>1. Scale \in Nat /\ Latest \in Nat /\ MaxClock \in Nat /\ Weight \in Nat
        /\ Weight > Scale * Latest + MaxClock + 16
    BY OrderAssumption DEF OrderAssumption
  <1>2. Scale * Latest \in Nat /\ s * Scale \in Nat /\ p * Weight >= Weight
        /\ p * Weight \in Nat
    BY <1>1
  <1>3. Grain[p] \in {2, 4, 8} BY GrainType
  <1>4. /\ Score(p, s, c) \in Int
        /\ p * Weight + s * Scale + c <= Score(p, s, c) + Grain[p]
    BY ScoreBounds
  <1> DEFINE w == p * Weight
             m == Scale * Latest
             a == s * Scale
             x == Score(p, s, c)
  <1>5. m \in Nat /\ a \in Nat /\ w \in Nat /\ x \in Int /\ w >= Weight
        /\ Weight > m + MaxClock + 16 /\ w + a + c <= x + Grain[p]
    BY <1>1, <1>2, <1>4
  <1> HIDE DEF w, m, a, x
  <1>6. x > 0 BY <1>1, <1>3, <1>5
  <1> QED BY <1>6 DEF x

(***************************************************************************)
(* Aging.                                                                  *)
(***************************************************************************)
LEMMA DivMonotone ==
  ASSUME NEW i \in Nat \ {0}, NEW x \in Nat, NEW y \in Nat, x <= y
  PROVE  x \div i \in Nat /\ y \div i \in Nat /\ x \div i <= y \div i
  OBVIOUS

LEMMA DivZero == ASSUME NEW i \in Nat \ {0} PROVE 0 \div i = 0
  OBVIOUS

(* What a wait of now - since is worth.                                    *)
Levels(since, now) == ((now - since) \div Interval) * Boost

LEMMA LevelsGrow ==
  ASSUME NEW since \in Nat, NEW now \in Nat, NEW later \in Nat,
         since <= now, now <= later
  PROVE  /\ Levels(since, now) \in Nat /\ Levels(since, later) \in Nat
         /\ Levels(since, now) <= Levels(since, later)
  <1>1. Interval \in Nat \ {0} /\ Boost \in Nat
    BY OrderAssumption DEF OrderAssumption
  <1> DEFINE a == (now - since) \div Interval
             b == (later - since) \div Interval
  <1>2. a \in Nat /\ b \in Nat /\ a <= b
    <2>1. now - since \in Nat /\ later - since \in Nat /\ now - since <= later - since
      OBVIOUS
    <2> QED BY <1>1, <2>1, DivMonotone
  <1> HIDE DEF a, b
  <1>3. a * Boost \in Nat /\ b * Boost \in Nat /\ a * Boost <= b * Boost
    BY <1>1, <1>2
  <1> QED BY <1>3 DEF Levels, a, b

(* What is scored for it.                                                  *)
LEMMA EffectiveThen ==
  ASSUME NEW j \in Jobs, NEW since \in Nat, NEW now \in Nat, since <= now,
         priority \in [Jobs -> 1 .. 3]
  PROVE  LET p == EffectivePriority(j, since, now)
         IN  /\ p \in 1 .. priority[j]
             /\ p < priority[j] => Levels(since, now) >= priority[j] - p
  <1> DEFINE l == Levels(since, now)
  <1>1. l \in Nat BY LevelsGrow
  <1>2. since # -1 OBVIOUS
  <1>3. EffectivePriority(j, since, now) = Highest(1, priority[j] - l)
    BY <1>2 DEF EffectivePriority, Levels
  <1> HIDE DEF l
  <1>4. priority[j] \in 1 .. 3 OBVIOUS
  <1>5. LET p == Highest(1, priority[j] - l)
        IN p \in 1 .. priority[j] /\ (p < priority[j] => l >= priority[j] - p)
    BY <1>1, <1>4 DEF Highest
  <1> QED BY <1>3, <1>5 DEF l

(***************************************************************************)
(* The invariant.                                                          *)
(***************************************************************************)
(* A queued_at, wherever it is kept, is an instant at which j existed.     *)
Waited(j, since) ==
  since # -1 => Exists(j) /\ created[j] <= since /\ since <= clock

(* A level better than the base priority was earned by waiting.            *)
Earned(j, level, since) ==
  level < priority[j] =>
    since # -1 /\ Levels(since, clock) >= priority[j] - level

Hands == [step : Steps, job : Jobs \cup {NoJob}, at : 0 .. Latest,
          queued : -1 .. MaxClock, level : 0 .. 3, due : SUBSET Jobs]

Busy(h) == h.step \notin {"idle", "promote"}

HandOK(h) ==
  /\ h \in Hands
  /\ Busy(h) => h.job \in Jobs /\ Exists(h.job) /\ Waited(h.job, h.queued)
  /\ h.step \in {"add", "readd", "unschedule"} =>
       h.level \in 1 .. priority[h.job] /\ Earned(h.job, h.level, h.queued)
  /\ h.step = "schedule" => created[h.job] < h.at
  /\ \A d \in h.due : h.queued # -1 /\ Waited(d, h.queued)

TimesOK ==
  /\ clock \in 0 .. MaxClock
  /\ priority \in [Jobs -> 1 .. 3]
  /\ created \in [Jobs -> -1 .. MaxClock]
  /\ \A j \in Jobs : created[j] <= clock

StoreOK ==
  /\ at \in [Jobs -> 0 .. Latest]
  /\ queued \in [Jobs -> -1 .. MaxClock]
  /\ \A j \in Jobs : Waited(j, queued[j])

SchedOK ==
  /\ sched \in [Jobs -> 0 .. Latest]
  /\ \A j \in Jobs : sched[j] # 0 => Exists(j) /\ created[j] < sched[j]

Entries == [level : 1 .. 3, at : 0 .. Latest, since : -1 .. MaxClock]

EntryOK(j) ==
  /\ Exists(j)
  /\ entry[j].level <= priority[j]
  /\ heap[j] = Score(entry[j].level, entry[j].at, created[j])
  /\ Waited(j, entry[j].since)
  /\ Earned(j, entry[j].level, entry[j].since)

HeapOK ==
  /\ heap \in [Jobs -> Int]
  /\ entry \in [Jobs -> Entries]
  /\ \A j \in Jobs : heap[j] # 0 => EntryOK(j)

HandsOK ==
  /\ hand \in [Coroutines -> Hands]
  /\ \A p \in Coroutines : HandOK(hand[p])

IInv ==
  /\ TimesOK /\ StoreOK /\ SchedOK /\ HeapOK /\ HandsOK
  /\ calls \in 0 .. MaxCalls

LEMMA Bounds == /\ MaxClock \in Nat /\ Latest \in Nat /\ MaxCalls \in Nat
                /\ NoJob \notin Jobs
  BY OrderAssumption DEF OrderAssumption

LEMMA IdleOK == HandOK(Idle)
  BY Bounds DEF HandOK, Hands, Busy, Idle, Copy, Steps

THEOREM InitInvariant == Init => IInv
  <1> SUFFICES ASSUME Init PROVE IInv OBVIOUS
  <1>1. TimesOK /\ StoreOK /\ SchedOK
    BY Bounds DEF Init, TimesOK, StoreOK, SchedOK, Waited
  <1>2. HeapOK BY Bounds DEF Init, HeapOK, Entries, NoEntry
  <1>3. HandsOK BY IdleOK DEF Init, HandsOK, HandOK
  <1> QED BY <1>1, <1>2, <1>3, Bounds DEF Init, IInv

(***************************************************************************)
(* What a step leaves alone.                                               *)
(***************************************************************************)
LEMMA TimesFrame ==
  ASSUME TimesOK, UNCHANGED <<clock, jobVars>> PROVE TimesOK'
  BY DEF TimesOK, jobVars

LEMMA StoreFrame ==
  ASSUME StoreOK, UNCHANGED <<clock, jobVars, storeVars>> PROVE StoreOK'
  BY DEF StoreOK, jobVars, storeVars, Waited, Exists

LEMMA SchedFrame ==
  ASSUME SchedOK, UNCHANGED <<clock, jobVars, sched>> PROVE SchedOK'
  BY DEF SchedOK, jobVars, Exists

LEMMA HeapFrame ==
  ASSUME HeapOK, UNCHANGED <<clock, jobVars, heap, entry>> PROVE HeapOK'
  BY DEF HeapOK, EntryOK, jobVars, Waited, Earned, Exists

(* One coroutine has another copy.                                         *)
LEMMA HandsStep ==
  ASSUME HandsOK, NEW p \in Coroutines, NEW h, HandOK(h), Holds(p, h),
         UNCHANGED <<clock, jobVars>>
  PROVE  HandsOK'
  <1>1. hand' \in [Coroutines -> Hands] BY DEF HandsOK, Holds, HandOK
  <1>2. ASSUME NEW q \in Coroutines PROVE HandOK(hand[q])'
    <2>1. HandOK(hand'[q])
      <3>1. CASE q = p BY <3>1 DEF Holds, HandsOK
      <3>2. CASE q # p BY <3>2 DEF Holds, HandsOK
      <3> QED BY <3>1, <3>2
    <2> QED BY <2>1 DEF HandOK, Busy, Waited, Earned, Exists, jobVars
  <1> QED BY <1>1, <1>2 DEF HandsOK

(***************************************************************************)
(* What a step saves and holds.                                            *)
(***************************************************************************)
(* A copy that a coroutine may hold may be saved.                          *)
LEMMA SaveStep ==
  ASSUME StoreOK, NEW h, HandOK(h), h.job \in Jobs, Waited(h.job, h.queued),
         SaveJob(h), UNCHANGED <<clock, jobVars>>
  PROVE  StoreOK'
  <1>1. h.at \in 0 .. Latest /\ h.queued \in -1 .. MaxClock BY DEF HandOK, Hands
  <1>2. /\ at' \in [Jobs -> 0 .. Latest] /\ queued' \in [Jobs -> -1 .. MaxClock]
        /\ \A j \in Jobs : queued'[j] = IF j = h.job THEN h.queued ELSE queued[j]
    BY <1>1 DEF StoreOK, SaveJob
  <1> QED BY <1>2 DEF StoreOK, Waited, Exists, jobVars

LEMMA CopyOK ==
  ASSUME NEW step \in {"enqueue", "get", "got", "redrive"}, NEW j \in Jobs, Exists(j),
         NEW s \in 0 .. Latest, NEW q \in -1 .. MaxClock, Waited(j, q)
  PROVE  HandOK(Copy(step, j, s, q))
  BY DEF HandOK, Hands, Busy, Copy, Steps

(* The level scored after a wait since q is earned, however late it is     *)
(* added.                                                                  *)
LEMMA LevelEarned ==
  ASSUME TimesOK, NEW j \in Jobs, NEW q \in -1 .. MaxClock, NEW now \in Nat,
         q <= now, now <= clock
  PROVE  LET l == EffectivePriority(j, q, now)
         IN  l \in 1 .. priority[j] /\ l \in 0 .. 3 /\ Earned(j, l, q)
  <1>0. /\ priority \in [Jobs -> 1 .. 3] /\ priority[j] \in 1 .. 3 /\ clock \in Nat
        /\ MaxClock \in Nat
    BY Bounds DEF TimesOK
  <1>1. CASE q = -1
    BY <1>0, <1>1 DEF EffectivePriority, Earned
  <1>2. CASE q # -1
    <2>1. q \in Nat BY <1>0, <1>2
    <2> DEFINE l == EffectivePriority(j, q, now)
    <2>2. l \in 1 .. priority[j] /\ (l < priority[j] => Levels(q, now) >= priority[j] - l)
      BY <1>0, <2>1, EffectiveThen
    <2>3. /\ Levels(q, now) \in Nat /\ Levels(q, clock) \in Nat
          /\ Levels(q, now) <= Levels(q, clock)
      BY <1>0, <2>1, LevelsGrow
    <2> HIDE DEF l
    <2>4. l < priority[j] => Levels(q, clock) >= priority[j] - l
      BY <1>0, <2>2, <2>3
    <2>5. l \in 0 .. 3 BY <1>0, <2>2
    <2> QED BY <1>2, <2>2, <2>4, <2>5 DEF l, Earned
  <1> QED BY <1>1, <1>2

LEMMA ScoredCopy ==
  ASSUME NEW step, NEW j, NEW s, NEW q, NEW now
  PROVE  Scored(step, j, s, q, now)
           = [step |-> step, job |-> j, at |-> s, queued |-> q,
              level |-> EffectivePriority(j, q, now), due |-> {}]
  <1> DEFINE l == EffectivePriority(j, q, now)
             c == Copy(step, j, s, q)
  <1>1. c = [step |-> step, job |-> j, at |-> s, queued |-> q, level |-> 0, due |-> {}]
    BY DEF Copy
  <1>2. Scored(step, j, s, q, now) = [c EXCEPT !.level = l] BY DEF Scored
  <1> HIDE DEF l, c
  <1>3. [c EXCEPT !.level = l]
          = [step |-> step, job |-> j, at |-> s, queued |-> q, level |-> l, due |-> {}]
    BY <1>1
  <1> QED BY <1>2, <1>3 DEF l

LEMMA ScoredOK ==
  ASSUME TimesOK, NEW step \in {"add", "readd", "unschedule"}, NEW j \in Jobs, Exists(j),
         NEW s \in 0 .. Latest, NEW q \in -1 .. MaxClock, Waited(j, q), NEW now \in Nat,
         q <= now, now <= clock,
         NEW D \in SUBSET Jobs, \A d \in D : q # -1 /\ Waited(d, q)
  PROVE  HandOK([Scored(step, j, s, q, now) EXCEPT !.due = D])
  <1> DEFINE l == EffectivePriority(j, q, now)
             h == [Scored(step, j, s, q, now) EXCEPT !.due = D]
  <1>1. l \in 1 .. priority[j] /\ l \in 0 .. 3 /\ Earned(j, l, q) BY LevelEarned
  <1>2. h = [step |-> step, job |-> j, at |-> s, queued |-> q, level |-> l, due |-> D]
    <2>1. Scored(step, j, s, q, now)
            = [step |-> step, job |-> j, at |-> s, queued |-> q, level |-> l, due |-> {}]
      BY ScoredCopy
    <2> HIDE DEF l
    <2> QED BY <2>1
  <1> HIDE DEF l, h
  <1>3. step \in Steps BY DEF Steps
  <1>4. HandOK(h) BY <1>1, <1>2, <1>3 DEF HandOK, Hands, Busy
  <1> QED BY <1>4 DEF h

LEMMA JustScoredOK ==
  ASSUME TimesOK, NEW step \in {"add", "readd"}, NEW j \in Jobs, Exists(j),
         NEW s \in 0 .. Latest, NEW q \in -1 .. MaxClock, Waited(j, q)
  PROVE  HandOK(Scored(step, j, s, q, clock))
  <1>1. Scored(step, j, s, q, clock) = [Scored(step, j, s, q, clock) EXCEPT !.due = {}]
    <2> DEFINE r == Scored(step, j, s, q, clock)
    <2>1. r = [step |-> step, job |-> j, at |-> s, queued |-> q,
               level |-> EffectivePriority(j, q, clock), due |-> {}]
      BY ScoredCopy
    <2> HIDE DEF r
    <2>2. r = [r EXCEPT !.due = {}] BY <2>1
    <2> QED BY <2>2 DEF r
  <1>2. clock \in Nat /\ clock <= clock /\ q <= clock
    BY Bounds DEF TimesOK, Waited
  <1>3. HandOK([Scored(step, j, s, q, clock) EXCEPT !.due = {}]) BY <1>2, ScoredOK
  <1> QED BY <1>1, <1>3

(* The due jobs existed before now.                                        *)
LEMMA PromotingOK ==
  ASSUME NEW D \in SUBSET Jobs, NEW now \in -1 .. MaxClock,
         \A d \in D : now # -1 /\ Waited(d, now)
  PROVE  HandOK(Promoting(D, now))
  <1>1. CASE D = {} BY <1>1, IdleOK DEF Promoting
  <1>2. CASE D # {}
    BY <1>2, Bounds DEF Promoting, HandOK, Hands, Busy, Copy, Steps
  <1> QED BY <1>1, <1>2

(***************************************************************************)
(* The steps.                                                              *)
(***************************************************************************)
LEMMA CreateStep ==
  ASSUME IInv, NEW p \in Coroutines, Create(p)
  PROVE  IInv'
  <1>0. PICK j \in Jobs, l \in Priorities, s \in Instants \cup {0} :
          /\ ~Exists(j)
          /\ priority' = [priority EXCEPT ![j] = l]
          /\ created' = [created EXCEPT ![j] = clock]
          /\ SaveJob(Copy("enqueue", j, s, -1))
          /\ Holds(p, Copy("enqueue", j, s, -1))
    BY DEF Create
  <1> DEFINE h == Copy("enqueue", j, s, -1)
  <1>1. /\ l \in 1 .. 3 /\ s \in 0 .. Latest /\ UNCHANGED <<clock, heap, sched, calls, entry>>
    BY OrderAssumption DEF OrderAssumption, Create
  <1>2. /\ TimesOK'
        /\ Exists(j)'
        /\ \A k \in Jobs : Exists(k) => /\ Exists(k)' /\ created'[k] = created[k]
                                        /\ priority'[k] = priority[k]
    BY <1>0, <1>1, Bounds DEF IInv, TimesOK, Exists
  <1>3. \A k \in Jobs, q \in -1 .. MaxClock : Waited(k, q) => Waited(k, q)'
    BY <1>1, <1>2 DEF Waited
  <1>4. StoreOK'
    <2>1. h.at = s /\ h.queued = -1 /\ h.job = j BY DEF Copy
    <2>2. /\ at' \in [Jobs -> 0 .. Latest] /\ queued' \in [Jobs -> -1 .. MaxClock]
          /\ \A k \in Jobs : queued'[k] = IF k = j THEN -1 ELSE queued[k]
      BY <1>0, <1>1, <2>1, Bounds DEF IInv, StoreOK, SaveJob
    <2> QED BY <1>3, <2>2 DEF IInv, StoreOK, Waited
  <1>5. SchedOK' BY <1>1, <1>2 DEF IInv, SchedOK
  <1>6. HeapOK'
    <2>1. ASSUME NEW k \in Jobs, heap[k] # 0 PROVE EntryOK(k)'
      <3>1. EntryOK(k) /\ entry[k].since \in -1 .. MaxClock
        BY <2>1 DEF IInv, HeapOK, Entries
      <3> QED BY <1>1, <1>2, <1>3, <3>1 DEF EntryOK, Earned
    <2> QED BY <1>1, <2>1 DEF IInv, HeapOK
  <1>7. HandsOK'
    <2>1. h \in Hands /\ h.step = "enqueue" /\ h.job = j /\ h.queued = -1 /\ h.due = {}
      BY <1>1, Bounds DEF Copy, Hands, Steps
    <2> HIDE DEF h
    <2>2. hand' \in [Coroutines -> Hands] BY <1>0, <2>1 DEF IInv, HandsOK, Holds, h
    <2>3. ASSUME NEW q \in Coroutines PROVE HandOK(hand[q])'
      <3>1. CASE q = p
        <4>1. hand'[q] = h BY <1>0, <3>1 DEF IInv, HandsOK, Holds, h
        <4> QED BY <1>2, <2>1, <4>1 DEF HandOK, Waited, Busy
      <3>2. CASE q # p
        <4>1. hand'[q] = hand[q] /\ HandOK(hand[q]) BY <1>0, <3>2 DEF IInv, HandsOK, Holds
        <4>2. hand[q].queued \in -1 .. MaxClock /\ hand[q].due \subseteq Jobs
          BY <4>1 DEF HandOK, Hands
        <4> QED BY <1>1, <1>2, <1>3, <4>1, <4>2 DEF HandOK, Busy, Earned
      <3> QED BY <3>1, <3>2
    <2> QED BY <2>2, <2>3 DEF HandsOK
  <1> QED BY <1>1, <1>2, <1>4, <1>5, <1>6, <1>7 DEF IInv

(* What a busy coroutine has in its hands.                                 *)
LEMMA Held ==
  ASSUME IInv, NEW p \in Coroutines
  PROVE  /\ HandOK(hand[p]) /\ hand[p] \in Hands
         /\ hand[p].at \in 0 .. Latest /\ hand[p].queued \in -1 .. MaxClock
         /\ hand[p].due \subseteq Jobs
         /\ Busy(hand[p]) => /\ hand[p].job \in Jobs /\ Exists(hand[p].job)
                             /\ Waited(hand[p].job, hand[p].queued)
  BY DEF IInv, HandsOK, HandOK, Hands

(* Steps that only take another copy in hand.                              *)
LEMMA TakeStep ==
  ASSUME IInv, NEW p \in Coroutines, NEW h, HandOK(h), Holds(p, h),
         UNCHANGED <<clock, jobVars, storeVars, heap, sched, entry>>,
         calls' \in 0 .. MaxCalls
  PROVE  IInv'
  BY TimesFrame, StoreFrame, SchedFrame, HeapFrame, HandsStep DEF IInv

(* Steps that save the copy in hand as well.                               *)
LEMMA SavingStep ==
  ASSUME IInv, NEW p \in Coroutines, NEW g, HandOK(g), Busy(g), SaveJob(g),
         NEW h, HandOK(h), Holds(p, h),
         UNCHANGED <<clock, jobVars, heap, sched, entry>>,
         calls' \in 0 .. MaxCalls
  PROVE  IInv'
  <1>1. g.job \in Jobs /\ Waited(g.job, g.queued) BY DEF HandOK
  <1> QED BY <1>1, TimesFrame, SaveStep, SchedFrame, HeapFrame, HandsStep DEF IInv

(* The same copy at another step.                                          *)
LEMMA GoesOK ==
  ASSUME IInv, NEW p \in Coroutines, Busy(hand[p]),
         NEW step \in {"enqueue", "run"}
  PROVE  HandOK([hand[p] EXCEPT !.step = step])
  <1> DEFINE h == hand[p]
  <1>1. HandOK(h) /\ h \in Hands /\ Busy(h) BY Held
  <1> HIDE DEF h
  <1>2. HandOK([h EXCEPT !.step = step])
    BY <1>1 DEF HandOK, Hands, Busy, Steps
  <1> QED BY <1>2 DEF h

LEMMA CalledOK == ASSUME IInv, Called PROVE calls' \in 0 .. MaxCalls
  BY Bounds DEF IInv, Called

LEMMA EnqueueLaterStep ==
  ASSUME IInv, NEW p \in Coroutines, EnqueueLater(p)
  PROVE  IInv'
  <1> DEFINE h == hand[p]
  <1>1. HandOK(h) /\ h \in Hands /\ h.step = "enqueue" /\ h.at > clock /\ Busy(h)
    BY Held DEF EnqueueLater, Busy
  <1>2. h.job \in Jobs /\ h.at \in 0 .. Latest /\ created[h.job] <= clock
        /\ created[h.job] \in -1 .. MaxClock /\ clock \in 0 .. MaxClock
    BY <1>1, Held DEF IInv, TimesOK
  <1>3. SaveJob(h) /\ Holds(p, [h EXCEPT !.step = "schedule"])
        /\ UNCHANGED <<clock, jobVars, heap, sched, calls, entry>>
    BY DEF EnqueueLater, Goes
  <1> HIDE DEF h
  <1>4. created[h.job] < h.at BY <1>1, <1>2, Bounds
  <1>5. HandOK([h EXCEPT !.step = "schedule"])
    BY <1>1, <1>4 DEF HandOK, Hands, Busy, Steps
  <1>6. calls' \in 0 .. MaxCalls BY <1>3 DEF IInv
  <1> QED BY <1>1, <1>3, <1>5, <1>6, SavingStep

LEMMA ScheduleStep ==
  ASSUME IInv, NEW p \in Coroutines, Schedule(p)
  PROVE  IInv'
  <1>1. /\ hand[p].step = "schedule" /\ sched' = [sched EXCEPT ![hand[p].job] = hand[p].at]
        /\ Holds(p, Idle) /\ UNCHANGED <<clock, jobVars, storeVars, heap, calls, entry>>
    BY DEF Schedule
  <1>2. HandOK(hand[p]) /\ hand[p].at \in 0 .. Latest BY Held
  <1>3. Exists(hand[p].job) /\ created[hand[p].job] < hand[p].at
    BY <1>1, <1>2 DEF HandOK, Busy
  <1>4. SchedOK'
    <2>1. \A j \in Jobs : sched'[j] # 0 => Exists(j) /\ created[j] < sched'[j]
      BY <1>1, <1>3 DEF IInv, SchedOK
    <2>2. sched' \in [Jobs -> 0 .. Latest] BY <1>1, <1>2 DEF IInv, SchedOK
    <2>3. created' = created BY <1>1 DEF jobVars
    <2> QED BY <2>1, <2>2, <2>3 DEF SchedOK, Exists
  <1> QED BY <1>1, <1>4, IdleOK, TimesFrame, StoreFrame, HeapFrame, HandsStep DEF IInv

LEMMA ZaddStep ==
  ASSUME IInv, NEW p \in Coroutines, Zadd(p)
  PROVE  IInv'
  <1> DEFINE h == hand[p]
             g == IF h.step = "add" THEN [h EXCEPT !.step = "save"] ELSE Idle
  <1>1. /\ h.step \in {"add", "readd"}
        /\ heap' = [heap EXCEPT ![h.job] = Score(h.level, h.at, created[h.job])]
        /\ entry' = [entry EXCEPT ![h.job] = [level |-> h.level, at |-> h.at, since |-> h.queued]]
        /\ Holds(p, g)
        /\ UNCHANGED <<clock, jobVars, storeVars, sched, calls>>
    BY DEF Zadd
  <1>2. /\ HandOK(h) /\ h \in Hands /\ h.job \in Jobs /\ Exists(h.job)
        /\ h.at \in 0 .. Latest /\ h.queued \in -1 .. MaxClock
        /\ Waited(h.job, h.queued)
    BY <1>1, Held DEF Busy
  <1> HIDE DEF h
  <1>3. h.level \in 1 .. priority[h.job] /\ Earned(h.job, h.level, h.queued)
    BY <1>1, <1>2 DEF HandOK
  <1>4. h.level \in 1 .. 3 /\ h.level <= priority[h.job]
    BY <1>2, <1>3 DEF IInv, TimesOK
  <1>5. HandOK(g)
    <2>1. CASE h.step = "add"
      <3>1. HandOK([h EXCEPT !.step = "save"])
        BY <1>1, <1>2 DEF HandOK, Hands, Busy, Steps
      <3> QED BY <2>1, <3>1
    <2>2. CASE h.step # "add" BY <2>2, IdleOK
    <2> QED BY <2>1, <2>2
  <1> HIDE DEF g
  <1>6. HeapOK'
    <2>1. created[h.job] \in Nat /\ h.at \in Nat
      BY <1>2, Bounds DEF IInv, TimesOK, Exists
    <2>2. Score(h.level, h.at, created[h.job]) \in Int BY <1>4, <2>1, ScoreBounds
    <2>3. heap' \in [Jobs -> Int] BY <1>1, <2>2 DEF IInv, HeapOK
    <2>4. entry' \in [Jobs -> Entries]
      BY <1>1, <1>2, <1>4 DEF IInv, HeapOK, Entries
    <2>5. ASSUME NEW k \in Jobs, heap'[k] # 0 PROVE EntryOK(k)'
      <3>1. CASE k = h.job
        <4>1. /\ entry'[k] = [level |-> h.level, at |-> h.at, since |-> h.queued]
              /\ heap'[k] = Score(h.level, h.at, created[h.job])
          BY <1>1, <1>2, <3>1 DEF IInv, HeapOK
        <4> QED BY <1>1, <1>2, <1>3, <1>4, <3>1, <4>1
                DEF EntryOK, Waited, Earned, Exists, jobVars
      <3>2. CASE k # h.job
        <4>1. entry'[k] = entry[k] /\ heap'[k] = heap[k] /\ EntryOK(k)
          BY <1>1, <2>5, <3>2 DEF IInv, HeapOK
        <4> QED BY <1>1, <4>1 DEF EntryOK, Waited, Earned, Exists, jobVars
      <3> QED BY <3>1, <3>2
    <2> QED BY <2>3, <2>4, <2>5 DEF HeapOK
  <1> QED BY <1>1, <1>5, <1>6, TimesFrame, StoreFrame, SchedFrame, HandsStep DEF IInv

LEMMA SaveHandStep ==
  ASSUME IInv, NEW p \in Coroutines, Save(p)
  PROVE  IInv'
  <1> DEFINE h == hand[p]
  <1>1. /\ h.step = "save" /\ SaveJob(h) /\ Holds(p, Promoting(h.due, h.queued))
        /\ UNCHANGED <<clock, jobVars, heap, sched, calls, entry>>
    BY DEF Save
  <1>2. HandOK(h) /\ Busy(h) /\ h.due \subseteq Jobs /\ h.queued \in -1 .. MaxClock
    BY <1>1, Held DEF Busy
  <1> HIDE DEF h
  <1>3. HandOK(Promoting(h.due, h.queued))
    BY <1>2, PromotingOK DEF HandOK
  <1>4. calls' \in 0 .. MaxCalls BY <1>1 DEF IInv
  <1> QED BY <1>1, <1>2, <1>3, <1>4, SavingStep

LEMMA PromoteDueStep ==
  ASSUME IInv, NEW p \in Coroutines, PromoteDue(p)
  PROVE  IInv'
  <1> DEFINE D == {j \in Jobs : sched[j] # 0 /\ sched[j] <= clock}
  <1>1. clock \in 0 .. MaxClock /\ clock # -1 BY Bounds DEF IInv, TimesOK
  <1>2. ASSUME NEW d \in D PROVE Waited(d, clock)
    <2>1. /\ sched[d] \in 0 .. Latest /\ created[d] \in -1 .. MaxClock
          /\ Exists(d) /\ created[d] < sched[d] /\ sched[d] <= clock
      BY DEF IInv, SchedOK, TimesOK
    <2> QED BY <1>1, <2>1, Bounds DEF Waited
  <1> HIDE DEF D
  <1>3. D \in SUBSET Jobs BY DEF D
  <1>4. HandOK(Promoting(D, clock))
    BY <1>1, <1>2, <1>3, Bounds, PromotingOK
  <1>5. /\ Holds(p, Promoting(D, clock))
        /\ UNCHANGED <<clock, jobVars, storeVars, heap, sched, calls, entry>>
    BY DEF PromoteDue, D
  <1>6. calls' \in 0 .. MaxCalls BY <1>5 DEF IInv
  <1> QED BY <1>4, <1>5, <1>6, TakeStep

LEMMA PromoteGetStep ==
  ASSUME IInv, NEW p \in Coroutines, PromoteGet(p)
  PROVE  IInv'
  <1> DEFINE now == hand[p].queued
  <1>1. PICK j \in hand[p].due :
          Holds(p, [Scored("unschedule", j, 0, now, now) EXCEPT !.due = hand[p].due \ {j}])
    BY DEF PromoteGet
  <1>2. /\ hand[p].due \subseteq Jobs /\ now \in -1 .. MaxClock
        /\ \A d \in hand[p].due : now # -1 /\ Waited(d, now)
    BY Held DEF HandOK
  <1>3. now \in Nat /\ now <= now /\ now <= clock /\ Exists(j) /\ 0 \in 0 .. Latest
    BY <1>2, Bounds DEF Waited
  <1> HIDE DEF now
  <1> DEFINE D == hand[p].due \ {j}
  <1>4. j \in Jobs /\ Waited(j, now) /\ D \in SUBSET Jobs
        /\ \A d \in D : now # -1 /\ Waited(d, now)
    BY <1>2
  <1> HIDE DEF D
  <1>5. HandOK([Scored("unschedule", j, 0, now, now) EXCEPT !.due = D])
    BY <1>2, <1>3, <1>4, ScoredOK DEF IInv
  <1>6. UNCHANGED <<clock, jobVars, storeVars, heap, sched, calls, entry>> BY DEF PromoteGet
  <1>7. calls' \in 0 .. MaxCalls BY <1>6 DEF IInv
  <1> QED BY <1>1, <1>5, <1>6, <1>7, TakeStep DEF D, now

LEMMA PromoteZremStep ==
  ASSUME IInv, NEW p \in Coroutines, PromoteZrem(p)
  PROVE  IInv'
  <1> DEFINE h == hand[p]
  <1>1. /\ h.step = "unschedule" /\ sched' = [sched EXCEPT ![h.job] = 0]
        /\ Holds(p, [h EXCEPT !.step = "add"])
        /\ UNCHANGED <<clock, jobVars, storeVars, heap, calls, entry>>
    BY DEF PromoteZrem, Goes
  <1>2. HandOK(h) /\ h \in Hands BY Held
  <1> HIDE DEF h
  <1>3. HandOK([h EXCEPT !.step = "add"])
    BY <1>1, <1>2 DEF HandOK, Hands, Busy, Steps
  <1>4. SchedOK'
    <2>1. \A j \in Jobs : sched'[j] # 0 => Exists(j) /\ created[j] < sched'[j]
      BY <1>1 DEF IInv, SchedOK
    <2>2. sched' \in [Jobs -> 0 .. Latest]
      <3>1. 0 \in 0 .. Latest BY Bounds
      <3> QED BY <1>1, <3>1 DEF IInv, SchedOK
    <2>3. created' = created BY <1>1 DEF jobVars
    <2> QED BY <2>1, <2>2, <2>3 DEF SchedOK, Exists
  <1> QED BY <1>1, <1>3, <1>4, TimesFrame, StoreFrame, HeapFrame, HandsStep DEF IInv

LEMMA ZpopMinStep ==
  ASSUME IInv, NEW p \in Coroutines, ZpopMin(p)
  PROVE  IInv'
  <1>1. PICK j \in Jobs : /\ heap[j] # 0
                          /\ heap' = [heap EXCEPT ![j] = 0]
                          /\ entry' = [entry EXCEPT ![j] = NoEntry]
                          /\ Holds(p, Copy("get", j, 0, -1))
    BY DEF ZpopMin
  <1>2. UNCHANGED <<clock, jobVars, storeVars, sched, calls>> BY DEF ZpopMin
  <1>3. Exists(j) BY <1>1 DEF IInv, HeapOK, EntryOK
  <1>4. HandOK(Copy("get", j, 0, -1)) BY <1>3, Bounds, CopyOK DEF Waited
  <1>5. HeapOK'
    <2>1. heap' \in [Jobs -> Int] /\ entry' \in [Jobs -> Entries]
      BY <1>1, Bounds DEF IInv, HeapOK, NoEntry, Entries
    <2>2. ASSUME NEW k \in Jobs, heap'[k] # 0 PROVE EntryOK(k)'
      <3>1. k # j /\ heap'[k] = heap[k] /\ entry'[k] = entry[k] /\ EntryOK(k)
        BY <1>1, <2>2 DEF IInv, HeapOK
      <3> QED BY <1>2, <3>1 DEF EntryOK, Waited, Earned, Exists, jobVars
    <2> QED BY <2>1, <2>2 DEF HeapOK
  <1> QED BY <1>1, <1>2, <1>4, <1>5, TimesFrame, StoreFrame, SchedFrame, HandsStep DEF IInv

(* The document that is read may have been saved by anybody.               *)
LEMMA StoredOK ==
  ASSUME IInv, NEW step \in {"enqueue", "got"}, NEW j \in Jobs, Exists(j)
  PROVE  HandOK(Stored(step, j))
  BY CopyOK DEF Stored, IInv, StoreOK

(* The steps that score the copy in hand.                                  *)
LEMMA ScoringStep ==
  ASSUME IInv, NEW p \in Coroutines, Enqueue(p) \/ Blocked(p) \/ Contended(p)
  PROVE  IInv'
  <1>1. /\ Busy(hand[p])
        /\ UNCHANGED <<clock, jobVars, storeVars, heap, sched, calls, entry>>
    BY DEF Enqueue, Blocked, Contended, Busy
  <1>2. /\ hand[p].job \in Jobs /\ Exists(hand[p].job) /\ hand[p].at \in 0 .. Latest
        /\ hand[p].queued \in -1 .. MaxClock /\ Waited(hand[p].job, hand[p].queued)
    BY <1>1, Held
  <1>3. TimesOK /\ clock \in 0 .. MaxClock /\ clock \in -1 .. MaxClock
    BY Bounds DEF IInv, TimesOK
  <1>4. Waited(hand[p].job, clock)
    BY <1>2, <1>3 DEF Waited, IInv, TimesOK
  <1>5. calls' \in 0 .. MaxCalls BY <1>1 DEF IInv
  <1>6. CASE Enqueue(p)
    <2>1. HandOK(Scored("add", hand[p].job, hand[p].at, clock, clock))
      BY <1>2, <1>3, <1>4, JustScoredOK
    <2> QED BY <1>1, <1>5, <1>6, <2>1, TakeStep DEF Enqueue
  <1>7. CASE Blocked(p)
    <2>1. HandOK(Scored("readd", hand[p].job, hand[p].at, clock, clock))
      BY <1>2, <1>3, <1>4, JustScoredOK
    <2> QED BY <1>1, <1>5, <1>7, <2>1, TakeStep DEF Blocked
  <1>8. CASE Contended(p)
    <2>1. HandOK(Scored("readd", hand[p].job, hand[p].at, hand[p].queued, clock))
      BY <1>2, <1>3, JustScoredOK
    <2> QED BY <1>1, <1>5, <1>8, <2>1, TakeStep DEF Contended
  <1> QED BY <1>6, <1>7, <1>8

(* Those that read, drop or save one.                                      *)
LEMMA CopyStep ==
  ASSUME IInv, NEW p \in Coroutines,
         \/ Get(p) \/ Drop(p) \/ Start(p) \/ Finish(p) \/ Retry(p)
         \/ UnlockGet(p) \/ RedriveGet(p) \/ RedriveSave(p)
  PROVE  IInv'
  <1>0. calls' \in 0 .. MaxCalls
    BY CalledOK DEF IInv, Get, Drop, Start, Finish, Retry, UnlockGet, RedriveGet, RedriveSave
  <1>1. CASE Get(p)
    <2>1. hand[p].job \in Jobs /\ Exists(hand[p].job) BY <1>1, Held DEF Get, Busy
    <2>2. HandOK(Stored("got", hand[p].job)) BY <2>1, StoredOK
    <2> QED BY <1>0, <1>1, <2>2, TakeStep DEF Get
  <1>2. CASE Drop(p) BY <1>0, <1>2, IdleOK, TakeStep DEF Drop
  <1>3. CASE Start(p)
    <2>1. HandOK(hand[p]) /\ Busy(hand[p]) BY <1>3, Held DEF Start, Busy
    <2>2. HandOK([hand[p] EXCEPT !.step = "run"]) BY <2>1, GoesOK
    <2> QED BY <1>0, <1>3, <2>1, <2>2, SavingStep DEF Start, Goes
  <1>4. CASE Finish(p)
    <2>1. HandOK(hand[p]) /\ Busy(hand[p]) BY <1>4, Held DEF Finish, Busy
    <2> QED BY <1>0, <1>4, <2>1, IdleOK, SavingStep DEF Finish
  <1>5. CASE Retry(p)
    <2>1. PICK d \in Backoffs :
            LET h == Copy("enqueue", hand[p].job, clock + d, hand[p].queued) IN
            h.at <= Latest /\ SaveJob(h) /\ Holds(p, h)
      BY <1>5 DEF Retry
    <2> DEFINE h == Copy("enqueue", hand[p].job, clock + d, hand[p].queued)
    <2>2. /\ hand[p].job \in Jobs /\ Exists(hand[p].job)
          /\ hand[p].queued \in -1 .. MaxClock /\ Waited(hand[p].job, hand[p].queued)
      BY <1>5, Held DEF Retry, Busy
    <2>3. h.at = clock + d /\ h.step = "enqueue" BY DEF Copy
    <2>4. clock + d \in 0 .. Latest
      <3>1. d \in Nat /\ clock \in Nat
        BY OrderAssumption, Bounds DEF OrderAssumption, IInv, TimesOK
      <3> QED BY <2>1, <2>3, <3>1, Bounds
    <2>5. HandOK(h) BY <2>2, <2>4, CopyOK
    <2>6. Busy(h) BY <2>3 DEF Busy
    <2>7. SaveJob(h) /\ Holds(p, h) BY <2>1
    <2> HIDE DEF h
    <2> QED BY <1>0, <1>5, <2>5, <2>6, <2>7, SavingStep DEF Retry
  <1>6. CASE UnlockGet(p)
    <2>1. PICK j \in Jobs : Exists(j) /\ Holds(p, Stored("enqueue", j))
      BY <1>6 DEF UnlockGet
    <2>2. HandOK(Stored("enqueue", j)) BY <2>1, StoredOK
    <2> QED BY <1>0, <1>6, <2>1, <2>2, TakeStep DEF UnlockGet
  <1>7. CASE RedriveGet(p)
    <2>1. PICK j \in Jobs : Exists(j) /\ Holds(p, Copy("redrive", j, at[j], -1))
      BY <1>7 DEF RedriveGet
    <2>2. HandOK(Copy("redrive", j, at[j], -1))
      BY <2>1, Bounds, CopyOK DEF Waited, IInv, StoreOK
    <2> QED BY <1>0, <1>7, <2>1, <2>2, TakeStep DEF RedriveGet
  <1>8. CASE RedriveSave(p)
    <2>1. HandOK(hand[p]) /\ Busy(hand[p]) BY <1>8, Held DEF RedriveSave, Busy
    <2>2. HandOK([hand[p] EXCEPT !.step = "enqueue"]) BY <2>1, GoesOK
    <2> QED BY <1>0, <1>8, <2>1, <2>2, SavingStep DEF RedriveSave, Goes
  <1> QED BY <1>1, <1>2, <1>3, <1>4, <1>5, <1>6, <1>7, <1>8

(* Time passes: what a job has earned it keeps.                            *)
LEMMA TickStep ==
  ASSUME IInv, Tick
  PROVE  IInv'
  <1>1. /\ clock \in Nat /\ clock' \in Nat /\ clock' \in 0 .. MaxClock /\ clock <= clock'
        /\ UNCHANGED <<jobVars, storeVars, heap, sched, hand, calls, entry>>
    BY OrderAssumption, Bounds DEF OrderAssumption, IInv, TimesOK, Tick
  <1>2. ASSUME NEW j \in Jobs, NEW q \in -1 .. MaxClock, Waited(j, q) PROVE Waited(j, q)'
    BY <1>1, <1>2, Bounds DEF Waited, Exists, jobVars
  <1>3. ASSUME NEW j \in Jobs, NEW q \in -1 .. MaxClock, NEW l \in 1 .. 3,
               Waited(j, q), Earned(j, l, q)
        PROVE  Earned(j, l, q)'
    <2> SUFFICES ASSUME l < priority[j]
                 PROVE  q # -1 /\ Levels(q, clock') >= priority[j] - l
      BY <1>1 DEF Earned, Levels, jobVars
    <2>1. q # -1 /\ q <= clock /\ Levels(q, clock) >= priority[j] - l
      BY <1>3 DEF Earned, Waited
    <2>2. q \in Nat BY <2>1, Bounds
    <2>3. /\ Levels(q, clock) \in Nat /\ Levels(q, clock') \in Nat
          /\ Levels(q, clock) <= Levels(q, clock')
      BY <1>1, <2>1, <2>2, LevelsGrow
    <2>4. priority[j] \in 1 .. 3 BY DEF IInv, TimesOK
    <2> QED BY <2>1, <2>3, <2>4
  <1>4. TimesOK'
    <2>1. \A j \in Jobs : created[j] \in -1 .. MaxClock /\ created[j] <= clock
      BY DEF IInv, TimesOK
    <2> QED BY <1>1, <2>1, Bounds DEF IInv, TimesOK, jobVars
  <1>5. StoreOK' BY <1>1, <1>2 DEF IInv, StoreOK, storeVars
  <1>6. SchedOK' BY <1>1 DEF IInv, SchedOK, Exists, jobVars
  <1>7. HeapOK'
    <2>1. ASSUME NEW j \in Jobs, heap[j] # 0 PROVE EntryOK(j)'
      <3>1. EntryOK(j) /\ entry[j].since \in -1 .. MaxClock /\ entry[j].level \in 1 .. 3
        BY <2>1 DEF IInv, HeapOK, Entries
      <3>2. /\ Waited(j, entry[j].since)' /\ Earned(j, entry[j].level, entry[j].since)'
        <4>1. Waited(j, entry[j].since) /\ Earned(j, entry[j].level, entry[j].since)
          BY <3>1 DEF EntryOK
        <4>2. Waited(j, entry[j].since)' BY <1>1, <1>2, <3>1, <4>1
        <4>3. Earned(j, entry[j].level, entry[j].since)' BY <1>1, <1>3, <3>1, <4>1
        <4> QED BY <4>2, <4>3
      <3> QED BY <1>1, <3>1, <3>2 DEF EntryOK, Exists, jobVars
    <2> QED BY <1>1, <2>1 DEF IInv, HeapOK
  <1>8. HandsOK'
    <2>1. ASSUME NEW p \in Coroutines PROVE HandOK(hand[p])'
      <3>1. HandOK(hand[p]) /\ hand[p].queued \in -1 .. MaxClock /\ hand[p].due \subseteq Jobs
        BY Held
      <3>2. hand'[p] = hand[p] BY <1>1
      <3>3. Busy(hand[p]) => Waited(hand[p].job, hand[p].queued)'
        BY <1>1, <1>2, <3>1 DEF HandOK
      <3>4. hand[p].step \in {"add", "readd", "unschedule"} =>
              Earned(hand[p].job, hand[p].level, hand[p].queued)'
        <4> SUFFICES ASSUME hand[p].step \in {"add", "readd", "unschedule"}
                     PROVE  Earned(hand[p].job, hand[p].level, hand[p].queued)'
          OBVIOUS
        <4>1. /\ hand[p].job \in Jobs /\ Waited(hand[p].job, hand[p].queued)
              /\ hand[p].level \in 1 .. priority[hand[p].job]
              /\ Earned(hand[p].job, hand[p].level, hand[p].queued)
          BY <3>1 DEF HandOK, Busy
        <4>2. hand[p].level \in 1 .. 3 BY <4>1 DEF IInv, TimesOK
        <4> QED BY <1>1, <1>3, <3>1, <4>1, <4>2
      <3>5. \A d \in hand[p].due : hand[p].queued # -1 /\ Waited(d, hand[p].queued)'
        BY <1>1, <1>2, <3>1 DEF HandOK
      <3> QED BY <1>1, <3>1, <3>2, <3>3, <3>4, <3>5 DEF HandOK, Busy, Exists, jobVars
    <2> QED BY <1>1, <2>1 DEF IInv, HandsOK
  <1> QED BY <1>1, <1>4, <1>5, <1>6, <1>7, <1>8 DEF IInv

LEMMA StepInvariant == IInv /\ [Next]_vars => IInv'
  <1> SUFFICES ASSUME IInv, [Next]_vars PROVE IInv' OBVIOUS
  <1>1. ASSUME NEW p \in Coroutines, Create(p) PROVE IInv' BY <1>1, CreateStep
  <1>2. ASSUME NEW p \in Coroutines,
               EnqueueLater(p) \/ Schedule(p) \/ Enqueue(p) \/ Zadd(p) \/ Save(p)
        PROVE  IInv'
    BY <1>2, EnqueueLaterStep, ScheduleStep, ScoringStep, ZaddStep, SaveHandStep
  <1>3. ASSUME NEW p \in Coroutines, PromoteDue(p) \/ PromoteGet(p) \/ PromoteZrem(p)
        PROVE  IInv'
    BY <1>3, PromoteDueStep, PromoteGetStep, PromoteZremStep
  <1>4. ASSUME NEW p \in Coroutines, ZpopMin(p) \/ Blocked(p) \/ Contended(p)
        PROVE  IInv'
    BY <1>4, ZpopMinStep, ScoringStep
  <1>5. ASSUME NEW p \in Coroutines,
               \/ Get(p) \/ Drop(p) \/ Start(p) \/ Finish(p) \/ Retry(p)
               \/ UnlockGet(p) \/ RedriveGet(p) \/ RedriveSave(p)
        PROVE  IInv'
    BY <1>5, CopyStep
  <1>6. CASE Tick BY <1>6, TickStep
  <1>7. CASE UNCHANGED vars
    <2>1. UNCHANGED <<clock, jobVars, storeVars, heap, sched, hand, calls, entry>>
      BY <1>7 DEF vars
    <2>2. HandsOK' BY <2>1 DEF IInv, HandsOK, HandOK, Busy, Waited, Earned, Exists, jobVars
    <2> QED BY <2>1, <2>2, TimesFrame, StoreFrame, SchedFrame, HeapFrame DEF IInv
  <1> QED BY <1>1, <1>2, <1>3, <1>4, <1>5, <1>6, <1>7 DEF Next

(* For every number of jobs, coroutines, weight, interval and bound: what  *)
(* is in the heap carries the score of its entry, at a level that its job  *)
(* can have.                                                               *)
THEOREM OrderTypeCorrect == Spec => []OrderTypeOK
  <1>1. IInv => OrderTypeOK
    BY DEF IInv, TimesOK, StoreOK, SchedOK, HeapOK, HandsOK, EntryOK, Entries, Hands,
           OrderTypeOK
  <1> QED BY <1>1, InitInvariant, StepInvariant, PTL DEF Spec

(***************************************************************************)
(* The order of pops.                                                      *)
(***************************************************************************)
(* An added score is not 0, so only a pop takes a job out of the heap.     *)
LEMMA PopIsZpopMin ==
  ASSUME IInv, [Next]_vars, NEW j \in Jobs, NEW k \in Jobs, PopsBefore(j, k)
  PROVE  heap[j] <= heap[k]
  <1>1. heap[j] # 0 /\ heap[k] # 0 /\ heap'[j] = 0 BY DEF PopsBefore
  <1>2. heap' # heap BY <1>1
  <1>3. ~ Tick /\ ~ UNCHANGED vars BY <1>2 DEF Tick, vars
  <1>4. PICK p \in Coroutines : Zadd(p) \/ ZpopMin(p)
    BY <1>2, <1>3 DEF Next, Create, EnqueueLater, Schedule, Enqueue, Save, PromoteDue,
                      PromoteGet, PromoteZrem, Get, Blocked, Contended, Drop, Start,
                      Finish, Retry, UnlockGet, RedriveGet, RedriveSave
  <1>5. ~ Zadd(p)
    <2> SUFFICES ASSUME Zadd(p) PROVE FALSE OBVIOUS
    <2> DEFINE h == hand[p]
    <2>1. h.step \in {"add", "readd"}
          /\ heap' = [heap EXCEPT ![h.job] = Score(h.level, h.at, created[h.job])]
      BY DEF Zadd
    <2>2. HandOK(h) /\ h.job \in Jobs /\ Exists(h.job) /\ h.at \in 0 .. Latest
      BY <2>1, Held DEF Busy
    <2> HIDE DEF h
    <2>3. h.level \in 1 .. 3 /\ h.at \in Nat /\ created[h.job] \in Nat
      BY <2>1, <2>2, Bounds DEF HandOK, IInv, TimesOK, Exists
    <2>4. Score(h.level, h.at, created[h.job]) > 0
          /\ Score(h.level, h.at, created[h.job]) \in Int
      BY <2>3, ScorePositive, ScoreBounds
    <2>5. heap'[j] # 0
      <3>1. heap'[j] = heap[j] \/ heap'[j] = Score(h.level, h.at, created[h.job])
        BY <2>1 DEF IInv, HeapOK
      <3> QED BY <1>1, <2>4, <3>1
    <2> QED BY <1>1, <2>5
  <1>6. PICK i \in Jobs : /\ \A l \in Jobs : heap[l] # 0 => heap[i] <= heap[l]
                          /\ heap' = [heap EXCEPT ![i] = 0]
    BY <1>4, <1>5 DEF ZpopMin
  <1>7. i = j BY <1>1, <1>6 DEF IInv, HeapOK
  <1> QED BY <1>1, <1>6, <1>7

(* What a pop of j over k tells.                                           *)
LEMMA Popped ==
  ASSUME IInv, [Next]_vars, NEW j \in Jobs, NEW k \in Jobs, PopsBefore(j, k)
  PROVE  /\ heap[j] <= heap[k]
         /\ \A i \in {j, k} : /\ entry[i].level \in 1 .. 3 /\ priority[i] \in 1 .. 3
                              /\ entry[i].level <= priority[i]
                              /\ entry[i].at \in 0 .. Latest
                              /\ entry[i].since \in -1 .. MaxClock
                              /\ created[i] \in 0 .. MaxClock
                              /\ EntryOK(i)
         /\ entry[j].level <= entry[k].level
  <1>1. heap[j] <= heap[k] BY PopIsZpopMin
  <1>2. ASSUME NEW i \in {j, k}
        PROVE  /\ entry[i].level \in 1 .. 3 /\ priority[i] \in 1 .. 3
               /\ entry[i].level <= priority[i]
               /\ entry[i].at \in 0 .. Latest
               /\ entry[i].since \in -1 .. MaxClock
               /\ created[i] \in 0 .. MaxClock
               /\ EntryOK(i)
    <2>1. i \in Jobs /\ heap[i] # 0 BY DEF PopsBefore
    <2>2. EntryOK(i) /\ entry[i] \in Entries BY <2>1 DEF IInv, HeapOK
    <2>3. priority[i] \in 1 .. 3 /\ created[i] \in 0 .. MaxClock
      BY <2>1, <2>2, Bounds DEF IInv, TimesOK, EntryOK, Exists
    <2> QED BY <2>2, <2>3 DEF Entries, EntryOK
  <1>3. entry[j].level <= entry[k].level
    <2> SUFFICES ASSUME entry[k].level < entry[j].level PROVE FALSE BY <1>2
    <2>1. Score(entry[k].level, entry[k].at, created[k])
            < Score(entry[j].level, entry[j].at, created[j])
      BY <1>2, PriorityDominates
    <2>2. heap[k] < heap[j] BY <1>2, <2>1 DEF EntryOK
    <2>3. heap[j] \in Int /\ heap[k] \in Int BY DEF IInv, HeapOK
    <2> QED BY <1>1, <2>2, <2>3
  <1> QED BY <1>1, <1>2, <1>3

LEMMA StepInOrder ==
  ASSUME IInv, [Next]_vars, NEW j \in Jobs, NEW k \in Jobs, PopsBefore(j, k)
  PROVE  InOrder(j, k)
  <1>0. Scale \in Nat /\ Latest \in Nat /\ MaxClock \in Nat
    BY OrderAssumption DEF OrderAssumption
  <1> DEFINE p == entry[j].level
             g == Grain[p]
             s == entry[j].at
             t == entry[k].at
  <1>1. /\ p \in 1 .. 3 /\ entry[k].level \in 1 .. 3 /\ p <= entry[k].level
        /\ s \in Nat /\ t \in Nat /\ created[j] \in Nat /\ created[k] \in Nat
        /\ heap[j] = Score(p, s, created[j])
        /\ heap[k] = Score(entry[k].level, t, created[k])
        /\ heap[j] <= heap[k]
    BY <1>0, Popped DEF EntryOK
  <1>2. CASE p < entry[k].level BY <1>2 DEF InOrder
  <1>3. CASE p = entry[k].level
    <2>1. Score(p, s, created[j]) <= Score(p, t, created[k]) BY <1>1, <1>3
    <2>2. s = t => created[j] <= created[k] + g BY <1>1, <2>1, SameSchedule
    <2>3. s > t => (s - t) * Scale <= created[k] - created[j] + 2 * g
      <3>1. /\ Score(p, s, created[j]) \in Int
            /\ p * Weight + s * Scale + created[j] <= Score(p, s, created[j]) + g
        BY <1>1, ScoreBounds
      <3>2. /\ Score(p, t, created[k]) \in Int
            /\ Score(p, t, created[k]) <= p * Weight + t * Scale + created[k] + g
        BY <1>1, ScoreBounds
      <3>3. g \in {2, 4, 8} BY <1>1, GrainType
      <3>4. p * Weight \in Int /\ s * Scale \in Int /\ t * Scale \in Int
            /\ (s - t) * Scale = s * Scale - t * Scale
        BY <1>0, <1>1, OrderAssumption DEF OrderAssumption
      <3> DEFINE x == Score(p, s, created[j])
                 y == Score(p, t, created[k])
                 w == p * Weight
                 a == s * Scale
                 b == t * Scale
      <3>5. x \in Int /\ y \in Int /\ w \in Int /\ a \in Int /\ b \in Int /\ x <= y
            /\ w + a + created[j] <= x + g /\ y <= w + b + created[k] + g
        BY <2>1, <3>1, <3>2, <3>4
      <3> HIDE DEF x, y, w, a, b, g
      <3>6. a - b <= created[k] - created[j] + 2 * g BY <1>1, <3>3, <3>5
      <3> QED BY <3>4, <3>6 DEF a, b
    <2> QED BY <1>3, <2>2, <2>3 DEF InOrder
  <1> QED BY <1>1, <1>2, <1>3

LEMMA StepAged ==
  ASSUME IInv, [Next]_vars, NEW j \in Jobs, NEW k \in Jobs, PopsBefore(j, k),
         priority[j] > priority[k]
  PROVE  LET since == entry[j].since IN
         /\ since # -1 /\ created[j] <= since
         /\ Levels(since, clock) >= priority[j] - priority[k]
  <1> DEFINE a == entry[j].level
             b == entry[k].level
             since == entry[j].since
             l == Levels(since, clock)
  <1>1. /\ a \in 1 .. 3 /\ b \in 1 .. 3 /\ b <= priority[k] /\ a <= b
        /\ priority[j] \in 1 .. 3 /\ priority[k] \in 1 .. 3
        /\ since \in -1 .. MaxClock
        /\ Waited(j, since) /\ Earned(j, a, since)
    BY Popped DEF EntryOK
  <1>2. a < priority[j] BY <1>1
  <1>3. since # -1 /\ l >= priority[j] - a BY <1>1, <1>2 DEF Earned
  <1>4. created[j] <= since /\ since <= clock BY <1>1, <1>3 DEF Waited
  <1>5. l \in Nat
    <2>1. since \in Nat /\ clock \in Nat BY <1>1, <1>3, Bounds DEF IInv, TimesOK
    <2>2. clock <= clock BY <2>1
    <2> QED BY <1>4, <2>1, <2>2, LevelsGrow
  <1> HIDE DEF a, b, l
  <1>6. l >= priority[j] - priority[k] BY <1>1, <1>3, <1>5
  <1> QED BY <1>3, <1>4, <1>6 DEF l

(* For all jobs, coroutines, times and settings: the jobs leave the heap   *)
(* by the priority they were scored with, and then as far as a creation    *)
(* time does not outweigh a schedule time and doubles tell them apart.     *)
THEOREM PoppedInOrder == Spec => PopsInOrder
  <1>1. IInv /\ [Next]_vars =>
          [\A j, k \in Jobs : PopsBefore(j, k) => InOrder(j, k)]_vars
    BY StepInOrder
  <1> QED BY <1>1, InitInvariant, StepInvariant, PTL DEF Spec, PopsInOrder

(* For all jobs, coroutines, times and settings, and whatever copies are   *)
(* saved late: overtaking a job of higher priority takes a wait, since the *)
(* queued_at that was scored, that is worth the levels between the two.    *)
THEOREM OvertakingIsEarned == Spec => OvertakesOnlyAged
  <1>1. IInv /\ [Next]_vars =>
          [\A j, k \in Jobs : PopsBefore(j, k) /\ priority[j] > priority[k] =>
             LET since == entry[j].since IN
             /\ since # -1 /\ created[j] <= since
             /\ ((clock - since) \div Interval) * Boost >= priority[j] - priority[k]]_vars
    BY StepAged DEF Levels
  <1> QED BY <1>1, InitInvariant, StepInvariant, PTL DEF Spec, OvertakesOnlyAged
=============================================================================
