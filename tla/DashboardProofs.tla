--------------------------- MODULE DashboardProofs ---------------------------
(***************************************************************************)
(* Proofs about the events, the alert and the page, for any finite set of  *)
(* jobs, any number of coroutines, every threshold and number of saves.    *)
(***************************************************************************)
EXTENDS Dashboard, FiniteSetTheorems, TLAPS

(***************************************************************************)
(* Counting.                                                               *)
(***************************************************************************)
LEMMA Finite ==
  ASSUME NEW S \in SUBSET Jobs
  PROVE  IsFiniteSet(S) /\ Cardinality(S) \in Nat
  <1>1. IsFiniteSet(Jobs) BY DashboardAssumption DEF DashboardAssumption
  <1> QED BY <1>1, FS_Subset, FS_CardinalityType

LEMMA FewerInSubset ==
  ASSUME NEW S \in SUBSET Jobs, NEW T \in SUBSET S
  PROVE  Cardinality(T) <= Cardinality(S)
  BY Finite, FS_Subset

(* Reading one more job raises the number of jobs read by one.             *)
LEMMA OneMoreRead ==
  ASSUME NEW S \in SUBSET Jobs, NEW L \in SUBSET Jobs, NEW j \in L
  PROVE  /\ j \in S => Cardinality(S \ (L \ {j})) = Cardinality(S \ L) + 1
         /\ j \notin S => S \ (L \ {j}) = S \ L
  <1>1. S \ L \in SUBSET Jobs /\ j \notin S \ L OBVIOUS
  <1>2. Cardinality((S \ L) \cup {j}) = Cardinality(S \ L) + 1
    BY <1>1, Finite, FS_AddElement
  <1>3. j \in S => S \ (L \ {j}) = (S \ L) \cup {j} OBVIOUS
  <1> QED BY <1>2, <1>3

LEMMA DlqType == Dlq \in SUBSET Jobs /\ Dlq' \in SUBSET Jobs
  BY DEF Dlq

(***************************************************************************)
(* Types.  A count is zero outside the loop that counts.                   *)
(***************************************************************************)
CountAtRest == \A p \in Procs : pc[p] # "read" => count[p] = 0

TypeInv == DashboardTypeOK /\ CountAtRest

LEMMA InitType == Init => TypeInv
  <1> SUFFICES ASSUME Init PROVE TypeInv OBVIOUS
  <1>1. MaxVersion \in Nat BY DashboardAssumption DEF DashboardAssumption
  <1>2. \A p \in Procs : count[p] = 0 /\ left[p] = {} BY DEF Init
  <1>3. \A p \in Procs : count[p] <= Cardinality(Jobs \ left[p])
    BY <1>2, Finite
  <1>4. doc \in [Jobs -> {"absent", "live", "dead"}] BY DEF Init
  <1>5. {version, news, shown} \cup flying \subseteq 0 .. MaxVersion BY <1>1 DEF Init
  <1>6. /\ pc \in [Procs -> {"idle", "announce", "announce_failed", "scan", "read", "alert"}]
        /\ left \in [Procs -> SUBSET Jobs] /\ count \in [Procs -> Nat]
    BY DEF Init
  <1>7. stream \in {"none", "connecting", "open", "closed"} /\ inbox \in Nat /\ owed \in BOOLEAN
    BY DEF Init
  <1> QED BY <1>2, <1>3, <1>4, <1>5, <1>6, <1>7 DEF TypeInv, DashboardTypeOK, CountAtRest

(* The page's actions leave the coroutines alone and keep its own types.   *)
PageStep ==
  \/ Mount \/ Subscribe \/ Deliver \/ StreamError
  \/ \E v \in 0 .. MaxVersion : Reply(v) \/ FetchFails(v)

SaveStep ==
  \/ \E p \in Procs, j \in Jobs : Change(p, j) \/ Fail(p, j)
  \/ \E j \in Jobs, status \in {"live", "dead"} : Rewrite(j, status)

EventStep == \E p \in Procs : Publish(p) \/ Alert(p)

LEMMA NextSplit ==
  Next => SaveStep \/ EventStep \/ PageStep \/ \E p \in Procs : Scan(p) \/ Read(p)
  BY DEF Next, SaveStep, EventStep, PageStep

LEMMA TypeStep == TypeInv /\ [Next]_vars => TypeInv'
  <1> SUFFICES ASSUME TypeInv, [Next]_vars PROVE TypeInv' OBVIOUS
  <1> USE DEF TypeInv, DashboardTypeOK, CountAtRest
  <1>0. MaxVersion \in Nat BY DashboardAssumption DEF DashboardAssumption
  <1>1. CASE SaveStep
    <2>1. CASE \E p \in Procs, j \in Jobs : Change(p, j) \/ Fail(p, j)
      <3>1. PICK p \in Procs, j \in Jobs : Change(p, j) \/ Fail(p, j) BY <2>1
      <3>2. doc' \in [Jobs -> {"absent", "live", "dead"}]
        BY <3>1 DEF Change, Fail, Save
      <3>3. version' \in 0 .. MaxVersion BY <1>0, <3>1 DEF Change, Fail, Save
      <3>4. pc[p] = "idle" /\ UNCHANGED <<left, count, stream, inbox, flying, shown>>
        BY <3>1 DEF Change, Fail, Announced
      <3>5. pc' = [pc EXCEPT ![p] = "announce"] \/ pc' = [pc EXCEPT ![p] = "announce_failed"]
        BY <3>1 DEF Change, Fail, Announced, Goto
      <3>6. news' \in {0, version'} BY <3>1 DEF Change, Fail, Announced
      <3>7. owed' \in BOOLEAN
        <4>1. CASE Change(p, j) BY <4>1, Zenon DEF Change
        <4>2. CASE Fail(p, j) BY <4>2 DEF Fail
        <4> QED BY <3>1, <4>1, <4>2
      <3> QED BY <1>0, <3>2, <3>3, <3>4, <3>5, <3>6, <3>7
    <2>2. CASE \E j \in Jobs, status \in {"live", "dead"} : Rewrite(j, status)
      BY <1>0, <2>2 DEF Rewrite, Save, procVars, pageVars
    <2> QED BY <1>1, <2>1, <2>2 DEF SaveStep
  <1>2. CASE EventStep
    <2>1. PICK p \in Procs : Publish(p) \/ Alert(p) BY <1>2 DEF EventStep
    <2>2. pc[p] # "read" /\ UNCHANGED <<left, count, doc, version, flying, shown, news, stream>>
      BY <2>1 DEF Publish, Alert, PublishEvent, storeVars
    <2>3. pc' = [pc EXCEPT ![p] = "idle"] \/ pc' = [pc EXCEPT ![p] = "scan"]
      BY <2>1 DEF Publish, Alert, Goto
    <2>4. inbox' \in Nat BY <2>1 DEF Publish, Alert, PublishEvent
    <2>5. owed' \in BOOLEAN BY <2>1 DEF Publish, Alert, storeVars
    <2> QED BY <2>2, <2>3, <2>4, <2>5
  <1>3. CASE PageStep
    <2>1. UNCHANGED <<storeVars, procVars>>
      BY <1>3 DEF PageStep, Mount, Subscribe, Deliver, StreamError, Reply, FetchFails
    <2>2. /\ {news', shown'} \cup flying' \subseteq 0 .. MaxVersion
          /\ stream' \in {"none", "connecting", "open", "closed"} /\ inbox' \in Nat
      BY <1>0, <1>3 DEF PageStep, Mount, Subscribe, Deliver, StreamError, Reply, FetchFails
    <2> QED BY <2>1, <2>2 DEF storeVars, procVars
  <1>4. ASSUME NEW p \in Procs, Scan(p) PROVE TypeInv'
    <2>1. /\ left' = [left EXCEPT ![p] = {j \in Jobs : doc[j] # "absent"}]
          /\ pc' = [pc EXCEPT ![p] = "read"] /\ count[p] = 0 /\ UNCHANGED count
          /\ UNCHANGED <<storeVars, pageVars>>
      BY <1>4 DEF Scan, Goto
    <2>2. Cardinality(Jobs \ left'[p]) \in Nat BY Finite
    <2>3. ASSUME NEW q \in Procs PROVE count'[q] <= Cardinality(Jobs \ left'[q])
      <3>1. CASE q = p BY <2>1, <2>2, <3>1
      <3>2. CASE q # p
        <4>1. left'[q] = left[q] /\ count'[q] = count[q] BY <2>1, <3>2
        <4> QED BY <4>1
      <3> QED BY <3>1, <3>2
    <2> QED BY <2>1, <2>3 DEF storeVars, pageVars
  <1>5. ASSUME NEW p \in Procs, Read(p) PROVE TypeInv'
    <2> DEFINE n(j) == count[p] + (IF doc[j] = "dead" THEN 1 ELSE 0)
    <2>1. PICK j \in left[p] :
            /\ left' = [left EXCEPT ![p] = @ \ {j}]
            /\ \/ count' = [count EXCEPT ![p] = n(j)] /\ UNCHANGED pc
               \/ /\ count' = [count EXCEPT ![p] = 0]
                  /\ pc' = [pc EXCEPT ![p] = IF Crossed(n(j)) THEN "alert" ELSE "idle"]
      BY <1>5 DEF Read, Goto
    <2>2. pc[p] = "read" /\ UNCHANGED <<storeVars, pageVars>> BY <1>5 DEF Read
    <2>3. left[p] \in SUBSET Jobs /\ j \in Jobs /\ count[p] \in Nat OBVIOUS
    <2>4. /\ Cardinality(Jobs \ left[p]) \in Nat
          /\ Cardinality(Jobs \ (left[p] \ {j})) = Cardinality(Jobs \ left[p]) + 1
      BY <2>3, Finite, OneMoreRead
    <2>5. ASSUME NEW q \in Procs PROVE count'[q] <= Cardinality(Jobs \ left'[q])
      <3>1. CASE q = p
        <4>1. left'[p] = left[p] \ {j} BY <2>1
        <4>2. count[p] <= Cardinality(Jobs \ left[p]) OBVIOUS
        <4>3. count'[p] \in {0, count[p], count[p] + 1} BY <2>1
        <4>4. count'[p] <= Cardinality(Jobs \ (left[p] \ {j})) BY <2>3, <2>4, <4>2, <4>3
        <4> QED BY <3>1, <4>1, <4>4
      <3>2. CASE q # p
        <4>1. left'[q] = left[q] /\ count'[q] = count[q] BY <2>1, <3>2
        <4> QED BY <4>1
      <3> QED BY <3>1, <3>2
    <2>6. count' \in [Procs -> Nat] /\ left' \in [Procs -> SUBSET Jobs] BY <2>1, <2>3
    <2>7. /\ pc' \in [Procs -> {"idle", "announce", "announce_failed", "scan", "read", "alert"}]
          /\ \A q \in Procs : pc'[q] # "read" => count'[q] = 0
      BY <2>1, <2>2
    <2> QED BY <2>2, <2>5, <2>6, <2>7 DEF storeVars, pageVars
  <1>6. CASE UNCHANGED vars BY <1>6 DEF vars, storeVars, procVars, pageVars
  <1> QED BY <1>1, <1>2, <1>3, <1>4, <1>5, <1>6, NextSplit

(* Every variable has its type; a count never exceeds the jobs read.       *)
THEOREM DashboardTypeCorrect == Spec => []DashboardTypeOK
  <1>1. TypeInv => DashboardTypeOK BY DEF TypeInv
  <1> QED BY <1>1, InitType, TypeStep, PTL DEF Spec

(***************************************************************************)
(* The alert.  One that is due is on its way: some coroutine is before its *)
(* count, or has already counted every dead letter it will not read again, *)
(* and the dead letters are enough.                                        *)
(***************************************************************************)
OnItsWay(p) ==
  \/ pc[p] \in {"announce_failed", "scan", "alert"}
  \/ pc[p] = "read" /\ Cardinality(Dlq \ left[p]) <= count[p]

AlertInv == owed => Threshold <= Cardinality(Dlq) /\ \E p \in Procs : OnItsWay(p)

LEMMA InitAlert == Init => AlertInv
  BY DEF Init, AlertInv

LEMMA AlertStep == TypeInv /\ AlertInv /\ [Next]_vars => AlertInv'
  <1> SUFFICES ASSUME TypeInv, AlertInv, [Next]_vars, owed' PROVE AlertInv'
    BY DEF AlertInv
  <1> USE DEF TypeInv, DashboardTypeOK, CountAtRest
  <1>0. Threshold \in Nat /\ Cardinality(Dlq) \in Nat /\ Cardinality(Dlq') \in Nat
    BY DashboardAssumption, DlqType, Finite DEF DashboardAssumption
  (* What is unread and what is counted stay as they are and no job dies.  *)
  <1>1. ASSUME NEW p \in Procs, OnItsWay(p), pc'[p] = pc[p],
               left'[p] = left[p], count'[p] = count[p], Dlq' \subseteq Dlq
        PROVE  OnItsWay(p)'
    <2>1. Dlq \ left[p] \in SUBSET Jobs /\ Dlq' \ left[p] \in SUBSET (Dlq \ left[p])
      BY <1>1, DlqType
    <2>2. Cardinality(Dlq' \ left[p]) <= Cardinality(Dlq \ left[p])
      BY <2>1, FewerInSubset
    <2>3. Cardinality(Dlq' \ left[p]) \in Nat /\ Cardinality(Dlq \ left[p]) \in Nat
      BY <2>1, DlqType, Finite
    <2>4. count[p] \in Nat OBVIOUS
    <2> QED BY <1>1, <2>2, <2>3, <2>4 DEF OnItsWay
  <1>2. CASE SaveStep
    <2>1. ASSUME NEW p \in Procs, NEW j \in Jobs, Change(p, j) PROVE AlertInv'
      <3>1. owed /\ Threshold <= Cardinality(Dlq') /\ pc[p] = "idle" BY <2>1 DEF Change
      <3>2. doc' = [doc EXCEPT ![j] = "live"] /\ pc' = [pc EXCEPT ![p] = "announce"]
            /\ UNCHANGED <<left, count>>
        BY <2>1 DEF Change, Save, Announced, Goto
      <3>3. Dlq' \subseteq Dlq BY <3>2 DEF Dlq
      <3>4. PICK q \in Procs : OnItsWay(q) BY <3>1 DEF AlertInv
      <3>5. q # p BY <3>1, <3>4 DEF OnItsWay
      <3>6. pc'[q] = pc[q] /\ left'[q] = left[q] /\ count'[q] = count[q] BY <3>2, <3>5
      <3>7. OnItsWay(q)' BY <1>1, <3>3, <3>4, <3>6
      <3> QED BY <3>1, <3>7 DEF AlertInv
    <2>2. ASSUME NEW p \in Procs, NEW j \in Jobs, Fail(p, j) PROVE AlertInv'
      <3>1. Threshold <= Cardinality(Dlq') BY <2>2 DEF Fail
      <3>2. pc'[p] = "announce_failed" BY <2>2 DEF Fail, Announced, Goto
      <3> QED BY <3>1, <3>2 DEF AlertInv, OnItsWay
    <2>3. ASSUME NEW j \in Jobs, NEW status \in {"live", "dead"}, Rewrite(j, status)
          PROVE AlertInv'
      <3>1. /\ owed /\ Threshold <= Cardinality(Dlq') /\ Dlq' \subseteq Dlq
            /\ UNCHANGED <<pc, left, count>>
        BY <2>3 DEF Rewrite, procVars
      <3>2. PICK q \in Procs : OnItsWay(q) BY <3>1 DEF AlertInv
      <3>3. OnItsWay(q)' BY <1>1, <3>1, <3>2
      <3> QED BY <3>1, <3>3 DEF AlertInv
    <2> QED BY <1>2, <2>1, <2>2, <2>3 DEF SaveStep
  <1>3. ASSUME NEW p \in Procs, Publish(p) PROVE AlertInv'
    <2>1. UNCHANGED <<storeVars, left, count>> BY <1>3 DEF Publish
    <2>2. Dlq' = Dlq /\ owed BY <2>1 DEF Dlq, storeVars
    <2>3. PICK q \in Procs : OnItsWay(q) BY <2>2 DEF AlertInv
    <2>4. OnItsWay(q)'
      <3>1. CASE q = p
        <4>1. pc[p] = "announce_failed" BY <1>3, <2>3, <3>1 DEF OnItsWay, Publish
        <4>2. pc'[p] = "scan" BY <1>3, <4>1 DEF Publish, Goto
        <4> QED BY <3>1, <4>2 DEF OnItsWay
      <3>2. CASE q # p
        <4>1. pc'[q] = pc[q] BY <1>3, <3>2 DEF Publish, Goto
        <4> QED BY <1>1, <2>1, <2>2, <2>3, <4>1
      <3> QED BY <3>1, <3>2
    <2> QED BY <2>2, <2>4 DEF AlertInv
  <1>4. CASE PageStep
    <2>1. UNCHANGED <<storeVars, procVars>>
      BY <1>4 DEF PageStep, Mount, Subscribe, Deliver, StreamError, Reply, FetchFails
    <2> QED BY <2>1 DEF AlertInv, OnItsWay, Dlq, storeVars, procVars
  <1>5. ASSUME NEW p \in Procs, Scan(p) PROVE AlertInv'
    <2>1. /\ left' = [left EXCEPT ![p] = {j \in Jobs : doc[j] # "absent"}]
          /\ pc'[p] = "read" /\ count'[p] = 0 /\ UNCHANGED storeVars
      BY <1>5 DEF Scan, Goto
    <2>2. Dlq' = Dlq /\ owed BY <2>1 DEF Dlq, storeVars
    <2>3. Dlq' \ left'[p] = {} BY <2>1 DEF Dlq, storeVars
    <2>4. Cardinality(Dlq' \ left'[p]) = 0 BY <2>3, FS_EmptySet
    <2>5. OnItsWay(p)' BY <2>1, <2>4 DEF OnItsWay
    <2> QED BY <2>2, <2>5 DEF AlertInv
  <1>6. ASSUME NEW p \in Procs, Read(p) PROVE AlertInv'
    <2>1. /\ pc[p] = "read" /\ UNCHANGED storeVars
          /\ \A q \in Procs \ {p} : pc'[q] = pc[q] /\ left'[q] = left[q] /\ count'[q] = count[q]
      BY <1>6 DEF Read, Goto
    <2>2. Dlq' = Dlq /\ owed BY <2>1 DEF Dlq, storeVars
    <2>3. PICK q \in Procs : OnItsWay(q) BY <2>2 DEF AlertInv
    <2>4. CASE q # p
      <3>1. OnItsWay(q)' BY <1>1, <2>1, <2>2, <2>3, <2>4
      <3> QED BY <2>2, <3>1 DEF AlertInv
    <2>5. CASE q = p
      <3> DEFINE n(j) == count[p] + (IF doc[j] = "dead" THEN 1 ELSE 0)
      <3>1. PICK j \in left[p] :
              /\ left' = [left EXCEPT ![p] = @ \ {j}]
              /\ \/ /\ left[p] # {j}
                    /\ count' = [count EXCEPT ![p] = n(j)] /\ UNCHANGED pc
                 \/ /\ left[p] = {j}
                    /\ pc' = [pc EXCEPT ![p] = IF Crossed(n(j)) THEN "alert" ELSE "idle"]
        BY <1>6 DEF Read, Goto
      <3>2. left[p] \in SUBSET Jobs /\ count[p] \in Nat OBVIOUS
      <3>3. Cardinality(Dlq \ left[p]) <= count[p] BY <2>1, <2>3, <2>5 DEF OnItsWay
      <3>4. Cardinality(Dlq \ left[p]) \in Nat BY DlqType, Finite
      <3>5. Cardinality(Dlq \ (left[p] \ {j})) <= n(j)
        <4>1. doc[j] = "dead" <=> j \in Dlq BY <3>2 DEF Dlq
        <4>2. CASE j \in Dlq
          <5>1. Cardinality(Dlq \ (left[p] \ {j})) = Cardinality(Dlq \ left[p]) + 1
            BY <3>1, <3>2, <4>2, DlqType, OneMoreRead
          <5> QED BY <3>2, <3>3, <3>4, <4>1, <4>2, <5>1
        <4>3. CASE j \notin Dlq
          <5>1. Dlq \ (left[p] \ {j}) = Dlq \ left[p] BY <4>3
          <5>2. n(j) = count[p] BY <3>2, <4>1, <4>3
          <5> QED BY <3>3, <5>1, <5>2
        <4> QED BY <4>2, <4>3
      <3>6. CASE left[p] # {j}
        <4>1. pc'[p] = "read" /\ left'[p] = left[p] \ {j} /\ count'[p] = n(j)
          BY <2>1, <3>1, <3>6
        <4>2. Cardinality(Dlq' \ left'[p]) <= count'[p] BY <2>2, <3>5, <4>1
        <4>3. OnItsWay(p)' BY <4>1, <4>2 DEF OnItsWay
        <4> QED BY <2>2, <4>3 DEF AlertInv
      <3>7. CASE left[p] = {j}
        <4>1. Dlq \ (left[p] \ {j}) = Dlq BY <3>7
        <4>2. Threshold <= n(j) BY <1>0, <2>2, <3>2, <3>5, <4>1 DEF AlertInv
        <4>3. Crossed(n(j)) BY <1>0, <3>2, <4>2 DEF Crossed
        <4>4. pc'[p] = "alert" BY <3>1, <3>7, <4>3
        <4> QED BY <2>2, <4>4 DEF AlertInv, OnItsWay
      <3> QED BY <3>6, <3>7
    <2> QED BY <2>4, <2>5
  <1>7. ASSUME NEW p \in Procs, Alert(p) PROVE AlertInv'
    BY <1>7 DEF Alert
  <1>8. CASE UNCHANGED vars
    BY <1>8 DEF AlertInv, OnItsWay, Dlq, vars, storeVars, procVars
  <1> QED BY <1>2, <1>3, <1>4, <1>5, <1>6, <1>7, <1>8, NextSplit DEF EventStep

(* A failure that leaves the DLQ at its threshold is followed by an alert  *)
(* before all is quiet, unless the DLQ falls below it first.               *)
THEOREM AlertNotMissed == Spec => []NoMissedAlert
  <1>1. AlertInv => NoMissedAlert BY DEF AlertInv, OnItsWay, NoMissedAlert
  <1> QED BY <1>1, InitType, TypeStep, InitAlert, AlertStep, PTL DEF Spec

(***************************************************************************)
(* The page.  News is still to be published, or an event of it is on its   *)
(* way, or a fetch that will see it, or it is shown and no older answer    *)
(* can come.                                                               *)
(***************************************************************************)
NewsComes ==
  \/ \E p \in Procs : pc[p] \in {"announce", "announce_failed"}
  \/ inbox > 0
  \/ \E v \in flying : news <= v
  \/ news <= shown /\ \A v \in flying : news <= v

NewsInv ==
  /\ news <= version
  /\ news # 0 => stream = "open" /\ NewsComes

LEMMA InitNews == Init => NewsInv
  BY DEF Init, NewsInv

LEMMA NewsStep == TypeInv /\ NewsInv /\ [Next]_vars => NewsInv'
  <1> SUFFICES ASSUME TypeInv, NewsInv, [Next]_vars PROVE NewsInv' OBVIOUS
  <1> USE DEF TypeInv, DashboardTypeOK
  <1>0. MaxVersion \in Nat /\ version \in Nat /\ news \in Nat
    BY DashboardAssumption DEF DashboardAssumption
  <1>1. CASE SaveStep
    <2>1. ASSUME NEW p \in Procs, NEW j \in Jobs, Change(p, j) \/ Fail(p, j) PROVE NewsInv'
      <3>1. news' = IF stream = "open" THEN version' ELSE 0
        BY <2>1 DEF Change, Fail, Announced
      <3>2. stream' = stream /\ version' = version + 1
        BY <2>1 DEF Change, Fail, Announced, Save
      <3>3. pc'[p] \in {"announce", "announce_failed"}
        BY <2>1 DEF Change, Fail, Announced, Goto
      <3> QED BY <1>0, <3>1, <3>2, <3>3 DEF NewsInv, NewsComes
    <2>2. ASSUME NEW j \in Jobs, NEW status \in {"live", "dead"}, Rewrite(j, status)
          PROVE NewsInv'
      BY <1>0, <2>2 DEF Rewrite, Save, procVars, pageVars, NewsInv, NewsComes
    <2> QED BY <1>1, <2>1, <2>2 DEF SaveStep
  <1>2. CASE EventStep
    <2>1. PublishEvent /\ version' = version
      BY <1>2 DEF EventStep, Publish, Alert, storeVars
    <2>2. news' # 0 => stream' = "open" /\ inbox' > 0
      BY <2>1 DEF PublishEvent, NewsInv
    <2> QED BY <2>1, <2>2 DEF PublishEvent, NewsInv, NewsComes
  <1>3. CASE PageStep
    <2>0. version' = version /\ pc' = pc
      BY <1>3 DEF PageStep, Mount, Subscribe, Deliver, StreamError, Reply, FetchFails,
                  storeVars, procVars
    <2>1. CASE Mount \/ Subscribe \/ StreamError
      BY <1>0, <2>0, <2>1 DEF Mount, Subscribe, StreamError, NewsInv
    <2>2. CASE Deliver
      <3>1. version \in flying' /\ news' = news /\ stream' = stream BY <2>2 DEF Deliver
      <3> QED BY <2>0, <3>1 DEF NewsInv, NewsComes
    <2>3. ASSUME NEW v \in 0 .. MaxVersion, Reply(v) \/ FetchFails(v) PROVE NewsInv'
      <3>0. v \in Nat /\ flying \subseteq Nat BY <1>0
      <3>1. /\ v \in flying /\ flying' = flying \ {v} /\ stream' = stream /\ inbox' = inbox
            /\ news' \in {0, news}
        BY <2>3 DEF Reply, FetchFails
      <3>2. CASE news' = 0 BY <1>0, <2>0, <3>2 DEF NewsInv
      <3>3. CASE news' = news /\ news # 0 /\ v < news
        BY <1>0, <2>0, <3>0, <3>1, <3>3 DEF NewsInv, NewsComes
      <3>4. CASE news' = news /\ news # 0 /\ news <= v
        <4>1. shown' = v /\ \A u \in flying : ~(u < news)
          BY <2>3, <3>4, <1>0, <3>0 DEF Reply, FetchFails
        <4>2. \A u \in flying' : news <= u BY <1>0, <3>0, <3>1, <4>1
        <4> QED BY <2>0, <3>1, <3>4, <4>1, <4>2 DEF NewsInv, NewsComes
      <3> QED BY <1>0, <3>0, <3>1, <3>2, <3>3, <3>4
    <2> QED BY <1>3, <2>1, <2>2, <2>3 DEF PageStep
  <1>4. ASSUME NEW p \in Procs, Scan(p) \/ Read(p) PROVE NewsInv'
    <2>1. /\ UNCHANGED <<storeVars, pageVars>> /\ pc[p] \in {"scan", "read"}
          /\ \A q \in Procs \ {p} : pc'[q] = pc[q]
      BY <1>4 DEF Scan, Read, Goto
    <2> QED BY <2>1 DEF NewsInv, NewsComes, storeVars, pageVars
  <1>5. CASE UNCHANGED vars
    BY <1>5 DEF NewsInv, NewsComes, vars, storeVars, procVars, pageVars
  <1> QED BY <1>1, <1>2, <1>3, <1>4, <1>5, NextSplit

(* Once the events are delivered and the fetches answered, a page that was *)
(* listening shows stats no older than the last change that is announced.  *)
THEOREM NewsIsShown == Spec => []NewsShown
  <1>1. TypeInv /\ NewsInv => NewsShown
    BY DEF TypeInv, DashboardTypeOK, NewsInv, NewsComes, NewsShown
  <1> QED BY <1>1, InitType, TypeStep, InitNews, NewsStep, PTL DEF Spec
=============================================================================
