------------------------------ MODULE Dashboard ------------------------------
(***************************************************************************)
(* What an operator gets to see: the events and the dead-letter alert that *)
(* backend/app/services/job_service.py publishes after its saves, the      *)
(* count of get_stats, the stream of events.py and routes.py, and the page *)
(* of the frontend that fetches /stats anew at every event.                *)
(*                                                                         *)
(* The store is numbered by its saves, version counting them.  Of an       *)
(* answer to /stats the model keeps the version at which it was asked for: *)
(* each of its reads is at least that recent.  The page does the same for  *)
(* every event, so events are only counted.                                *)
(***************************************************************************)
EXTENDS Naturals, FiniteSets

CONSTANTS
  Jobs,
  Procs,      \* coroutines of workers and requests
  Threshold,  \* settings.dlq_alert_threshold
  MaxVersion  \* bounds the number of saves

ASSUME DashboardAssumption ==
  IsFiniteSet(Jobs) /\ Threshold \in Nat \ {0} /\ MaxVersion \in Nat

VARIABLES
  doc,      \* doc[j]: absent, live, or dead: its document says in_dlq
  version,
  pc,       \* pc[p]: idle, announce, announce_failed, scan, read or alert
  left,     \* left[p]: the identifiers get_stats has still to read
  count,    \* count[p]: its stats["dlq"] so far
  stream,   \* the page's EventSource: none, connecting, open or closed
  inbox,    \* the number of events on their way to the page
  flying,   \* the fetches of /stats under way, by version
  shown,    \* the version of the stats on the page
  owed,     \* history: is an alert due for a failure?
  news      \* history: the version of the last announced change the page
            \* has to show, 0 for none

storeVars == <<doc, version, owed>>
procVars == <<pc, left, count>>
pageVars == <<stream, inbox, flying, shown, news>>

vars == <<storeVars, procVars, pageVars>>

Goto(p, label) == pc' = [pc EXCEPT ![p] = label]

Dlq == {j \in Jobs : doc[j] = "dead"}

(* Mutant: the alert is for more jobs than the threshold.                  *)
Crossed_More(n) == n > Threshold

Crossed(n) == n >= Threshold

(***************************************************************************)
(* Saves.                                                                  *)
(***************************************************************************)
Save(j, status) ==
  /\ version < MaxVersion
  /\ version' = version + 1
  /\ doc' = [doc EXCEPT ![j] = status]

(* A save that is announced is news to a page that listens.                *)
Announced(p, label) ==
  /\ Goto(p, label)
  /\ news' = IF stream = "open" THEN version' ELSE 0
  /\ UNCHANGED <<left, count, stream, inbox, flying, shown>>

(* create_job, cancel_job, retry_from_dlq, _schedule_retry and the start   *)
(* and completion of a run: a save, then an event.                         *)
Change(p, j) ==
  /\ pc[p] = "idle"
  /\ Save(j, "live")
  /\ Announced(p, "announce")
  /\ owed' = (owed /\ Cardinality(Dlq') >= Threshold)

(* _move_to_dlq                                                            *)
Fail(p, j) ==
  /\ pc[p] = "idle" /\ doc[j] # "absent"
  /\ Save(j, "dead")
  /\ Announced(p, "announce_failed")
  /\ owed' = (Cardinality(Dlq') >= Threshold)

(* enqueue and promote_due_scheduled save a copy read earlier and publish  *)
(* nothing; if that puts a job back into the DLQ nobody counts it.         *)
Rewrite(j, status) ==
  /\ doc[j] # "absent"
  /\ Save(j, status)
  /\ owed' = (owed /\ Cardinality(Dlq') >= Threshold /\ Dlq' \subseteq Dlq)
  /\ UNCHANGED <<procVars, pageVars>>

(***************************************************************************)
(* Events and the count.                                                   *)
(***************************************************************************)
(* PUBLISH reaches those subscribed now.                                   *)
PublishEvent ==
  /\ inbox' = IF stream = "open" THEN inbox + 1 ELSE inbox
  /\ UNCHANGED <<stream, flying, shown, news>>

Publish(p) ==
  /\ \/ pc[p] = "announce" /\ Goto(p, "idle")
     \/ pc[p] = "announce_failed" /\ Goto(p, "scan")
  /\ PublishEvent
  /\ UNCHANGED <<storeVars, left, count>>

(* get_stats, called by _move_to_dlq: SMEMBERS, then a GET per member.     *)
Scan(p) ==
  /\ pc[p] = "scan"
  /\ left' = [left EXCEPT ![p] = {j \in Jobs : doc[j] # "absent"}]
  /\ Goto(p, "read")
  /\ UNCHANGED <<storeVars, count, pageVars>>

(* Mutant: the loop starts over.                                           *)
Read_Again(p) ==
  /\ pc[p] = "read"
  /\ \E j \in left[p] :
       count' = [count EXCEPT ![p] = IF doc[j] = "dead" THEN @ + 1 ELSE @]
  /\ UNCHANGED <<storeVars, pc, left, pageVars>>

Read(p) ==
  /\ pc[p] = "read"
  /\ \E j \in left[p] :
       LET n == count[p] + (IF doc[j] = "dead" THEN 1 ELSE 0) IN
       /\ left' = [left EXCEPT ![p] = @ \ {j}]
       /\ \/ /\ left[p] # {j}
             /\ count' = [count EXCEPT ![p] = n]
             /\ UNCHANGED pc
          \/ /\ left[p] = {j}
             /\ count' = [count EXCEPT ![p] = 0]
             /\ Goto(p, IF Crossed(n) THEN "alert" ELSE "idle")
  /\ UNCHANGED <<storeVars, pageVars>>

(* _send_dlq_alert                                                         *)
Alert(p) ==
  /\ pc[p] = "alert"
  /\ PublishEvent
  /\ owed' = FALSE
  /\ Goto(p, "idle")
  /\ UNCHANGED <<doc, version, left, count>>

(***************************************************************************)
(* The page.                                                               *)
(***************************************************************************)
(* It fetches the stats and opens the stream when it is mounted.           *)
Mount ==
  /\ stream = "none"
  /\ stream' = "connecting"
  /\ flying' = {version}
  /\ UNCHANGED <<storeVars, procVars, inbox, shown, news>>

(* subscribe_events                                                        *)
Subscribe ==
  /\ stream = "connecting"
  /\ stream' = "open"
  /\ UNCHANGED <<storeVars, procVars, inbox, flying, shown, news>>

(* Mutant: no fetch while another one is under way.                        *)
Deliver_Coalesced ==
  /\ inbox > 0
  /\ inbox' = inbox - 1
  /\ flying' = IF flying = {} THEN {version} ELSE flying
  /\ UNCHANGED <<storeVars, procVars, stream, shown, news>>

(* The handler given to useSSE calls refresh.                              *)
Deliver ==
  /\ inbox > 0
  /\ inbox' = inbox - 1
  /\ flying' = flying \cup {version}
  /\ UNCHANGED <<storeVars, procVars, stream, shown, news>>

(* The rest of refresh: answers come in any order and the last one stays,  *)
(* so an old one under way will hide the news of this one ...              *)
Reply(v) ==
  /\ v \in flying
  /\ flying' = flying \ {v}
  /\ shown' = v
  /\ news' = IF v >= news /\ \E u \in flying : u < news THEN 0 ELSE news
  /\ UNCHANGED <<storeVars, procVars, stream, inbox>>

(* ... or the error is logged.                                             *)
FetchFails(v) ==
  /\ v \in flying
  /\ flying' = flying \ {v}
  /\ news' = IF v >= news THEN 0 ELSE news
  /\ UNCHANGED <<storeVars, procVars, stream, inbox, shown>>

(* onerror closes the source; no new one is made.                          *)
StreamError ==
  /\ stream \in {"connecting", "open"}
  /\ stream' = "closed"
  /\ inbox' = 0
  /\ news' = 0
  /\ UNCHANGED <<storeVars, procVars, flying, shown>>

Next ==
  \/ \E p \in Procs :
       \/ \E j \in Jobs : Change(p, j) \/ Fail(p, j)
       \/ Publish(p) \/ Scan(p) \/ Read(p) \/ Alert(p)
  \/ \E j \in Jobs, status \in {"live", "dead"} : Rewrite(j, status)
  \/ Mount \/ Subscribe \/ Deliver \/ StreamError
  \/ \E v \in 0 .. MaxVersion : Reply(v) \/ FetchFails(v)

(* Some jobs exist already.                                                *)
Init ==
  /\ doc \in [Jobs -> {"absent", "live"}]
  /\ version = 0
  /\ pc = [p \in Procs |-> "idle"]
  /\ left = [p \in Procs |-> {}]
  /\ count = [p \in Procs |-> 0]
  /\ stream = "none" /\ inbox = 0 /\ flying = {} /\ shown = 0
  /\ owed = FALSE /\ news = 0

Spec == Init /\ [][Next]_vars

(***************************************************************************)
(* Properties.                                                             *)
(***************************************************************************)
(* Every variable has its type; a count never exceeds the jobs read.       *)
DashboardTypeOK ==
  /\ doc \in [Jobs -> {"absent", "live", "dead"}]
  /\ {version, news, shown} \cup flying \subseteq 0 .. MaxVersion
  /\ pc \in [Procs -> {"idle", "announce", "announce_failed", "scan", "read", "alert"}]
  /\ left \in [Procs -> SUBSET Jobs]
  /\ count \in [Procs -> Nat]
  /\ \A p \in Procs : count[p] <= Cardinality(Jobs \ left[p])
  /\ stream \in {"none", "connecting", "open", "closed"}
  /\ inbox \in Nat
  /\ owed \in BOOLEAN

(* docs/architecture.md section 7.3: a failure that leaves the DLQ at its  *)
(* threshold is followed by an alert before all is quiet, unless the DLQ   *)
(* falls below it first.  Every failing run counts the DLQ by itself, job  *)
(* by job, while others add to it and take from it.                        *)
NoMissedAlert == (\A p \in Procs : pc[p] = "idle") => ~owed

(* Section 10.2: once the events are delivered and the fetches answered, a *)
(* page that was listening shows stats no older than the last change that  *)
(* is announced.                                                           *)
NewsShown ==
  /\ \A p \in Procs : pc[p] \notin {"announce", "announce_failed"}
  /\ inbox = 0 /\ flying = {}
  => shown >= news
=============================================================================
