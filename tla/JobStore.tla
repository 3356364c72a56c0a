------------------------------ MODULE JobStore ------------------------------
(***************************************************************************)
(* The Redis document store of backend/app/services/job_store.py and the   *)
(* job document of backend/app/models/job.py.                              *)
(*                                                                         *)
(* Every Redis command is one atomic step of the coroutine p that awaits   *)
(* it; pc[p] names the command p issues next.  save_job is one MULTI/EXEC  *)
(* transaction, so the sets jobs:index and dlq:index always agree with the *)
(* documents and are not variables of their own: a job is indexed iff its  *)
(* document is not "absent", and it is in dlq:index iff its document says  *)
(* in_dlq.                                                                 *)
(***************************************************************************)
EXTENDS Naturals, FiniteSets

CONSTANTS
  Jobs,        \* the pool of job identifiers (uuid4 strings)
  NoJob,       \* the identifier of no job
  Workers,     \* worker processes
  Clients,     \* concurrent API requests
  DependsOn,   \* DependsOn[j]: the parents of j, fixed when j is created
  MaxRetries   \* settings.max_retries

Procs == Workers \cup Clients

ASSUME StoreAssumption ==
  /\ NoJob \notin Jobs
  /\ Workers \cap Clients = {}
  /\ DependsOn \in [Jobs -> SUBSET Jobs]
  /\ MaxRetries \in Nat

VARIABLES
  pc,          \* pc[p]: the next step of coroutine p
  store,       \* store[j]: the document at key job:{j}
  dependents,  \* dependents[j]: the set at key job:dependents:{j}
  need         \* need[p]: the parents dependencies_met has still to read

(* "absent" stands for a key that does not exist (get_job returns None).   *)
Status ==
  {"absent", "pending", "processing", "completed", "failed", "cancelled"}

(* The fields that decide control flow.  future says that scheduled_at is  *)
(* set to an instant that has not come yet.                                *)
Document ==
  [id: Jobs \cup {NoJob}, status: Status, retries: 0 .. MaxRetries,
   future: BOOLEAN, in_dlq: BOOLEAN]

(* Job(...): a fresh document, due at once or later.                       *)
NewJob(j, later) ==
  [id |-> j, status |-> "pending", retries |-> 0,
   future |-> later, in_dlq |-> FALSE]

Absent(j) == [NewJob(j, FALSE) EXCEPT !.status = "absent"]
NoDocument == Absent(NoJob)

Created == {j \in Jobs : store[j].status # "absent"}

Goto(p, label) == pc' = [pc EXCEPT ![p] = label]

(* save_job overwrites the whole document, whatever was written since the  *)
(* caller read it.                                                         *)
SaveJob(d) == store' = [store EXCEPT ![d.id] = d]

(* Mutant: only one parent learns of the dependent.                        *)
RegisterDependents_OneParent(j) ==
  dependents' = [dependents EXCEPT ![CHOOSE d \in DependsOn[j] : TRUE] =
                   @ \cup {j}]

(* register_dependents: one MULTI of SADDs.                                *)
RegisterDependents(j) ==
  dependents' = [d \in Jobs |-> IF d \in DependsOn[j]
                                  THEN dependents[d] \cup {j}
                                  ELSE dependents[d]]

(* Start of dependencies_met(j) at label reading; with no parents the loop *)
(* falls through.                                                          *)
CheckDependencies(p, j, reading, met) ==
  /\ need' = [need EXCEPT ![p] = DependsOn[j]]
  /\ Goto(p, IF DependsOn[j] = {} THEN met ELSE reading)

(* Mutant: any completed parent will do.                                   *)
ReadMet_AnyParent(p, met) ==
  /\ \E d \in need[p] : store[d].status = "completed"
  /\ need' = [need EXCEPT ![p] = {}]
  /\ Goto(p, met)

(* Mutant: a failed parent counts as completed.                            *)
ReadMet_FailedToo(p, met) ==
  \E d \in need[p] :
    /\ store[d].status \in {"completed", "failed"}
    /\ need' = [need EXCEPT ![p] = @ \ {d}]
    /\ Goto(p, IF need[p] = {d} THEN met ELSE pc[p])

(* One iteration of dependencies_met, which reads one parent per await:    *)
(* a completed parent, after which it goes on or returns True ...          *)
ReadMet(p, met) ==
  \E d \in need[p] :
    /\ store[d].status = "completed"
    /\ need' = [need EXCEPT ![p] = @ \ {d}]
    /\ Goto(p, IF need[p] = {d} THEN met ELSE pc[p])

(* ... or one that is missing or not completed, and it returns False.      *)
ReadUnmet(p) ==
  /\ \E d \in need[p] : store[d].status # "completed"
  /\ need' = [need EXCEPT ![p] = {}]

StoreTypeOK ==
  /\ store \in [Jobs -> Document]
  /\ \A j \in Jobs : store[j].id = j
  /\ dependents \in [Jobs -> SUBSET Jobs]
  /\ need \in [Procs -> SUBSET Jobs]

StoreInit ==
  /\ store = [j \in Jobs |-> Absent(j)]
  /\ dependents = [j \in Jobs |-> {}]
  /\ need = [p \in Procs |-> {}]
=============================================================================
