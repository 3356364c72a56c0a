------------------------------ MODULE Dispatch ------------------------------
(***************************************************************************)
(* What the scheduler promises about execution, without queues, documents  *)
(* or locks: a worker runs one job at a time, no two workers run the same  *)
(* job at once, and a job runs only after all its parents have succeeded   *)
(* (docs/architecture.md, sections 8 and 9.1).  A run may end without      *)
(* success, and a job may be run again.                                    *)
(***************************************************************************)
CONSTANTS Jobs, NoJob, Workers, DependsOn

VARIABLES
  running,  \* running[w]: the job worker w is running, or NoJob
  done      \* the jobs that have succeeded

Init ==
  /\ running = [w \in Workers |-> NoJob]
  /\ done = {}

Begin(w, j) ==
  /\ running[w] = NoJob
  /\ \A v \in Workers : running[v] # j
  /\ DependsOn[j] \subseteq done
  /\ running' = [running EXCEPT ![w] = j]
  /\ UNCHANGED done

Succeed(w) ==
  /\ running[w] # NoJob
  /\ done' = done \cup {running[w]}
  /\ UNCHANGED running

End(w) ==
  /\ running' = [running EXCEPT ![w] = NoJob]
  /\ UNCHANGED done

Next ==
  \E w \in Workers : (\E j \in Jobs : Begin(w, j)) \/ Succeed(w) \/ End(w)

Spec == Init /\ [][Next]_<<running, done>>
=============================================================================
