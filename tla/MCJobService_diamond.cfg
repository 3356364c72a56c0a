CONSTANTS
  j1 = j1  j2 = j2  j3 = j3
  w1 = w1  w2 = w2
  c1 = c1
  NoJob = NoJob
  Jobs = {j1, j2, j3}
  Workers = {w1, w2}
  Clients = {c1}
  DependsOn <- TwoParents
  Priority <- AllHigh
  MaxRetries = 0
  Requests = {}
  Delays = {FALSE}
  Faults = FALSE
  TtlCoversRun = TRUE
  Unhandled = {}
  Recurring = {}
  Spare = {}
SPECIFICATION FairSpec
INVARIANTS TypeOK DependencyOrder NoLostWakeup
PROPERTIES ImplementsDispatch EveryReadyJobRuns
