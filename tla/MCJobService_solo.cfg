CONSTANTS
  j1 = j1  j2 = j2  j3 = j3
  w1 = w1  w2 = w2
  c1 = c1
  NoJob = NoJob
  Jobs = {j1, j2, j3}
  Workers = {w1}
  Clients = {c1}
  DependsOn <- NoDependencies
  Priority <- AllHigh
  MaxRetries = 1
  Requests = {"cancel", "retry"}
  Delays = {FALSE, TRUE}
  Faults = FALSE
  TtlCoversRun = TRUE
  Unhandled = {j2}
  Recurring = {j1, j3}
  Spare = {j3}
SPECIFICATION FairSpec
INVARIANTS NeverEarly RunsOnce DlqMeansFailed RecurrenceConserved
PROPERTIES CancelIsFinal EveryScheduledJobRuns
