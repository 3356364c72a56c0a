CONSTANTS
  j1 = j1  j2 = j2  j3 = j3
  w1 = w1  w2 = w2
  c1 = c1
  NoJob = NoJob
  Jobs = {j1}
  Workers = {w1}
  Clients = {c1}
  DependsOn <- NoDependencies
  Priority <- AllHigh
  MaxRetries = 0
  Requests = {"cancel"}
  Delays = {FALSE}
  Faults = FALSE
  TtlCoversRun = TRUE
  Unhandled = {}
  Recurring = {}
  Spare = {}
SPECIFICATION Spec
PROPERTIES EndedIsFinal
