CONSTANTS
  j1 = j1  j2 = j2  j3 = j3
  w1 = w1  w2 = w2
  c1 = c1
  NoJob = NoJob
  Jobs = {j1}
  Workers = {w1}
  Clients = {c1}
  DependsOn <- NoDependencies
  Priority <- AllHigh
  MaxRetries = 0
  Requests = {}
  Delays = {FALSE, TRUE}
  Faults = FALSE
  TtlCoversRun = TRUE
  Unhandled = {}
  Recurring = {}
  Spare = {}
  Slots = 4
  Reach = 1
  Waits = {4}
  MaxLag = 1
  MaxClock = 5
SPECIFICATION WheelSpec
INVARIANTS NotBeforeSecond
