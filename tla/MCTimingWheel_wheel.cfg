CONSTANTS
  j1 = j1  j2 = j2  j3 = j3
  w1 = w1  w2 = w2
  c1 = c1
  NoJob = NoJob
  Jobs = {j1, j2}
  Workers = {w1}
  Clients = {c1}
  DependsOn <- OneParent
  Priority <- AllHigh
  MaxRetries = 0
  Requests = {"cancel"}
  Delays = {FALSE, TRUE}
  Faults = FALSE
  TtlCoversRun = FALSE
  Unhandled = {}
  Recurring = {}
  Spare = {}
  Slots = 4
  Reach = 1
  Waits = {1}
  MaxLag = 1
  MaxClock = 3
SPECIFICATION WheelSpec
INVARIANTS WheelTypeOK NothingLost
PROPERTIES SecondsKept ImplementsDispatch CancelIsFinal
