CONSTANTS
  j1 = j1 j2 = j2 c1 = c1 c2 = c2
  NoJob = NoJob
  Jobs = {j1, j2}
  Coroutines = {c1}
  Weight = 56
  Scale = 5
  Interval = 3
  Boost = 1
  Instants = {}
  Backoffs = {2}
  Times = {0, 2, 6}
  MaxClock = 6
  Latest = 6
  MaxCalls = 0
  Priorities = {2, 3}
SPECIFICATION Spec
PROPERTIES AgedFirst
SYMMETRY Symmetry
CHECK_DEADLOCK FALSE
