CONSTANTS
  j1 = j1 j2 = j2 j3 = j3 p1 = p1 p2 = p2
  Jobs = {j1, j2, j3}
  Procs = {p1, p2}
  Threshold = 2
  MaxVersion = 4
SPECIFICATION Spec
INVARIANTS DashboardTypeOK NoMissedAlert NewsShown
SYMMETRY DashboardSymmetry
CHECK_DEADLOCK FALSE
