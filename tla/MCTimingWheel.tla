--------------------------- MODULE MCTimingWheel ----------------------------
(***************************************************************************)
(* Values of the constants of TimingWheel for TLC.                         *)
(***************************************************************************)
EXTENDS TimingWheel, TLC

CONSTANTS j1, j2, j3, w1, w2, c1

NoDependencies == [j \in Jobs |-> {}]

(* j2 waits for j1.                                                        *)
OneParent == [j \in Jobs |-> IF j = j2 THEN {j1} ELSE {}]

AllHigh == [j \in Jobs |-> 1]

WorkerSymmetry == Permutations(Workers)
=============================================================================
