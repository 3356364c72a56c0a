---------------------------- MODULE MCJobService ----------------------------
(***************************************************************************)
(* Values of the constants of JobService for TLC.                          *)
(***************************************************************************)
EXTENDS JobService, TLC

CONSTANTS j1, j2, j3, w1, w2, c1

NoDependencies == [j \in Jobs |-> {}]

(* j2 waits for j1.                                                        *)
OneParent == [j \in Jobs |-> IF j = j2 THEN {j1} ELSE {}]

(* j3 waits for j1 and j2.                                                 *)
TwoParents == [j \in Jobs |-> IF j = j3 THEN {j1, j2} ELSE {}]

AllHigh == [j \in Jobs |-> 1]

(* A waiting child outranks its parent.                                    *)
ChildFirst == [j \in Jobs |-> IF j = j2 THEN 1 ELSE 3]

WorkerSymmetry == Permutations(Workers)
=============================================================================
