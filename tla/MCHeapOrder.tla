---------------------------- MODULE MCHeapOrder -----------------------------
(***************************************************************************)
(* Values of the constants of HeapOrder for TLC.                           *)
(***************************************************************************)
EXTENDS HeapOrder, TLC

CONSTANTS j1, j2, c1, c2

Symmetry == Permutations(Jobs) \cup Permutations(Coroutines)
=============================================================================
