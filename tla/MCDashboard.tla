---------------------------- MODULE MCDashboard -----------------------------
(***************************************************************************)
(* Values of the constants of Dashboard for TLC.                           *)
(***************************************************************************)
EXTENDS Dashboard, TLC

CONSTANTS j1, j2, j3, p1, p2

DashboardSymmetry == Permutations(Jobs) \cup Permutations(Procs)
=============================================================================
