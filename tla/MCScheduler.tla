----------------------------- MODULE MCScheduler -----------------------------
(***************************************************************************)
(* A dataset of three elements with hypercubes that nest and overlap.      *)
(***************************************************************************)
EXTENDS Scheduler, TLC

CONSTANTS v1, v2

MCCells == 1 .. 3
MCCubes == {{1}, {2}, {1, 2}, {2, 3}}
MCFewCubes == {{1}, {2}, {1, 2}}
MCValues == {v1, v2}
ValueSymmetry == Permutations(MCValues)
=============================================================================
