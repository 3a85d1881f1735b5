------------------------------- MODULE MCGoals -------------------------------
(***************************************************************************)
(* Three goals of the registry, which are interchangeable.                 *)
(***************************************************************************)
EXTENDS GoalRegistry, TLC

Symmetry == Permutations(Goals)
=============================================================================
