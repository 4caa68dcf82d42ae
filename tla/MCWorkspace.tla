---------------------------- MODULE MCWorkspace ----------------------------
(* Workspace for TLC: runs are interchangeable, branches are not.          *)
EXTENDS Workspace, TLC

Symmetry == Permutations(Runs)
=============================================================================
