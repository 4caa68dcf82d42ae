----------------------------- MODULE MCZfsCache -----------------------------
(* ZfsCache for TLC: run ids are interchangeable.                           *)
EXTENDS ZfsCache, TLC

Symmetry == Permutations(Runs)
=============================================================================
