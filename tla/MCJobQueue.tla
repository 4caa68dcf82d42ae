----------------------------- MODULE MCJobQueue -----------------------------
(* JobQueue for TLC: agents, connections and runs are interchangeable.     *)
EXTENDS JobQueue, TLC

Symmetry ==
  Permutations(Agents) \cup Permutations(Conns) \cup Permutations(Runs)
=============================================================================
