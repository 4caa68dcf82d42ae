-------------------------- MODULE MCArtifactStore --------------------------
(* ArtifactStore for TLC: runs and paths are interchangeable.              *)
EXTENDS ArtifactStore, TLC

Symmetry == Permutations(Runs) \cup Permutations(Paths)
=============================================================================
