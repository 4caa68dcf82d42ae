--------------------------- MODULE MCPipelineFile ---------------------------
(* PipelineFile for TLC: the steps are interchangeable, and a file has     *)
(* either caches or steps to look at, as these do not depend on each       *)
(* other.                                                                  *)
EXTENDS PipelineFile, TLC

\* White space is a segment of its own here, on either end of a path.
MCTrim == [s \in Names \cup {"", ".", ".."} |-> IF s = " " THEN "" ELSE s]

Symmetry == Permutations(Steps)

MCNext ==
  \/ (\A s \in Steps : needs[s] = {}) /\ (validate_head \/ validate_cache)
  \/ cache = <<>> /\ validate_steps

MCSpec == FileInit /\ [][MCNext]_fileVars
=============================================================================
