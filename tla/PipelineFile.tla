---------------------------- MODULE PipelineFile ----------------------------
(***************************************************************************)
(* validate, which every .flowz.yaml must pass before a step of it runs:   *)
(* the version and the secrets section come first, then the caches         *)
(* (CachePaths), then the steps and their needs (NeedsCheck).  The first   *)
(* error ends it.  What is only compared with a constant, as the version,  *)
(* is left out of the file: its check may refuse or not.                   *)
(***************************************************************************)
EXTENDS NeedsCheck

CONSTANTS Names, Colons, TrimStart, TrimEnd, MaxLen, MaxCaches   \* see CachePaths

ASSUME ColonsAssumption == Colons \subseteq Names /\ "workspace" \in Names \ Colons
ASSUME LengthAssumption == MaxLen \in Nat \ {0} /\ MaxCaches \in Nat

VARIABLES cache, seen, refused

Caches == INSTANCE CachePaths

ASSUME TrimAssumption ==
  {TrimStart, TrimEnd} \subseteq [Caches!Segments -> Caches!Segments]

fileVars == <<vars, cache, seen, refused>>

\* The steps' turn has not come yet.
Fresh == verdict = "none" /\ toCheck = Steps /\ roots = Steps

\* The version is not 1, or the secrets section names another provider than
\* cfgy, or no project.
validate_head ==
  /\ Fresh /\ cache = <<>> /\ refused = "none"
  /\ refused' = "head"
  /\ UNCHANGED <<vars, cache, seen>>

validate_cache == Fresh /\ Caches!Next /\ UNCHANGED vars
validate_steps ==
  refused = "none" /\ Next /\ UNCHANGED <<cache, seen, refused>>

FileInit == Init /\ Caches!Init
FileNext == validate_head \/ validate_cache \/ validate_steps
FileSpec == FileInit /\ [][FileNext]_fileVars

\* The paths of accepted caches lead to places of their own.
MountedApart == Caches!MountedApart
=============================================================================
