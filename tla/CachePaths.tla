----------------------------- MODULE CachePaths -----------------------------
(***************************************************************************)
(* The paths under `cache:` in a .flowz.yaml: how validate_cache compares  *)
(* and refuses them, and where attach_caches and dail mount them.  A path  *)
(* is the sequence of what stands between its slashes: "./a/" is           *)
(* <<".", "a", "">>, and "/a" is <<"", "a">>.  White space is part of what *)
(* it stands in: " /a" is <<" ", "a">>.                                    *)
(***************************************************************************)
EXTENDS Naturals, Sequences, SequencesExt

CONSTANTS Names,    \* what a segment may be, beside "", "." and ".."
          Colons,   \* those of them with a colon
          TrimStart, TrimEnd, \* a segment without white space in front, behind
          MaxLen,   \* bound: segments of a path
          MaxCaches \* bound: caches of a pipeline

VARIABLES
  cache,    \* the paths validate_cache has looked at, in file order
  seen,     \* those it has accepted, normalised
  refused   \* its error, "none" so far

Empty == ""   \* between two slashes, before the first or after the last

Segments == Names \cup {Empty, ".", ".."}
Path == UNION {[1..n -> Segments] : n \in 1..MaxLen}

Absolute(p) == Len(p) > 1 /\ p[1] = Empty

\* The path without its last slashes.
Untrailed(p) ==
  IF \A k \in DOMAIN p : p[k] = Empty THEN <<Empty>>
  ELSE SubSeq(p, 1, CHOOSE k \in DOMAIN p :
                      p[k] # Empty /\ \A j \in (k + 1)..Len(p) : p[j] = Empty)

\* The path without white space at its ends.
Trimmed(p) ==
  LET q == [p EXCEPT ![1] = TrimStart[@]] IN [q EXCEPT ![Len(q)] = TrimEnd[@]]

\* Without a leading "./", once, and without its last slashes.
Stripped(p) ==
  LET q == IF Len(p) > 1 /\ p[1] = "." THEN Tail(p) ELSE p
  IN IF Untrailed(q) = <<Empty>> /\ Absolute(q) THEN <<Empty, Empty>> ELSE Untrailed(q)

\* Mutant of normalize_cache_path: last slashes are kept.
NormalKeepsTrailing(p) ==
  LET q == Trimmed(p) IN IF Len(q) > 1 /\ q[1] = "." THEN Tail(q) ELSE q

normalize_cache_path(p) == Stripped(Trimmed(p))

Bad(n) ==
  \/ n \in {<<Empty>>, <<".">>, <<Empty, Empty>>}
  \/ IsPrefix(<<Empty, "workspace">>, n)
  \/ \E k \in DOMAIN n : n[k] \in Colons \cup {".."}

\* The segments of a path that lead somewhere.
Leading(p) ==
  LET led[k \in 0..Len(p)] ==
        IF k = 0 THEN <<>>
        ELSE IF p[k] \in {Empty, "."} THEN led[k - 1] ELSE Append(led[k - 1], p[k])
  IN led[Len(p)]

\* Where a path leads, from the root of the jail.
Resolved(p) ==
  (IF Absolute(p) THEN <<>> ELSE <<"workspace">>) \o Leading(p)

\* attach_caches normalises the path again, and mounts it there.
MountPoint(p) == Resolved(normalize_cache_path(p))

Init == cache = <<>> /\ seen = <<>> /\ refused = "none"

\* A pass of validate_cache's loop, at a cache with path p, whose name may be
\* refused first.
ValidateCache(p) ==
  LET n == normalize_cache_path(p)
  IN /\ refused = "none" /\ Len(cache) < MaxCaches
     /\ cache' = Append(cache, p)
     /\ \/ refused' = "name" /\ UNCHANGED seen
        \/ Bad(n) /\ refused' = "path" /\ UNCHANGED seen
        \/ ~Bad(n) /\ n \in Range(seen) /\ refused' = "duplicate" /\ UNCHANGED seen
        \/ ~Bad(n) /\ n \notin Range(seen) /\ seen' = Append(seen, n) /\ UNCHANGED refused

Next == \E p \in Path : ValidateCache(p)

(***************************************************************************)
(* Properties.                                                             *)
(***************************************************************************)

\* Written plainly: no empty and no "." segment, but a leading "./" and
\* trailing slashes.
Plain(p) ==
  \A k \in DOMAIN p :
    \/ p[k] \notin {Empty, "."}
    \/ k = 1 /\ Len(p) > 1
    \/ k > 1 /\ \A j \in k..Len(p) : p[j] = Empty

\* Caches that are accepted, if written plainly, are mounted where they say,
\* apart from one another, and never over or around the workspace, which an
\* absolute path can not reach into.  White space around a path is not part
\* of it.  (Others may: ".//a" is mounted at "/a", and "a//b" and "a/b" are
\* two caches at one place.  One cache may be mounted inside another.)
MountedApart ==
  refused = "none" /\ (\A k \in DOMAIN cache : Plain(Trimmed(cache[k]))) =>
    \A i \in DOMAIN cache :
      /\ MountPoint(cache[i]) = Resolved(Trimmed(cache[i]))
      /\ ~IsPrefix(MountPoint(cache[i]), <<"workspace">>)
      /\ Absolute(Trimmed(cache[i])) => ~IsPrefix(<<"workspace">>, MountPoint(cache[i]))
      /\ \A j \in DOMAIN cache :
           MountPoint(cache[i]) = MountPoint(cache[j]) => i = j
=============================================================================
