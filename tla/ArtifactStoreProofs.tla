------------------------ MODULE ArtifactStoreProofs ------------------------
(***************************************************************************)
(* Proofs about ArtifactStore, for any number of runs, paths and agents    *)
(* and any retention window.                                               *)
(***************************************************************************)
EXTENDS ArtifactStore, FiniteSetTheorems, TLAPS

(***************************************************************************)
(* Types.                                                                  *)
(***************************************************************************)

\* An upload under way has a path.
UploadOK == \A r \in Runs : upc[r] # "idle" => upath[r] \in Paths

TypeInv == TypeOK /\ UploadOK

LEMMA TypeInit == Init => TypeInv
<1> SUFFICES ASSUME Init PROVE TypeInv
  OBVIOUS
<1>1. agents \in 1..MaxAgents /\ rows \in [Artifacts -> Nat]
  BY DEF Init
<1> QED BY <1>1 DEF Init, TypeInv, TypeOK, UploadOK, Phase

LEMMA TypeStep == TypeInv /\ [Next]_vars => TypeInv'
<1> SUFFICES ASSUME TypeInv, [Next]_vars PROVE TypeInv'
  OBVIOUS
<1> USE DEF TypeInv, TypeOK, UploadOK, Artifacts, Phase, upVars, evictVars,
            UploadEnds, Fault
<1>1. CASE UNCHANGED vars
  BY <1>1 DEF vars
<1>2. CASE TimePasses
  BY <1>2 DEF TimePasses
<1>3. ASSUME NEW r \in Runs, StartRun(r) \/ Finish(r) PROVE TypeInv'
  BY <1>3 DEF StartRun, Finish
<1>4. ASSUME NEW r \in Runs, NEW p \in Paths, CreateDir(r, p) PROVE TypeInv'
  BY <1>4 DEF CreateDir
<1>5. ASSUME NEW r \in Runs, WriteFile(r) PROVE TypeInv'
  BY <1>5 DEF WriteFile
<1>6. ASSUME NEW r \in Runs, InsertRow(r) PROVE TypeInv'
  <2>1. clock' \in Nat /\ faults' \in Nat
    BY <1>6 DEF InsertRow
  <2>2. rows' \in [Artifacts -> Nat]
    <3>1. \/ rows' = [rows EXCEPT ![<<r, upath[r]>>] = clock + 1]
          \/ rows' = rows
      BY <1>6 DEF InsertRow
    <3>2. clock + 1 \in Nat
      OBVIOUS
    <3> QED BY <3>1, <3>2
  <2> QED BY <1>6, <2>1, <2>2 DEF InsertRow
<1>7. ASSUME NEW r \in Runs, QueryStale(r) PROVE TypeInv'
  <2> DEFINE stale == {q \in Runs : Stale(q)}
  <2>1. stale \in SUBSET Runs
    OBVIOUS
  <2>2. \/ todo' = [todo EXCEPT ![r] = stale]
        \/ todo' = todo
    BY <1>7 DEF QueryStale
  <2>3. todo' \in [Runs -> SUBSET Runs]
    <3> HIDE DEF stale
    <3> QED BY <2>1, <2>2
  <2> QED BY <1>7, <2>3 DEF QueryStale
<1>8. ASSUME NEW r \in Runs, NEW q \in Runs, RemoveDir(r, q) PROVE TypeInv'
  BY <1>8 DEF RemoveDir
<1>9. ASSUME NEW r \in Runs, DeleteRows(r) PROVE TypeInv'
  BY <1>9 DEF DeleteRows
<1>10. ASSUME NEW r \in Runs, EvictionEnds(r) PROVE TypeInv'
  BY <1>10 DEF EvictionEnds
<1> QED
  BY <1>1, <1>2, <1>3, <1>4, <1>5, <1>6, <1>7, <1>8, <1>9, <1>10
     DEF Next, upload_artifact, evict_artifacts

LEMMA TypeInvHolds == Spec => []TypeInv
  BY TypeInit, TypeStep, PTL DEF Spec

\* The variables of the artifact store keep their types.
THEOREM TypeCorrect == Spec => []TypeOK
<1>1. TypeInv => TypeOK
  BY DEF TypeInv
<1> QED BY <1>1, TypeInvHolds, PTL

(***************************************************************************)
(* One agent.                                                              *)
(***************************************************************************)

OneActive == \A r, q \in Active : r = q

\* Where in a run its handlers can be at work.
PhaseInv ==
  \A r \in Runs :
    /\ upc[r] # "idle" => phase[r] = "running"
    /\ todo[r] # {} \/ victim[r] # NoRun => phase[r] = "evict"
    /\ victim[r] # NoRun => victim[r] \in todo[r]

SoloInv == agents = 1 => OneActive /\ PhaseInv

LEMMA SoloInit == Init => SoloInv
  BY DEF Init, SoloInv, OneActive, PhaseInv, Active

\* A single agent starts a run when there is no other under way.
LEMMA StartsAlone ==
  ASSUME TypeInv, SoloInv, agents = 1, NEW r \in Runs, StartRun(r)
  PROVE Active = {}
<1>1. SUFFICES ASSUME NEW q \in Active PROVE FALSE
  OBVIOUS
<1>2. Active = {q}
  BY <1>1 DEF SoloInv, OneActive
<1>3. Cardinality(Active) = 1
  BY <1>2, FS_Singleton
<1> QED BY <1>3 DEF StartRun

LEMMA SoloStep ==
  ASSUME TypeInv, SoloInv, [Next]_vars
  PROVE SoloInv'
<1> SUFFICES ASSUME agents' = 1 PROVE OneActive' /\ PhaseInv'
  BY DEF SoloInv
<1> USE NoRunAssumption
    DEF TypeInv, TypeOK, UploadOK, SoloInv, OneActive, PhaseInv, Active, Phase,
        upVars, evictVars, UploadEnds, Fault
<1>1. CASE UNCHANGED vars
  BY <1>1 DEF vars
<1>2. CASE TimePasses
  BY <1>2 DEF TimePasses
<1>3. ASSUME NEW r \in Runs, StartRun(r) PROVE OneActive' /\ PhaseInv'
  <2>1. agents = 1
    BY <1>3 DEF StartRun
  <2>2. \A q \in Runs : phase[q] \in {"new", "done"}
    BY <1>3, <2>1, StartsAlone DEF Active
  <2> QED BY <1>3, <2>1, <2>2 DEF StartRun
<1>4. ASSUME NEW r \in Runs, Finish(r) PROVE OneActive' /\ PhaseInv'
  BY <1>4 DEF Finish
<1>5. ASSUME NEW r \in Runs, upload_artifact(r) PROVE OneActive' /\ PhaseInv'
  BY <1>5 DEF upload_artifact, CreateDir, WriteFile, InsertRow
<1>6. ASSUME NEW r \in Runs, QueryStale(r) PROVE OneActive' /\ PhaseInv'
  BY <1>6 DEF QueryStale
<1>7. ASSUME NEW r \in Runs, NEW q \in Runs, RemoveDir(r, q)
      PROVE OneActive' /\ PhaseInv'
  BY <1>7 DEF RemoveDir
<1>8. ASSUME NEW r \in Runs, DeleteRows(r) PROVE OneActive' /\ PhaseInv'
  BY <1>8 DEF DeleteRows
<1>9. ASSUME NEW r \in Runs, EvictionEnds(r) PROVE OneActive' /\ PhaseInv'
  BY <1>9 DEF EvictionEnds
<1> QED
  BY <1>1, <1>2, <1>3, <1>4, <1>5, <1>6, <1>7, <1>8, <1>9 DEF Next, evict_artifacts

LEMMA SoloInvHolds == Spec => []SoloInv
  BY TypeInvHolds, SoloInit, SoloStep, PTL DEF Spec

(***************************************************************************)
(* Files and rows.                                                         *)
(***************************************************************************)

\* Both sides of RowsMatchFiles, an upload that has its file still to list,
\* and an eviction that has rows still to delete.
FilesInv ==
  agents = 1 /\ faults = 0 =>
    /\ RowsMatchFiles
    /\ \A r \in Runs : upc[r] = "insert" => <<r, upath[r]>> \in disk
    /\ \A r \in Runs : \A x \in disk : x[1] # victim[r]

LEMMA FilesInit == Init => FilesInv
  BY DEF Init, FilesInv, RowsMatchFiles

LEMMA FilesStep ==
  ASSUME TypeInv, SoloInv, FilesInv, [Next]_vars
  PROVE FilesInv'
<1> SUFFICES ASSUME agents' = 1, faults' = 0 PROVE FilesInv'
  BY DEF FilesInv
<1> USE NoRunAssumption
    DEF TypeInv, TypeOK, UploadOK, SoloInv, OneActive, PhaseInv, Active,
        FilesInv, RowsMatchFiles, BeingEvicted, Uploading, Artifacts,
        upVars, evictVars, UploadEnds, Fault
<1>0. \A r \in Runs : ~(faults' = faults + 1)
  OBVIOUS
<1>1. CASE UNCHANGED vars
  BY <1>1 DEF vars
<1>2. CASE TimePasses
  BY <1>2 DEF TimePasses
<1>3. ASSUME NEW r \in Runs, StartRun(r) \/ Finish(r) PROVE FilesInv'
  BY <1>3 DEF StartRun, Finish
<1>4. ASSUME NEW r \in Runs, NEW p \in Paths, CreateDir(r, p) PROVE FilesInv'
  BY <1>4 DEF CreateDir
<1>5. ASSUME NEW r \in Runs, WriteFile(r) PROVE FilesInv'
  BY <1>5 DEF WriteFile
<1>6. ASSUME NEW r \in Runs, InsertRow(r) PROVE FilesInv'
  BY <1>6, SMTT(20) DEF InsertRow
<1>7. ASSUME NEW r \in Runs, QueryStale(r) \/ EvictionEnds(r) PROVE FilesInv'
  BY <1>7 DEF QueryStale, EvictionEnds
<1>8. ASSUME NEW r \in Runs, NEW q \in Runs, RemoveDir(r, q) PROVE FilesInv'
  BY <1>8 DEF RemoveDir
<1>9. ASSUME NEW r \in Runs, DeleteRows(r) PROVE FilesInv'
  BY <1>9 DEF DeleteRows
<1> QED
  BY <1>1, <1>2, <1>3, <1>4, <1>5, <1>6, <1>7, <1>8, <1>9
     DEF Next, upload_artifact, evict_artifacts

\* With one agent and nothing failing, what is listed can be downloaded and
\* what is on the disk is listed, for any number of runs and whatever the
\* window.
THEOREM FilesAreListed == Spec => []RowsMatchFiles
<1>1. TypeInv /\ SoloInv /\ FilesInv /\ [Next]_vars => FilesInv'
  BY FilesStep
<1>2. FilesInv => RowsMatchFiles
  BY DEF FilesInv, RowsMatchFiles
<1> QED BY <1>1, <1>2, FilesInit, TypeInvHolds, SoloInvHolds, PTL DEF Spec

(***************************************************************************)
(* What an eviction takes.                                                 *)
(***************************************************************************)

Before(q) == {s \in Listed : Younger(s, q)}

LEMMA FiniteBefore ==
  ASSUME NEW q
  PROVE IsFiniteSet(Before(q)) /\ Cardinality(Before(q)) \in Nat
<1>1. Before(q) \in SUBSET Runs
  BY DEF Before, Listed
<1> QED BY <1>1, RunsAssumption, FS_Subset, FS_CardinalityType

LEMMA YoungerTransitive ==
  ASSUME TypeInv, NEW a \in Runs, NEW v \in Runs, NEW q \in Runs,
         Younger(a, v), Younger(v, q)
  PROVE Younger(a, q)
<1>1. PICK x \in RowsOf(a) : \A y \in RowsOf(v) : rows[x] > rows[y]
  BY DEF Younger
<1>2. PICK z \in RowsOf(v) : \A y \in RowsOf(q) : rows[z] > rows[y]
  BY DEF Younger
<1>3. \A y \in RowsOf(q) : rows[x] > rows[y]
  <2> TAKE y \in RowsOf(q)
  <2>1. rows[x] \in Nat /\ rows[y] \in Nat /\ rows[z] \in Nat
    BY <1>1, <1>2 DEF TypeInv, TypeOK, RowsOf
  <2> QED BY <1>1, <1>2, <2>1
<1> QED BY <1>1, <1>3 DEF Younger

\* The time never falls behind the cutoff by more than the next insert, so
\* that what is too old stays so; and a stale run that is still to be
\* evicted stays stale while others are.
StaleInv ==
  agents = 1 =>
    /\ cutoff <= clock + 1
    /\ \A r, q \in Runs : q \in todo[r] => RowsOf(q) = {} \/ Stale(q)

LEMMA StaleInit == Init => StaleInv
  BY DEF Init, StaleInv

\* The DELETE for one stale run leaves the others stale: those that came
\* before it come before them as well.
LEMMA OthersStayStale ==
  ASSUME TypeInv, TypeInv', NEW v \in Runs, NEW q \in Runs,
         RowsOf(v) = {} \/ Stale(v), Stale(q), v # q,
         rows' = [x \in Artifacts |-> IF x[1] = v THEN 0 ELSE rows[x]],
         cutoff' = cutoff
  PROVE Stale(q)'
<1>1. \A s \in Runs : RowsOf(s)' = IF s = v THEN {} ELSE RowsOf(s)
  BY DEF RowsOf, Artifacts
<1>2. q \in Listed'
  BY <1>1 DEF Stale, Listed
<1>3. \A s \in Runs : s # v => \A x \in RowsOf(s) : rows'[x] = rows[x]
  BY DEF RowsOf
<1>4. TooOld(q) => TooOld(q)'
  BY <1>1, <1>3 DEF TooOld
<1>5. \A s \in Runs : s # v /\ Younger(s, q) => Younger(s, q)'
  BY <1>1, <1>3 DEF Younger
<1>6. Before(q) \ {v} \subseteq Before(q)'
  BY <1>1, <1>5 DEF Before, Listed
<1>7. Cardinality(Before(q)') >= Keep => Stale(q)'
  BY <1>2 DEF Stale, Before
<1>8. ASSUME NEW S, S \subseteq Before(q)', Cardinality(S) >= Keep
      PROVE Stale(q)'
  <2>1. Before(q)' \in SUBSET Runs
    BY DEF Before, Listed
  <2>2. IsFiniteSet(Before(q)')
    BY <2>1, RunsAssumption, FS_Subset
  <2>3. IsFiniteSet(S) /\ Cardinality(S) <= Cardinality(Before(q)')
    BY <1>8, <2>2, FS_Subset
  <2>4. Cardinality(S) \in Nat /\ Cardinality(Before(q)') \in Nat
    BY <2>2, <2>3, FS_CardinalityType
  <2> QED BY <1>7, <1>8, <2>3, <2>4, BoundsAssumption
<1>9. CASE TooOld(q)
  BY <1>2, <1>4, <1>9 DEF Stale
<1>10. CASE Cardinality(Before(q)) >= Keep
  <2>1. CASE v \notin Before(q)
    BY <1>6, <1>8, <1>10, <2>1
  <2>2. CASE v \in Before(q)
    <3>1. Younger(v, q) /\ RowsOf(v) # {}
      BY <2>2 DEF Before, Listed
    <3>2. CASE TooOld(v)
      <4>1. PICK x \in RowsOf(v) : \A y \in RowsOf(q) : rows[x] > rows[y]
        BY <3>1 DEF Younger
      <4>2. \A y \in RowsOf(q) : rows[y] < cutoff
        <5> TAKE y \in RowsOf(q)
        <5>1. rows[x] \in Nat /\ rows[y] \in Nat /\ cutoff \in Nat
          BY <4>1 DEF TypeInv, TypeOK, RowsOf
        <5>2. rows[x] > rows[y] /\ rows[x] < cutoff
          BY <3>2, <4>1 DEF TooOld
        <5> QED BY <5>1, <5>2
      <4> QED BY <4>2, <1>9 DEF TooOld
    <3>3. CASE Cardinality(Before(v)) >= Keep
      <4>1. ~Younger(v, v)
        <5>1. \A x \in RowsOf(v) : rows[x] \in Nat
          BY DEF TypeInv, TypeOK, RowsOf
        <5> QED BY <5>1 DEF Younger
      <4>2. Before(v) \subseteq Before(q) \ {v}
        BY <3>1, <4>1, YoungerTransitive DEF Before, Listed
      <4> QED BY <1>6, <1>8, <3>3, <4>2
    <3> QED BY <3>1, <3>2, <3>3 DEF Stale, Before
  <2> QED BY <2>1, <2>2
<1> QED BY <1>9, <1>10 DEF Stale, Before

\* What no step of a handler but the DELETE can change.
LEMMA StaleUnchanged ==
  ASSUME TypeInv, NEW q \in Runs, Stale(q), rows' = rows,
         cutoff' = cutoff \/ (cutoff <= clock + 1 /\ cutoff' = clock + 1)
  PROVE Stale(q)'
<1>1. \A s \in Runs : RowsOf(s)' = RowsOf(s)
  BY DEF RowsOf
<1>2. Listed' = Listed /\ Before(q)' = Before(q)
  BY <1>1 DEF Listed, Before, Younger
<1>3. TooOld(q) => TooOld(q)'
  <2>1. \A x \in RowsOf(q) : rows[x] \in Nat
    BY DEF TypeInv, TypeOK, RowsOf
  <2>2. cutoff <= cutoff' /\ cutoff \in Nat /\ cutoff' \in Nat
    BY DEF TypeInv, TypeOK
  <2> QED BY <1>1, <2>1, <2>2 DEF TooOld
<1> QED BY <1>2, <1>3 DEF Stale, Before

LEMMA StaleStep ==
  ASSUME TypeInv, TypeInv', SoloInv, StaleInv, [Next]_vars
  PROVE StaleInv'
<1> SUFFICES ASSUME agents' = 1 PROVE StaleInv'
  BY DEF StaleInv
<1> DEFINE Kept(q) == RowsOf(q) = {} \/ Stale(q)
<1>0. agents = 1
  BY DEF Next, vars, TimePasses, StartRun, Finish, upload_artifact, CreateDir,
         WriteFile, InsertRow, evict_artifacts, QueryStale, RemoveDir,
         DeleteRows, EvictionEnds
<1>1. cutoff' <= clock' + 1
  <2>1. \/ cutoff' \in {cutoff, clock + 1} /\ clock' = clock
        \/ cutoff' = cutoff /\ clock' = clock + 1
    <3>1. CASE UNCHANGED vars
      BY <3>1 DEF vars
    <3>2. CASE Next
      BY <3>2
         DEF Next, TimePasses, StartRun, Finish, upload_artifact, CreateDir,
             WriteFile, InsertRow, evict_artifacts, QueryStale, RemoveDir,
             DeleteRows, EvictionEnds
    <3> QED BY <3>1, <3>2
  <2>2. cutoff <= clock + 1 /\ cutoff \in Nat /\ clock \in Nat
    BY <1>0 DEF StaleInv, TypeInv, TypeOK
  <2> QED BY <2>1, <2>2
<1>2. \A q \in Runs :
        Kept(q) /\ rows' = rows /\ (cutoff' = cutoff \/ cutoff' = clock + 1)
        => Kept(q)'
  <2> TAKE q \in Runs
  <2>1. rows' = rows => RowsOf(q)' = RowsOf(q)
    BY DEF RowsOf
  <2> QED BY <1>0, <2>1, StaleUnchanged DEF StaleInv
<1>3. ASSUME rows' = rows, cutoff' = cutoff \/ cutoff' = clock + 1,
             \A r \in Runs : todo'[r] \subseteq todo[r]
      PROVE StaleInv'
  BY <1>0, <1>1, <1>2, <1>3 DEF StaleInv
<1> HIDE DEF Kept
<1>4. CASE UNCHANGED vars
  BY <1>3, <1>4 DEF vars, evictVars
<1>5. CASE TimePasses
  BY <1>3, <1>5 DEF TimePasses, evictVars
<1>6. ASSUME NEW r \in Runs,
             StartRun(r) \/ Finish(r) \/ (\E p \in Paths : CreateDir(r, p))
               \/ WriteFile(r) \/ EvictionEnds(r)
      PROVE StaleInv'
  BY <1>3, <1>6 DEF StartRun, Finish, CreateDir, WriteFile, EvictionEnds, evictVars
<1>7. ASSUME NEW r \in Runs, NEW q \in Runs, RemoveDir(r, q) PROVE StaleInv'
  BY <1>3, <1>7 DEF RemoveDir
<1>8. ASSUME NEW r \in Runs, InsertRow(r) PROVE StaleInv'
  <2>1. \A q \in Runs : todo'[q] = {}
    BY <1>0, <1>8 DEF InsertRow, evictVars, SoloInv, OneActive, PhaseInv,
                      Active, TypeInv, TypeOK, Phase
  <2> QED BY <1>1, <2>1 DEF StaleInv
<1>9. ASSUME NEW r \in Runs, QueryStale(r) PROVE StaleInv'
  <2>1. rows' = rows /\ cutoff' = cutoff
    BY <1>9 DEF QueryStale
  <2>2. CASE todo' = [todo EXCEPT ![r] = {q \in Runs : Stale(q)}]
    <3>1. ASSUME NEW s \in Runs, NEW q \in Runs, q \in todo'[s]
          PROVE Kept(q)
      BY <1>0, <2>2, <3>1 DEF StaleInv, TypeInv, TypeOK, Kept
    <3> QED BY <1>1, <1>2, <2>1, <3>1 DEF StaleInv, Kept
  <2>3. CASE todo' = todo
    BY <1>3, <2>1, <2>3
  <2> QED BY <1>9, <2>2, <2>3 DEF QueryStale
<1>10. ASSUME NEW r \in Runs, DeleteRows(r) PROVE StaleInv'
  <2>1. CASE rows' = rows
    BY <1>3, <1>10, <2>1 DEF DeleteRows, TypeInv, TypeOK
  <2>2. CASE rows' = [x \in Artifacts |->
                        IF x[1] = victim[r] THEN 0 ELSE rows[x]]
    <3> DEFINE v == victim[r]
    <3>1. v \in Runs /\ v \in todo[r] /\ cutoff' = cutoff
      BY <1>0, <1>10 DEF DeleteRows, SoloInv, PhaseInv, TypeInv, TypeOK
    <3>2. Kept(v)
      BY <1>0, <3>1 DEF StaleInv, Kept
    <3>3. ASSUME NEW s \in Runs, NEW q \in Runs, q \in todo'[s]
          PROVE RowsOf(q)' = {} \/ Stale(q)'
      <4>1. q \in todo[s]
        BY <1>10, <3>3 DEF DeleteRows, TypeInv, TypeOK
      <4>2. RowsOf(q) = {} \/ Stale(q)
        BY <1>0, <4>1 DEF StaleInv
      <4>3. RowsOf(q) = {} \/ q = v => RowsOf(q)' = {}
        BY <2>2 DEF RowsOf, Artifacts
      <4>4. rows' = [x \in Artifacts |-> IF x[1] = v THEN 0 ELSE rows[x]]
        BY <2>2
      <4>5. RowsOf(v) = {} \/ Stale(v)
        BY <3>2 DEF Kept
      <4> HIDE DEF v
      <4> QED BY <3>1, <4>2, <4>3, <4>4, <4>5, OthersStayStale
    <3> QED BY <1>1, <3>3 DEF StaleInv
  <2> QED BY <1>10, <2>1, <2>2 DEF DeleteRows
<1> QED
  BY <1>4, <1>5, <1>6, <1>7, <1>8, <1>9, <1>10
     DEF Next, upload_artifact, evict_artifacts

\* With one agent, whatever fails and however long an eviction takes, a run
\* loses its artifacts only if it is beyond the window or past the cutoff at
\* that moment, although it was selected earlier and others went since.
THEOREM EvictsOnlyStale == Spec => OnlyStaleEvicted
<1>1. TypeInv /\ TypeInv' /\ SoloInv /\ StaleInv /\ [Next]_vars => StaleInv'
  BY StaleStep
<1>2. TypeInv /\ TypeInv' /\ SoloInv /\ StaleInv /\ [Next]_vars =>
        [agents = 1 => \A r \in Runs :
           RowsOf(r) # {} /\ RowsOf(r)' = {} => Stale(r)]_vars
  <2> SUFFICES ASSUME TypeInv, TypeInv', SoloInv, StaleInv, Next, agents = 1,
                      NEW r \in Runs, RowsOf(r) # {}, RowsOf(r)' = {}
               PROVE Stale(r)
    OBVIOUS
  <2>1. rows' # rows
    BY DEF RowsOf
  <2>2. PICK s \in Runs : InsertRow(s) \/ DeleteRows(s)
    BY <2>1 DEF Next, TimePasses, StartRun, Finish, upload_artifact, CreateDir,
                WriteFile, evict_artifacts, QueryStale, RemoveDir, EvictionEnds
  <2>3. CASE InsertRow(s)
    <3>1. \A x \in Artifacts : rows[x] > 0 => rows'[x] > 0
      BY <2>3 DEF InsertRow, TypeInv, TypeOK
    <3> QED BY <3>1 DEF RowsOf
  <2>4. CASE DeleteRows(s)
    <3>1. victim[s] \in Runs /\ victim[s] \in todo[s]
      BY <2>4 DEF DeleteRows, SoloInv, PhaseInv, TypeInv, TypeOK
    <3>2. r = victim[s]
      <4>1. PICK x \in Artifacts : x[1] = r /\ rows[x] > 0
        BY DEF RowsOf
      <4>2. ~(rows'[x] > 0)
        BY <4>1 DEF RowsOf
      <4> QED BY <2>1, <2>4, <4>1, <4>2 DEF DeleteRows
    <3> QED BY <3>1, <3>2 DEF StaleInv
  <2> QED BY <2>2, <2>3, <2>4
<1> QED
  BY <1>1, <1>2, StaleInit, TypeInvHolds, SoloInvHolds, PTL
     DEF Spec, OnlyStaleEvicted

(***************************************************************************)
(* How many runs an eviction leaves.                                       *)
(***************************************************************************)

\* Every set of natural numbers has a least one.
LEMMA Least ==
  ASSUME NEW T, T \subseteq Nat, T # {}
  PROVE \E n \in T : \A m \in T : n <= m
<1> DEFINE Below(n) == {i \in Nat : i < n}
           U == {Below(n) : n \in T}
<1>1. \A n \in T : Below(n) \in FiniteSubsetsOf(Nat)
  <2> TAKE n \in T
  <2>1. Below(n) \in SUBSET Nat /\ n \in Nat /\ \A i \in Below(n) : i <= n
    OBVIOUS
  <2>2. IsFiniteSet(Below(n))
    <3> HIDE DEF Below
    <3> QED BY <2>1, FS_BoundedSetOfNaturals
  <2> QED BY <2>1, <2>2 DEF FiniteSubsetsOf
<1>2. U \subseteq FiniteSubsetsOf(Nat) /\ U # {}
  BY <1>1
<1>3. \E u \in U : \A v \in U : <<v, u>> \notin StrictSubsetOrdering(Nat)
  <2> HIDE DEF U
  <2> QED BY <1>2, FS_StrictSubsetOrderingWellFounded, WFMin
<1>4. PICK n \in T : \A v \in U : <<v, Below(n)>> \notin StrictSubsetOrdering(Nat)
  BY <1>3
<1>5. ASSUME NEW m \in T, ~(n <= m) PROVE FALSE
  <2>1. m \in Below(n) /\ m \notin Below(m) /\ Below(m) \subseteq Below(n)
    BY <1>5
  <2>2. Below(m) \in SUBSET Nat /\ Below(n) \in SUBSET Nat
    OBVIOUS
  <2>3. <<Below(m), Below(n)>> \in StrictSubsetOrdering(Nat)
    <3> HIDE DEF Below
    <3> QED BY <2>1, <2>2 DEF StrictSubsetOrdering
  <2> QED BY <1>4, <2>3
<1> QED BY <1>5

\* Rows are stamped by the clock, each with a time of its own.
StampInv ==
  \A x \in Artifacts :
    /\ rows[x] <= clock
    /\ \A y \in Artifacts : rows[x] = rows[y] /\ rows[x] > 0 => x = y

Doomed == UNION {todo[r] : r \in Runs}

\* A handler works for a run in the phase it belongs to.  And once no run is
\* left that could add a row or whose query is still to come, the evictions
\* under way have on their lists all that is too much.
BoundInv ==
  /\ \A r \in Runs :
       /\ upc[r] # "idle" => phase[r] = "running"
       /\ todo[r] # {} => phase[r] = "evict"
       /\ victim[r] # NoRun => victim[r] \in todo[r]
  /\ faults = 0 /\ (\A r \in Runs : phase[r] \notin {"running", "query"})
       => Cardinality(Listed \ Doomed) <= Keep

LEMMA StampInit == Init => StampInv
  BY DEF Init, StampInv

LEMMA StampStep ==
  ASSUME TypeInv, StampInv, [Next]_vars
  PROVE StampInv'
<1> USE DEF TypeInv, TypeOK, StampInv
<1>1. CASE UNCHANGED <<rows, clock>>
  BY <1>1
<1>2. ASSUME NEW r \in Runs, NEW x \in Artifacts, clock' = clock + 1,
             rows' = [rows EXCEPT ![x] = clock + 1]
      PROVE StampInv'
  BY <1>2
<1>3. ASSUME NEW v, UNCHANGED clock,
             rows' = [x \in Artifacts |-> IF x[1] = v THEN 0 ELSE rows[x]]
      PROVE StampInv'
  BY <1>3
<1>4. ASSUME NEW r \in Runs, InsertRow(r) PROVE StampInv'
  <2>1. <<r, upath[r]>> \in Artifacts
    BY <1>4 DEF InsertRow, UploadOK, Artifacts
  <2> QED BY <1>1, <1>2, <1>4, <2>1 DEF InsertRow
<1>5. ASSUME NEW r \in Runs, DeleteRows(r) PROVE StampInv'
  BY <1>1, <1>3, <1>5 DEF DeleteRows
<1>6. CASE UNCHANGED vars
  BY <1>1, <1>6 DEF vars
<1>7. CASE TimePasses \/ \E r \in Runs :
               \/ StartRun(r) \/ Finish(r) \/ (\E p \in Paths : CreateDir(r, p))
               \/ WriteFile(r) \/ QueryStale(r) \/ EvictionEnds(r)
               \/ \E q \in Runs : RemoveDir(r, q)
  BY <1>1, <1>7
     DEF TimePasses, StartRun, Finish, CreateDir, WriteFile, QueryStale,
         EvictionEnds, RemoveDir
<1> QED
  BY <1>4, <1>5, <1>6, <1>7 DEF Next, upload_artifact, evict_artifacts

\* A run with rows has a youngest one.
LEMMA Youngest ==
  ASSUME TypeInv, StampInv, NEW q \in Listed
  PROVE \E x \in RowsOf(q) : \A y \in RowsOf(q) : rows[y] <= rows[x]
<1> USE DEF TypeInv, TypeOK
<1> DEFINE Age(x) == clock - rows[x]
           T == {Age(x) : x \in RowsOf(q)}
<1>1. \A x \in RowsOf(q) : rows[x] \in Nat /\ clock \in Nat /\ rows[x] <= clock
  BY DEF RowsOf, StampInv
<1>2. T \subseteq Nat /\ T # {}
  BY <1>1 DEF Listed
<1>3. PICK n \in T : \A m \in T : n <= m
  <2> HIDE DEF T
  <2> QED BY <1>2, Least
<1>4. PICK x \in RowsOf(q) : n = Age(x)
  OBVIOUS
<1>5. \A y \in RowsOf(q) : Age(x) <= Age(y)
  BY <1>3, <1>4
<1> QED BY <1>1, <1>5

\* Of two runs with rows one is younger.
LEMMA YoungerTotal ==
  ASSUME TypeInv, StampInv, NEW q \in Listed, NEW r \in Listed, q # r
  PROVE Younger(q, r) \/ Younger(r, q)
<1>1. PICK x \in RowsOf(q) : \A y \in RowsOf(q) : rows[y] <= rows[x]
  BY Youngest
<1>2. PICK z \in RowsOf(r) : \A y \in RowsOf(r) : rows[y] <= rows[z]
  BY Youngest
<1>3. rows[x] # rows[z] /\ rows[x] \in Nat /\ rows[z] \in Nat
  BY <1>1, <1>2 DEF StampInv, RowsOf, TypeInv, TypeOK
<1>4. \A y \in RowsOf(q) \cup RowsOf(r) : rows[y] \in Nat
  BY DEF RowsOf, TypeInv, TypeOK
<1>5. CASE rows[x] > rows[z]
  BY <1>1, <1>2, <1>3, <1>4, <1>5 DEF Younger
<1>6. CASE rows[z] > rows[x]
  BY <1>1, <1>2, <1>3, <1>4, <1>6 DEF Younger
<1> QED BY <1>3, <1>5, <1>6

\* Some run of any number of runs with rows is the oldest of them: the one
\* that most come before.
LEMMA Oldest ==
  ASSUME TypeInv, StampInv, NEW S, S \subseteq Listed, S # {}
  PROVE \E q \in S : S \ {q} \subseteq Before(q)
<1> DEFINE n(q) == Cardinality(S \cap Before(q))
           U == {Cardinality(S) - n(q) : q \in S}
<1>0. \A q \in S : q \in Runs
  BY DEF Listed
<1>1. IsFiniteSet(S) /\ Cardinality(S) \in Nat
  BY <1>0, RunsAssumption, FS_Subset, FS_CardinalityType
<1>2. \A q \in S : n(q) \in Nat /\ n(q) <= Cardinality(S)
  BY <1>1, FS_Subset, FS_CardinalityType
<1>3. PICK q \in S : \A r \in S : n(r) <= n(q)
  <2> HIDE DEF n
  <2>1. U \subseteq Nat /\ U # {}
    BY <1>1, <1>2
  <2>2. PICK m \in U : \A l \in U : m <= l
    <3> HIDE DEF U
    <3> QED BY <2>1, Least
  <2>3. PICK q \in S : m = Cardinality(S) - n(q)
    OBVIOUS
  <2>4. \A r \in S : Cardinality(S) - n(q) <= Cardinality(S) - n(r)
    BY <2>2, <2>3
  <2> QED BY <1>1, <1>2, <2>4
<1>4. \A r \in S : r # q => Younger(r, q)
  <2> SUFFICES ASSUME NEW r \in S, r # q, Younger(q, r) PROVE FALSE
    BY YoungerTotal
  <2>1. S \cap Before(q) \subseteq S \cap Before(r)
    BY <1>0, YoungerTransitive DEF Before
  <2>2. q \in Before(r)
    BY DEF Before
  <2>3. q \notin Before(q)
    <3>1. \A x \in RowsOf(q) : rows[x] \in Nat
      BY DEF RowsOf, TypeInv, TypeOK
    <3> QED BY <3>1 DEF Before, Younger
  <2>4. IsFiniteSet(S \cap Before(r))
    BY <1>1, FS_Subset
  <2>5. n(q) # n(r) /\ n(q) <= n(r)
    BY <2>1, <2>2, <2>3, <2>4, FS_Subset
  <2> HIDE DEF n
  <2> QED BY <1>2, <1>3, <2>5
<1> QED BY <1>4 DEF Before

\* The query leaves no more runs than the window is wide.
LEMMA FreshOnes ==
  ASSUME TypeInv, StampInv
  PROVE Cardinality({q \in Listed : ~Stale(q)}) <= Keep
<1> DEFINE S == {q \in Listed : ~Stale(q)}
<1> SUFFICES Cardinality(S) <= Keep
  OBVIOUS
<1>1. S \in SUBSET Runs /\ S \subseteq Listed
  BY DEF Listed
<1>2. IsFiniteSet(S) /\ Cardinality(S) \in Nat
  BY <1>1, RunsAssumption, FS_Subset, FS_CardinalityType
<1>3. CASE S = {}
  BY <1>3, FS_EmptySet, BoundsAssumption
<1>4. CASE S # {}
  <2>1. PICK q \in S : S \ {q} \subseteq Before(q)
    <3> HIDE DEF S
    <3> QED BY <1>1, <1>4, Oldest
  <2>2. Cardinality(S \ {q}) = Cardinality(S) - 1
    BY <1>2, <2>1, FS_RemoveElement
  <2>3. Cardinality(S \ {q}) <= Cardinality(Before(q))
    BY <2>1, FiniteBefore, FS_Subset
  <2>4. ~(Cardinality(Before(q)) >= Keep)
    BY <2>1 DEF Stale, Before
  <2>5. Cardinality(Before(q)) \in Nat /\ Keep \in Nat
    BY FiniteBefore, BoundsAssumption
  <2> HIDE DEF S
  <2> QED BY <1>2, <2>2, <2>3, <2>4, <2>5
<1> QED BY <1>3, <1>4

LEMMA BoundInit == Init => BoundInv
<1> SUFFICES ASSUME Init PROVE BoundInv
  OBVIOUS
<1>1. Listed \ Doomed = {}
  BY DEF Init, Listed, RowsOf
<1>2. Cardinality(Listed \ Doomed) = 0
  BY <1>1, FS_EmptySet
<1> QED BY <1>2, BoundsAssumption DEF Init, BoundInv

LEMMA BoundStep ==
  ASSUME TypeInv, TypeInv', StampInv, BoundInv, [Next]_vars
  PROVE BoundInv'
<1> DEFINE Settled == faults = 0 /\ \A r \in Runs : phase[r] \notin {"running", "query"}
           Placed ==
             \A r \in Runs :
               /\ upc[r] # "idle" => phase[r] = "running"
               /\ todo[r] # {} => phase[r] = "evict"
               /\ victim[r] # NoRun => victim[r] \in todo[r]
           Few == Cardinality(Listed \ Doomed) <= Keep
<1>0. IsFiniteSet(Listed) /\ IsFiniteSet(Listed \ Doomed)
  <2>1. Listed \in SUBSET Runs /\ Listed \ Doomed \in SUBSET Runs
    BY DEF Listed
  <2> QED BY <2>1, RunsAssumption, FS_Subset
<1>1. Placed'
  <2> USE NoRunAssumption
      DEF TypeInv, TypeOK, BoundInv, Phase, upVars, evictVars, UploadEnds
  <2>1. CASE UNCHANGED vars
    BY <2>1 DEF vars
  <2>2. CASE TimePasses
    BY <2>2 DEF TimePasses
  <2>3. ASSUME NEW r \in Runs,
               \/ StartRun(r) \/ Finish(r) \/ (\E p \in Paths : CreateDir(r, p))
               \/ WriteFile(r) \/ InsertRow(r)
        PROVE Placed'
    BY <2>3 DEF StartRun, Finish, CreateDir, WriteFile, InsertRow
  <2>4. ASSUME NEW r \in Runs,
               \/ QueryStale(r) \/ EvictionEnds(r) \/ DeleteRows(r)
               \/ \E q \in Runs : RemoveDir(r, q)
        PROVE Placed'
    BY <2>4 DEF QueryStale, EvictionEnds, DeleteRows, RemoveDir
  <2> QED BY <2>1, <2>2, <2>3, <2>4 DEF Next, upload_artifact, evict_artifacts
<1>2. ASSUME Settled' PROVE Few'
  <2>1. ASSUME Listed' \ Doomed' \subseteq Listed \ Doomed, Settled
        PROVE Few'
    <3>1. Cardinality(Listed \ Doomed) <= Keep
      BY <2>1 DEF BoundInv
    <3>2. /\ Cardinality(Listed' \ Doomed') <= Cardinality(Listed \ Doomed)
          /\ IsFiniteSet(Listed' \ Doomed')
      BY <1>0, <2>1, FS_Subset
    <3>3. /\ Cardinality(Listed \ Doomed) \in Nat
          /\ Cardinality(Listed' \ Doomed') \in Nat
      BY <1>0, <3>2, FS_CardinalityType
    <3> QED BY <3>1, <3>2, <3>3, BoundsAssumption
  <2>2. faults = 0 /\ faults' = 0
    <3>1. faults' = faults \/ faults' = faults + 1
      BY DEF Next, vars, TimePasses, StartRun, Finish, upload_artifact, CreateDir,
             WriteFile, InsertRow, evict_artifacts, QueryStale, RemoveDir,
             DeleteRows, EvictionEnds, Fault
    <3> QED BY <1>2, <3>1 DEF TypeInv, TypeOK
  <2>3. rows' = rows => Listed' = Listed
    BY DEF Listed, RowsOf
  <2>4. todo' = todo => Doomed' = Doomed
    BY DEF Doomed
  <2> HIDE DEF Doomed
  <2>5. CASE UNCHANGED vars
    BY <1>2, <2>1, <2>2, <2>3, <2>4, <2>5 DEF vars, evictVars
  <2>6. CASE TimePasses
    BY <1>2, <2>1, <2>2, <2>3, <2>4, <2>6 DEF TimePasses, evictVars
  <2>7. ASSUME NEW r \in Runs,
               StartRun(r) \/ Finish(r) \/ (\E p \in Paths : CreateDir(r, p))
        PROVE FALSE
    BY <1>1, <1>2, <2>7 DEF StartRun, Finish, CreateDir, TypeInv, TypeOK
  <2>8. ASSUME NEW r \in Runs, WriteFile(r) \/ InsertRow(r) PROVE FALSE
    BY <1>2, <2>8 DEF WriteFile, InsertRow, BoundInv
  <2>9. ASSUME NEW r \in Runs, EvictionEnds(r) \/ \E q \in Runs : RemoveDir(r, q)
        PROVE Few'
    BY <1>2, <2>1, <2>2, <2>3, <2>4, <2>9
       DEF EvictionEnds, RemoveDir, evictVars, TypeInv, TypeOK
  <2>10. ASSUME NEW r \in Runs, QueryStale(r) PROVE Few'
    <3>1. todo' = [todo EXCEPT ![r] = {q \in Runs : Stale(q)}] /\ rows' = rows
      BY <2>2, <2>10 DEF QueryStale, Fault
    <3>2. {q \in Runs : Stale(q)} = todo'[r]
      BY <3>1 DEF TypeInv, TypeOK
    <3>3. {q \in Runs : Stale(q)} \subseteq Doomed'
      BY <3>2 DEF Doomed
    <3> DEFINE Fresh == {q \in Listed : ~Stale(q)}
    <3>4. Listed' \ Doomed' \subseteq Fresh
      BY <2>3, <3>1, <3>3 DEF Listed
    <3>5. IsFiniteSet(Fresh) /\ Cardinality(Fresh) <= Keep
      BY <1>0, FreshOnes, FS_Subset
    <3> HIDE DEF Fresh
    <3>6. /\ Cardinality(Listed' \ Doomed') <= Cardinality(Fresh)
          /\ IsFiniteSet(Listed' \ Doomed')
      BY <3>4, <3>5, FS_Subset
    <3>7. Cardinality(Fresh) \in Nat /\ Cardinality(Listed' \ Doomed') \in Nat
      BY <3>5, <3>6, FS_CardinalityType
    <3> QED BY <3>5, <3>6, <3>7, BoundsAssumption
  <2>11. ASSUME NEW r \in Runs, DeleteRows(r) PROVE Few'
    <3> DEFINE v == victim[r]
    <3>1. /\ rows' = [x \in Artifacts |-> IF x[1] = v THEN 0 ELSE rows[x]]
          /\ todo' = [todo EXCEPT ![r] = @ \ {v}]
      BY <2>2, <2>11 DEF DeleteRows, Fault
    <3>2. Listed' \subseteq Listed \ {v}
      BY <3>1 DEF Listed, RowsOf
    <3>3. Doomed \subseteq Doomed' \cup {v}
      BY <3>1 DEF Doomed, TypeInv, TypeOK
    <3>4. Settled
      BY <1>2, <2>2, <2>11 DEF DeleteRows
    <3> QED BY <2>1, <3>2, <3>3, <3>4
  <2> QED
    BY <2>5, <2>6, <2>7, <2>8, <2>9, <2>10, <2>11
       DEF Next, upload_artifact, evict_artifacts
<1> QED BY <1>1, <1>2 DEF BoundInv

\* Retention holds: however the uploads and evictions of any number of agents
\* interleave, when the last report has been answered no more than Keep runs
\* have artifacts listed, if nothing failed.
THEOREM RetentionHolds == Spec => []RetentionBounded
<1>1. TypeInv /\ StampInv /\ [Next]_vars => StampInv'
  BY StampStep
<1>2. TypeInv /\ TypeInv' /\ StampInv /\ BoundInv /\ [Next]_vars => BoundInv'
  BY BoundStep
<1>3. TypeInv /\ BoundInv => RetentionBounded
  <2> SUFFICES ASSUME TypeInv, BoundInv, Active = {}, faults = 0
               PROVE Cardinality(Listed) <= Keep
    BY DEF RetentionBounded
  <2>1. \A r \in Runs : phase[r] \in {"new", "done"}
    BY DEF Active
  <2>2. Doomed = {}
    BY <2>1 DEF BoundInv, Doomed
  <2>3. Listed \ Doomed = Listed
    BY <2>2
  <2> QED BY <2>1, <2>3 DEF BoundInv
<1> QED
  BY <1>1, <1>2, <1>3, StampInit, BoundInit, TypeInvHolds, PTL DEF Spec
=============================================================================
