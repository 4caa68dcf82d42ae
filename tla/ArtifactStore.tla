--------------------------- MODULE ArtifactStore ---------------------------
(***************************************************************************)
(* Build artifacts on the server: the files under artifacts_dir/<run>/ and *)
(* the rows of the `artifacts` table that list them.  upload_artifact adds *)
(* both; evict_artifacts, run by every terminal status report, removes     *)
(* both for the runs beyond the retention window.                          *)
(*                                                                         *)
(* A step is one file-system or SQL operation: between two of them the     *)
(* handler awaits and any other handler may run.                           *)
(***************************************************************************)
EXTENDS Naturals, FiniteSets

CONSTANTS Runs,       \* run ids
          Paths,      \* artifact paths of a run (step and path)
          NoPath,     \* no upload under way
          NoRun,      \* no eviction under way
          MaxAgents,  \* bound: agents
          Keep,       \* how many runs keep their artifacts: 10 in the code
          MaxClock,   \* bound: rows inserted
          MaxFaults   \* bound: failed operations

ASSUME RunsAssumption == IsFiniteSet(Runs)
ASSUME NoPathAssumption == NoPath \notin Paths
ASSUME NoRunAssumption == NoRun \notin Runs
ASSUME BoundsAssumption ==
  /\ MaxAgents \in Nat \ {0} /\ Keep \in Nat \ {0}
  /\ MaxClock \in Nat /\ MaxFaults \in Nat

VARIABLES
  agents,  \* how many agents there are, and so runs worked on at a time
  dirs,    \* runs with a directory
  disk,    \* the artifacts whose file exists
  rows,    \* created_at of each artifact's row, 0 when there is none
  clock,   \* the time of the last insert
  cutoff,  \* rows older than this are older than 30 days
  phase,   \* what the agent does with a run
  upc,     \* where the upload handler of a run is
  upath,   \* and for which path
  todo,    \* the stale runs the eviction of a run's report still has to do
  victim,  \* the one it is at, whose directory is gone already
  faults   \* faults so far

vars == <<agents, dirs, disk, rows, clock, cutoff, phase, upc, upath, todo, victim,
          faults>>
upVars == <<upc, upath>>
evictVars == <<todo, victim>>

Phase == {"new", "running", "query", "evict", "done"}
Artifacts == Runs \X Paths

TypeOK ==
  /\ agents \in 1..MaxAgents
  /\ dirs \in SUBSET Runs
  /\ disk \in SUBSET Artifacts
  /\ rows \in [Artifacts -> Nat]
  /\ clock \in Nat /\ cutoff \in Nat /\ faults \in Nat
  /\ phase \in [Runs -> Phase]
  /\ upc \in [Runs -> {"idle", "write", "insert"}]
  /\ upath \in [Runs -> Paths \cup {NoPath}]
  /\ todo \in [Runs -> SUBSET Runs]
  /\ victim \in [Runs -> Runs \cup {NoRun}]

Init ==
  /\ agents \in 1..MaxAgents
  /\ dirs = {} /\ disk = {}
  /\ rows = [x \in Artifacts |-> 0]
  /\ clock = 0 /\ cutoff = 0 /\ faults = 0
  /\ phase = [r \in Runs |-> "new"]
  /\ upc = [r \in Runs |-> "idle"]
  /\ upath = [r \in Runs |-> NoPath]
  /\ todo = [r \in Runs |-> {}]
  /\ victim = [r \in Runs |-> NoRun]

Fault == faults < MaxFaults /\ faults' = faults + 1

(***************************************************************************)
(* The agent: a run is started, uploads artifacts, and reports its result. *)
(***************************************************************************)

Active == {r \in Runs : phase[r] \notin {"new", "done"}}

StartRun(r) ==
  /\ phase[r] = "new"
  /\ Cardinality(Active) < agents
  /\ phase' = [phase EXCEPT ![r] = "running"]
  /\ UNCHANGED <<agents, dirs, disk, rows, clock, cutoff, upVars, evictVars, faults>>

\* 30 days without a new artifact.
TimePasses ==
  /\ cutoff' = clock + 1
  /\ UNCHANGED <<agents, dirs, disk, rows, clock, phase, upVars, evictVars, faults>>

(***************************************************************************)
(* upload_artifact                                                         *)
(***************************************************************************)

UploadEnds(r) ==
  /\ upc' = [upc EXCEPT ![r] = "idle"]
  /\ upath' = [upath EXCEPT ![r] = NoPath]

\* create_dir_all(parent)
CreateDir(r, p) ==
  /\ phase[r] = "running"
  /\ upc[r] = "idle"
  /\ clock < MaxClock
  /\ dirs' = dirs \cup {r}
  /\ upc' = [upc EXCEPT ![r] = "write"]
  /\ upath' = [upath EXCEPT ![r] = p]
  /\ UNCHANGED <<agents, disk, rows, clock, cutoff, phase, evictVars, faults>>

\* write(dest, body); it fails when the directory has gone, or by a fault.
WriteFile(r) ==
  /\ upc[r] = "write"
  /\ \/ /\ r \in dirs
        /\ disk' = disk \cup {<<r, upath[r]>>}
        /\ upc' = [upc EXCEPT ![r] = "insert"]
        /\ UNCHANGED <<upath, faults>>
     \/ /\ r \notin dirs
        /\ UploadEnds(r)
        /\ UNCHANGED <<disk, faults>>
     \/ Fault /\ UploadEnds(r) /\ UNCHANGED disk
  /\ UNCHANGED <<agents, dirs, rows, clock, cutoff, phase, evictVars>>

\* insert_artifact: INSERT ... ON CONFLICT DO UPDATE created_at.  When it
\* fails the file stays.
InsertRow(r) ==
  /\ upc[r] = "insert"
  /\ \/ /\ clock' = clock + 1
        /\ rows' = [rows EXCEPT ![<<r, upath[r]>>] = clock + 1]
        /\ UNCHANGED faults
     \/ Fault /\ UNCHANGED <<clock, rows>>
  /\ UploadEnds(r)
  /\ UNCHANGED <<agents, dirs, disk, cutoff, phase, evictVars>>

(***************************************************************************)
(* A terminal status report: update_run_status and then evict_artifacts.   *)
(***************************************************************************)

\* The agent has awaited its uploads and posts the result.
Finish(r) ==
  /\ phase[r] = "running"
  /\ upc[r] = "idle"
  /\ phase' = [phase EXCEPT ![r] = "query"]
  /\ UNCHANGED <<agents, dirs, disk, rows, clock, cutoff, upVars, evictVars, faults>>

RowsOf(r) == {x \in Artifacts : x[1] = r /\ rows[x] > 0}
Listed == {r \in Runs : RowsOf(r) # {}}

\* r has a row younger than all those of q: MAX(created_at) DESC.
Younger(r, q) == \E x \in RowsOf(r) : \A y \in RowsOf(q) : rows[x] > rows[y]

TooOld(r) == \A x \in RowsOf(r) : rows[x] < cutoff

\* Mutant of Stale: one run too many is kept.
StaleBeyondOneMore(r) ==
  /\ r \in Listed
  /\ Cardinality({q \in Listed : Younger(q, r)}) > Keep \/ TooOld(r)

\* Beyond the Keep most recent runs with artifacts, or older than 30 days.
Stale(r) ==
  /\ r \in Listed
  /\ Cardinality({q \in Listed : Younger(q, r)}) >= Keep \/ TooOld(r)

\* Mutant of QueryStale: the query selects the rows' ids, not run_id.
QueryStaleRowIds(r) ==
  /\ phase[r] = "query"
  /\ todo' = [todo EXCEPT ![r] = {x \in Artifacts : rows[x] > 0 /\ Stale(x[1])}]
  /\ phase' = [phase EXCEPT ![r] = "evict"]
  /\ UNCHANGED <<agents, dirs, disk, rows, clock, cutoff, upVars, victim, faults>>

\* evict_old_artifact_runs; when the query fails nothing is evicted.
QueryStale(r) ==
  /\ phase[r] = "query"
  /\ \/ /\ todo' = [todo EXCEPT ![r] = {q \in Runs : Stale(q)}]
        /\ phase' = [phase EXCEPT ![r] = "evict"]
        /\ UNCHANGED faults
     \/ /\ Fault
        /\ phase' = [phase EXCEPT ![r] = "done"]
        /\ UNCHANGED todo
  /\ UNCHANGED <<agents, dirs, disk, rows, clock, cutoff, upVars, victim>>

\* Mutant of RemoveDir: the removal of the directory is left out.
RemoveNothing(r, q) ==
  /\ phase[r] = "evict" /\ victim[r] = NoRun /\ q \in todo[r]
  /\ victim' = [victim EXCEPT ![r] = q]
  /\ UNCHANGED <<agents, dirs, disk, rows, clock, cutoff, phase, upVars, todo, faults>>

\* remove_dir_all of the next stale run; a failure is logged.
RemoveDir(r, q) ==
  /\ phase[r] = "evict"
  /\ victim[r] = NoRun
  /\ q \in todo[r]
  /\ victim' = [victim EXCEPT ![r] = q]
  /\ \/ /\ dirs' = dirs \ {q}
        /\ disk' = {x \in disk : x[1] # q}
        /\ UNCHANGED faults
     \/ Fault /\ UNCHANGED <<dirs, disk>>
  /\ UNCHANGED <<agents, rows, clock, cutoff, phase, upVars, todo>>

\* Mutant of DeleteRows: the DELETE has lost its WHERE clause.
DeleteAllRows(r) ==
  /\ victim[r] # NoRun
  /\ rows' = [x \in Artifacts |-> 0]
  /\ todo' = [todo EXCEPT ![r] = @ \ {victim[r]}]
  /\ victim' = [victim EXCEPT ![r] = NoRun]
  /\ UNCHANGED <<agents, dirs, disk, clock, cutoff, phase, upVars, faults>>

\* delete_artifacts of the same run, whatever became of its directory.
DeleteRows(r) ==
  /\ victim[r] # NoRun
  /\ \/ /\ rows' = [x \in Artifacts |-> IF x[1] = victim[r] THEN 0 ELSE rows[x]]
        /\ UNCHANGED faults
     \/ Fault /\ UNCHANGED rows
  /\ todo' = [todo EXCEPT ![r] = @ \ {victim[r]}]
  /\ victim' = [victim EXCEPT ![r] = NoRun]
  /\ UNCHANGED <<agents, dirs, disk, clock, cutoff, phase, upVars>>

\* The report is answered and the agent is done with the run.
EvictionEnds(r) ==
  /\ phase[r] = "evict"
  /\ todo[r] = {}
  /\ phase' = [phase EXCEPT ![r] = "done"]
  /\ UNCHANGED <<agents, dirs, disk, rows, clock, cutoff, upVars, evictVars, faults>>

upload_artifact(r) ==
  (\E p \in Paths : CreateDir(r, p)) \/ WriteFile(r) \/ InsertRow(r)

evict_artifacts(r) ==
  \/ QueryStale(r) \/ EvictionEnds(r) \/ DeleteRows(r)
  \/ \E q \in Runs : RemoveDir(r, q)

Next ==
  \/ TimePasses
  \/ \E r \in Runs :
       StartRun(r) \/ upload_artifact(r) \/ Finish(r) \/ evict_artifacts(r)

Spec == Init /\ [][Next]_vars

(***************************************************************************)
(* Properties.                                                             *)
(***************************************************************************)

BeingEvicted(q) == \E r \in Runs : victim[r] = q
Uploading(r, p) == upc[r] = "insert" /\ upath[r] = p

\* With one agent and no failing operation, rows and files agree.  What the
\* run page lists can be downloaded: a row has its file, except while an
\* eviction is between the two.  And nothing lies in artifacts_dir unlisted,
\* where no eviction would find it, except while an upload is between the two.
\* (With two agents a run's directory may go between its upload's write and
\* INSERT.)
RowsMatchFiles ==
  agents = 1 /\ faults = 0 =>
    /\ \A x \in Artifacts : rows[x] > 0 /\ ~BeingEvicted(x[1]) => x \in disk
    /\ \A x \in disk : rows[x] > 0 \/ Uploading(x[1], x[2])

\* "Removes artifact directories and DB rows for runs beyond the retention
\* window": with one agent no other run loses its artifacts, whatever fails.
OnlyStaleEvicted ==
  [][agents = 1 =>
       \A r \in Runs : RowsOf(r) # {} /\ RowsOf(r)' = {} => Stale(r)]_vars

\* Retention holds: when nothing is under way, no more than Keep runs have
\* artifacts listed, however the reports of several agents interleave.
RetentionBounded ==
  Active = {} /\ faults = 0 => Cardinality(Listed) <= Keep
=============================================================================
