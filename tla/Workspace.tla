----------------------------- MODULE Workspace -----------------------------
(***************************************************************************)
(* The workspaces of one repository on one agent host: prepare makes one   *)
(* for a claimed run and finish takes it down.  With the ZFS backend a     *)
(* warm dataset holds a clone of the repository, and a run works in a ZFS  *)
(* clone of a snapshot of it; with the dir backend a run has a directory   *)
(* with a shallow git clone.                                               *)
(*                                                                         *)
(* Every command the agent spawns is a step; it fails when ZFS or git      *)
(* refuses, and by a fault at any time.  The agent can crash between two   *)
(* commands.  The caches, which live beside the workspace, are ZfsCache.   *)
(***************************************************************************)
EXTENDS Naturals

CONSTANTS Runs,      \* run ids
          None,      \* "nothing there"
          Branches,
          Default,   \* the default branch of the repository
          MaxTip,    \* bound: commits on a branch
          MaxFaults  \* bound: failed commands and crashes

ASSUME NoneAssumption == None \notin Runs \cup (Branches \X Nat)
ASSUME DefaultAssumption == Default \in Branches
ASSUME BoundsAssumption == MaxTip \in Nat \ {0} /\ MaxFaults \in Nat

\* A commit is the n-th of a branch; branches only grow.
Commit == Branches \X (1..MaxTip)
MaybeCommit == Commit \cup {None}

Bare == <<Default, 0>>   \* a directory without a commit checked out

VARIABLES
  backend, \* "zfs" or "dir"
  tip,    \* commits on each branch of the remote
  \* The warm dataset.
  repo,   \* "absent", "empty" or "cloned"
  track,  \* the remote branches as last fetched: origin/<branch>
  tree,   \* the commit checked out
  \* Of each run.
  snap,   \* what its snapshot of the warm dataset holds
  work,   \* what its workspace, a ZFS clone or a directory, holds
  \* The agent.
  pc, run,
  branch, commit,  \* of the run at hand; commit None is "HEAD"
  begun,
  faults, \* so far
  hurt,   \* ghost: the faults each run met, by the command they hit
  ended,  \* ghost: runs the agent has come to the end of
  warm,   \* ghost: "yes" when the run found the repository cloned
  since   \* ghost: how far its branch was when it began

repoVars == <<repo, track, tree>>
jobVars == <<run, branch, commit, begun, warm, since>>
vars == <<backend, tip, repoVars, snap, work, pc, jobVars, faults, hurt, ended>>

TypeOK ==
  /\ backend \in {"zfs", "dir"}
  /\ tip \in [Branches -> 1..MaxTip]
  /\ repo \in {"absent", "empty", "cloned"}
  /\ track \in [Branches -> 0..MaxTip]
  /\ tree \in MaybeCommit
  /\ snap \in [Runs -> MaybeCommit] /\ work \in [Runs -> MaybeCommit \cup {Bare}]
  /\ pc \in {"idle", "exists", "create", "own", "gitclone", "first", "fetch",
             "checkout", "snapshot", "clone", "unsnapshot", "mount", "makedir",
             "dirclone", "steps", "dropWork", "dropSnap"}
  /\ run \in Runs \cup {None} /\ (pc = "idle" <=> run = None)
  /\ branch \in Branches /\ commit \in MaybeCommit
  /\ begun \subseteq Runs /\ ended \subseteq Runs
  /\ faults \in 0..MaxFaults
  /\ warm \in {"yes", "no"} /\ since \in 0..MaxTip

Init ==
  /\ backend \in {"zfs", "dir"}
  /\ tip = [b \in Branches |-> 1]
  /\ repo = "absent" /\ track = [b \in Branches |-> 0] /\ tree = None
  /\ snap = [r \in Runs |-> None] /\ work = [r \in Runs |-> None]
  /\ pc = "idle" /\ run = None
  /\ branch = Default /\ commit = None
  /\ begun = {} /\ faults = 0
  /\ hurt = {} /\ ended = {} /\ warm = "no" /\ since = 0

Push(b) ==
  /\ tip[b] < MaxTip
  /\ tip' = [tip EXCEPT ![b] = @ + 1]
  /\ UNCHANGED <<backend, repoVars, snap, work, pc, jobVars, faults, hurt, ended>>

\* The agent claims a run of a pushed commit, or one of the build button,
\* whose commit is "HEAD".
Begin(r) ==
  /\ pc = "idle"
  /\ r \notin begun
  /\ begun' = begun \cup {r}
  /\ run' = r
  /\ branch' \in Branches
  /\ commit' \in {<<branch', n>> : n \in 1..tip[branch']} \cup {None}
  /\ warm' = IF repo = "cloned" THEN "yes" ELSE "no"
  /\ since' = tip[branch']
  /\ pc' = IF backend = "zfs" THEN "exists" ELSE "makedir"
  /\ UNCHANGED <<backend, tip, repoVars, snap, work, faults, hurt, ended>>

Fault ==
  faults < MaxFaults /\ faults' = faults + 1 /\ hurt' = hurt \cup {<<run, pc>>}
NoFault == UNCHANGED <<faults, hurt>>

\* A command that its program allows when `can`.
Works(can) == can /\ NoFault
Fails(can) == Fault \/ (~can /\ NoFault)

Goto(next) == pc' = next /\ UNCHANGED <<jobVars, ended>>

\* Mutant of Leave: the run stays the agent's.
LeaveHolding ==
  /\ pc' = "idle"
  /\ ended' = ended \cup {run}
  /\ UNCHANGED jobVars

\* The agent is done with the run: after finish, or by an error of prepare,
\* which execute_run reports without a workspace to finish.
Leave ==
  /\ pc' = "idle" /\ run' = None
  /\ ended' = ended \cup {run}
  /\ UNCHANGED <<branch, commit, begun, warm, since>>

\* The command at `at` goes on to `next`, or its error ends prepare.
Spawn(at, can, next) ==
  /\ pc = at
  /\ \/ Works(can) /\ Goto(next)
     \/ Fails(can) /\ Leave

(***************************************************************************)
(* ensure_repo_dataset                                                     *)
(***************************************************************************)

\* dataset_exists: a failed `zfs list` counts as "not there".
ProbeRepo ==
  /\ pc = "exists"
  /\ \/ repo # "absent" /\ NoFault /\ Goto("fetch")
     \/ (IF repo = "absent" THEN NoFault ELSE Fault) /\ Goto("create")
  /\ UNCHANGED <<backend, tip, repoVars, snap, work>>

\* zfs create -p: no error when it is there.
CreateRepo ==
  /\ \/ /\ pc = "create" /\ Works(TRUE) /\ Goto("own")
        /\ repo' = IF repo = "absent" THEN "empty" ELSE repo
     \/ pc = "create" /\ Fails(TRUE) /\ Leave /\ UNCHANGED repo
  /\ UNCHANGED <<backend, tip, track, tree, snap, work>>

\* Its mountpoint is looked up and given to the agent's user.
OwnRepo ==
  Spawn("own", TRUE, "gitclone")
  /\ UNCHANGED <<backend, tip, repoVars, snap, work>>

\* git clone checks the default branch out; it wants an empty directory.
GitClone ==
  /\ \/ /\ pc = "gitclone" /\ Works(repo = "empty") /\ Goto("first")
        /\ repo' = "cloned" /\ track' = tip
        /\ tree' = <<Default, tip[Default]>>
     \/ pc = "gitclone" /\ Fails(repo = "empty") /\ Leave /\ UNCHANGED repoVars
  /\ UNCHANGED <<backend, tip, snap, work>>

\* git checkout -f <commit>, which for "HEAD" changes nothing.
CheckoutFirst ==
  /\ \/ /\ pc = "first" /\ Works(TRUE) /\ Goto("snapshot")
        /\ tree' = IF commit = None THEN tree ELSE commit
     \/ pc = "first" /\ Fails(TRUE) /\ Leave /\ UNCHANGED tree
  /\ UNCHANGED <<backend, tip, repo, track, snap, work>>

\* git fetch --all --prune: an error in a dataset without a clone.
Fetch ==
  /\ \/ /\ pc = "fetch" /\ Works(repo = "cloned") /\ Goto("checkout")
        /\ track' = tip
     \/ pc = "fetch" /\ Fails(repo = "cloned") /\ Leave /\ UNCHANGED track
  /\ UNCHANGED <<backend, tip, repo, tree, snap, work>>

\* Mutant of Checkout: always the remote branch.
CheckoutBranch ==
  /\ \/ /\ pc = "checkout" /\ Works(TRUE) /\ Goto("snapshot")
        /\ tree' = <<branch, track[branch]>>
     \/ pc = "checkout" /\ Fails(TRUE) /\ Leave /\ UNCHANGED tree
  /\ UNCHANGED <<backend, tip, repo, track, snap, work>>

\* git checkout -f: the commit, or origin/<branch> for "HEAD".
Checkout ==
  /\ \/ /\ pc = "checkout" /\ Works(TRUE) /\ Goto("snapshot")
        /\ tree' = IF commit = None THEN <<branch, track[branch]>> ELSE commit
     \/ pc = "checkout" /\ Fails(TRUE) /\ Leave /\ UNCHANGED tree
  /\ UNCHANGED <<backend, tip, repo, track, snap, work>>

(***************************************************************************)
(* The rest of prepare_zfs.                                                *)
(***************************************************************************)

SnapshotRepo ==
  /\ \/ /\ pc = "snapshot" /\ Works(TRUE) /\ Goto("clone")
        /\ snap' = [snap EXCEPT ![run] = tree]
     \/ pc = "snapshot" /\ Fails(TRUE) /\ Leave /\ UNCHANGED snap
  /\ UNCHANGED <<backend, tip, repoVars, work>>

\* A clone that fails does not leave the snapshot.
CloneSnapshot ==
  /\ \/ /\ pc = "clone" /\ Works(TRUE) /\ Goto("mount")
        /\ work' = [work EXCEPT ![run] = snap[run]]
     \/ pc = "clone" /\ Fails(TRUE) /\ Goto("unsnapshot") /\ UNCHANGED work
  /\ UNCHANGED <<backend, tip, repoVars, snap>>

Unsnapshot ==
  /\ pc = "unsnapshot"
  /\ \/ Works(TRUE) /\ snap' = [snap EXCEPT ![run] = None]
     \/ Fails(TRUE) /\ UNCHANGED snap
  /\ Leave
  /\ UNCHANGED <<backend, tip, repoVars, work>>

\* The clone's mountpoint is looked up and given to the agent's user.
Mount ==
  Spawn("mount", TRUE, "steps")
  /\ UNCHANGED <<backend, tip, repoVars, snap, work>>

prepare_zfs ==
  \/ ProbeRepo \/ CreateRepo \/ OwnRepo \/ GitClone \/ CheckoutFirst
  \/ Fetch \/ Checkout \/ SnapshotRepo \/ CloneSnapshot \/ Unsnapshot \/ Mount

\* create_dir_all.
MakeDir ==
  /\ \/ /\ pc = "makedir" /\ Works(TRUE) /\ Goto("dirclone")
        /\ work' = [work EXCEPT ![run] = Bare]
     \/ pc = "makedir" /\ Fails(TRUE) /\ Leave /\ UNCHANGED work
  /\ UNCHANGED <<backend, tip, repoVars, snap>>

\* git clone --depth=1: when it fails nobody removes the directory, or what
\* a clone that was killed left in it.
CloneDir ==
  /\ \/ /\ pc = "dirclone" /\ Works(TRUE) /\ Goto("steps")
        /\ work' = [work EXCEPT ![run] = <<Default, tip[Default]>>]
     \/ pc = "dirclone" /\ Fails(TRUE) /\ Leave /\ UNCHANGED work
  /\ UNCHANGED <<backend, tip, repoVars, snap>>

prepare_dir == MakeDir \/ CloneDir

(***************************************************************************)
(* finish                                                                  *)
(***************************************************************************)

Steps ==
  /\ pc = "steps"
  /\ Goto("dropWork")
  /\ UNCHANGED <<backend, tip, repoVars, snap, work, faults, hurt>>

\* Mutant of DropWork: the snapshot goes before its clone, so it stays.
DropWorkLast ==
  /\ pc = "dropWork"
  /\ NoFault
  /\ work' = [work EXCEPT ![run] = None]
  /\ Leave
  /\ UNCHANGED <<backend, tip, repoVars, snap>>

\* zfs destroy -r of the clone, or the removal of the directory; a failure
\* is logged.
DropWork ==
  /\ pc = "dropWork"
  /\ \/ Works(TRUE) /\ work' = [work EXCEPT ![run] = None]
     \/ Fails(TRUE) /\ UNCHANGED work
  /\ IF backend = "zfs" THEN Goto("dropSnap") ELSE Leave
  /\ UNCHANGED <<backend, tip, repoVars, snap>>

\* zfs destroy of the snapshot, which ZFS refuses while it has a clone.
DropSnapshot ==
  /\ pc = "dropSnap"
  /\ \/ Works(work[run] = None) /\ snap' = [snap EXCEPT ![run] = None]
     \/ Fails(work[run] = None) /\ UNCHANGED snap
  /\ Leave
  /\ UNCHANGED <<backend, tip, repoVars, work>>

finish == DropWork \/ DropSnapshot

\* The agent dies; nothing on the host remembers the run.
Crash ==
  /\ pc # "idle"
  /\ Fault
  /\ pc' = "idle" /\ run' = None
  /\ UNCHANGED <<backend, tip, repoVars, snap, work, branch, commit, begun, ended, warm,
                 since>>

Next ==
  \/ \E b \in Branches : Push(b)
  \/ \E r \in Runs : Begin(r)
  \/ prepare_zfs \/ prepare_dir \/ Steps \/ finish \/ Crash

Spec == Init /\ [][Next]_vars

(***************************************************************************)
(* Properties.                                                             *)
(***************************************************************************)

\* The steps run on the commit that was pushed, whatever was built before,
\* failed before or has been pushed since.  (The dir backend builds the head of
\* the default branch.)  A run of the build button, whose commit is "HEAD",
\* builds its branch, no older than it was when the agent took the run, once
\* the repository has been cloned.  (The very first run gets the default
\* branch.)
BuildsWhatWasAsked ==
  pc = "steps" =>
    IF commit # None THEN backend = "zfs" => work[run] = commit
    ELSE warm = "yes" => work[run][1] = branch /\ work[run][2] >= since

Met(r, commands) == \E at \in commands : <<r, at>> \in hurt

\* Whatever stays on the host has its cause.  Of a run the agent came to the
\* end of, that is the failure of one of these commands, and no other, not
\* one of the warm repository, of the snapshot or of the clone: the clone
\* could not be mounted, a git clone into a directory failed, which nobody
\* takes back, or a removal did.  And a dataset without a clone, which later
\* runs take for a warm one and fail, was left by a run that failed, or whose
\* agent died, between creating it and the end of its git clone.
LeftoversHaveCauses ==
  /\ \A r \in ended :
       /\ work[r] # None => Met(r, {"mount", "dirclone", "dropWork"})
       /\ snap[r] # None => Met(r, {"mount", "unsnapshot", "dropWork", "dropSnap"})
  /\ pc = "idle" /\ repo = "empty" => \E r \in begun : Met(r, {"own", "gitclone"})
=============================================================================
