-------------------------- MODULE WorkspaceProofs --------------------------
(***************************************************************************)
(* Proofs about Workspace, for any number of runs, branches and commits,   *)
(* and whichever commands fail.                                            *)
(***************************************************************************)
EXTENDS Workspace, TLAPS

(***************************************************************************)
(* Types.                                                                  *)
(***************************************************************************)

\* What is checked out after a fetch exists.
FetchedOK == pc = "checkout" => \A b \in Branches : track[b] >= 1

TypeInv == TypeOK /\ FetchedOK

LEMMA TypeInit == Init => TypeInv
  BY DefaultAssumption, BoundsAssumption
     DEF Init, TypeInv, TypeOK, FetchedOK, MaybeCommit, Commit

LEMMA TypeStep == TypeInv /\ [Next]_vars => TypeInv'
<1> SUFFICES ASSUME TypeInv, [Next]_vars PROVE TypeInv'
  OBVIOUS
<1> USE NoneAssumption, BoundsAssumption
    DEF TypeInv, TypeOK, FetchedOK, MaybeCommit, Commit, Bare, repoVars, jobVars
<1> USE DEF Goto, Leave, Works, Fails, Fault, NoFault
<1>1. CASE UNCHANGED vars
  BY <1>1 DEF vars
<1>2. ASSUME NEW b \in Branches, Push(b) PROVE TypeInv'
  BY <1>2 DEF Push
<1>3. ASSUME NEW r \in Runs, Begin(r) PROVE TypeInv'
  BY <1>3 DEF Begin
<1>4. CASE ProbeRepo \/ CreateRepo \/ OwnRepo
  BY <1>4 DEF ProbeRepo, CreateRepo, OwnRepo, Spawn
<1>5. CASE GitClone
  BY <1>5, DefaultAssumption DEF GitClone
<1>6. CASE CheckoutFirst \/ Fetch
  BY <1>6 DEF CheckoutFirst, Fetch
<1>7. CASE Checkout
  BY <1>7 DEF Checkout
<1>8. CASE SnapshotRepo \/ CloneSnapshot
  BY <1>8 DEF SnapshotRepo, CloneSnapshot
<1>9. CASE Unsnapshot \/ Mount
  BY <1>9 DEF Unsnapshot, Mount, Spawn
<1>10. CASE prepare_dir
  BY <1>10, DefaultAssumption DEF prepare_dir, MakeDir, CloneDir
<1>11. CASE Steps \/ finish
  BY <1>11 DEF Steps, finish, DropWork, DropSnapshot
<1>12. CASE Crash
  BY <1>12 DEF Crash
<1> QED
  BY <1>1, <1>2, <1>3, <1>4, <1>5, <1>6, <1>7, <1>8, <1>9, <1>10, <1>11, <1>12
     DEF Next, prepare_zfs

LEMMA TypeInvHolds == Spec => []TypeInv
  BY TypeInit, TypeStep, PTL DEF Spec

\* The variables of the workspaces keep their types: what is checked out,
\* snapshotted and cloned is always a commit of the remote.
THEOREM TypeCorrect == Spec => []TypeOK
<1>1. TypeInv => TypeOK
  BY DEF TypeInv
<1> QED BY <1>1, TypeInvHolds, PTL

(***************************************************************************)
(* What is built.                                                          *)
(***************************************************************************)

\* The commit c is one the run at hand may be built from.
Asked(c) ==
  IF commit # None THEN c = commit
  ELSE warm = "yes" => c[1] = branch /\ c[2] >= since

\* A run that found a clone never clones, and comes to the checkout with
\* branches at least as new as when it began.
WarmInv ==
  /\ warm = "yes" => repo = "cloned"
  /\ pc = "first" => warm = "no"
  /\ pc # "idle" => since <= tip[branch]
  /\ pc = "checkout" => since <= track[branch]
  /\ pc \in {"makedir", "dirclone"} => backend = "dir"
  /\ backend = "dir" =>
       repo = "absent" /\ pc \in {"idle", "makedir", "dirclone", "steps", "dropWork"}

\* The commit asked for, on its way from the warm dataset into the workspace.
BuildInv ==
  /\ pc = "snapshot" => Asked(tree)
  /\ pc = "clone" => Asked(snap[run])
  /\ pc \in {"mount", "steps"} /\ backend = "zfs" => Asked(work[run])

LEMMA BuildInit == Init => WarmInv /\ BuildInv
  BY DEF Init, WarmInv, BuildInv

LEMMA WarmStep ==
  ASSUME TypeInv, WarmInv, [Next]_vars
  PROVE WarmInv'
<1> USE NoneAssumption, BoundsAssumption
    DEF TypeInv, TypeOK, WarmInv, repoVars, jobVars
<1> USE DEF Goto, Leave, Works, Fails, Fault, NoFault
<1>1. CASE UNCHANGED vars
  BY <1>1 DEF vars
<1>2. ASSUME NEW b \in Branches, Push(b) PROVE WarmInv'
  BY <1>2 DEF Push
<1>3. ASSUME NEW r \in Runs, Begin(r) PROVE WarmInv'
  BY <1>3 DEF Begin
<1>4. CASE ProbeRepo \/ CreateRepo \/ OwnRepo
  BY <1>4 DEF ProbeRepo, CreateRepo, OwnRepo, Spawn
<1>5. CASE GitClone \/ CheckoutFirst
  BY <1>5 DEF GitClone, CheckoutFirst
<1>6. CASE Fetch \/ Checkout
  BY <1>6 DEF Fetch, Checkout
<1>7. CASE SnapshotRepo \/ CloneSnapshot \/ Unsnapshot \/ Mount
  BY <1>7 DEF SnapshotRepo, CloneSnapshot, Unsnapshot, Mount, Spawn
<1>8. CASE prepare_dir \/ Steps \/ finish \/ Crash
  BY <1>8 DEF prepare_dir, MakeDir, CloneDir, Steps, finish, DropWork, DropSnapshot, Crash
<1> QED
  BY <1>1, <1>2, <1>3, <1>4, <1>5, <1>6, <1>7, <1>8 DEF Next, prepare_zfs

LEMMA BuildStep ==
  ASSUME TypeInv, WarmInv, BuildInv, [Next]_vars
  PROVE BuildInv'
<1> USE NoneAssumption, BoundsAssumption
    DEF TypeInv, TypeOK, WarmInv, BuildInv, Asked, repoVars, jobVars
<1> USE DEF Goto, Leave, Works, Fails, Fault, NoFault
<1>1. CASE UNCHANGED vars
  BY <1>1 DEF vars
<1>2. ASSUME NEW b \in Branches, Push(b) PROVE BuildInv'
  BY <1>2 DEF Push
<1>3. ASSUME NEW r \in Runs, Begin(r) PROVE BuildInv'
  BY <1>3 DEF Begin
<1>4. CASE ProbeRepo \/ CreateRepo \/ OwnRepo \/ GitClone
  BY <1>4 DEF ProbeRepo, CreateRepo, OwnRepo, GitClone, Spawn
<1>5. CASE CheckoutFirst \/ Fetch
  BY <1>5 DEF CheckoutFirst, Fetch
<1>6. CASE Checkout
  BY <1>6 DEF Checkout
<1>7. CASE SnapshotRepo \/ CloneSnapshot
  BY <1>7 DEF SnapshotRepo, CloneSnapshot
<1>8. CASE Unsnapshot \/ Mount
  BY <1>8 DEF Unsnapshot, Mount, Spawn
<1>9. CASE prepare_dir \/ Steps \/ finish \/ Crash
  BY <1>9 DEF prepare_dir, MakeDir, CloneDir, Steps, finish, DropWork, DropSnapshot, Crash
<1> QED
  BY <1>1, <1>2, <1>3, <1>4, <1>5, <1>6, <1>7, <1>8, <1>9 DEF Next, prepare_zfs

\* A run's steps see the commit it is for, and with the build button one of
\* its branch that is no older than the run, whatever the warm clone held
\* before and wherever earlier runs failed in it.
THEOREM RightCommit == Spec => []BuildsWhatWasAsked
<1>1. TypeInv /\ WarmInv /\ BuildInv /\ [Next]_vars => (WarmInv /\ BuildInv)'
  BY WarmStep, BuildStep
<1>2. TypeInv /\ WarmInv /\ BuildInv => BuildsWhatWasAsked
  BY DEF TypeInv, TypeOK, WarmInv, BuildInv, Asked, BuildsWhatWasAsked
<1> QED BY <1>1, <1>2, BuildInit, TypeInvHolds, PTL DEF Spec

(***************************************************************************)
(* What is left.                                                           *)
(***************************************************************************)

Before == {"exists", "create", "own", "gitclone", "first", "fetch",
           "checkout", "snapshot", "makedir"}
Clear(r) == snap[r] = None /\ work[r] = None

\* Nothing is there of a run before its snapshot or directory, and what is
\* there later is removed in the order of finish.
OrderInv ==
  /\ ended \subseteq begun
  /\ pc # "idle" => run \in begun /\ run \notin ended
  /\ \A r \in Runs : r \notin begun => Clear(r)
  /\ pc \in Before => Clear(run)
  /\ pc \in {"clone", "unsnapshot"} => work[run] = None
  /\ pc = "dirclone" => snap[run] = None
  /\ backend = "dir" =>
       /\ pc \in {"idle", "makedir", "dirclone", "steps", "dropWork"}
       /\ \A r \in Runs : snap[r] = None
  /\ pc = "dropSnap" => work[run] = None \/ <<run, "dropWork">> \in hurt

\* A new dataset is empty only until its git clone.
EmptyInv ==
  repo = "empty" => \/ pc \in {"own", "gitclone"}
                    \/ \E r \in begun : Met(r, {"own", "gitclone"})

\* What a run left, by the commands that failed for it.
LeftInv ==
  \A r \in ended :
    /\ work[r] # None => Met(r, {"mount", "dirclone", "dropWork"})
    /\ snap[r] # None => Met(r, {"mount", "unsnapshot", "dropWork", "dropSnap"})

TidyInv == OrderInv /\ EmptyInv /\ LeftInv

LEMMA TidyInit == Init => TidyInv
  BY DEF Init, TidyInv, OrderInv, EmptyInv, LeftInv, Clear, Before

\* What a run has met stays in the books.
LEMMA HurtGrows ==
  ASSUME [Next]_vars
  PROVE hurt \subseteq hurt' /\ begun \subseteq begun'
  BY DEF Next, vars, repoVars, jobVars, Push, Begin, prepare_zfs, ProbeRepo,
     CreateRepo, OwnRepo, Spawn, GitClone, CheckoutFirst, Fetch, Checkout,
     SnapshotRepo, CloneSnapshot, Unsnapshot, Mount, prepare_dir, MakeDir,
     CloneDir, Steps, finish, DropWork, DropSnapshot, Crash, Goto, Leave, Works,
     Fails, Fault, NoFault

LEMMA OrderStep ==
  ASSUME TypeInv, OrderInv, [Next]_vars
  PROVE OrderInv'
<1> USE NoneAssumption, BoundsAssumption
    DEF TypeInv, TypeOK, OrderInv, Clear, Before, repoVars, jobVars
<1> USE DEF Goto, Leave, Works, Fails, Fault, NoFault
<1>1. CASE UNCHANGED vars
  BY <1>1 DEF vars
<1>2. ASSUME NEW b \in Branches, Push(b) PROVE OrderInv'
  BY <1>2 DEF Push
<1>3. ASSUME NEW r \in Runs, Begin(r) PROVE OrderInv'
  BY <1>3 DEF Begin
<1>4. CASE ProbeRepo
  BY <1>4 DEF ProbeRepo
<1>5. CASE CreateRepo \/ OwnRepo
  BY <1>5 DEF CreateRepo, OwnRepo, Spawn
<1>6. CASE GitClone \/ CheckoutFirst
  BY <1>6 DEF GitClone, CheckoutFirst
<1>7. CASE Fetch \/ Checkout
  BY <1>7 DEF Fetch, Checkout
<1>8. CASE SnapshotRepo
  BY <1>8 DEF SnapshotRepo
<1>9. CASE CloneSnapshot
  BY <1>9 DEF CloneSnapshot
<1>10. CASE Unsnapshot
  BY <1>10 DEF Unsnapshot
<1>11. CASE Mount
  BY <1>11 DEF Mount, Spawn
<1>12. CASE prepare_dir \/ Steps
  BY <1>12 DEF prepare_dir, MakeDir, CloneDir, Steps
<1>13. CASE DropWork
  BY <1>13 DEF DropWork
<1>14. CASE DropSnapshot
  BY <1>14 DEF DropSnapshot
<1>15. CASE Crash
  BY <1>15 DEF Crash
<1> QED
  BY <1>1, <1>2, <1>3, <1>4, <1>5, <1>6, <1>7, <1>8, <1>9, <1>10, <1>11, <1>12,
     <1>13, <1>14, <1>15
     DEF Next, prepare_zfs, finish

LEMMA EmptyStep ==
  ASSUME TypeInv, OrderInv, EmptyInv, [Next]_vars
  PROVE EmptyInv'
<1>1. CASE UNCHANGED <<repo, pc>>
  BY <1>1, HurtGrows DEF EmptyInv, Met
<1>2. CASE repo' # "empty" \/ pc' \in {"own", "gitclone"}
  BY <1>2 DEF EmptyInv
<1>3. CASE repo' = repo /\ pc \notin {"own", "gitclone"}
  BY <1>3, HurtGrows DEF EmptyInv, Met
<1>4. CASE pc \in {"own", "gitclone"} /\ repo = "empty"
  <2>1. run \in begun /\ run \in begun'
    BY <1>4, HurtGrows DEF OrderInv
  <2>2. \/ <<run, pc>> \in hurt'
        \/ repo' # "empty" \/ pc' \in {"own", "gitclone"}
    BY <1>4 DEF Next, vars, repoVars, jobVars, Push, Begin, prepare_zfs, ProbeRepo,
       CreateRepo, OwnRepo, Spawn, GitClone, CheckoutFirst, Fetch, Checkout,
       SnapshotRepo, CloneSnapshot, Unsnapshot, Mount, prepare_dir, MakeDir,
       CloneDir, Steps, finish, DropWork, DropSnapshot, Crash, Goto, Leave,
       Works, Fails, Fault, NoFault
  <2> QED BY <1>4, <2>1, <2>2 DEF EmptyInv, Met
<1>5. repo' = repo \/ repo' # "empty" \/ pc' = "own"
  BY DEF Next, vars, repoVars, jobVars, Push, Begin, prepare_zfs, ProbeRepo,
     CreateRepo, OwnRepo, Spawn, GitClone, CheckoutFirst, Fetch, Checkout,
     SnapshotRepo, CloneSnapshot, Unsnapshot, Mount, prepare_dir, MakeDir,
     CloneDir, Steps, finish, DropWork, DropSnapshot, Crash, Goto
<1> QED BY <1>2, <1>3, <1>4, <1>5

LEMMA LeftStep ==
  ASSUME TypeInv, OrderInv, LeftInv, [Next]_vars
  PROVE LeftInv'
<1>1. hurt \subseteq hurt'
  BY HurtGrows
<1>2. \A r \in ended : snap'[r] = snap[r] /\ work'[r] = work[r]
  <2> USE DEF Goto, Leave, Works, Fails, Fault, NoFault, TypeInv, TypeOK, OrderInv,
      Before, repoVars, jobVars
  <2>1. CASE prepare_zfs
    BY <2>1 DEF prepare_zfs, ProbeRepo, CreateRepo, OwnRepo, Spawn, GitClone,
       CheckoutFirst, Fetch, Checkout, SnapshotRepo, CloneSnapshot, Unsnapshot,
       Mount
  <2>2. CASE prepare_dir \/ Steps \/ finish
    BY <2>2 DEF prepare_dir, MakeDir, CloneDir, Steps, finish, DropWork, DropSnapshot
  <2> QED
    BY <2>1, <2>2 DEF Next, vars, Push, Begin, Crash
<1>3. ended' = ended \/ (pc # "idle" /\ ended' = ended \cup {run})
  BY DEF Next, vars, repoVars, jobVars, Push, Begin, prepare_zfs, ProbeRepo,
     CreateRepo, OwnRepo, Spawn, GitClone, CheckoutFirst, Fetch, Checkout,
     SnapshotRepo, CloneSnapshot, Unsnapshot, Mount, prepare_dir, MakeDir,
     CloneDir, Steps, finish, DropWork, DropSnapshot, Crash, Goto, Leave
<1>4. ASSUME pc # "idle", run \in ended'
      PROVE /\ work'[run] # None => \E at \in {"mount", "dirclone", "dropWork"} :
                                       <<run, at>> \in hurt'
            /\ snap'[run] # None =>
                 \E at \in {"mount", "unsnapshot", "dropWork", "dropSnap"} :
                   <<run, at>> \in hurt'
  <2> USE <1>4, NoneAssumption
      DEF Goto, Leave, Works, Fails, Fault, NoFault, TypeInv, TypeOK, OrderInv,
          Before, Clear, repoVars, jobVars
  <2>1. CASE ProbeRepo \/ CreateRepo \/ OwnRepo \/ GitClone
    BY <2>1 DEF ProbeRepo, CreateRepo, OwnRepo, Spawn, GitClone
  <2>2. CASE CheckoutFirst \/ Fetch \/ Checkout \/ SnapshotRepo
    BY <2>2 DEF CheckoutFirst, Fetch, Checkout, SnapshotRepo
  <2>3. CASE CloneSnapshot
    BY <2>3 DEF CloneSnapshot
  <2>4. CASE Unsnapshot
    BY <2>4 DEF Unsnapshot
  <2>5. CASE Mount
    BY <2>5 DEF Mount, Spawn
  <2>6. CASE MakeDir \/ CloneDir \/ Steps
    BY <2>6 DEF MakeDir, CloneDir, Steps
  <2>7. CASE DropWork
    BY <2>7 DEF DropWork
  <2>8. CASE DropSnapshot
    BY <2>8 DEF DropSnapshot
  <2>9. CASE Crash \/ UNCHANGED vars \/ (\E b \in Branches : Push(b))
    BY <2>9 DEF Crash, vars, Push
  <2>10. ASSUME NEW r \in Runs, Begin(r) PROVE FALSE
    BY <2>10 DEF Begin
  <2> QED
    BY <2>1, <2>2, <2>3, <2>4, <2>5, <2>6, <2>7, <2>8, <2>9, <2>10
       DEF Next, prepare_zfs, prepare_dir, finish
<1>5. ASSUME NEW r \in ended' PROVE r \in ended \/ (pc # "idle" /\ r = run)
  BY <1>3, <1>5
<1> QED BY <1>1, <1>2, <1>4, <1>5 DEF LeftInv, Met

LEMMA TidyStep ==
  ASSUME TypeInv, TidyInv, [Next]_vars
  PROVE TidyInv'
  BY OrderStep, EmptyStep, LeftStep DEF TidyInv

\* Of a run that came to its end there is a clone, a directory or a snapshot
\* only if it could not be mounted, cloned into or removed, and a dataset
\* without a clone only after a first run that stopped too early, however many
\* runs before it failed or crashed.
THEOREM LeftoversExplained == Spec => []LeftoversHaveCauses
<1>1. TypeInv /\ TidyInv /\ [Next]_vars => TidyInv'
  BY TidyStep
<1>2. TidyInv => LeftoversHaveCauses
  BY DEF TidyInv, EmptyInv, LeftInv, LeftoversHaveCauses
<1> QED BY <1>1, <1>2, TidyInit, TypeInvHolds, PTL DEF Spec
=============================================================================
