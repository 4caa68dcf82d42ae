------------------------------ MODULE ZfsCache ------------------------------
(***************************************************************************)
(* The caches of one repository on one agent host: every cache is a ZFS    *)
(* dataset whose @latest snapshot a run clones (attach_caches), and which  *)
(* the clone replaces when the run has succeeded (finish, commit_cache).   *)
(*                                                                         *)
(* Every command that the agent spawns is one step.  A command fails when  *)
(* ZFS refuses it, and by a fault at any time; the agent itself can crash  *)
(* between any two commands.  The agent works on one run at a time.        *)
(***************************************************************************)
EXTENDS Naturals

CONSTANTS Runs,        \* run ids
          None,        \* "no run", and "nothing there"
          NCaches,     \* the pipeline declares the caches 1..NCaches
          InWorkspace, \* those with a relative path
          MaxFaults    \* bound: faults in one behaviour

ASSUME NoneAssumption == None \notin Runs
ASSUME CachesAssumption == NCaches \in Nat \ {0} /\ MaxFaults \in Nat

Caches == 1 .. NCaches
Position == 1 .. NCaches + 1   \* of a loop over them, the end included
Count == 0 .. NCaches

\* The datasets of a cache: <cache>, <cache>.run-<run> and <cache>.old-<run>.
Base == <<"base", None>>
Clone(r) == <<"run", r>>
Old(r) == <<"old", r>>
Datasets == {Base} \cup {Clone(r) : r \in Runs} \cup {Old(r) : r \in Runs}

(***************************************************************************)
(* ZFS.  A dataset has the data some run left in it, perhaps a snapshot    *)
(* @latest, and perhaps an origin: the snapshot it was cloned from.  A     *)
(* snapshot is identified by the run whose data it holds, and stays itself *)
(* when promote or rename changes its name.  For one cache, a graph g      *)
(* gives every dataset its state.                                          *)
(***************************************************************************)
State == [data : Runs \cup {None}, latest : Runs \cup {None},
          origin : Runs \cup {None}]
Gone == [data |-> None, latest |-> None, origin |-> None]

Exists(g, d) == g[d] # Gone
HasLatest(g, d) == g[d].latest # None
Dependents(g, s) == {d \in Datasets : g[d].origin = s}

\* Is @latest of d free of clones, so that it may be destroyed?
Undepended(g, d) == HasLatest(g, d) => Dependents(g, g[d].latest) = {}

Rename(g, d, e) == [g EXCEPT ![e] = g[d], ![d] = Gone]
DestroyLatest(g, d) == [g EXCEPT ![d].latest = None]
TakeLatest(g, d) == [g EXCEPT ![d].latest = g[d].data]

Owner(g, s) == CHOOSE d \in Datasets : g[d].latest = s

\* d takes its origin snapshot over from the owner, which becomes a clone.
Promote(g, d) ==
  [e \in Datasets |->
     IF e = d
     THEN [g[d] EXCEPT !.latest = g[d].origin,
                       !.origin = g[Owner(g, g[d].origin)].origin]
     ELSE IF g[e].latest = g[d].origin
          THEN [g[e] EXCEPT !.latest = None, !.origin = g[d].origin]
          ELSE g[e]]

(***************************************************************************)
(* The state.                                                              *)
(***************************************************************************)
VARIABLES
  z,        \* the dataset graph of every cache
  pc,       \* the command the agent is about to spawn
  run,      \* the run it works on
  k,        \* the cache at hand
  attached, \* Workspace.caches: the caches 1..attached have a clone
  restored, \* those of them that are clones of @latest
  outcome,  \* "success" once the steps have all succeeded
  begun,    \* runs that were started; a run is started once
  faults,   \* faults so far
  ok,       \* ghost: the runs whose pipeline succeeded
  hurt,     \* ghost: the runs that met a fault
  ended,    \* ghost: the runs that came to the end of finish
  last      \* ghost: the last run, if successful and not hurt

vars == <<z, pc, run, k, attached, restored, outcome, begun, faults, ok, hurt,
          ended, last>>
localVars == <<run, attached, restored, outcome>>
ghostVars == <<ok, ended, last>>

Attaching == {"root", "probe", "provide", "mount"}
Committing == {"inherit", "promote", "base", "aside", "swap", "swapOver",
               "dropOld", "dropLatest", "snapshot"}
PC == {"idle", "steps", "finish", "discard"} \cup Attaching \cup Committing

TypeOK ==
  /\ z \in [Caches -> [Datasets -> State]]
  /\ pc \in PC
  /\ run \in Runs \cup {None}
  /\ k \in Position
  /\ attached \in Count
  /\ restored \in SUBSET Caches
  /\ outcome \in {"none", "success", "failure"}
  /\ begun \in SUBSET Runs
  /\ faults \in Nat
  /\ ok \in SUBSET Runs /\ hurt \in SUBSET Runs /\ ended \in SUBSET Runs
  /\ last \in Runs \cup {None}

Init ==
  /\ z = [c \in Caches |-> [d \in Datasets |-> Gone]]
  /\ pc = "idle"
  /\ run = None
  /\ k = 1
  /\ attached = 0
  /\ restored = {}
  /\ outcome = "none"
  /\ begun = {}
  /\ faults = 0
  /\ ok = {} /\ hurt = {} /\ ended = {} /\ last = None

Fault ==
  faults < MaxFaults /\ faults' = faults + 1 /\ hurt' = hurt \cup {run}
NoFault == UNCHANGED <<faults, hurt>>

\* Spawn a command that ZFS allows when `can` and that turns the graph of the
\* cache at hand into g: it works, or it fails.
Works(can, g) == can /\ NoFault /\ z' = [z EXCEPT ![k] = g]
Fails(can) == UNCHANGED z /\ (Fault \/ (~can /\ NoFault))

\* `zfs list` of a dataset: a command that fails counts as "not there".
Finds(there) == there /\ NoFault
FindsNot(there) == IF there THEN Fault ELSE NoFault

(***************************************************************************)
(* attach_caches                                                           *)
(***************************************************************************)

\* The workspace of a new run is ready and its pipeline declares caches.
Begin(r) ==
  /\ pc = "idle"
  /\ r \notin begun
  /\ begun' = begun \cup {r}
  /\ run' = r
  /\ pc' = "root"
  /\ k' = 1 /\ attached' = 0 /\ restored' = {} /\ outcome' = "none"
  /\ UNCHANGED <<z, faults, hurt, ghostVars>>

\* An error of attach_caches ends do_execute, and finish(.., false) follows.
Abandon == pc' = "finish" /\ k' = 1

\* zfs create -p <cache root>
CreateRoot ==
  /\ pc = "root"
  /\ \/ Works(TRUE, z[k]) /\ pc' = "probe" /\ UNCHANGED k
     \/ Fails(TRUE) /\ Abandon
  /\ UNCHANGED <<localVars, begun, ghostVars>>

\* Is there a <cache>@latest?
ProbeLatest ==
  /\ pc = "probe"
  /\ \/ Finds(HasLatest(z[k], Base)) /\ restored' = restored \cup {k}
     \/ FindsNot(HasLatest(z[k], Base)) /\ UNCHANGED restored
  /\ pc' = "provide"
  /\ UNCHANGED <<z, run, k, attached, outcome, begun, ghostVars>>

\* Mutant of Provide: the clone is entered into self.caches twice.
ProvideTwice ==
  /\ pc = "provide"
  /\ Works(TRUE, [z[k] EXCEPT ![Clone(run)].data = run])
  /\ attached' = k + 1 /\ pc' = "mount"
  /\ UNCHANGED <<run, k, restored, outcome, begun, ghostVars>>

\* zfs clone <cache>@latest <cache>.run-<run>, or zfs create without it.
Provide ==
  /\ pc = "provide"
  /\ LET can == /\ ~Exists(z[k], Clone(run))
                /\ k \in restored => HasLatest(z[k], Base)
         new == [data |-> run, latest |-> None,
                 origin |-> IF k \in restored THEN z[k][Base].latest
                            ELSE None]
     IN \/ /\ Works(can, [z[k] EXCEPT ![Clone(run)] = new])
           /\ attached' = k /\ pc' = "mount" /\ UNCHANGED k
        \/ Fails(can) /\ Abandon /\ UNCHANGED attached
  /\ UNCHANGED <<run, restored, outcome, begun, ghostVars>>

\* Resolve the mountpoint and chown it; on to the next cache or the steps.
Mount ==
  /\ pc = "mount"
  /\ \/ /\ Works(TRUE, z[k])
        /\ pc' = IF k = NCaches THEN "steps" ELSE "probe"
        /\ k' = IF k = NCaches THEN k ELSE k + 1
     \/ Fails(TRUE) /\ Abandon
  /\ UNCHANGED <<localVars, begun, ghostVars>>

(***************************************************************************)
(* The steps of the pipeline, and finish.                                  *)
(***************************************************************************)

Steps ==
  /\ pc = "steps"
  /\ \/ outcome' = "success" /\ ok' = ok \cup {run}
     \/ outcome' = "failure" /\ UNCHANGED ok
  /\ pc' = "finish" /\ k' = 1
  /\ UNCHANGED <<z, run, attached, restored, begun, faults, hurt, ended, last>>

\* Mutant of FinishCache: the outcome of the run is not looked at.
FinishCacheAlways ==
  /\ pc = "finish"
  /\ k <= attached
  /\ pc' = IF k \in InWorkspace THEN "inherit"
           ELSE IF k \in restored THEN "promote" ELSE "base"
  /\ UNCHANGED <<z, k, localVars, begun, faults, hurt, ghostVars>>

\* The loop over self.caches.
FinishCache ==
  /\ pc = "finish"
  /\ k <= attached
  /\ pc' = IF outcome # "success" THEN "discard"
           ELSE IF k \in InWorkspace THEN "inherit"
           ELSE IF k \in restored THEN "promote" ELSE "base"
  /\ UNCHANGED <<z, k, localVars, begun, faults, hurt, ghostVars>>

\* The loop is over and with it the run.
FinishRun ==
  /\ pc = "finish"
  /\ k > attached
  /\ pc' = "idle" /\ run' = None /\ k' = 1
  /\ attached' = 0 /\ restored' = {} /\ outcome' = "none"
  /\ ended' = ended \cup {run}
  /\ last' = IF outcome = "success" /\ run \notin hurt THEN run ELSE None
  /\ UNCHANGED <<z, begun, faults, hurt, ok>>

\* What happened to a cache is logged at most; on to the next one.
NextCache == pc' = "finish" /\ k' = k + 1

\* zfs destroy -r <cache>.run-<run>
Discard ==
  /\ pc = "discard"
  /\ LET can == Exists(z[k], Clone(run)) /\ Undepended(z[k], Clone(run))
     IN Works(can, [z[k] EXCEPT ![Clone(run)] = Gone]) \/ Fails(can)
  /\ NextCache
  /\ UNCHANGED <<localVars, begun, ghostVars>>

(***************************************************************************)
(* commit_cache: one command after the other; an error gives up the rest.  *)
(***************************************************************************)

\* The command at `at`, which takes the cache to graph g and then goes to
\* `next`, or was the last of the cache ("finish").
CommitStep(at, can, g, next) ==
  /\ pc = at
  /\ \/ /\ Works(can, g)
        /\ pc' = next
        /\ k' = IF next = "finish" THEN k + 1 ELSE k
     \/ Fails(can) /\ NextCache
  /\ UNCHANGED <<localVars, begun, ghostVars>>

\* Mutant of Inherit: a clone mounted in the workspace is not promoted.
InheritUnpromoted ==
  CommitStep("inherit", Exists(z[k], Clone(run)), z[k], "base")

Inherit ==
  CommitStep("inherit", Exists(z[k], Clone(run)), z[k],
             IF k \in restored THEN "promote" ELSE "base")

PromoteClone ==
  CommitStep("promote",
             z[k][Clone(run)].origin # None /\ ~HasLatest(z[k], Clone(run)),
             Promote(z[k], Clone(run)), "base")

\* had_base: it decides where the renames start and whether an old base is
\* left to destroy.
ProbeBase ==
  /\ pc = "base"
  /\ \/ Finds(Exists(z[k], Base)) /\ pc' = "aside"
     \/ FindsNot(Exists(z[k], Base)) /\ pc' = "swap"
  /\ UNCHANGED <<z, k, localVars, begun, ghostVars>>

RenameAside ==
  CommitStep("aside", Exists(z[k], Base) /\ ~Exists(z[k], Old(run)),
             Rename(z[k], Base, Old(run)), "swapOver")

AfterOld == IF k \in restored THEN "dropLatest" ELSE "snapshot"

\* Mutant of RenameToBase: the old base is not destroyed.
RenameKeepingOld(at) ==
  CommitStep(at, Exists(z[k], Clone(run)) /\ ~Exists(z[k], Base),
             Rename(z[k], Clone(run), Base), AfterOld)

RenameToBase(at) ==
  CommitStep(at, Exists(z[k], Clone(run)) /\ ~Exists(z[k], Base),
             Rename(z[k], Clone(run), Base),
             IF at = "swapOver" THEN "dropOld" ELSE AfterOld)

DropOld ==
  CommitStep("dropOld", Exists(z[k], Old(run)) /\ Undepended(z[k], Old(run)),
             [z[k] EXCEPT ![Old(run)] = Gone], AfterOld)

DropLatest ==
  CommitStep("dropLatest",
             HasLatest(z[k], Base) /\ Undepended(z[k], Base),
             DestroyLatest(z[k], Base), "snapshot")

SnapshotLatest ==
  CommitStep("snapshot", Exists(z[k], Base) /\ ~HasLatest(z[k], Base),
             TakeLatest(z[k], Base), "finish")

commit_cache ==
  \/ Inherit \/ PromoteClone \/ ProbeBase \/ RenameAside
  \/ RenameToBase("swap") \/ RenameToBase("swapOver")
  \/ DropOld \/ DropLatest \/ SnapshotLatest

attach_caches == CreateRoot \/ ProbeLatest \/ Provide \/ Mount
finish == FinishCache \/ FinishRun \/ Discard \/ commit_cache

\* The agent dies.  ZFS keeps what it has; nothing else remembers the run.
Crash ==
  /\ pc # "idle"
  /\ Fault
  /\ pc' = "idle" /\ run' = None /\ k' = 1
  /\ attached' = 0 /\ restored' = {} /\ outcome' = "none"
  /\ last' = None
  /\ UNCHANGED <<z, begun, ok, ended>>

Next ==
  \/ \E r \in Runs : Begin(r)
  \/ attach_caches \/ Steps \/ finish \/ Crash

Spec == Init /\ [][Next]_vars

(***************************************************************************)
(* Properties.                                                             *)
(***************************************************************************)

\* "A failed run never poisons the cache": what the next run will start from
\* was left by a run that succeeded, whatever command failed and wherever the
\* agent died.
NeverPoisoned ==
  \A c \in Caches : HasLatest(z[c], Base) => z[c][Base].latest \in ok

\* A run that met no fault leaves nothing behind but the cache itself, even
\* on top of what earlier crashes left.
TidyRunsLeaveNothing ==
  pc = "idle" =>
    \A c \in Caches, r \in ended \ hurt :
      ~Exists(z[c], Clone(r)) /\ ~Exists(z[c], Old(r))

\* A crash costs cold runs only until the next success: after a successful
\* run without faults the next one finds a cache to start from, and if there
\* have been no faults at all, what it finds is that run's.
WarmAfterSuccess ==
  pc = "idle" /\ last # None =>
    \A c \in Caches : /\ HasLatest(z[c], Base)
                      /\ faults = 0 => z[c][Base].latest = last

\* finish: "on success, commit caches as the new @latest".  A successful run
\* that met no fault of its own is what the next run starts from.
CommitTakesEffect ==
  pc = "idle" /\ last # None => \A c \in Caches : z[c][Base].latest = last
=============================================================================
