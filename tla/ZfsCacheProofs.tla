--------------------------- MODULE ZfsCacheProofs ---------------------------
(***************************************************************************)
(* Proofs about ZfsCache, for any runs, caches and number of faults.       *)
(***************************************************************************)
EXTENDS ZfsCache, TLAPS

\* A snapshot holds the data of a run that succeeded, and every dataset
\* holds the data of some run.
GoodSnapshots(g) ==
  \A d \in Datasets : /\ g[d].latest \in ok \cup {None}
                      /\ g[d].origin \in ok \cup {None}
                      /\ g[d].data = None => g[d] = Gone

\* What a dataset was cloned from is still there, under whatever name.
OriginsExist(g) ==
  \A d \in Datasets : g[d].origin # None =>
    \E o \in Datasets : g[o].latest = g[d].origin

\* A commit is on behalf of a successful run, and once its clone has become
\* the base, the base holds that run's data.
CommitInv ==
  /\ pc # "idle" => run \in Runs
  /\ pc \in Attaching \cup Committing \cup {"discard"} => k \in Caches
  /\ pc \in Attaching => outcome = "none"
  /\ outcome = "success" => run \in ok
  /\ pc \in Committing => outcome = "success"
  /\ pc \in {"dropOld", "dropLatest", "snapshot"} => z[k][Base].data = run
  /\ \A c \in Caches, r \in Runs : z[c][Clone(r)].data \in {r, None}

GraphInv == \A c \in Caches : GoodSnapshots(z[c]) /\ OriginsExist(z[c])

IInv ==
  /\ TypeOK
  /\ CommitInv
  /\ GraphInv

USE NoneAssumption

\* The loops stay within the caches.
LEMMA CacheFacts ==
  /\ 1 \in Caches /\ 1 \in Position /\ 0 \in Count
  /\ \A n \in Caches : /\ n \in Position /\ n + 1 \in Position /\ n \in Count
                       /\ n # NCaches => n + 1 \in Caches
  /\ \A n \in Position, m \in Count : n <= m => n \in Caches
  BY CachesAssumption DEF Caches, Position, Count

\* The names of datasets are different.
LEMMA Names ==
  /\ Base \in Datasets
  /\ \A r \in Runs : /\ Clone(r) \in Datasets /\ Old(r) \in Datasets
                     /\ Base # Clone(r) /\ Base # Old(r) /\ Clone(r) # Old(r)
  /\ \A r, q \in Runs : Clone(r) # Old(q) /\ (Clone(r) = Clone(q) => r = q)
  BY DEF Base, Clone, Old, Datasets

LEMMA InitInv == Init => IInv
<1> SUFFICES ASSUME Init
             PROVE IInv
  OBVIOUS
<1>1. Gone \in State
  BY DEF Gone, State
<1>2. TypeOK
  <2>1. z \in [Caches -> [Datasets -> State]]
    BY <1>1 DEF Init
  <2>2. k \in Position /\ attached \in Count /\ faults \in Nat
    BY CacheFacts DEF Init
  <2> QED
    BY <2>1, <2>2 DEF Init, TypeOK, PC
<1>3. CommitInv
  BY Names DEF Init, CommitInv, Attaching, Committing, Gone
<1>4. GraphInv
  BY DEF Init, GraphInv, GoodSnapshots, OriginsExist, Gone
<1> QED
  BY <1>2, <1>3, <1>4 DEF IInv

\* What the ZFS commands do to a graph keeps it well-formed.
LEMMA RenameGood ==
  ASSUME NEW g \in [Datasets -> State], GoodSnapshots(g), OriginsExist(g),
         NEW d \in Datasets, NEW e \in Datasets, ~Exists(g, e), d # e
  PROVE /\ Rename(g, d, e) \in [Datasets -> State]
        /\ GoodSnapshots(Rename(g, d, e)) /\ OriginsExist(Rename(g, d, e))
  BY DEF GoodSnapshots, OriginsExist, Rename, Exists, Gone, State

LEMMA DestroyGood ==
  ASSUME NEW g \in [Datasets -> State], GoodSnapshots(g), OriginsExist(g),
         NEW d \in Datasets, Undepended(g, d)
  PROVE LET h == [g EXCEPT ![d] = Gone]
        IN h \in [Datasets -> State] /\ GoodSnapshots(h) /\ OriginsExist(h)
  BY DEF GoodSnapshots, OriginsExist, Undepended, HasLatest, Dependents, Gone,
     State

LEMMA DestroyLatestGood ==
  ASSUME NEW g \in [Datasets -> State], GoodSnapshots(g), OriginsExist(g),
         NEW d \in Datasets, HasLatest(g, d), Undepended(g, d)
  PROVE /\ DestroyLatest(g, d) \in [Datasets -> State]
        /\ GoodSnapshots(DestroyLatest(g, d))
        /\ OriginsExist(DestroyLatest(g, d))
<1> DEFINE h == DestroyLatest(g, d)
<1>1. h \in [Datasets -> State]
  BY DEF DestroyLatest, State
<1>2. g[d].data # None
  BY DEF GoodSnapshots, HasLatest, Gone
<1>3. /\ h[d].data = g[d].data /\ h[d].latest = None
      /\ h[d].origin = g[d].origin
      /\ \A e \in Datasets \ {d} : h[e] = g[e]
  BY DEF DestroyLatest, State
<1>4. GoodSnapshots(h)
  BY <1>2, <1>3 DEF GoodSnapshots
<1>5. OriginsExist(h)
  BY <1>3 DEF OriginsExist, Undepended, HasLatest, Dependents
<1> QED
  BY <1>1, <1>4, <1>5

LEMMA TakeLatestGood ==
  ASSUME NEW g \in [Datasets -> State], GoodSnapshots(g), OriginsExist(g),
         NEW d \in Datasets, ~HasLatest(g, d), g[d].data \in ok
  PROVE /\ TakeLatest(g, d) \in [Datasets -> State]
        /\ GoodSnapshots(TakeLatest(g, d)) /\ OriginsExist(TakeLatest(g, d))
  BY DEF GoodSnapshots, OriginsExist, HasLatest, TakeLatest, State

LEMMA PromoteGood ==
  ASSUME NEW g \in [Datasets -> State], GoodSnapshots(g), OriginsExist(g),
         NEW d \in Datasets, g[d].origin # None, ~HasLatest(g, d)
  PROVE /\ Promote(g, d) \in [Datasets -> State]
        /\ GoodSnapshots(Promote(g, d)) /\ OriginsExist(Promote(g, d))
<1> DEFINE s == g[d].origin
           o == Owner(g, s)
           h == Promote(g, d)
<1>1. o \in Datasets /\ g[o].latest = s
  BY DEF OriginsExist, Owner
<1>2. h \in [Datasets -> State]
  BY <1>1 DEF Promote, State
<1>3. h[d].latest = s /\ h[d].origin = g[o].origin
  BY <1>1 DEF Promote, State
<1>4. \A e \in Datasets \ {d} :
        IF g[e].latest = s THEN h[e].latest = None /\ h[e].origin = s
        ELSE h[e] = g[e]
  BY <1>1 DEF Promote, State
<1>5. GoodSnapshots(h)
  <2>1. \A e \in Datasets : h[e].data = g[e].data
    BY DEF Promote, State
  <2>2. \A e \in Datasets : g[e].data = None => e # d /\ g[e].latest # s
    BY DEF GoodSnapshots, Gone
  <2>3. \A e \in Datasets : h[e].data = None => h[e] = Gone
    BY <1>4, <2>1, <2>2 DEF GoodSnapshots
  <2>4. \A e \in Datasets : /\ h[e].latest \in ok \cup {None}
                            /\ h[e].origin \in ok \cup {None}
    BY <1>1, <1>3, <1>4 DEF GoodSnapshots
  <2> QED
    BY <2>3, <2>4 DEF GoodSnapshots
<1>6. OriginsExist(h)
  <2>1. ASSUME NEW t \in Runs, NEW e \in Datasets, g[e].latest = t
        PROVE \E f \in Datasets : h[f].latest = t
    BY <2>1, <1>3, <1>4 DEF HasLatest
  <2>2. ASSUME NEW e \in Datasets, g[e].origin # None
        PROVE \E f \in Datasets : h[f].latest = g[e].origin
    BY <2>1, <2>2 DEF OriginsExist, State
  <2>3. SUFFICES ASSUME NEW e \in Datasets, h[e].origin # None
                 PROVE \E f \in Datasets : h[f].latest = h[e].origin
    BY DEF OriginsExist
  <2>4. CASE e = d
    BY <1>1, <1>3, <2>2, <2>3, <2>4
  <2>5. CASE e # d /\ g[e].latest = s
    BY <1>3, <1>4, <2>5
  <2>6. CASE e # d /\ g[e].latest # s
    BY <1>4, <2>2, <2>3, <2>6
  <2> QED
    BY <2>4, <2>5, <2>6
<1> QED
  BY <1>2, <1>5, <1>6

\* A step that changes one cache, or none, and keeps that one well-formed.
LEMMA GraphStep ==
  ASSUME IInv, UNCHANGED ok,
         \/ UNCHANGED z
         \/ /\ k \in Caches
            /\ \E g \in [Datasets -> State] :
                 /\ GoodSnapshots(g) /\ OriginsExist(g)
                 /\ z' = [z EXCEPT ![k] = g]
  PROVE GraphInv' /\ z' \in [Caches -> [Datasets -> State]]
<1>1. z \in [Caches -> [Datasets -> State]] /\ GraphInv
  BY DEF IInv, TypeOK
<1>2. CASE UNCHANGED z
  BY <1>1, <1>2 DEF GraphInv, GoodSnapshots, OriginsExist
<1>3. ASSUME NEW g \in [Datasets -> State], k \in Caches,
             GoodSnapshots(g), OriginsExist(g), z' = [z EXCEPT ![k] = g]
      PROVE GraphInv' /\ z' \in [Caches -> [Datasets -> State]]
  <2>1. z' \in [Caches -> [Datasets -> State]]
    BY <1>1, <1>3
  <2>2. \A c \in Caches : z'[c] = IF c = k THEN g ELSE z[c]
    BY <1>1, <1>3
  <2>3. \A c \in Caches : GoodSnapshots(z'[c]) /\ OriginsExist(z'[c])
    BY <1>1, <1>3, <2>2 DEF GraphInv
  <2> QED
    BY <2>1, <2>3 DEF GraphInv, GoodSnapshots, OriginsExist
<1> QED
  BY <1>2, <1>3

\* A command that fails, or changes nothing, leaves the graph alone.
LEMMA NoChange ==
  ASSUME IInv, UNCHANGED ok, UNCHANGED z \/ z' = [z EXCEPT ![k] = z[k]]
  PROVE UNCHANGED z /\ GraphInv'
<1>1. z \in [Caches -> [Datasets -> State]] /\ GraphInv
  BY DEF IInv, TypeOK
<1>2. UNCHANGED z
  BY <1>1
<1> QED
  BY <1>1, <1>2 DEF GraphInv, GoodSnapshots, OriginsExist

USE DEF Attaching, Committing, Fault, NoFault, Works, Fails, Finds, FindsNot,
        localVars, ghostVars

\* attach_caches: a new clone is a dataset of its own, cloned from @latest.
LEMMA AttachInv ==
  ASSUME IInv, attach_caches
  PROVE IInv'
<1>0. TypeOK /\ CommitInv
  BY DEF IInv
<1>1. CASE CreateRoot \/ ProbeLatest \/ Mount
  <2>1. UNCHANGED z /\ GraphInv'
    BY <1>1, NoChange DEF CreateRoot, ProbeLatest, Mount
  <2>2. TypeOK'
    BY <1>0, <1>1, <2>1, CacheFacts DEF TypeOK, PC, CommitInv, CreateRoot,
       ProbeLatest, Mount, Abandon
  <2>3. CommitInv'
    BY <1>0, <1>1, <2>1, CacheFacts DEF CommitInv, CreateRoot, ProbeLatest,
       Mount, Abandon
  <2> QED
    BY <2>1, <2>2, <2>3 DEF IInv
<1>2. CASE Provide
  <2> DEFINE new == [data |-> run, latest |-> None,
                     origin |-> IF k \in restored THEN z[k][Base].latest
                                ELSE None]
             g == [z[k] EXCEPT ![Clone(run)] = new]
  <2>1. k \in Caches /\ run \in Runs /\ outcome = "none"
    BY <1>0, <1>2 DEF Provide, CommitInv
  <2>2. CASE UNCHANGED z /\ UNCHANGED attached /\ Abandon
    <3>1. GraphInv'
      BY <1>2, <2>2, NoChange DEF Provide
    <3>2. TypeOK'
      BY <1>0, <1>2, <2>1, <2>2, CacheFacts DEF TypeOK, PC, Provide, Abandon
    <3>3. CommitInv'
      BY <1>0, <1>2, <2>1, <2>2 DEF CommitInv, Provide, Abandon
    <3> QED
      BY <3>1, <3>2, <3>3 DEF IInv
  <2>3. CASE /\ ~Exists(z[k], Clone(run))
             /\ z' = [z EXCEPT ![k] = g]
             /\ attached' = k /\ pc' = "mount" /\ UNCHANGED k
    <3>1. new \in State /\ g \in [Datasets -> State]
      BY <1>0, <2>1, Names DEF TypeOK, State
    <3>2. GoodSnapshots(g) /\ OriginsExist(g)
      <4>1. GoodSnapshots(z[k]) /\ OriginsExist(z[k])
             /\ z[k] \in [Datasets -> State]
        BY <1>0, <2>1 DEF IInv, GraphInv, TypeOK
      <4>2. GoodSnapshots(g)
        BY <4>1, <2>1, Names DEF GoodSnapshots
      <4>3. OriginsExist(g)
        BY <4>1, <2>1, <2>3, Names DEF OriginsExist, Exists, Gone
      <4> QED
        BY <4>2, <4>3
    <3>3. GraphInv' /\ z' \in [Caches -> [Datasets -> State]]
      BY <1>2, <2>1, <2>3, <3>1, <3>2, GraphStep DEF Provide
    <3>4. TypeOK'
      BY <1>0, <1>2, <2>1, <2>3, <3>3, CacheFacts DEF TypeOK, PC, Provide
    <3>5. \A c \in Caches, r \in Runs : z'[c][Clone(r)].data \in {r, None}
      BY <1>0, <2>1, <2>3, Names DEF TypeOK, CommitInv
    <3>6. CommitInv'
      BY <1>0, <1>2, <2>1, <2>3, <3>5 DEF CommitInv, Provide
    <3> QED
      BY <3>3, <3>4, <3>6 DEF IInv
  <2> QED
    BY <1>2, <2>2, <2>3 DEF Provide
<1> QED
  BY <1>1, <1>2 DEF attach_caches

\* The loop of finish, around the commit of one cache.
LEMMA FinishInv ==
  ASSUME IInv, FinishCache \/ FinishRun \/ Discard
  PROVE IInv'
<1>0. TypeOK /\ CommitInv
  BY DEF IInv
<1>1. CASE FinishCache \/ FinishRun
  <2>1. UNCHANGED z /\ GraphInv'
    BY <1>1, NoChange DEF FinishCache, FinishRun
  <2>2. TypeOK'
    BY <1>0, <1>1, <2>1, CacheFacts DEF TypeOK, PC, CommitInv, FinishCache,
       FinishRun
  <2>3. CommitInv'
    BY <1>0, <1>1, <2>1, CacheFacts DEF TypeOK, CommitInv, FinishCache,
       FinishRun
  <2> QED
    BY <2>1, <2>2, <2>3 DEF IInv
<1>2. CASE Discard
  <2> DEFINE g == [z[k] EXCEPT ![Clone(run)] = Gone]
  <2>1. k \in Caches /\ run \in Runs
    BY <1>0, <1>2 DEF Discard, CommitInv
  <2>2. /\ GraphInv' /\ z' \in [Caches -> [Datasets -> State]]
        /\ \A c \in Caches, r \in Runs : z'[c][Clone(r)].data \in {r, None}
    <3>1. CASE UNCHANGED z
      BY <1>0, <1>2, <3>1, NoChange DEF Discard, TypeOK, CommitInv
    <3>2. CASE Works(Undepended(z[k], Clone(run)), g)
      <4>1. /\ g \in [Datasets -> State]
            /\ GoodSnapshots(g) /\ OriginsExist(g)
        BY <1>0, <2>1, <3>2, DestroyGood, Names DEF IInv, GraphInv, TypeOK
      <4>2. GraphInv' /\ z' \in [Caches -> [Datasets -> State]]
        BY <1>2, <2>1, <3>2, <4>1, GraphStep DEF Discard
      <4> QED
        BY <1>0, <2>1, <3>2, <4>2, Names DEF TypeOK, CommitInv, Gone
    <3> QED
      BY <1>2, <3>1, <3>2 DEF Discard
  <2>3. TypeOK'
    BY <1>0, <1>2, <2>1, <2>2, CacheFacts DEF TypeOK, PC, Discard, NextCache
  <2>4. CommitInv'
    BY <1>0, <1>2, <2>1, <2>2 DEF CommitInv, Discard, NextCache
  <2> QED
    BY <2>2, <2>3, <2>4 DEF IInv
<1> QED
  BY <1>1, <1>2

\* Every command of commit_cache keeps the graph well-formed, and what it
\* makes the base is the clone of a successful run.
LEMMA CommitStepInv ==
  ASSUME IInv, commit_cache
  PROVE IInv'
<1> DEFINE Framed ==
             \A c \in Caches, r \in Runs : z'[c][Clone(r)].data \in {r, None}
           Based == pc' \in {"dropOld", "dropLatest", "snapshot"} =>
                      z'[k][Base].data = run
           Typed == z' \in [Caches -> [Datasets -> State]]
<1> USE DEF AfterOld
<1>0. TypeOK /\ CommitInv /\ GraphInv
  BY DEF IInv
<1>1. /\ k \in Caches /\ run \in Runs /\ run \in ok /\ outcome = "success"
      /\ pc \in Committing
      /\ UNCHANGED <<localVars, begun, ok, ended, last>>
  BY <1>0 DEF CommitInv, commit_cache, CommitStep, Inherit, PromoteClone,
     ProbeBase, RenameAside, RenameToBase, DropOld, DropLatest, SnapshotLatest
<1>2. z[k] \in [Datasets -> State] /\ GoodSnapshots(z[k]) /\ OriginsExist(z[k])
  BY <1>0, <1>1 DEF TypeOK, GraphInv
<1>3. /\ (pc' \in Committing /\ k' = k) \/ NextCache
      /\ faults' \in Nat /\ hurt' \in SUBSET Runs
  BY <1>0, <1>1 DEF TypeOK, commit_cache, CommitStep, NextCache, Inherit,
     PromoteClone, ProbeBase, RenameAside, RenameToBase, DropOld, DropLatest,
     SnapshotLatest
<1>4. ASSUME GraphInv', Typed, Framed, Based
      PROVE IInv'
  <2>1. TypeOK'
    BY <1>0, <1>1, <1>3, <1>4, CacheFacts DEF TypeOK, PC, NextCache
  <2>2. CommitInv'
    BY <1>0, <1>1, <1>3, <1>4 DEF CommitInv, NextCache
  <2> QED
    BY <1>4, <2>1, <2>2 DEF IInv
<1>5. ASSUME NEW g \in [Datasets -> State], z' = [z EXCEPT ![k] = g],
             GoodSnapshots(g), OriginsExist(g),
             \A r \in Runs : g[Clone(r)].data \in {r, None},
             pc' \in {"dropOld", "dropLatest", "snapshot"} =>
               g[Base].data = run
      PROVE IInv'
  <2>1. GraphInv' /\ Typed
    BY <1>1, <1>5, GraphStep
  <2>2. Framed /\ Based
    BY <1>0, <1>1, <1>5 DEF TypeOK, CommitInv
  <2> QED
    BY <2>1, <2>2, <1>4
<1>6. ASSUME UNCHANGED z, pc' \notin {"dropOld", "dropLatest", "snapshot"}
      PROVE IInv'
  BY <1>0, <1>1, <1>4, <1>6, NoChange DEF TypeOK, CommitInv
<1>7. ASSUME NextCache, UNCHANGED z
      PROVE IInv'
  BY <1>6, <1>7 DEF NextCache
<1>8. CASE Inherit
  <2>1. UNCHANGED z
    BY <1>0, <1>1, <1>8, NoChange DEF Inherit, CommitStep
  <2> QED
    BY <1>6, <1>8, <2>1 DEF Inherit, CommitStep, NextCache
<1>9. CASE ProbeBase
  BY <1>6, <1>9 DEF ProbeBase
<1>10. CASE PromoteClone
  <2> DEFINE g == Promote(z[k], Clone(run))
  <2>1. CASE NextCache /\ UNCHANGED z
    BY <1>7, <2>1
  <2>2. CASE /\ z[k][Clone(run)].origin # None
             /\ ~HasLatest(z[k], Clone(run))
             /\ z' = [z EXCEPT ![k] = g] /\ pc' = "base"
    <3>1. /\ g \in [Datasets -> State]
          /\ GoodSnapshots(g) /\ OriginsExist(g)
      BY <1>1, <1>2, <2>2, PromoteGood, Names
    <3>2. \A d \in Datasets : g[d].data = z[k][d].data
      BY <1>2 DEF Promote, State
    <3>3. \A r \in Runs : g[Clone(r)].data \in {r, None}
      BY <1>0, <1>1, <3>2, Names DEF CommitInv
    <3> QED
      BY <1>5, <2>2, <3>1, <3>3
  <2> QED
    BY <1>10, <2>1, <2>2 DEF PromoteClone, CommitStep
<1>11. CASE RenameAside
  <2> DEFINE g == Rename(z[k], Base, Old(run))
  <2>1. CASE NextCache /\ UNCHANGED z
    BY <1>7, <2>1
  <2>2. CASE /\ ~Exists(z[k], Old(run))
             /\ z' = [z EXCEPT ![k] = g] /\ pc' = "swapOver"
    <3>1. /\ g \in [Datasets -> State]
          /\ GoodSnapshots(g) /\ OriginsExist(g)
      BY <1>1, <1>2, <2>2, RenameGood, Names
    <3>2. \A r \in Runs : g[Clone(r)].data \in {r, None}
      BY <1>0, <1>1, <1>2, Names DEF CommitInv, Rename
    <3> QED
      BY <1>5, <2>2, <3>1, <3>2
  <2> QED
    BY <1>11, <2>1, <2>2 DEF RenameAside, CommitStep
<1>12. ASSUME NEW at \in {"swap", "swapOver"}, RenameToBase(at)
       PROVE IInv'
  <2> DEFINE g == Rename(z[k], Clone(run), Base)
  <2>1. CASE NextCache /\ UNCHANGED z
    BY <1>7, <2>1
  <2>2. CASE /\ Exists(z[k], Clone(run)) /\ ~Exists(z[k], Base)
             /\ z' = [z EXCEPT ![k] = g]
    <3>1. /\ g \in [Datasets -> State]
          /\ GoodSnapshots(g) /\ OriginsExist(g)
      BY <1>1, <1>2, <2>2, RenameGood, Names
    <3>2. \A r \in Runs : g[Clone(r)].data \in {r, None}
      BY <1>0, <1>1, <1>2, Names DEF CommitInv, Rename, Gone
    <3>3. g[Base].data = run
      <4>1. g[Base] = z[k][Clone(run)]
        BY <1>1, <1>2, Names DEF Rename
      <4>2. z[k][Clone(run)].data # None
          BY <1>1, <1>2, <2>2, Names DEF Exists, GoodSnapshots
      <4> QED
        BY <1>0, <1>1, <4>1, <4>2 DEF CommitInv
    <3> QED
      BY <1>5, <2>2, <3>1, <3>2, <3>3
  <2> QED
    BY <1>12, <2>1, <2>2 DEF RenameToBase, CommitStep
<1>13. CASE DropOld
  <2> DEFINE g == [z[k] EXCEPT ![Old(run)] = Gone]
  <2>1. CASE NextCache /\ UNCHANGED z
    BY <1>7, <2>1
  <2>2. CASE Undepended(z[k], Old(run)) /\ z' = [z EXCEPT ![k] = g]
    <3>1. /\ g \in [Datasets -> State]
          /\ GoodSnapshots(g) /\ OriginsExist(g)
      BY <1>1, <1>2, <2>2, DestroyGood, Names
    <3>2. \A r \in Runs : g[Clone(r)].data \in {r, None}
      BY <1>0, <1>1, <1>2, Names DEF CommitInv
    <3>3. g[Base].data = run
      BY <1>0, <1>1, <1>2, <1>13, Names DEF CommitInv, DropOld, CommitStep
    <3> QED
      BY <1>5, <2>2, <3>1, <3>2, <3>3
  <2> QED
    BY <1>13, <2>1, <2>2 DEF DropOld, CommitStep
<1>14. CASE DropLatest
  <2> DEFINE g == DestroyLatest(z[k], Base)
  <2>1. CASE NextCache /\ UNCHANGED z
    BY <1>7, <2>1
  <2>2. CASE /\ HasLatest(z[k], Base) /\ Undepended(z[k], Base)
             /\ z' = [z EXCEPT ![k] = g]
    <3>1. /\ g \in [Datasets -> State]
          /\ GoodSnapshots(g) /\ OriginsExist(g)
      BY <1>1, <1>2, <2>2, DestroyLatestGood, Names
    <3>2. \A d \in Datasets : g[d].data = z[k][d].data
      BY <1>2 DEF DestroyLatest, State
    <3>3. /\ \A r \in Runs : g[Clone(r)].data \in {r, None}
          /\ g[Base].data = run
      BY <1>0, <1>1, <1>14, <3>2, Names DEF CommitInv, DropLatest, CommitStep
    <3> QED
      BY <1>5, <2>2, <3>1, <3>3
  <2> QED
    BY <1>14, <2>1, <2>2 DEF DropLatest, CommitStep
<1>15. CASE SnapshotLatest
  <2> DEFINE g == TakeLatest(z[k], Base)
  <2>1. CASE NextCache /\ UNCHANGED z
    BY <1>7, <2>1
  <2>2. CASE ~HasLatest(z[k], Base) /\ z' = [z EXCEPT ![k] = g]
    <3>1. z[k][Base].data = run
      BY <1>0, <1>15 DEF CommitInv, SnapshotLatest, CommitStep
    <3>2. /\ g \in [Datasets -> State]
          /\ GoodSnapshots(g) /\ OriginsExist(g)
      BY <1>1, <1>2, <2>2, <3>1, TakeLatestGood, Names
    <3>3. \A d \in Datasets : g[d].data = z[k][d].data
      BY <1>2 DEF TakeLatest, State
    <3>4. /\ \A r \in Runs : g[Clone(r)].data \in {r, None}
          /\ g[Base].data = run
      BY <1>0, <1>1, <3>1, <3>3, Names DEF CommitInv
    <3> QED
      BY <1>5, <2>2, <3>2, <3>4
  <2> QED
    BY <1>15, <2>1, <2>2 DEF SnapshotLatest, CommitStep
<1> QED
  BY <1>8, <1>9, <1>10, <1>11, <1>12, <1>13, <1>14, <1>15 DEF commit_cache

\* The remaining steps do not touch ZFS, and none forgets a success.
LEMMA OtherInv ==
  ASSUME IInv, (\E r \in Runs : Begin(r)) \/ Steps \/ Crash \/ UNCHANGED vars
  PROVE IInv'
<1>0. TypeOK /\ CommitInv /\ GraphInv
  BY DEF IInv
<1>1. UNCHANGED z /\ ok \subseteq ok' /\ ok' \subseteq Runs
  BY <1>0 DEF Begin, Steps, Crash, vars, TypeOK, CommitInv
<1>2. TypeOK'
  BY <1>0, <1>1, CacheFacts
  DEF TypeOK, CommitInv, PC, Begin, Steps, Crash, vars
<1>3. CommitInv'
  BY <1>0, <1>1, CacheFacts DEF TypeOK, CommitInv, Begin, Steps, Crash, vars
<1>4. GraphInv'
  BY <1>0, <1>1 DEF GraphInv, GoodSnapshots, OriginsExist
<1> QED
  BY <1>2, <1>3, <1>4 DEF IInv

LEMMA Invariance == Spec => []IInv
<1>1. IInv /\ [Next]_vars => IInv'
  BY AttachInv, FinishInv, CommitStepInv, OtherInv DEF Next, finish
<1> QED
  BY <1>1, InitInv, PTL DEF Spec

\* A failed run never poisons the cache: whatever command fails and wherever
\* the agent dies, in any sequence of runs, @latest holds the data of a run
\* that succeeded.
THEOREM CacheNeverPoisoned == Spec => []NeverPoisoned
<1>1. IInv => NeverPoisoned
  BY Names DEF IInv, GraphInv, GoodSnapshots, NeverPoisoned, HasLatest
<1> QED
  BY <1>1, Invariance, PTL

\* The agent's bookkeeping and the dataset graph keep their shape.
THEOREM CacheTypes == Spec => []TypeOK
  BY Invariance, PTL DEF IInv

(***************************************************************************)
(* What a run without faults makes of the caches.                          *)
(***************************************************************************)

\* Run r has no dataset of its own.
Clear(g, r) == ~Exists(g, Clone(r)) /\ ~Exists(g, Old(r))

\* The run's clone of cache c waits for the end of the run.
Ready(c) ==
  /\ Exists(z[c], Clone(run)) /\ ~HasLatest(z[c], Clone(run))
  /\ ~Exists(z[c], Old(run))
  /\ c \in restored => /\ HasLatest(z[c], Base)
                       /\ z[c][Clone(run)].origin = z[c][Base].latest
  /\ c \notin restored => /\ ~HasLatest(z[c], Base)
                          /\ z[c][Clone(run)].origin = None

\* Cache c has been committed or discarded.
Settled(c) ==
  /\ Clear(z[c], run)
  /\ outcome = "success" => HasLatest(z[c], Base)
  /\ outcome = "success" /\ faults = 0 => z[c][Base].latest = run

\* The course of commit_cache, or of the discard, on the cache at hand.
CommitAt ==
  LET g == z[k] IN
  /\ pc \in {"discard", "inherit", "promote"} => Ready(k)
  /\ pc = "discard" => outcome # "success"
  /\ pc = "promote" => k \in restored
  /\ pc \in {"base", "aside", "swap", "swapOver"} =>
       /\ Exists(g, Clone(run))
       /\ HasLatest(g, Clone(run)) <=> k \in restored
       /\ faults = 0 => g[Clone(run)].origin = None
       /\ ~HasLatest(g, Base)
  /\ pc \in {"base", "aside", "swap"} => ~Exists(g, Old(run))
  /\ pc = "aside" => Exists(g, Base)
  /\ pc \in {"swap", "swapOver"} => ~Exists(g, Base)
  /\ pc \in {"swapOver", "dropOld"} =>
       Exists(g, Old(run)) /\ ~HasLatest(g, Old(run))
  /\ pc \in {"dropOld", "dropLatest", "snapshot"} =>
       ~Exists(g, Clone(run)) /\ Exists(g, Base)
  /\ pc = "dropOld" => (HasLatest(g, Base) <=> k \in restored)
  /\ pc \in {"dropLatest", "snapshot"} => ~Exists(g, Old(run))
  /\ pc = "dropLatest" => HasLatest(g, Base)
  /\ pc = "snapshot" => ~HasLatest(g, Base)

\* A run that has met no fault so far: where it stands with every cache.
Unhurt ==
  /\ pc \in Attaching =>
       /\ attached = IF pc = "mount" THEN k ELSE k - 1
       /\ \A c \in restored : c <= attached \/ (c = k /\ pc = "provide")
       /\ \A c \in Caches : IF c <= attached THEN Ready(c) ELSE Clear(z[c], run)
       /\ pc = "root" => k = 1
       /\ pc = "provide" => (k \in restored <=> HasLatest(z[k], Base))
  /\ pc \notin Attaching =>
       /\ attached = NCaches
       /\ pc = "steps" => \A c \in Caches : Ready(c)
       /\ pc # "steps" =>
          /\ \A c \in Caches : /\ c < k => Settled(c)
                               /\ c > k \/ (c = k /\ pc = "finish") => Ready(c)
          /\ pc # "finish" => CommitAt

\* No cache is a clone of what it has replaced, except while a promoted clone
\* waits to take its place.
Loose == \A c \in Caches :
           z[c][Base].origin = None \/ (c = k /\ pc \in {"base", "aside"})

\* What the runs before this one have left behind, and that without faults
\* nothing holds on to a snapshot.
RunsInv ==
  /\ ended \subseteq begun
  /\ pc # "idle" => run \in begun \ ended
  /\ \A c \in Caches, r \in Runs :
       r \notin begun \/ r \in ended \ hurt => Clear(z[c], r)
  /\ faults = 0 => hurt = {}
  /\ faults = 0 => \A r \in begun \ ended : pc # "idle" /\ r = run
  /\ faults = 0 => Loose

TidyInv ==
  /\ RunsInv
  /\ pc # "idle" /\ run \notin hurt => Unhurt
  /\ WarmAfterSuccess

\* A dataset is there if it has data, and so has one with a snapshot.
LEMMA ExistsIsData ==
  ASSUME NEW g, \A d \in Datasets : g[d].data = None => g[d] = Gone,
         NEW d \in Datasets
  PROVE /\ Exists(g, d) <=> g[d].data # None
        /\ HasLatest(g, d) => Exists(g, d)
        /\ g[d].origin # None => Exists(g, d)
  BY DEF Exists, HasLatest, Gone

\* So it is in every cache, before and after a step.
LEMMA Whole ==
  ASSUME IInv
  PROVE \A c \in Caches, d \in Datasets :
          /\ Exists(z[c], d) <=> z[c][d].data # None
          /\ HasLatest(z[c], d) => Exists(z[c], d)
          /\ z[c][d].origin # None => Exists(z[c], d)
  BY ExistsIsData DEF IInv, GraphInv, GoodSnapshots

LEMMA WholeNext ==
  ASSUME IInv'
  PROVE \A c \in Caches, d \in Datasets :
          /\ Exists(z'[c], d) <=> z'[c][d].data # None
          /\ HasLatest(z'[c], d) => Exists(z'[c], d)
          /\ z'[c][d].origin # None => Exists(z'[c], d)
  BY ExistsIsData DEF IInv, GraphInv, GoodSnapshots

LEMMA TidyInit == Init => TidyInv
<1> SUFFICES ASSUME Init PROVE TidyInv
  OBVIOUS
<1>1. \A c \in Caches, d \in Datasets : z[c][d] = Gone
  BY DEF Init
<1>2. RunsInv
  BY <1>1, Names DEF Init, RunsInv, Loose, Clear, Exists, Gone
<1> QED BY <1>2 DEF Init, TidyInv, WarmAfterSuccess

\* A command that works changes one cache.
LEMMA OneCache ==
  ASSUME IInv, k \in Caches, NEW g, z' = [z EXCEPT ![k] = g]
  PROVE z'[k] = g /\ \A c \in Caches : c # k => z'[c] = z[c]
  BY DEF IInv, TypeOK

\* A command touches no datasets but the cache itself and those of its run.
LEMMA OwnNames ==
  ASSUME IInv, Next, pc # "idle", NEW c \in Caches,
         NEW d \in Datasets \ {Base, Clone(run), Old(run)}
  PROVE z'[c][d].data = z[c][d].data
<1> DEFINE Kept(g) == g[d].data = z[k][d].data
<1>1. /\ run \in Runs /\ z \in [Caches -> [Datasets -> State]]
      /\ pc \in Attaching \cup Committing \cup {"discard"} => k \in Caches
  BY DEF IInv, TypeOK, CommitInv
<1>2. Base \in Datasets /\ Clone(run) \in Datasets /\ Old(run) \in Datasets
  BY <1>1, Names
<1>3. ASSUME NEW g, z' = [z EXCEPT ![k] = g], k \in Caches, Kept(g)
      PROVE z'[c][d].data = z[c][d].data
  BY <1>3, OneCache
<1>4. ASSUME UNCHANGED z PROVE z'[c][d].data = z[c][d].data
  BY <1>4
<1>5. ASSUME k \in Caches PROVE z[k] \in [Datasets -> State]
  BY <1>1, <1>5
<1>6. CASE CreateRoot \/ ProbeLatest \/ Mount \/ Inherit
  <2>1. k \in Caches /\ (UNCHANGED z \/ z' = [z EXCEPT ![k] = z[k]])
    BY <1>1, <1>6 DEF CreateRoot, ProbeLatest, Mount, Inherit, CommitStep
  <2> QED BY <1>3, <1>4, <2>1
<1>7. CASE Provide \/ Discard \/ DropOld
  <2>1. PICK e, s :
          /\ e \in {Clone(run), Old(run)} /\ k \in Caches
          /\ UNCHANGED z \/ z' = [z EXCEPT ![k] = [z[k] EXCEPT ![e] = s]]
    BY <1>1, <1>7 DEF Provide, Discard, DropOld, CommitStep
  <2>2. Kept([z[k] EXCEPT ![e] = s])
    BY <1>2, <1>5, <2>1
  <2> HIDE DEF Kept
  <2> QED BY <1>3, <1>4, <2>1, <2>2
<1>8. CASE PromoteClone
  <2>1. /\ k \in Caches
        /\ UNCHANGED z \/ z' = [z EXCEPT ![k] = Promote(z[k], Clone(run))]
    BY <1>1, <1>8 DEF PromoteClone, CommitStep
  <2>2. Kept(Promote(z[k], Clone(run)))
    BY <1>2, <1>5, <2>1 DEF Promote, State
  <2> HIDE DEF Kept
  <2> QED BY <1>3, <1>4, <2>1, <2>2
<1>9. CASE RenameAside \/ RenameToBase("swap") \/ RenameToBase("swapOver")
  <2>1. PICK e \in {Base, Clone(run)}, f \in {Base, Old(run)} :
          k \in Caches /\ (UNCHANGED z \/ z' = [z EXCEPT ![k] = Rename(z[k], e, f)])
    BY <1>1, <1>9 DEF RenameAside, RenameToBase, CommitStep
  <2>2. Kept(Rename(z[k], e, f))
    BY <1>2, <1>5, <2>1 DEF Rename
  <2> HIDE DEF Kept
  <2> QED BY <1>3, <1>4, <2>1, <2>2
<1>10. CASE DropLatest \/ SnapshotLatest
  <2>1. /\ k \in Caches
        /\ \/ UNCHANGED z
           \/ z' = [z EXCEPT ![k] = DestroyLatest(z[k], Base)]
           \/ z' = [z EXCEPT ![k] = TakeLatest(z[k], Base)]
    BY <1>1, <1>10 DEF DropLatest, SnapshotLatest, CommitStep
  <2>2. Kept(DestroyLatest(z[k], Base)) /\ Kept(TakeLatest(z[k], Base))
    BY <1>2, <1>5, <2>1 DEF DestroyLatest, TakeLatest
  <2> HIDE DEF Kept
  <2> QED BY <1>3, <1>4, <2>1, <2>2
<1>11. CASE FinishCache \/ FinishRun \/ ProbeBase \/ Steps \/ Crash
  BY <1>4, <1>11 DEF FinishCache, FinishRun, ProbeBase, Steps, Crash
<1> QED
  BY <1>6, <1>7, <1>8, <1>9, <1>10, <1>11
     DEF Next, Begin, attach_caches, finish, commit_cache

\* Nothing has disturbed the cache at hand or, here, the others.
LEMMA Same ==
  ASSUME NEW c \in Caches, z'[c] = z[c],
         UNCHANGED <<run, restored, outcome, faults>>
  PROVE /\ Ready(c) => Ready(c)'
        /\ Settled(c) => Settled(c)'
        /\ Clear(z[c], run) => Clear(z'[c], run')
  BY DEF Ready, Settled, Clear, Exists, HasLatest

\* A step of commit_cache, or the discard, of a run without faults: it goes
\* on with the cache at hand, or is done with it.
LEMMA CommitFrame ==
  ASSUME IInv, Unhurt, k \in Caches, pc \in Committing \cup {"discard"},
         UNCHANGED <<run, attached, restored, outcome, faults>>,
         \A c \in Caches : c # k => z'[c] = z[c],
         \/ k' = k /\ pc' \in Committing /\ CommitAt'
         \/ /\ k' = k + 1 /\ pc' = "finish"
            /\ \A c \in Caches : c = k => Settled(c)'
  PROVE Unhurt'
<1>1. /\ attached = NCaches
      /\ \A c \in Caches : (c < k => Settled(c)) /\ (c > k => Ready(c))
  BY DEF Unhurt
<1>2. k \in Nat /\ \A c \in Caches : c \in Nat
  BY DEF Caches
<1>3. \A c \in Caches : (c < k => Settled(c)') /\ (c > k => Ready(c)')
  BY <1>1, <1>2, Same
<1>4. CASE k' = k /\ pc' \in Committing /\ CommitAt'
  BY <1>1, <1>3, <1>4 DEF Unhurt
<1>5. CASE /\ k' = k + 1 /\ pc' = "finish"
           /\ \A c \in Caches : c = k => Settled(c)'
  <2>1. \A c \in Caches : c < k + 1 => c < k \/ c = k
    BY <1>2
  <2>2. \A c \in Caches : c > k + 1 \/ c = k + 1 => c > k
    BY <1>2
  <2>3. \A c \in Caches : c < k' => Settled(c)'
    BY <1>3, <1>5, <2>1
  <2>4. \A c \in Caches : c > k' \/ c = k' => Ready(c)'
    BY <1>3, <1>5, <2>2
  <2> QED BY <1>1, <1>5, <2>3, <2>4 DEF Unhurt
<1> QED BY <1>4, <1>5

\* Without faults nothing but the base of a cache and the datasets of the run
\* at work is there.
LEMMA NothingElse ==
  ASSUME IInv, RunsInv, faults = 0, NEW c \in Caches,
         NEW d \in Datasets \ {Base, Clone(run), Old(run)}
  PROVE z[c][d].origin = None
<1>1. PICK r \in Runs : r # run /\ d \in {Clone(r), Old(r)}
  BY DEF Datasets
<1>2. Clear(z[c], r)
  BY <1>1 DEF RunsInv
<1> QED BY <1>1, <1>2 DEF Clear, Exists, Gone

LEMMA TidyCommit ==
  ASSUME IInv, IInv', TidyInv, commit_cache \/ Discard, run \notin hurt'
  PROVE Unhurt' /\ (faults = 0 => Loose')
<1>0. TypeOK /\ CommitInv
  BY DEF IInv
<1>1. /\ k \in Caches /\ run \in Runs /\ run \notin hurt
      /\ pc \in Committing \cup {"discard"}
      /\ UNCHANGED <<run, attached, restored, outcome, faults>>
  BY <1>0 DEF CommitInv, commit_cache, CommitStep, Inherit, PromoteClone,
     ProbeBase, RenameAside, RenameToBase, DropOld, DropLatest, SnapshotLatest,
     Discard
<1>2. /\ Unhurt /\ CommitAt /\ RunsInv
      /\ faults = 0 => Loose
  BY <1>1 DEF TidyInv, Unhurt, RunsInv, Loose
<1>3. /\ z[k] \in [Datasets -> State]
      /\ Base \in Datasets /\ Clone(run) \in Datasets /\ Old(run) \in Datasets
      /\ Base # Clone(run) /\ Base # Old(run) /\ Clone(run) # Old(run)
  BY <1>0, <1>1, Names DEF TypeOK
<1>4. \A d \in Datasets :
          /\ Exists(z[k], d) <=> z[k][d].data # None
          /\ HasLatest(z[k], d) => Exists(z[k], d)
          /\ z[k][d].origin # None => Exists(z[k], d)
  BY <1>1, Whole
<1>5. \A d \in Datasets :
          /\ Exists(z'[k], d) <=> z'[k][d].data # None
          /\ HasLatest(z'[k], d) => Exists(z'[k], d)
          /\ z'[k][d].origin # None => Exists(z'[k], d)
  BY <1>1, WholeNext
<1> DEFINE Goal == Unhurt' /\ (faults = 0 => Loose')
<1>6. ASSUME \A c \in Caches : c # k => z'[c] = z[c],
             k' = k /\ pc' \in Committing /\ CommitAt',
             faults = 0 => \/ z'[k][Base].origin = None
                           \/ pc' \in {"base", "aside"}
      PROVE Goal
  <2>1. Unhurt'
    BY <1>1, <1>2, <1>6, CommitFrame
  <2> QED BY <1>2, <1>6, <2>1 DEF Loose
<1>7. ASSUME \A c \in Caches : c # k => z'[c] = z[c],
             k' = k + 1 /\ pc' = "finish",
             \A c \in Caches : c = k => Settled(c)',
             faults = 0 => z'[k][Base].origin = None
      PROVE Goal
  <2>1. Unhurt'
    BY <1>1, <1>2, <1>7, CommitFrame
  <2> QED BY <1>2, <1>7, <2>1 DEF Loose
<1> SUFFICES Goal
  OBVIOUS
<1> HIDE DEF Goal
<1>8. CASE Inherit
  <2>1. /\ z' = [z EXCEPT ![k] = z[k]]
        /\ pc = "inherit" /\ k' = k
        /\ pc' = IF k \in restored THEN "promote" ELSE "base"
    BY <1>1, <1>2, <1>8 DEF Inherit, CommitStep, CommitAt, Ready
  <2>2. z' = z
    BY <1>0, <2>1 DEF TypeOK
  <2>3. Ready(k) /\ Ready(k)'
    BY <1>1, <1>2, <2>1, <2>2, Same DEF CommitAt
  <2>4. CommitAt'
    BY <1>1, <2>1, <2>2, <2>3 DEF CommitAt, Ready
  <2> QED BY <1>1, <1>2, <1>6, <2>1, <2>2, <2>4 DEF Loose
<1>9. CASE ProbeBase
  <2>1. /\ z' = z /\ k' = k /\ pc = "base"
        /\ IF Exists(z[k], Base) THEN pc' = "aside" ELSE pc' = "swap"
    BY <1>1, <1>9 DEF ProbeBase
  <2>2. CommitAt'
    BY <1>1, <1>2, <2>1 DEF CommitAt, Ready
  <2>3. ~Exists(z[k], Base) => z[k][Base].origin = None
    BY <1>3, <1>4
  <2> QED BY <1>6, <2>1, <2>2, <2>3
<1>10. CASE PromoteClone
  <2> DEFINE g == Promote(z[k], Clone(run))
             s == z[k][Clone(run)].origin
  <2>1. Ready(k) /\ k \in restored /\ pc = "promote"
    BY <1>2, <1>10 DEF PromoteClone, CommitStep, CommitAt
  <2>2. s # None /\ z[k][Base].latest = s /\ ~HasLatest(z[k], Clone(run))
    BY <2>1 DEF Ready, HasLatest
  <2>3. z' = [z EXCEPT ![k] = g] /\ pc' = "base" /\ k' = k
    BY <1>1, <2>2, <1>10 DEF PromoteClone, CommitStep
  <2>4. z'[k] = g /\ \A c \in Caches : c # k => z'[c] = z[c]
    BY <1>1, <2>3, OneCache
  <2>5. /\ g[Clone(run)].latest = s /\ g[Base].latest = None
        /\ \A d \in Datasets : g[d].data = z[k][d].data
        /\ g[Clone(run)].origin = z[k][Owner(z[k], s)].origin
    BY <1>3, <2>2 DEF Promote, State
  <2>6. faults = 0 => g[Clone(run)].origin = None
    <3>1. SUFFICES ASSUME faults = 0 PROVE z[k][Owner(z[k], s)].origin = None
      BY <2>5
    <3>2. Owner(z[k], s) \in Datasets /\ z[k][Owner(z[k], s)].latest = s
      BY <1>3, <2>2 DEF Owner
    <3>3. Owner(z[k], s) # Clone(run) /\ Owner(z[k], s) # Old(run)
      BY <1>3, <1>4, <2>1, <2>2, <3>2 DEF Ready, HasLatest
    <3>4. z[k][Base].origin = None
      BY <1>1, <1>2, <2>1, <3>1 DEF Loose
    <3> QED BY <1>1, <1>2, <3>1, <3>2, <3>3, <3>4, NothingElse
  <2>7. CommitAt'
    <3>1. Exists(z'[k], Clone(run)) /\ ~Exists(z'[k], Old(run))
      BY <1>3, <1>4, <1>5, <2>1, <2>4, <2>5 DEF Ready
    <3>2. HasLatest(z'[k], Clone(run)) /\ ~HasLatest(z'[k], Base)
      BY <2>2, <2>4, <2>5 DEF HasLatest
    <3> HIDE DEF g
    <3> QED BY <1>1, <2>1, <2>3, <2>4, <2>6, <3>1, <3>2 DEF CommitAt
  <2> QED BY <1>6, <2>3, <2>4, <2>7
<1>11. CASE RenameAside
  <2> DEFINE g == Rename(z[k], Base, Old(run))
  <2>1. /\ z' = [z EXCEPT ![k] = g] /\ k' = k
        /\ pc = "aside" /\ pc' = "swapOver"
    BY <1>1, <1>2, <1>11 DEF RenameAside, CommitStep, CommitAt
  <2>2. z'[k] = g /\ \A c \in Caches : c # k => z'[c] = z[c]
    BY <1>1, <2>1, OneCache
  <2>3. /\ z'[k][Base] = Gone /\ z'[k][Old(run)] = z[k][Base]
        /\ z'[k][Clone(run)] = z[k][Clone(run)]
    BY <1>3, <2>2 DEF Rename
  <2> HIDE DEF g
  <2>4. CommitAt'
    BY <1>1, <1>2, <2>1, <2>3 DEF CommitAt, Exists, HasLatest, Gone
  <2> QED BY <1>6, <2>1, <2>2, <2>3, <2>4 DEF Gone
<1>12. ASSUME NEW at \in {"swap", "swapOver"}, RenameToBase(at) PROVE Goal
  <2> DEFINE g == Rename(z[k], Clone(run), Base)
  <2>1. /\ z' = [z EXCEPT ![k] = g] /\ k' = k /\ pc = at
        /\ pc' = IF at = "swapOver" THEN "dropOld"
                 ELSE IF k \in restored THEN "dropLatest" ELSE "snapshot"
    BY <1>1, <1>2, <1>12 DEF RenameToBase, CommitStep, CommitAt, AfterOld
  <2>2. z'[k] = g /\ \A c \in Caches : c # k => z'[c] = z[c]
    BY <1>1, <2>1, OneCache
  <2>3. /\ z'[k][Clone(run)] = Gone /\ z'[k][Base] = z[k][Clone(run)]
        /\ z'[k][Old(run)] = z[k][Old(run)]
    BY <1>3, <2>2 DEF Rename
  <2> HIDE DEF g
  <2>4. CommitAt'
    BY <1>1, <1>2, <2>1, <2>3 DEF CommitAt, Exists, HasLatest, Gone
  <2>5. faults = 0 => z'[k][Base].origin = None
    BY <1>2, <2>1, <2>3 DEF CommitAt
  <2> QED BY <1>6, <2>1, <2>2, <2>4, <2>5
<1>13. CASE DropOld
  <2> DEFINE g == [z[k] EXCEPT ![Old(run)] = Gone]
  <2>1. /\ z' = [z EXCEPT ![k] = g] /\ k' = k /\ pc = "dropOld"
        /\ pc' = IF k \in restored THEN "dropLatest" ELSE "snapshot"
    BY <1>1, <1>2, <1>13 DEF DropOld, CommitStep, CommitAt, AfterOld, Undepended
  <2>2. z'[k] = g /\ \A c \in Caches : c # k => z'[c] = z[c]
    BY <1>1, <2>1, OneCache
  <2>3. /\ z'[k][Clone(run)] = z[k][Clone(run)] /\ z'[k][Base] = z[k][Base]
        /\ z'[k][Old(run)] = Gone
    BY <1>3, <2>2
  <2> HIDE DEF g
  <2>4. CommitAt'
    BY <1>1, <1>2, <2>1, <2>3 DEF CommitAt, Exists, HasLatest, Gone
  <2>5. faults = 0 => z'[k][Base].origin = None
    BY <1>2, <1>1, <2>1, <2>3 DEF Loose
  <2> QED BY <1>6, <2>1, <2>2, <2>4, <2>5
<1>14. CASE DropLatest
  <2> DEFINE g == DestroyLatest(z[k], Base)
             s == z[k][Base].latest
  <2>1. /\ pc = "dropLatest"
        /\ HasLatest(z[k], Base) /\ Clear(z[k], run)
    BY <1>2, <1>14 DEF DropLatest, CommitStep, CommitAt, Clear
  <2>2. faults = 0 => Undepended(z[k], Base) /\ z[k][Base].origin = None
    <3>1. SUFFICES ASSUME faults = 0, NEW d \in Datasets
                   PROVE z[k][d].origin = None
      BY <1>3, <2>1 DEF Undepended, Dependents, HasLatest
    <3>2. z[k][Base].origin = None
      BY <1>1, <1>2, <2>1, <3>1 DEF Loose
    <3>3. z[k][Clone(run)].origin = None /\ z[k][Old(run)].origin = None
      BY <1>3, <1>4, <2>1 DEF Clear
    <3> QED BY <1>1, <1>2, <3>1, <3>2, <3>3, NothingElse
  <2>3. CASE z' = z /\ ~Undepended(z[k], Base) /\ NextCache
    <3>1. \A c \in Caches : c = k => Settled(c)'
      BY <1>1, <2>1, <2>2, <2>3 DEF Settled, Clear
    <3> QED BY <1>7, <2>2, <2>3, <3>1 DEF NextCache
  <2>4. CASE z' = [z EXCEPT ![k] = g] /\ k' = k /\ pc' = "snapshot"
    <3>1. z'[k] = g /\ \A c \in Caches : c # k => z'[c] = z[c]
      BY <1>1, <2>4, OneCache
    <3>2. /\ z'[k][Base].latest = None /\ z'[k][Base].data = z[k][Base].data
          /\ z'[k][Base].origin = z[k][Base].origin
          /\ z'[k][Clone(run)] = z[k][Clone(run)]
          /\ z'[k][Old(run)] = z[k][Old(run)]
      BY <1>3, <3>1 DEF DestroyLatest, State
    <3>3. /\ Exists(z'[k], Base) /\ ~HasLatest(z'[k], Base)
          /\ ~Exists(z'[k], Clone(run)) /\ ~Exists(z'[k], Old(run))
      BY <1>3, <1>4, <1>5, <2>1, <3>2 DEF Clear, HasLatest, Exists
    <3>4. CommitAt'
      BY <1>1, <2>4, <3>3 DEF CommitAt
    <3> QED BY <1>6, <2>2, <2>4, <3>1, <3>2, <3>4
  <2> QED BY <1>1, <1>14, <2>1, <2>3, <2>4 DEF DropLatest, CommitStep
<1>15. CASE SnapshotLatest
  <2> DEFINE g == TakeLatest(z[k], Base)
  <2>1. /\ z' = [z EXCEPT ![k] = g] /\ pc = "snapshot"
        /\ pc' = "finish" /\ k' = k + 1 /\ Clear(z[k], run)
    BY <1>1, <1>2, <1>15 DEF SnapshotLatest, CommitStep, CommitAt, Clear
  <2>2. z'[k] = g /\ \A c \in Caches : c # k => z'[c] = z[c]
    BY <1>1, <2>1, OneCache
  <2>3. z[k][Base].data = run /\ run # None
    BY <1>0, <1>1, <2>1 DEF CommitInv
  <2>4. /\ z'[k][Base].latest = run
        /\ z'[k][Base].origin = z[k][Base].origin
        /\ z'[k][Clone(run)] = z[k][Clone(run)]
        /\ z'[k][Old(run)] = z[k][Old(run)]
    BY <1>3, <2>2, <2>3 DEF TakeLatest, State
  <2>5. \A c \in Caches : c = k => Settled(c)'
    BY <1>1, <2>1, <2>3, <2>4 DEF Settled, Clear, Exists, HasLatest
  <2>6. faults = 0 => z'[k][Base].origin = None
    BY <1>1, <1>2, <2>1, <2>4 DEF Loose
  <2> QED BY <1>7, <2>1, <2>2, <2>5, <2>6
<1>16. CASE Discard
  <2> DEFINE g == [z[k] EXCEPT ![Clone(run)] = Gone]
  <2>1. pc = "discard" /\ Ready(k) /\ outcome # "success"
    BY <1>2, <1>16 DEF Discard, CommitAt
  <2>2. /\ z' = [z EXCEPT ![k] = g]
        /\ pc' = "finish" /\ k' = k + 1
    BY <1>1, <2>1, <1>16 DEF Discard, NextCache, Ready, Undepended
  <2>3. z'[k] = g /\ \A c \in Caches : c # k => z'[c] = z[c]
    BY <1>1, <2>2, OneCache
  <2>4. /\ z'[k][Clone(run)] = Gone /\ z'[k][Old(run)] = z[k][Old(run)]
        /\ z'[k][Base] = z[k][Base]
    BY <1>3, <2>3
  <2>5. \A c \in Caches : c = k => Settled(c)'
    BY <1>1, <2>1, <2>4 DEF Settled, Clear, Exists, HasLatest, Ready
  <2>6. faults = 0 => z'[k][Base].origin = None
    BY <1>1, <1>2, <2>1, <2>4 DEF Loose
  <2> QED BY <1>7, <2>2, <2>3, <2>5, <2>6
<1> QED
  BY <1>8, <1>9, <1>10, <1>11, <1>12, <1>13, <1>14, <1>15, <1>16
     DEF commit_cache

\* A run without faults gets a clone of every cache.
LEMMA TidyAttach ==
  ASSUME IInv, IInv', TidyInv, attach_caches, run \notin hurt'
  PROVE Unhurt' /\ (faults = 0 => Loose')
<1>0. TypeOK /\ CommitInv
  BY DEF IInv
<1>1. /\ k \in Caches /\ run \in Runs /\ run \notin hurt /\ pc \in Attaching
      /\ outcome = "none"
      /\ UNCHANGED <<run, outcome, faults>>
  BY <1>0 DEF CommitInv, attach_caches, CreateRoot, ProbeLatest, Provide, Mount
<1>2. /\ Unhurt /\ RunsInv
      /\ faults = 0 => Loose
  BY <1>1 DEF TidyInv, RunsInv, Loose
<1>3. /\ z[k] \in [Datasets -> State]
      /\ Base \in Datasets /\ Clone(run) \in Datasets /\ Old(run) \in Datasets
      /\ Base # Clone(run) /\ Base # Old(run) /\ Clone(run) # Old(run)
  BY <1>0, <1>1, Names DEF TypeOK
<1>4. /\ attached = IF pc = "mount" THEN k ELSE k - 1
      /\ \A c \in restored : c <= attached \/ (c = k /\ pc = "provide")
      /\ \A c \in Caches : IF c <= attached THEN Ready(c) ELSE Clear(z[c], run)
  BY <1>1, <1>2 DEF Unhurt
<1>5. /\ k \in Nat /\ NCaches \in Nat /\ restored \subseteq Caches
      /\ \A c \in Caches : c \in Nat /\ c <= NCaches
  BY <1>0, <1>1, CachesAssumption DEF Caches, TypeOK
<1>6. CASE CreateRoot
  <2>1. UNCHANGED <<z, k, attached, restored>> /\ pc = "root" /\ pc' = "probe"
    BY <1>0, <1>1, <1>6 DEF CreateRoot, TypeOK
  <2>2. \A c \in Caches : /\ Ready(c) => Ready(c)'
                          /\ Clear(z[c], run) => Clear(z'[c], run')
    BY <1>1, <2>1, Same
  <2>3. Unhurt'
    BY <1>1, <1>4, <2>1, <2>2 DEF Unhurt
  <2> QED BY <1>2, <2>1, <2>3 DEF Loose
<1>7. CASE ProbeLatest
  <2>1. /\ UNCHANGED <<z, k, attached>> /\ pc = "probe" /\ pc' = "provide"
        /\ restored' = IF HasLatest(z[k], Base) THEN restored \cup {k}
                       ELSE restored
    BY <1>0, <1>1, <1>7 DEF ProbeLatest
  <2>2. k \notin restored /\ \A c \in Caches : c <= attached => c # k
    BY <1>4, <1>5, <2>1
  <2>3. \A c \in Caches : c <= attached => Ready(c)'
    BY <1>1, <1>4, <2>1, <2>2 DEF Ready
  <2>4. Unhurt'
    BY <1>1, <1>4, <2>1, <2>2, <2>3 DEF Unhurt
  <2> QED BY <1>2, <2>1, <2>4 DEF Loose
<1>8. CASE Provide
  <2> DEFINE new == [data |-> run, latest |-> None,
                     origin |-> IF k \in restored THEN z[k][Base].latest
                                ELSE None]
             g == [z[k] EXCEPT ![Clone(run)] = new]
  <2>1. /\ pc = "provide" /\ k \notin 1..attached
        /\ k \in restored <=> HasLatest(z[k], Base)
        /\ Clear(z[k], run)
    BY <1>1, <1>2, <1>4, <1>5, <1>8 DEF Provide, Unhurt
  <2>2. /\ z' = [z EXCEPT ![k] = g] /\ attached' = k /\ pc' = "mount"
        /\ UNCHANGED <<k, restored>>
    BY <1>1, <2>1, <1>8 DEF Provide, Clear
  <2>3. z'[k] = g /\ \A c \in Caches : c # k => z'[c] = z[c]
    BY <1>1, <2>2, OneCache
  <2>4. /\ z'[k][Clone(run)] = new /\ z'[k][Old(run)] = z[k][Old(run)]
        /\ z'[k][Base] = z[k][Base]
    BY <1>3, <2>3
  <2>5. Ready(k)'
    BY <1>1, <2>1, <2>2, <2>4 DEF Ready, Clear, Exists, HasLatest, Gone
  <2>6. \A c \in Caches : c # k => /\ Ready(c) => Ready(c)'
                                   /\ Clear(z[c], run) => Clear(z'[c], run')
    BY <1>1, <2>2, <2>3, Same
  <2>7. \A c \in Caches : IF c <= k THEN Ready(c)' ELSE Clear(z'[c], run')
    BY <1>4, <1>5, <2>1, <2>2, <2>5, <2>6
  <2>8. \A c \in restored : c <= k
    BY <1>4, <1>5, <2>1
  <2>9. Unhurt'
    BY <1>1, <2>2, <2>7, <2>8 DEF Unhurt
  <2>10. faults = 0 => Loose'
    BY <1>1, <1>2, <2>1, <2>2, <2>3, <2>4 DEF Loose
  <2> QED BY <2>9, <2>10
<1>9. CASE Mount
  <2>1. /\ UNCHANGED <<z, attached, restored>> /\ pc = "mount"
        /\ IF k = NCaches THEN pc' = "steps" /\ k' = k
           ELSE pc' = "probe" /\ k' = k + 1
    BY <1>0, <1>1, <1>9 DEF Mount, TypeOK
  <2>2. \A c \in Caches : /\ Ready(c) => Ready(c)'
                          /\ Clear(z[c], run) => Clear(z'[c], run')
    BY <1>1, <2>1, Same
  <2>3. ASSUME k = NCaches PROVE Unhurt'
    <3>1. \A c \in Caches : Ready(c)'
      BY <1>4, <1>5, <2>1, <2>2, <2>3
    <3>2. attached' = NCaches /\ pc' = "steps"
      BY <1>4, <2>1, <2>3
    <3> QED BY <3>1, <3>2 DEF Unhurt
  <2>4. ASSUME k # NCaches PROVE Unhurt'
    <3>1. /\ attached' = k' - 1 /\ pc' = "probe"
          /\ \A c \in restored' : c <= attached'
      BY <1>4, <1>5, <2>1, <2>4
    <3>2. \A c \in Caches : IF c <= attached' THEN Ready(c)' ELSE Clear(z'[c], run')
      BY <1>4, <2>1, <2>2
    <3> QED BY <3>1, <3>2 DEF Unhurt
  <2>5. faults = 0 => Loose'
    BY <1>2, <2>1 DEF Loose
  <2> QED BY <2>3, <2>4, <2>5
<1> QED
  BY <1>6, <1>7, <1>8, <1>9 DEF attach_caches

\* The steps that leave ZFS alone.
LEMMA TidyOther ==
  ASSUME IInv, IInv', TidyInv, run' \notin hurt', pc' # "idle",
         (\E r \in Runs : Begin(r)) \/ Steps \/ FinishCache
  PROVE Unhurt' /\ (faults = 0 => Loose')
<1>0. TypeOK /\ CommitInv /\ RunsInv
  BY DEF IInv, TidyInv
<1>1. UNCHANGED <<z, faults, hurt>> /\ (faults = 0 => Loose')
  BY <1>0 DEF Begin, Steps, FinishCache, RunsInv, Loose
<1>2. ASSUME NEW r \in Runs, Begin(r) PROVE Unhurt'
  <2>1. \A c \in Caches : Clear(z[c], r) /\ ~(c <= 0)
    BY <1>0, <1>2 DEF Begin, RunsInv, Caches
  <2>2. \A c \in Caches : Clear(z'[c], run')
    BY <1>1, <1>2, <2>1 DEF Begin
  <2> QED BY <1>2, <2>1, <2>2 DEF Begin, Unhurt
<1>3. CASE Steps
  <2>1. \A c \in Caches : Ready(c) /\ ~(c < 1)
    BY <1>3 DEF Steps, TidyInv, Unhurt, Caches
  <2>2. \A c \in Caches : Ready(c)'
    BY <2>1, <1>3 DEF Steps, Ready
  <2>3. attached' = NCaches
    BY <1>3 DEF Steps, TidyInv, Unhurt
  <2> QED BY <1>1, <1>3, <2>1, <2>2, <2>3 DEF Steps, Unhurt
<1>4. CASE FinishCache
  <2>1. /\ Unhurt /\ pc = "finish" /\ k <= attached
        /\ UNCHANGED <<z, k, run, attached, restored, outcome, faults>>
    BY <1>4 DEF FinishCache, TidyInv
  <2>2. attached = NCaches /\ k \in Caches
    BY <1>0, <2>1, CacheFacts DEF Unhurt, TypeOK
  <2>3. \A c \in Caches : /\ c < k => Settled(c)'
                          /\ c > k \/ c = k => Ready(c)'
    BY <2>1, <2>2, Same DEF Unhurt
  <2>4. Ready(k)
    BY <2>1, <2>2 DEF Unhurt
  <2>5. CASE pc' = "base"
    <3>1. k \notin restored
      BY <1>4, <2>5 DEF FinishCache
    <3>2. CommitAt'
      BY <2>1, <2>4, <2>5, <3>1 DEF CommitAt, Ready
    <3> QED BY <1>1, <2>1, <2>2, <2>3, <2>5, <3>2 DEF Unhurt
  <2>6. CASE pc' \in {"discard", "inherit", "promote"}
    <3>1. /\ pc' = "promote" => k \in restored
          /\ pc' = "discard" => outcome # "success"
      BY <1>4 DEF FinishCache
    <3>2. Ready(k)'
      BY <2>1, <2>4 DEF Ready
    <3>3. CommitAt'
      BY <2>1, <2>6, <3>1, <3>2 DEF CommitAt
    <3> QED BY <1>1, <2>1, <2>2, <2>3, <2>6, <3>3 DEF Unhurt
  <2> QED BY <1>4, <2>5, <2>6 DEF FinishCache
<1> QED BY <1>1, <1>2, <1>3, <1>4

\* The end of a run without faults.
LEMMA TidyEnd ==
  ASSUME IInv, TidyInv, FinishRun, run \notin hurt
  PROVE \A c \in Caches : Settled(c)
<1>1. /\ pc = "finish" /\ k > attached /\ attached = NCaches
      /\ \A c \in Caches : c < k => Settled(c)
  BY DEF FinishRun, TidyInv, Unhurt
<1>2. \A c \in Caches : c <= NCaches /\ c \in Nat
  BY CachesAssumption DEF Caches
<1>3. k \in Nat /\ NCaches \in Nat
  BY CachesAssumption DEF IInv, TypeOK, Position
<1> QED BY <1>1, <1>2, <1>3

LEMMA LooseStep ==
  ASSUME IInv, IInv', TidyInv, [Next]_vars, faults' = 0
  PROVE faults = 0 /\ hurt' = {} /\ Loose'
<1>0. TypeOK /\ RunsInv
  BY DEF IInv, TidyInv
<1>1. (faults' = faults /\ hurt' = hurt) \/ faults' = faults + 1
  BY DEF Next, vars, Begin, attach_caches, CreateRoot, ProbeLatest, Provide,
     Mount, Steps, finish, FinishCache, FinishRun, Discard, commit_cache,
     CommitStep, Inherit, PromoteClone, ProbeBase, RenameAside, RenameToBase,
     DropOld, DropLatest, SnapshotLatest, Crash
<1>2. faults = 0 /\ hurt' = {}
  BY <1>0, <1>1 DEF TypeOK, RunsInv
<1>3. CASE commit_cache \/ Discard
  BY <1>2, <1>3, TidyCommit
<1>4. CASE attach_caches
  BY <1>2, <1>4, TidyAttach
<1>5. CASE \/ (\E r \in Runs : Begin(r)) \/ Steps \/ FinishCache
           \/ FinishRun \/ UNCHANGED vars
  BY <1>0, <1>2, <1>5 DEF Begin, Steps, FinishCache, FinishRun, vars, RunsInv, Loose
<1>6. CASE Crash
  BY <1>0, <1>2, <1>6 DEF Crash, TypeOK
<1> QED BY <1>2, <1>3, <1>4, <1>5, <1>6 DEF Next, finish

LEMMA RunsStep ==
  ASSUME IInv, IInv', TidyInv, [Next]_vars
  PROVE RunsInv'
<1>0. TypeOK /\ RunsInv /\ CommitInv
  BY DEF IInv, TidyInv
<1>1. /\ begun \subseteq begun' /\ hurt \subseteq hurt'
      /\ \/ begun' = begun /\ ended' = ended /\ run' = run
            /\ (pc' # "idle" <=> pc # "idle")
         \/ /\ pc' = "idle" /\ pc # "idle"
            /\ begun' = begun /\ ended' = ended /\ run \in hurt'
            /\ faults' = faults + 1
         \/ /\ pc' = "idle" /\ pc # "idle"
            /\ begun' = begun /\ ended' = ended \cup {run} /\ FinishRun
         \/ /\ pc = "idle" /\ pc' # "idle" /\ ended' = ended
            /\ run' \notin begun /\ begun' = begun \cup {run'}
  <2>1. CASE commit_cache \/ Discard
    BY <2>1
       DEF commit_cache, CommitStep, Inherit, PromoteClone, ProbeBase,
           RenameAside, RenameToBase, DropOld, DropLatest, SnapshotLatest,
           Discard, AfterOld, NextCache
  <2>2. CASE attach_caches
    BY <2>2
       DEF attach_caches, CreateRoot, ProbeLatest, Provide, Mount, Abandon
  <2>3. CASE (\E r \in Runs : Begin(r)) \/ Steps \/ FinishCache \/ UNCHANGED vars
    BY <2>3 DEF Begin, Steps, FinishCache, vars
  <2>4. CASE FinishRun \/ Crash
    BY <2>4 DEF FinishRun, Crash
  <2> QED BY <2>1, <2>2, <2>3, <2>4 DEF Next, finish
<1>2. ended' \subseteq begun' /\ (pc' # "idle" => run' \in begun' \ ended')
  BY <1>0, <1>1 DEF RunsInv
<1>3. ASSUME NEW c \in Caches, NEW r \in Runs,
             r \notin begun' \/ r \in ended' \ hurt'
      PROVE Clear(z'[c], r)
  <2>1. CASE r # run /\ pc # "idle"
    <3>1. Clear(z[c], r)
      BY <1>0, <1>1, <1>3, <2>1 DEF RunsInv
    <3>2. /\ Clone(r) \in Datasets \ {Base, Clone(run), Old(run)}
          /\ Old(r) \in Datasets \ {Base, Clone(run), Old(run)}
      BY <1>0, <2>1, Names DEF CommitInv, Old
    <3>3. CASE UNCHANGED vars
      BY <3>1, <3>3 DEF vars
    <3>4. CASE Next
      <4>1. /\ z'[c][Clone(r)].data = z[c][Clone(r)].data
            /\ z'[c][Old(r)].data = z[c][Old(r)].data
        BY <2>1, <3>2, <3>4, OwnNames
      <4> QED BY <3>1, <3>2, <4>1, Whole, WholeNext DEF Clear
    <3> QED BY <3>3, <3>4
  <2>2. CASE r = run /\ pc # "idle"
    <3>1. FinishRun /\ run \notin hurt
      BY <1>0, <1>1, <1>3, <2>2 DEF RunsInv
    <3>2. Clear(z[c], run)
      BY <3>1, TidyEnd DEF Settled
    <3> QED BY <2>2, <3>1, <3>2 DEF FinishRun
  <2>3. CASE pc = "idle"
    <3>1. UNCHANGED z
      BY <2>3
         DEF Next, vars, Begin, attach_caches, CreateRoot, ProbeLatest, Provide,
             Mount, Steps, finish, FinishCache, FinishRun, Discard,
             commit_cache, CommitStep, Inherit, PromoteClone, ProbeBase,
             RenameAside, RenameToBase, DropOld, DropLatest, SnapshotLatest,
             Crash
    <3>2. Clear(z[c], r)
      BY <1>0, <1>1, <1>3, <2>3 DEF RunsInv
    <3> QED BY <3>1, <3>2
  <2> QED BY <2>1, <2>2, <2>3
<1>4. ASSUME faults' = 0
      PROVE hurt' = {} /\ Loose' /\ \A r \in begun' \ ended' : pc' # "idle" /\ r = run'
  <2>1. faults = 0 /\ hurt' = {} /\ Loose'
    BY <1>4, LooseStep
  <2>2. \A r \in begun \ ended : pc # "idle" /\ r = run
    BY <1>0, <2>1 DEF RunsInv
  <2> QED BY <1>0, <1>1, <1>4, <2>1, <2>2 DEF RunsInv
<1> QED BY <1>2, <1>3, <1>4 DEF RunsInv, Loose

LEMMA WarmStep ==
  ASSUME IInv, IInv', TidyInv, [Next]_vars
  PROVE WarmAfterSuccess'
<1> SUFFICES ASSUME pc' = "idle", last' # None, NEW c \in Caches
             PROVE /\ HasLatest(z'[c], Base)
                   /\ faults' = 0 => z'[c][Base].latest = last'
  BY DEF WarmAfterSuccess
<1>1. CASE UNCHANGED vars
  BY <1>1 DEF vars, TidyInv, WarmAfterSuccess
<1>2. CASE FinishRun
  <2>1. Settled(c) /\ outcome = "success" /\ last' = run
    BY <1>2, TidyEnd DEF FinishRun
  <2> QED BY <1>2, <2>1 DEF FinishRun, Settled
<1>3. CASE Next /\ ~FinishRun
  BY <1>3
     DEF Next, Begin, attach_caches, CreateRoot, ProbeLatest, Provide,
         Mount, Steps, finish, FinishCache, Discard, commit_cache, CommitStep,
         Inherit, PromoteClone, ProbeBase, RenameAside, RenameToBase, DropOld,
         DropLatest, SnapshotLatest, Crash, Abandon, NextCache, AfterOld
<1> QED BY <1>1, <1>2, <1>3

LEMMA TidyStep ==
  ASSUME IInv, IInv', TidyInv, [Next]_vars
  PROVE TidyInv'
<1>1. ASSUME pc' # "idle", run' \notin hurt' PROVE Unhurt'
  <2>1. CASE commit_cache \/ Discard
    <3>1. run' = run
      BY <2>1
         DEF commit_cache, CommitStep, Inherit, PromoteClone, ProbeBase,
             RenameAside, RenameToBase, DropOld, DropLatest, SnapshotLatest,
             Discard
    <3> QED BY <1>1, <2>1, <3>1, TidyCommit
  <2>2. CASE attach_caches
    <3>1. run' = run
      BY <2>2 DEF attach_caches, CreateRoot, ProbeLatest, Provide, Mount
    <3> QED BY <1>1, <2>2, <3>1, TidyAttach
  <2>3. CASE (\E r \in Runs : Begin(r)) \/ Steps \/ FinishCache
    BY <1>1, <2>3, TidyOther
  <2>4. CASE FinishRun \/ Crash
    BY <1>1, <2>4 DEF FinishRun, Crash
  <2>5. CASE UNCHANGED vars
    BY <1>1, <2>5
       DEF vars, TidyInv, Unhurt, CommitAt, Ready, Settled, Clear
  <2> QED BY <2>1, <2>2, <2>3, <2>4, <2>5 DEF Next, finish
<1> QED BY <1>1, RunsStep, WarmStep DEF TidyInv

LEMMA TidyInvariance == Spec => [](IInv /\ TidyInv)
  BY Invariance, TidyInit, TidyStep, PTL DEF Spec

\* A run that met no fault leaves nothing behind but the cache itself,
\* whatever earlier runs that crashed have left around it.
THEOREM TidyRuns == Spec => []TidyRunsLeaveNothing
<1>1. IInv /\ TidyInv => TidyRunsLeaveNothing
  BY DEF TidyInv, RunsInv, Clear, TidyRunsLeaveNothing, IInv, TypeOK
<1> QED BY <1>1, TidyInvariance, PTL

\* After a successful run without faults the next one starts warm, and
\* without any faults it starts from that run's cache.
THEOREM WarmAgain == Spec => []WarmAfterSuccess
<1>1. TidyInv => WarmAfterSuccess
  BY DEF TidyInv
<1> QED BY <1>1, TidyInvariance, PTL
=============================================================================
