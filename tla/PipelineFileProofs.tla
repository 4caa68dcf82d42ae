------------------------- MODULE PipelineFileProofs -------------------------
(***************************************************************************)
(* Proofs about PipelineFile.                                              *)
(*                                                                         *)
(* The needs: for every set of steps and every `needs`, a file is accepted *)
(* only without a cycle and refused only for one.  That the accepted graph *)
(* has no cycle takes no induction over its paths: the search keeps the    *)
(* visited steps well-founded (Founded), since a step joins them when all  *)
(* it needs are there and it is needed by none of them.                    *)
(*                                                                         *)
(* The caches: for paths of any length, what is accepted and written       *)
(* plainly leads along its middle (PlainLeads), and that decides both its  *)
(* normal form and its mount point.                                        *)
(***************************************************************************)
EXTENDS PipelineFile, FiniteSetTheorems, SequenceTheorems, TLAPS

(***************************************************************************)
(* The needs.                                                              *)
(***************************************************************************)

\* The steps looked at by validate need steps only, the search starts when
\* all are, and a call has nothing to visit but needs of its step.
KnownInv ==
  /\ \A s \in Steps : todo[s] \subseteq needs[s]
  /\ \A s \in Steps \ toCheck : needs[s] \subseteq Steps
  /\ toCheck # {} => path = <<>> /\ visited = {} /\ verdict \in {"none", "malformed", "unknown"}

\* The calls under way form a path of the graph, and in_stack is its steps.
PathInv ==
  /\ in_stack = {path[k] : k \in 1..Len(path)}
  /\ \A j, k \in 1..Len(path) : path[j] = path[k] => j = k
  /\ \A k \in 1..Len(path) : k < Len(path) => path[k + 1] \in needs[path[k]]

\* While the search goes on, what a call has done was visited, save for the
\* call it is in.
TodoInv ==
  verdict = "none" => \A k \in 1..Len(path) : \A d \in needs[path[k]] \ todo[path[k]] :
    d \in visited \/ (k < Len(path) /\ d = path[k + 1])

Closed == \A s \in visited : needs[s] \subseteq visited

Founded ==
  \A S \in SUBSET visited : S # {} => \E s \in S : needs[s] \cap S = {}

VisitInv ==
  /\ visited \cap in_stack = {}
  /\ Closed /\ Founded
  /\ Steps \ roots \subseteq visited \cup in_stack

IInv ==
  /\ TypeOK /\ KnownInv /\ PathInv /\ TodoInv /\ VisitInv
  /\ AcceptsSound /\ RefusesSound

-----------------------------------------------------------------------------

\* At the start nothing has been visited.
LEMMA InitInv == Init => IInv
BY SMT DEF Init, IInv, TypeOK, KnownInv, PathInv, TodoInv, VisitInv, Closed,
           Founded, AcceptsSound, RefusesSound

\* A step on the path that is needed by the last one closes a cycle.
LEMMA PathCloses ==
  ASSUME TypeOK, PathInv, path # <<>>,
         NEW d \in in_stack, d \in needs[top]
  PROVE  Cyclic
<1>1. PICK k \in 1..Len(path) : path[k] = d
  BY DEF PathInv
<1> DEFINE S == {path[j] : j \in k..Len(path)}
<1>2. \A j \in 1..Len(path) : path[j] \in Steps
  BY DEF TypeOK
<1>3. S \in SUBSET Steps /\ d \in S
  BY <1>1, <1>2, SMT DEF TypeOK
<1>4. ASSUME NEW s \in S PROVE needs[s] \cap S # {}
  <2>1. PICK j \in k..Len(path) : s = path[j]
    OBVIOUS
  <2>2. CASE j = Len(path)
    BY <2>1, <2>2, <1>3 DEF top
  <2>3. CASE j < Len(path)
    <3>1. j + 1 \in k..Len(path) /\ j \in 1..Len(path)
      BY <2>1, <2>3, <1>1, SMT DEF TypeOK
    <3>2. path[j + 1] \in needs[s] /\ path[j + 1] \in S
      BY <2>1, <2>3, <3>1 DEF PathInv
    <3> QED BY <3>2
  <2> QED BY <2>1, <2>2, <2>3, <1>1, SMT DEF TypeOK
<1> QED BY <1>3, <1>4 DEF Cyclic

\* A step that needs visited ones only and is no such itself can join them.
LEMMA FoundedGrows ==
  ASSUME TypeOK, Closed, Founded, NEW t \in Steps, t \notin visited,
         needs[t] \subseteq visited,
         NEW S \in SUBSET (visited \cup {t}), S # {}
  PROVE  \E s \in S : needs[s] \cap S = {}
<1>1. CASE S \subseteq visited
  BY <1>1 DEF Founded
<1>2. CASE S = {t}
  BY <1>2
<1>3. CASE ~(S \subseteq visited) /\ S # {t}
  <2> DEFINE R == S \ {t}
  <2>1. R \in SUBSET visited /\ R # {}
    BY <1>3
  <2>2. PICK s \in R : needs[s] \cap R = {}
    BY <2>1 DEF Founded
  <2>3. t \notin needs[s]
    BY <2>1, <2>2 DEF Closed
  <2> QED BY <2>2, <2>3
<1> QED BY <1>1, <1>2, <1>3

\* validate's loop.
LEMMA ValidateInv ==
  ASSUME IInv, NEW s \in Steps, ValidateStep(s) PROVE IInv'
BY SMT DEF IInv, ValidateStep, TypeOK, KnownInv, PathInv, TodoInv, VisitInv,
           Closed, Founded, AcceptsSound, RefusesSound, Cyclic

\* The call of dfs(s), when the callers' todo accounts for it.
LEMMA EnterInv ==
  ASSUME IInv, Searching, NEW s \in Steps,
         NEW rest \in [Steps -> SUBSET (Steps \cup Unknown)],
         \A t \in Steps : rest[t] \subseteq needs[t],
         path # <<>> => s \in needs[top],
         \A k \in 1..Len(path) : \A d \in needs[path[k]] \ rest[path[k]] :
           \/ d \in visited
           \/ k < Len(path) /\ d = path[k + 1]
           \/ k = Len(path) /\ d = s,
         Enter(s, rest),
         roots' \subseteq Steps,
         Steps \ roots' \subseteq visited \cup in_stack \cup {s}
  PROVE  IInv'
<1> USE DEF IInv
<1>0. UNCHANGED <<needs, visited, toCheck>> /\ verdict = "none" /\ toCheck = {}
  BY DEF Enter, Searching
<1>1. CASE s \in in_stack
  <2>1. UNCHANGED <<path, in_stack>> /\ todo' = rest /\ verdict' = "cycle"
    BY <1>1 DEF Enter
  <2>2. path # <<>>
    BY <1>1, SMT DEF PathInv
  <2>3. Cyclic
    BY <1>1, <2>2, PathCloses
  <2>4. TypeOK'
    BY <1>0, <2>1, SMT DEF TypeOK
  <2>5. KnownInv' /\ PathInv' /\ TodoInv'
    BY <1>0, <2>1, SMT DEF KnownInv, PathInv, TodoInv
  <2>6. VisitInv'
    BY <1>0, <1>1, <2>1, SMT DEF VisitInv, Closed, Founded
  <2>7. AcceptsSound' /\ RefusesSound'
    BY <1>0, <2>1, <2>3 DEF AcceptsSound, RefusesSound, Cyclic
  <2> QED BY <2>4, <2>5, <2>6, <2>7
<1>2. CASE s \in visited \ in_stack
  <2>1. UNCHANGED <<path, in_stack, verdict>> /\ todo' = rest
    BY <1>2 DEF Enter
  <2>2. TypeOK'
    BY <1>0, <2>1, SMT DEF TypeOK
  <2>3. KnownInv' /\ PathInv'
    BY <1>0, <2>1, SMT DEF KnownInv, PathInv
  <2>4. TodoInv'
    BY <1>0, <1>2, <2>1, SMT DEF TodoInv
  <2>5. VisitInv'
    BY <1>0, <1>2, <2>1, SMT DEF VisitInv, Closed, Founded
  <2>6. AcceptsSound' /\ RefusesSound'
    BY <1>0, <2>1 DEF AcceptsSound, RefusesSound
  <2> QED BY <2>2, <2>3, <2>4, <2>5, <2>6
<1>3. CASE s \notin visited \cup in_stack
  <2>1. /\ path' = Append(path, s) /\ in_stack' = in_stack \cup {s}
        /\ todo' = [rest EXCEPT ![s] = needs[s]] /\ verdict' = verdict
    BY <1>3 DEF Enter, VisitInv
  <2> DEFINE n == Len(path)
  <2>2. /\ n \in Nat /\ Len(path') = n + 1 /\ path'[n + 1] = s
        /\ \A k \in 1..n : path'[k] = path[k] /\ path[k] \in Steps
    BY <2>1, SMT DEF TypeOK
  <2>3. TypeOK'
    BY <1>0, <2>1, SMT DEF TypeOK
  <2>4. KnownInv'
    <3>1. \A t \in Steps : todo'[t] \subseteq needs[t]
      BY <2>1
    <3> QED BY <1>0, <3>1, SMT DEF KnownInv
  <2>5. \A k \in 1..n : path[k] # s
    BY <1>3 DEF PathInv
  <2>6. n # 0 => path[n] = top /\ s \in needs[path[n]]
    BY <2>2, SMT DEF top, TypeOK
  <2>7. PathInv'
    <3>1. in_stack' = {path'[k] : k \in 1..Len(path')}
      BY <2>1, <2>2, SMT DEF PathInv
    <3>2. \A j, k \in 1..Len(path') : path'[j] = path'[k] => j = k
      BY <2>2, <2>5, SMT DEF PathInv
    <3>3. \A k \in 1..Len(path') :
            k < Len(path') => path'[k + 1] \in needs'[path'[k]]
      BY <1>0, <2>2, <2>6, SMT DEF PathInv
    <3> QED BY <3>1, <3>2, <3>3 DEF PathInv
  <2>8. TodoInv'
    <3>1. todo'[s] = needs[s] /\ \A k \in 1..n : todo'[path[k]] = rest[path[k]]
      BY <2>1, <2>2, <2>5 DEF TypeOK
    <3> QED BY <1>0, <2>1, <2>2, <3>1, SMT DEF TodoInv
  <2>9. VisitInv'
    BY <1>0, <1>3, <2>1, SMT DEF VisitInv, Closed, Founded
  <2>10. AcceptsSound' /\ RefusesSound'
    BY <1>0, <2>1 DEF AcceptsSound, RefusesSound
  <2> QED BY <2>3, <2>4, <2>7, <2>8, <2>9, <2>10
<1> QED BY <1>1, <1>2, <1>3 DEF VisitInv

\* An outermost call.
LEMMA RootInv ==
  ASSUME IInv, NEW s \in Steps, Root(s) PROVE IInv'
<1>1. PICK rest : rest = todo
  OBVIOUS
<1>2. Enter(s, rest) /\ Searching /\ path = <<>>
  BY <1>1 DEF Root
<1>3. rest \in [Steps -> SUBSET (Steps \cup Unknown)] /\ Len(path) = 0
  BY <1>1, <1>2, SMT DEF IInv, TypeOK
<1>6. \A t \in Steps : rest[t] \subseteq needs[t]
  BY <1>1 DEF IInv, KnownInv
<1>4. roots' \subseteq Steps /\ Steps \ roots' \subseteq visited \cup in_stack \cup {s}
  BY SMT DEF IInv, TypeOK, VisitInv, Root
<1>5. 1..Len(path) = {}
  BY <1>3, SMT
<1> QED BY <1>2, <1>3, <1>4, <1>5, <1>6, EnterInv

\* An inner call.
LEMMA DescendInv ==
  ASSUME IInv, Searching, path # <<>>, NEW d \in todo[top], Descend(d)
  PROVE  IInv'
<1> DEFINE n == Len(path)
<1>1. n \in Nat /\ n \in 1..n /\ top = path[n] /\ \A k \in 1..n : path[k] \in Steps
  BY SMT DEF IInv, TypeOK, top
<1>2. PICK rest : rest = [todo EXCEPT ![top] = @ \ {d}]
  OBVIOUS
<1>3. rest \in [Steps -> SUBSET (Steps \cup Unknown)]
  BY <1>1, <1>2 DEF IInv, TypeOK
<1>4. d \in todo[top] /\ d \in needs[top] /\ d \in Steps
  BY <1>1, SMT DEF IInv, KnownInv, Searching
<1>5. \A t \in Steps : rest[t] \subseteq needs[t]
  BY <1>1, <1>2 DEF IInv, TypeOK, KnownInv
<1>6. ASSUME NEW k \in 1..n, NEW e \in needs[path[k]] \ rest[path[k]]
      PROVE  \/ e \in visited
             \/ k < n /\ e = path[k + 1]
             \/ k = n /\ e = d
  <2>1. e \notin todo[path[k]] \/ (path[k] = top /\ e = d)
    BY <1>1, <1>2, <1>6 DEF IInv, TypeOK
  <2>2. CASE e \notin todo[path[k]]
    BY <2>2, <1>6 DEF IInv, TodoInv, Searching
  <2>3. CASE path[k] = top /\ e = d
    BY <1>1, <2>3 DEF IInv, PathInv
  <2> QED BY <2>1, <2>2, <2>3
<1>7. Enter(d, rest) /\ roots' = roots
  BY <1>2 DEF Descend
<1>8. roots' \subseteq Steps /\ Steps \ roots' \subseteq visited \cup in_stack \cup {d}
  BY <1>7 DEF IInv, TypeOK, VisitInv
<1> QED BY <1>3, <1>4, <1>5, <1>6, <1>7, <1>8, EnterInv

\* The end of a call: its step joins the visited ones.
LEMMA ReturnInv ==
  ASSUME IInv, Return PROVE IInv'
<1> USE DEF IInv
<1> DEFINE n == Len(path)
<1>1. /\ n \in Nat /\ n \in 1..n /\ top = path[n]
      /\ \A k \in 1..n : path[k] \in Steps
  BY SMT DEF Return, TypeOK, top
<1>2. /\ path' \in Seq(Steps) /\ Len(path') = n - 1
      /\ \A k \in 1..(n - 1) : path'[k] = path[k]
  <2>1. path \in Seq(Steps) /\ path' = SubSeq(path, 1, n - 1)
    BY DEF TypeOK, Return
  <2>2. 1 \in Int /\ n - 1 \in Int /\ \A k \in 1..(n - 1) : path[k] \in Steps
    BY <1>1, SMT
  <2>3. /\ SubSeq(path, 1, n - 1) \in Seq(Steps)
        /\ Len(SubSeq(path, 1, n - 1)) = IF 1 <= n - 1 THEN (n - 1) - 1 + 1 ELSE 0
        /\ \A k \in 1..((n - 1) - 1 + 1) : SubSeq(path, 1, n - 1)[k] = path[1 + k - 1]
    BY <2>2, SubSeqProperties
  <2>4. /\ (n - 1) - 1 + 1 = n - 1 /\ \A k \in 1..(n - 1) : 1 + k - 1 = k
        /\ (IF 1 <= n - 1 THEN (n - 1) - 1 + 1 ELSE 0) = n - 1
    BY <1>1, SMT
  <2>5. path' \in Seq(Steps) /\ Len(path') = n - 1
    BY <2>1, <2>3, <2>4, Zenon
  <2>6. \A k \in 1..(n - 1) : path'[k] = path[k]
    BY <2>1, <2>3, <2>4, Zenon
  <2> QED BY <2>5, <2>6
<1>3. /\ in_stack' = in_stack \ {top} /\ visited' = visited \cup {top}
      /\ UNCHANGED <<needs, toCheck, roots, todo, verdict>>
      /\ verdict = "none" /\ toCheck = {} /\ todo[top] = {}
  BY DEF Return, Searching
<1>4. top \in Steps /\ top \in in_stack /\ top \notin visited
  BY <1>1 DEF PathInv, VisitInv
<1>5. needs[top] \subseteq visited
  BY <1>1, <1>3, SMT DEF TodoInv, TypeOK
<1>6. TypeOK'
  BY <1>2, <1>3, <1>4 DEF TypeOK
<1>7. KnownInv'
  BY <1>3, SMT DEF KnownInv
<1>8. PathInv'
  <2>1. in_stack' = {path'[k] : k \in 1..(n - 1)}
    <3>1. \A k \in 1..n : k # n <=> k \in 1..(n - 1)
      BY <1>1, SMT
    <3>2. \A k \in 1..n : path[k] = top <=> k = n
      BY <1>1 DEF PathInv
    <3>3. ASSUME NEW s \in in_stack' PROVE \E k \in 1..(n - 1) : s = path'[k]
      <4>1. PICK k \in 1..n : s = path[k]
        BY <1>3, <3>3 DEF PathInv
      <4>2. k # n
        BY <1>1, <1>3, <3>3, <4>1
      <4> QED BY <1>2, <3>1, <4>1, <4>2
    <3>4. ASSUME NEW k \in 1..(n - 1) PROVE path'[k] \in in_stack'
      <4>1. k \in 1..n /\ k # n
        BY <1>1, <3>4, SMT
      <4>2. path[k] \in in_stack /\ path[k] # top
        BY <3>2, <4>1 DEF PathInv
      <4> QED BY <1>2, <1>3, <3>4, <4>2
    <3> QED BY <3>3, <3>4, Zenon
  <2>2. \A k \in 1..(n - 1) : k \in 1..n /\ k < n
    BY <1>1, SMT
  <2>3. \A j, k \in 1..(n - 1) : path'[j] = path'[k] => j = k
    <3>1. \A j, k \in 1..n : path[j] = path[k] => j = k
      BY DEF PathInv
    <3> QED BY <1>2, <2>2, <3>1, Zenon
  <2>4. ASSUME NEW k \in 1..(n - 1), k < n - 1
        PROVE  path'[k + 1] \in needs'[path'[k]]
    <3>1. k + 1 \in 1..(n - 1)
      BY <1>1, <2>4, SMT
    <3>2. path'[k] = path[k] /\ path'[k + 1] = path[k + 1]
      BY <1>2, <3>1
    <3>3. path[k + 1] \in needs[path[k]]
      BY <2>2, <2>4 DEF PathInv
    <3> QED BY <1>3, <3>2, <3>3
  <2> QED BY <1>2, <2>1, <2>3, <2>4 DEF PathInv
<1>9. TodoInv'
  BY <1>1, <1>2, <1>3, SMT DEF TodoInv
<1>10. VisitInv'
  <2>1. Closed'
    BY <1>3, <1>5 DEF VisitInv, Closed
  <2>2. Founded'
    BY <1>3, <1>4, <1>5, FoundedGrows DEF VisitInv, Founded
  <2> QED BY <1>3, <1>4, <2>1, <2>2 DEF VisitInv
<1>11. AcceptsSound' /\ RefusesSound'
  BY <1>3 DEF AcceptsSound, RefusesSound
<1> QED BY <1>6, <1>7, <1>8, <1>9, <1>10, <1>11

\* The end of the search: every step was visited.
LEMMA AcceptInv ==
  ASSUME IInv, Accept PROVE IInv'
<1> USE DEF IInv
<1>1. /\ UNCHANGED <<needs, toCheck, roots, path, todo, in_stack, visited>>
      /\ verdict' = "ok" /\ toCheck = {} /\ path = <<>> /\ roots = {}
  BY DEF Accept, Searching
<1>2. in_stack = {} /\ visited = Steps
  <2>1. 1..Len(path) = {}
    BY <1>1, SMT
  <2>2. in_stack = {}
    BY <2>1 DEF PathInv
  <2> QED BY <1>1, <2>2 DEF TypeOK, VisitInv
<1>3. AcceptsSound'
  BY <1>1, <1>2, SMT DEF AcceptsSound, Cyclic, KnownInv, VisitInv, Founded
<1>4. TypeOK' /\ KnownInv'
  BY <1>1, SMT DEF TypeOK, KnownInv
<1>5. PathInv' /\ TodoInv' /\ VisitInv' /\ RefusesSound'
  BY <1>1, SMT DEF PathInv, TodoInv, VisitInv, Closed, Founded, RefusesSound
<1> QED BY <1>3, <1>4, <1>5

\* Nothing changes.
LEMMA StutterInv ==
  ASSUME IInv, UNCHANGED vars PROVE IInv'
BY DEF vars, IInv, TypeOK, KnownInv, PathInv, TodoInv, VisitInv, Closed,
       Founded, AcceptsSound, RefusesSound, Cyclic, top

\* What validate does before it comes to the steps leaves their part alone.
LEMMA StepsOnTheirOwn == FileSpec => Spec
<1>1. FileInit => Init
  BY DEF FileInit
<1>2. [FileNext]_fileVars => [Next]_vars
  BY DEF FileNext, fileVars, vars, validate_head, validate_cache, validate_steps
<1> QED BY <1>1, <1>2, PTL DEF FileSpec, Spec

\* The invariant holds throughout.
LEMMA Invariance == FileSpec => []IInv
<1>1. IInv /\ [Next]_vars => IInv'
  <2> SUFFICES ASSUME IInv, [Next]_vars PROVE IInv'
    OBVIOUS
  <2> QED
    BY ValidateInv, RootInv, DescendInv, ReturnInv, AcceptInv, StutterInv
    DEF Next
<1> QED BY StepsOnTheirOwn, InitInv, <1>1, PTL DEF Spec

\* The variables of the steps' part keep their types.
THEOREM TypeCorrect == FileSpec => []TypeOK
<1>1. IInv => TypeOK
  BY DEF IInv
<1> QED BY Invariance, <1>1, PTL

\* Whatever the file needs, an accepted one can be put in order.
THEOREM AcceptedHasOrder == FileSpec => []AcceptsSound
<1>1. IInv => AcceptsSound
  BY DEF IInv
<1> QED BY Invariance, <1>1, PTL

\* Whatever the file needs, it is refused for a cycle only when it has one.
THEOREM RefusedHasCycle == FileSpec => []RefusesSound
<1>1. IInv => RefusesSound
  BY DEF IInv
<1> QED BY Invariance, <1>1, PTL

(***************************************************************************)
(* The caches.                                                             *)
(***************************************************************************)

\* What holds of 0, and of each number up to n if it holds of the one before,
\* holds of all of them.
LEMMA Counting ==
  ASSUME NEW n \in Nat, NEW T, 0 \in T, \A k \in 1..n : k - 1 \in T => k \in T
  PROVE 0..n \subseteq T
<1> SUFFICES ASSUME ~(0..n \subseteq T) PROVE FALSE
  OBVIOUS
<1> DEFINE Bad == (0..n) \ T
           Below(k) == {j \in Nat : j < k}
           U == {Below(k) : k \in Bad}
<1>1. \A k \in Bad : Below(k) \in SUBSET Nat /\ IsFiniteSet(Below(k))
  <2> TAKE k \in Bad
  <2>1. Below(k) \in SUBSET Nat /\ k \in Nat /\ \A j \in Below(k) : j <= k
    OBVIOUS
  <2> HIDE DEF Below
  <2> QED BY <2>1, FS_BoundedSetOfNaturals
<1>2. U \subseteq FiniteSubsetsOf(Nat) /\ U # {}
  <2>1. Bad # {}
    OBVIOUS
  <2> HIDE DEF Bad, Below
  <2> QED BY <1>1, <2>1 DEF FiniteSubsetsOf
<1>3. \E u \in U : \A v \in U : <<v, u>> \notin StrictSubsetOrdering(Nat)
  <2> HIDE DEF U
  <2> QED BY <1>2, FS_StrictSubsetOrderingWellFounded, WFMin
<1>4. PICK k \in Bad : \A v \in U : <<v, Below(k)>> \notin StrictSubsetOrdering(Nat)
  BY <1>3
<1>5. k - 1 \in Bad
  OBVIOUS
<1>6. k - 1 \in Below(k) /\ k - 1 \notin Below(k - 1) /\ Below(k - 1) \subseteq Below(k)
  BY <1>5
<1>7. <<Below(k - 1), Below(k)>> \in StrictSubsetOrdering(Nat)
  <2> HIDE DEF Below
  <2> QED BY <1>1, <1>5, <1>6 DEF StrictSubsetOrdering
<1> QED BY <1>4, <1>5, <1>7


\* The normal form of a path without white space around it.
Norm(p) == Caches!Stripped(p)

\* The segments from a to b are those that lead somewhere.
Leads(s, a, b) ==
  /\ a \in 1..(b + 1) /\ b \in 0..Len(s)
  /\ \A k \in 1..Len(s) : s[k] \notin {Caches!Empty, "."} <=> a <= k /\ k <= b

LEMMA LeadingIs ==
  ASSUME NEW S, NEW s \in Seq(S), NEW a, NEW b, Leads(s, a, b)
  PROVE Caches!Leading(s) = SubSeq(s, a, b)
<1>n. PICK n \in Nat : n = Len(s)
  BY LenProperties
<1>a. a \in 1..(b + 1) /\ b \in 0..n
  BY <1>n DEF Leads
<1>g. \A k \in 1..n : (s[k] \in {Caches!Empty, "."}) <=> ~(a <= k /\ k <= b)
  BY <1>n DEF Leads
<1> DEFINE Eq(f) == f = [k \in 0..Len(s) |->
                       IF k = 0 THEN <<>>
                       ELSE IF s[k] \in {Caches!Empty, "."} THEN f[k - 1] ELSE Append(f[k - 1], s[k])]
           F == CHOOSE f : Eq(f)
           Part(k) == IF k < a THEN <<>> ELSE IF k <= b THEN SubSeq(s, a, k) ELSE SubSeq(s, a, b)
           h == [k \in 0..n |-> Part(k)]
<1>1. Caches!Leading(s) = F[Len(s)]
  BY DEF Caches!Leading
<1>2. Part(0) = <<>>
  BY <1>a
<1>3. ASSUME NEW k \in 1..n
      PROVE Part(k) = IF s[k] \in {Caches!Empty, "."} THEN Part(k - 1) ELSE Append(Part(k - 1), s[k])
  <2>1. CASE k < a
    <3>1. k - 1 < a /\ s[k] \in {Caches!Empty, "."}
      BY <1>a, <1>g, <2>1
    <3> QED BY <2>1, <3>1
  <2>2. CASE a <= k /\ k <= b
    <3>1. ~(k < a) /\ s[k] \notin {Caches!Empty, "."}
      BY <1>a, <1>g, <2>2
    <3>2. SubSeq(s, a, k) = Append(Part(k - 1), s[k])
      <4>1. CASE k = a
        <5>1. Part(k - 1) = <<>>
          BY <1>a, <4>1
        <5>2. SubSeq(s, k, k) = <<s[k]>>
          <6>1. s[k] \in S
            BY <1>n, ElementOfSeq
          <6>2. k \in Int /\ \A i \in k..k : i = k
            OBVIOUS
          <6>3. /\ SubSeq(s, k, k) \in Seq(S)
                /\ Len(SubSeq(s, k, k)) = IF k <= k THEN k - k + 1 ELSE 0
                /\ \A i \in 1..(k - k + 1) : SubSeq(s, k, k)[i] = s[k + i - 1]
            BY <6>1, <6>2, SubSeqProperties
          <6>4. k <= k /\ k - k + 1 = 1 /\ k + 1 - 1 = k /\ 1 \in 1..1
            OBVIOUS
          <6> DEFINE u == SubSeq(s, k, k)
          <6>5. u \in Seq(S) /\ Len(u) = 1 /\ u[1] = s[k]
            BY <6>3, <6>4
          <6> HIDE DEF u
          <6>6. u = <<s[k]>>
            <7>1. <<s[k]>> \in Seq(S) /\ Len(<<s[k]>>) = 1 /\ \A i \in 1..1 : <<s[k]>>[i] = s[k] /\ i = 1
              BY <6>1
            <7> QED BY <6>5, <7>1, SeqEqual
          <6> QED BY <6>6 DEF u
        <5> QED BY <4>1, <5>1, <5>2
      <4>2. CASE k > a
        <5>1. Part(k - 1) = SubSeq(s, a, k - 1)
          BY <1>a, <2>2, <4>2
        <5>2. SubSeq(s, a, k) = Append(SubSeq(s, a, k - 1), s[k])
          BY <1>a, <1>n, <2>2, <4>2
        <5> QED BY <5>1, <5>2
      <4> QED BY <1>a, <2>2, <4>1, <4>2
    <3> QED BY <2>2, <3>1, <3>2
  <2>3. CASE k > b /\ ~(k < a)
    <3>1. s[k] \in {Caches!Empty, "."} /\ ~(k <= b)
      BY <1>a, <1>g, <2>3
    <3>2. Part(k - 1) = Part(k)
      <4>1. CASE k - 1 < a
        <5>1. a = k /\ b = k - 1
          BY <1>a, <2>3, <4>1
        <5>2. SubSeq(s, a, b) = <<>>
          BY <1>n, <5>1
        <5> QED BY <2>3, <3>1, <4>1, <5>2
      <4>2. CASE ~(k - 1 < a) /\ k - 1 <= b
        <5>1. k - 1 = b
          BY <1>a, <2>3, <4>2
        <5> QED BY <2>3, <3>1, <4>2, <5>1
      <4>3. CASE ~(k - 1 < a) /\ ~(k - 1 <= b)
        BY <2>3, <3>1, <4>3
      <4> QED BY <4>1, <4>2, <4>3
    <3> QED BY <3>1, <3>2
  <2> QED BY <1>a, <2>1, <2>2, <2>3
<1> HIDE DEF Part
<1>4. \E f : Eq(f)
  <2>1. \A k \in 0..n : h[k] = Part(k)
    OBVIOUS
  <2>2. h = [k \in 0..n |->
               IF k = 0 THEN <<>>
               ELSE IF s[k] \in {Caches!Empty, "."} THEN h[k - 1] ELSE Append(h[k - 1], s[k])]
    <3> SUFFICES ASSUME NEW k \in 0..n
                 PROVE Part(k) = IF k = 0 THEN <<>>
                         ELSE IF s[k] \in {Caches!Empty, "."} THEN h[k - 1] ELSE Append(h[k - 1], s[k])
      OBVIOUS
    <3>1. CASE k = 0
      BY <1>2, <3>1
    <3>2. CASE k # 0
      <4>1. k \in 1..n /\ k - 1 \in 0..n
        BY <3>2
      <4> QED BY <1>3, <2>1, <3>2, <4>1
    <3> QED BY <3>1, <3>2
  <2> HIDE DEF h
  <2>3. Eq(h)
    BY <1>n, <2>2
  <2> QED BY <2>3
<1>5. Eq(F)
  <2> HIDE DEF Eq
  <2> QED BY <1>4, Zenon
<1> HIDE DEF F
<1>6. F[0] = <<>>
  BY <1>5, <1>n
<1>7. ASSUME NEW k \in 1..n
      PROVE F[k] = IF s[k] \in {Caches!Empty, "."} THEN F[k - 1] ELSE Append(F[k - 1], s[k])
  <2>1. k \in 0..n /\ k # 0
    OBVIOUS
  <2> QED BY <1>5, <1>n, <2>1
<1> DEFINE T == {k \in 0..n : F[k] = Part(k)}
<1>8. 0 \in T
  BY <1>2, <1>6
<1>9. ASSUME NEW k \in 1..n, k - 1 \in T PROVE k \in T
  <2>1. F[k - 1] = Part(k - 1) /\ k \in 0..n
    BY <1>9
  <2> QED BY <1>3, <1>7, <2>1
<1>10. n \in T
  <2> HIDE DEF T
  <2>1. 0..n \subseteq T
    BY <1>8, <1>9, Counting
  <2> QED BY <2>1
<1>11. Part(n) = SubSeq(s, a, b)
  <2>1. CASE n < a
    <3>1. SubSeq(s, a, b) = <<>>
      BY <1>a, <1>n, <2>1
    <3> QED BY <2>1, <3>1 DEF Part
  <2>2. CASE ~(n < a) /\ n <= b
    <3>1. n = b
      BY <1>a, <2>2
    <3> QED BY <2>2, <3>1 DEF Part
  <2>3. CASE ~(n < a) /\ ~(n <= b)
    BY <2>3 DEF Part
  <2> QED BY <2>1, <2>2, <2>3
<1> QED BY <1>1, <1>n, <1>10, <1>11

\* What Untrailed leaves of a path with a segment that is not empty.
LEMMA UntrailedIs ==
  ASSUME NEW S, NEW q \in Seq(S), NEW b \in 1..Len(q), q[b] # Caches!Empty,
         \A j \in (b + 1)..Len(q) : q[j] = Caches!Empty
  PROVE Caches!Untrailed(q) = SubSeq(q, 1, b)
<1>n. PICK n \in Nat : n = Len(q) /\ DOMAIN q = 1..n
  BY LenProperties
<1> DEFINE Last(k) == q[k] # Caches!Empty /\ \A j \in (k + 1)..Len(q) : q[j] = Caches!Empty
           c == CHOOSE k \in DOMAIN q : Last(k)
<1>1. b \in DOMAIN q /\ Last(b)
  BY <1>n
<1>2. \A k \in DOMAIN q : Last(k) => k = b
  <2> SUFFICES ASSUME NEW k \in 1..n, Last(k) PROVE k = b
    BY <1>n
  <2>1. b \in 1..n
    BY <1>n
  <2>2. ~(k > b)
    <3>1. k > b => k \in (b + 1)..n
      BY <2>1
    <3> QED BY <1>n, <3>1
  <2>3. ~(b > k)
    <3>1. b > k => b \in (k + 1)..n
      BY <2>1
    <3> QED BY <1>n, <3>1
  <2> QED BY <2>1, <2>2, <2>3
<1>3. c = b
  <2> HIDE DEF Last
  <2> QED BY <1>1, <1>2
<1>4. ~(\A k \in DOMAIN q : q[k] = Caches!Empty)
  BY <1>1
<1>5. Caches!Untrailed(q) = SubSeq(q, 1, c)
  BY <1>4 DEF Caches!Untrailed
<1> QED BY <1>3, <1>5

LEMMA LastLeads ==
  ASSUME NEW S, NEW q \in Seq(S), NEW e \in 1..Len(q), q[e] # Caches!Empty
  PROVE \E b \in e..Len(q) : q[b] # Caches!Empty /\ \A j \in (b + 1)..Len(q) : q[j] = Caches!Empty
<1>n. PICK n \in Nat : n = Len(q)
  BY LenProperties
<1>e. e \in 1..n
  BY <1>n
<1> DEFINE T == {m \in 0..n : m >= e => \E b \in e..m : q[b] # Caches!Empty /\ \A j \in (b + 1)..m : q[j] = Caches!Empty}
<1>1. 0 \in T
  BY <1>e
<1>2. ASSUME NEW m \in 1..n, m - 1 \in T PROVE m \in T
  <2> SUFFICES ASSUME m >= e
               PROVE \E b \in e..m : q[b] # Caches!Empty /\ \A j \in (b + 1)..m : q[j] = Caches!Empty
    OBVIOUS
  <2>1. CASE q[m] # Caches!Empty
    <3>1. m \in e..m /\ \A j \in (m + 1)..m : q[j] = Caches!Empty
      BY <1>e
    <3> QED BY <2>1, <3>1
  <2>2. CASE q[m] = Caches!Empty
    <3>1. m - 1 >= e
      <4>1. m # e
        BY <2>2
      <4> QED BY <1>e, <4>1
    <3>2. PICK b \in e..(m - 1) : q[b] # Caches!Empty /\ \A j \in (b + 1)..(m - 1) : q[j] = Caches!Empty
      BY <1>2, <3>1
    <3>3. b \in e..m /\ \A j \in (b + 1)..m : j = m \/ j \in (b + 1)..(m - 1)
      BY <1>e
    <3> QED BY <2>2, <3>2, <3>3
  <2> QED BY <2>1, <2>2
<1>3. n \in T
  <2> HIDE DEF T
  <2>1. 0..n \subseteq T
    BY <1>1, <1>2, Counting
  <2> QED BY <2>1
<1>4. n >= e
  BY <1>e
<1> QED BY <1>3, <1>4, <1>n

Rooted(p) == p[1] = Caches!Empty

\* The path leads along c, from the root or the workspace, and so does its
\* normal form.
LeadsAlong(p, c) ==
  /\ c \in Seq(Caches!Segments) /\ Len(c) >= 1
  /\ Norm(p) = IF Rooted(p) THEN <<Caches!Empty>> \o c ELSE c
  /\ Caches!Absolute(p) <=> Rooted(p)
  /\ Caches!Absolute(Norm(p)) <=> Rooted(p)
  /\ Caches!Leading(p) = c /\ Caches!Leading(Norm(p)) = c
  /\ Rooted(p) => c[1] # "workspace"

LEMMA EmptyIsNone == Caches!Empty # "." /\ Caches!Empty # "workspace"
  BY Zenon DEF Caches!Empty

LEMMA PathIs ==
  ASSUME NEW p \in Caches!Path
  PROVE p \in Seq(Caches!Segments) /\ Len(p) \in Nat \ {0}
<1>1. PICK n \in 1..MaxLen : p \in [1..n -> Caches!Segments]
  BY DEF Caches!Path
<1>2. n \in Nat \ {0}
  BY LengthAssumption
<1> QED BY <1>1, <1>2

\* Trimmed leaves a path.
LEMMA TrimmedIs ==
  ASSUME NEW p \in Caches!Path
  PROVE Caches!Trimmed(p) \in Caches!Path
<1>1. PICK n \in 1..MaxLen : p \in [1..n -> Caches!Segments]
  BY DEF Caches!Path
<1>2. n \in Nat \ {0} /\ 1 \in 1..n /\ n \in 1..n
  BY LengthAssumption
<1> DEFINE q == [p EXCEPT ![1] = TrimStart[p[1]]]
<1>3. TrimStart \in [Caches!Segments -> Caches!Segments]
      /\ TrimEnd \in [Caches!Segments -> Caches!Segments]
  BY TrimAssumption
<1>4. q \in [1..n -> Caches!Segments]
  BY <1>1, <1>2, <1>3
<1>5. Caches!Trimmed(p) = [q EXCEPT ![Len(q)] = TrimEnd[q[Len(q)]]]
  BY DEF Caches!Trimmed
<1> HIDE DEF q
<1>6. Len(q) = n
  BY <1>2, <1>4
<1>7. Caches!Trimmed(p) \in [1..n -> Caches!Segments]
  BY <1>2, <1>3, <1>4, <1>5, <1>6
<1> QED BY <1>7 DEF Caches!Path

\* A part of a sequence.
LEMMA PartIs ==
  ASSUME NEW S, NEW s \in Seq(S), NEW a \in 1..Len(s), NEW b \in a..Len(s)
  PROVE /\ SubSeq(s, a, b) \in Seq(S) /\ Len(SubSeq(s, a, b)) = b - a + 1
        /\ \A i \in 1..(b - a + 1) : SubSeq(s, a, b)[i] = s[a + i - 1]
<1>n. PICK n \in Nat : n = Len(s)
  BY LenProperties
<1>1. a \in Int /\ b \in Int /\ a <= b
  BY <1>n
<1>2. \A i \in a..b : s[i] \in S
  <2>1. \A i \in a..b : i \in 1..Len(s)
    BY <1>n
  <2> QED BY <2>1, ElementOfSeq
<1> QED BY <1>1, <1>2, SubSeqProperties

\* Of a path that is accepted and plain, the part from a to b leads on.
LEMMA PlainPart ==
  ASSUME NEW p \in Caches!Path, Caches!Plain(p), NEW a \in 1..Len(p),
         a = IF p[1] \in {Caches!Empty, "."} THEN 2 ELSE 1, p[a] # Caches!Empty
  PROVE \E b \in a..Len(p) :
          Leads(p, a, b) /\ p[b] # Caches!Empty
          /\ \A j \in (b + 1)..Len(p) : p[j] = Caches!Empty
<1>n. PICK n \in Nat : n = Len(p) /\ DOMAIN p = 1..n
  BY PathIs, LenProperties
<1>1. PICK b \in a..Len(p) :
        p[b] # Caches!Empty /\ \A j \in (b + 1)..Len(p) : p[j] = Caches!Empty
  BY PathIs, LastLeads
<1>2. a \in 1..n /\ b \in a..n /\ b \in 0..n /\ a \in 1..(b + 1)
  BY <1>n
<1>3. ASSUME NEW k \in 1..n, a <= k, k <= b PROVE p[k] \notin {Caches!Empty, "."}
  <2>1. k = 1 => a = 1
    BY <1>2, <1>3
  <2>2. k > 1 => p[b] # Caches!Empty /\ b \in k..n
    BY <1>1, <1>2, <1>3
  <2> QED BY <1>n, <2>1, <2>2 DEF Caches!Plain
<1>4. ASSUME NEW k \in 1..n, ~(a <= k) PROVE p[k] \in {Caches!Empty, "."}
  <2>1. k = 1 /\ a # 1
    BY <1>4
  <2> QED BY <2>1
<1>5. ASSUME NEW k \in 1..n, ~(k <= b) PROVE p[k] \in {Caches!Empty, "."}
  <2>1. k \in (b + 1)..n
    BY <1>2, <1>5
  <2> QED BY <1>n, <1>1, <2>1
<1>6. \A k \in 1..n : p[k] \notin {Caches!Empty, "."} <=> a <= k /\ k <= b
  BY <1>3, <1>4, <1>5
<1>7. Leads(p, a, b)
  BY <1>n, <1>2, <1>6 DEF Leads
<1> QED BY <1>1, <1>7

\* A path of which nothing is left is refused.
LEMMA NothingLeft ==
  ASSUME NEW p \in Caches!Path, Caches!Plain(p), ~Caches!Bad(Norm(p))
  PROVE LET a == IF p[1] \in {Caches!Empty, "."} THEN 2 ELSE 1
        IN a \in 1..Len(p) /\ p[a] # Caches!Empty
<1>n. PICK n \in Nat \ {0} : n = Len(p) /\ DOMAIN p = 1..n
  BY PathIs, LenProperties
<1>p. p \in Seq(Caches!Segments)
  BY PathIs
<1>1. CASE p[1] \notin {Caches!Empty, "."}
  BY <1>n, <1>1
<1>2. CASE p[1] \in {Caches!Empty, "."}
  <2>1. n > 1
    <3>1. 1 \in 1..n
      BY <1>n
    <3> QED BY <1>n, <1>2, <3>1 DEF Caches!Plain
  <2>2. 2 \in 1..n
    BY <2>1
  <2>3. ASSUME p[2] = Caches!Empty PROVE FALSE
    <3>1. \A j \in 2..n : p[j] = Caches!Empty
      BY <1>n, <2>2, <2>3 DEF Caches!Plain
    <3> DEFINE q == IF Len(p) > 1 /\ p[1] = "." THEN Tail(p) ELSE p
    <3>2. \A k \in DOMAIN q : q[k] = Caches!Empty
      <4>1. CASE p[1] = "."
        <5>1. q = Tail(p) /\ DOMAIN Tail(p) = 1..(n - 1) /\ \A k \in 1..(n - 1) : Tail(p)[k] = p[k + 1]
          BY <1>n, <1>p, <2>1, <4>1
        <5>2. \A k \in 1..(n - 1) : k + 1 \in 2..n
          OBVIOUS
        <5> QED BY <3>1, <5>1, <5>2
      <4>2. CASE p[1] # "."
        <5>1. q = p /\ p[1] = Caches!Empty /\ \A k \in 1..n : k = 1 \/ k \in 2..n
          BY <1>2, <4>2
        <5> QED BY <1>n, <3>1, <5>1
      <4> QED BY <4>1, <4>2
    <3>3. Norm(p) = IF Caches!Untrailed(q) = <<Caches!Empty>> /\ Caches!Absolute(q)
                    THEN <<Caches!Empty, Caches!Empty>> ELSE Caches!Untrailed(q)
      BY DEF Norm, Caches!Stripped
    <3> HIDE DEF q
    <3>4. Caches!Untrailed(q) = <<Caches!Empty>>
      BY <3>2 DEF Caches!Untrailed
    <3>5. Norm(p) = <<Caches!Empty>> \/ Norm(p) = <<Caches!Empty, Caches!Empty>>
      BY <3>3, <3>4
    <3> QED BY <3>5 DEF Caches!Bad
  <2> QED BY <1>n, <1>2, <2>2, <2>3
<1> QED BY <1>1, <1>2

\* What normalize_cache_path does to it.
LEMMA NormIs ==
  ASSUME NEW p \in Caches!Path, NEW a \in 1..Len(p), NEW b \in a..Len(p),
         a = IF p[1] \in {Caches!Empty, "."} THEN 2 ELSE 1, p[a] # Caches!Empty,
         p[b] # Caches!Empty, \A j \in (b + 1)..Len(p) : p[j] = Caches!Empty
  PROVE Norm(p) = SubSeq(p, IF p[1] = "." THEN 2 ELSE 1, b)
<1>n. PICK n \in Nat \ {0} : n = Len(p) /\ DOMAIN p = 1..n
  BY PathIs, LenProperties
<1>p. p \in Seq(Caches!Segments)
  BY PathIs
<1>a. a \in 1..n /\ b \in a..n
  BY <1>n
<1> DEFINE q == IF Len(p) > 1 /\ p[1] = "." THEN Tail(p) ELSE p
<1>q. Norm(p) = IF Caches!Untrailed(q) = <<Caches!Empty>> /\ Caches!Absolute(q)
                THEN <<Caches!Empty, Caches!Empty>> ELSE Caches!Untrailed(q)
  BY DEF Norm, Caches!Stripped
<1>1. CASE p[1] = "."
  <2>1. a = 2 /\ n > 1
    BY <1>1, <1>a
  <2>2. q = Tail(p) /\ Tail(p) \in Seq(Caches!Segments) /\ Len(Tail(p)) = n - 1
        /\ \A k \in 1..(n - 1) : Tail(p)[k] = p[k + 1]
    BY <1>1, <1>n, <1>p, <2>1
  <2> HIDE DEF q
  <2>3. b - 1 \in 1..(n - 1) /\ (b - 1) + 1 = b
        /\ \A j \in ((b - 1) + 1)..(n - 1) : j + 1 \in (b + 1)..n /\ j \in 1..(n - 1)
    BY <1>a, <2>1
  <2>4. q[b - 1] # Caches!Empty /\ \A j \in ((b - 1) + 1)..(n - 1) : q[j] = Caches!Empty
    BY <1>n, <2>2, <2>3
  <2>5. Caches!Untrailed(q) = SubSeq(q, 1, b - 1)
    <3>1. /\ q \in Seq(Caches!Segments) /\ b - 1 \in 1..Len(q) /\ q[b - 1] # Caches!Empty
          /\ \A j \in ((b - 1) + 1)..Len(q) : q[j] = Caches!Empty
      BY <2>2, <2>3, <2>4
    <3> QED BY <3>1, UntrailedIs
  <2>6. SubSeq(q, 1, b - 1) = SubSeq(p, 2, b)
    <3> DEFINE u == SubSeq(q, 1, b - 1)
               v == SubSeq(p, 2, b)
    <3>0. 1 \in 1..Len(q) /\ b - 1 \in 1..Len(q) /\ 2 \in 1..Len(p) /\ b \in 2..Len(p)
      BY <1>n, <1>a, <2>1, <2>2
    <3>1. u \in Seq(Caches!Segments) /\ Len(u) = (b - 1) - 1 + 1
          /\ \A i \in 1..((b - 1) - 1 + 1) : u[i] = q[1 + i - 1]
      BY <2>2, <3>0, PartIs
    <3>2. v \in Seq(Caches!Segments) /\ Len(v) = b - 2 + 1
          /\ \A i \in 1..(b - 2 + 1) : v[i] = p[2 + i - 1]
      BY <1>p, <3>0, PartIs
    <3> HIDE DEF u, v
    <3>3. (b - 1) - 1 + 1 = b - 1 /\ b - 2 + 1 = b - 1
          /\ \A i \in 1..(b - 1) : 1 + i - 1 = i /\ 2 + i - 1 = i + 1 /\ i \in 1..(n - 1)
      BY <1>a, <2>1
    <3>4. \A i \in 1..(b - 1) : u[i] = v[i]
      BY <2>2, <3>1, <3>2, <3>3
    <3>5. u = v
      BY <3>1, <3>2, <3>3, <3>4, SeqEqual
    <3> QED BY <3>5 DEF u, v
  <2>7. ~Caches!Absolute(q)
    <3>1. 1 \in 1..(n - 1) /\ 1 + 1 = 2
      BY <2>1
    <3>2. q[1] = p[2]
      BY <2>2, <3>1
    <3> QED BY <2>1, <3>2 DEF Caches!Absolute
  <2> QED BY <1>1, <1>q, <2>5, <2>6, <2>7
<1>2. CASE p[1] # "."
  <2>1. q = p
    BY <1>2
  <2>2. Caches!Untrailed(p) = SubSeq(p, 1, b)
    <3>1. b \in 1..Len(p)
      BY <1>n, <1>a
    <3> QED BY <1>p, <3>1, UntrailedIs
  <2>3. ~(SubSeq(p, 1, b) = <<Caches!Empty>> /\ Caches!Absolute(p))
    <3> SUFFICES ASSUME SubSeq(p, 1, b) = <<Caches!Empty>>, p[1] = Caches!Empty PROVE FALSE
      BY DEF Caches!Absolute
    <3>1. Len(SubSeq(p, 1, b)) = b - 1 + 1
      <4>1. 1 \in 1..Len(p) /\ b \in 1..Len(p)
        BY <1>n, <1>a
      <4> QED BY <1>p, <4>1, PartIs
    <3>2. a = 2 /\ Len(<<Caches!Empty>>) = 1
      OBVIOUS
    <3> QED BY <1>a, <3>1, <3>2
  <2> QED BY <1>2, <1>q, <2>1, <2>2, <2>3
<1> QED BY <1>1, <1>2

\* An accepted path, written plainly, leads along its middle.
LEMMA PlainLeads ==
  ASSUME NEW p \in Caches!Path, Caches!Plain(p), ~Caches!Bad(Norm(p))
  PROVE \E c : LeadsAlong(p, c)
<1>n. PICK n \in Nat \ {0} : n = Len(p) /\ DOMAIN p = 1..n
  BY PathIs, LenProperties
<1>p. p \in Seq(Caches!Segments)
  BY PathIs
<1>a. PICK a \in 1..n : a = (IF p[1] \in {Caches!Empty, "."} THEN 2 ELSE 1)
                        /\ p[a] # Caches!Empty
  BY <1>n, NothingLeft
<1>b. PICK b \in a..n : /\ Leads(p, a, b) /\ p[b] # Caches!Empty
                        /\ \A j \in (b + 1)..n : p[j] = Caches!Empty
  BY <1>n, <1>a, PlainPart
<1>k. \A k \in a..b : k \in 1..n /\ p[k] \notin {Caches!Empty, "."}
  BY <1>n, <1>a, <1>b DEF Leads
<1>m. Norm(p) = SubSeq(p, IF p[1] = "." THEN 2 ELSE 1, b)
  BY <1>n, <1>a, <1>b, NormIs
<1> DEFINE c == SubSeq(p, a, b)
           m == b - a + 1
<1>0. m \in Nat \ {0} /\ a \in a..b
  BY <1>a, <1>b
<1>1. c \in Seq(Caches!Segments) /\ Len(c) = m /\ \A i \in 1..m : c[i] = p[a + i - 1]
  BY <1>n, <1>p, <1>a, <1>b, PartIs
<1>2. \A i \in 1..m : a + i - 1 \in a..b
  BY <1>a, <1>b
<1>3. \A i \in 1..m : c[i] \notin {Caches!Empty, "."}
  BY <1>1, <1>2, <1>k
<1>4. Caches!Leading(p) = c
  BY <1>p, <1>b, LeadingIs
<1>5. Caches!Absolute(p) <=> Rooted(p)
  BY <1>n, <1>a DEF Caches!Absolute, Rooted
<1> HIDE DEF c, m
<1>6. c = SubSeq(p, a, b)
  BY DEF c
<1>7. Caches!Leading(c) = c
  <2>1. Leads(c, 1, m)
    BY <1>0, <1>1, <1>3 DEF Leads
  <2>2. Caches!Leading(c) = SubSeq(c, 1, m)
    BY <1>1, <2>1, LeadingIs
  <2> QED BY <1>1, <2>2, SubSeqFull
<1>8. CASE ~Rooted(p)
  <2>1. Norm(p) = c
    BY <1>a, <1>m, <1>6, <1>8, EmptyIsNone DEF Rooted
  <2>2. ~Caches!Absolute(c)
    BY <1>0, <1>1, <1>3 DEF Caches!Absolute
  <2>3. LeadsAlong(p, c)
    BY <1>0, <1>1, <1>4, <1>5, <1>7, <1>8, <2>1, <2>2 DEF LeadsAlong
  <2> QED BY <2>3
<1>9. CASE Rooted(p)
  <2> DEFINE r == SubSeq(p, 1, b)
  <2>1. a = 2 /\ Norm(p) = r /\ p[1] = Caches!Empty
    BY <1>a, <1>m, <1>9, EmptyIsNone DEF Rooted
  <2>2. r \in Seq(Caches!Segments) /\ Len(r) = b /\ \A i \in 1..b : r[i] = p[i]
    <3>1. 1 \in 1..Len(p) /\ b \in 1..Len(p)
      BY <1>n, <1>a, <1>b
    <3>2. r \in Seq(Caches!Segments) /\ Len(r) = b - 1 + 1 /\ \A i \in 1..(b - 1 + 1) : r[i] = p[1 + i - 1]
      BY <1>p, <3>1, PartIs
    <3>3. b - 1 + 1 = b /\ \A i \in 1..b : 1 + i - 1 = i
      BY <1>a, <1>b
    <3> QED BY <3>2, <3>3
  <2> HIDE DEF r
  <2>3. m = b - 1 /\ b \in 2..n
    BY <1>a, <1>b, <2>1 DEF m
  <2>4. r = <<Caches!Empty>> \o c
    <3> DEFINE v == <<Caches!Empty>> \o c
    <3>1. <<Caches!Empty>> \in Seq(Caches!Segments) /\ Len(<<Caches!Empty>>) = 1
          /\ <<Caches!Empty>>[1] = Caches!Empty
      BY DEF Caches!Segments
    <3>2. v \in Seq(Caches!Segments) /\ Len(v) = 1 + m
          /\ \A i \in 1..(1 + m) : v[i] = IF i <= 1 THEN <<Caches!Empty>>[i] ELSE c[i - 1]
      BY <1>1, <3>1, ConcatProperties
    <3> HIDE DEF v
    <3>3. ASSUME NEW i \in 1..b PROVE v[i] = r[i]
      <4>1. CASE i = 1
        <5>1. 1 <= 1 /\ 1 \in 1..(1 + m) /\ 1 \in 1..b
          BY <2>3
        <5> QED BY <2>1, <2>2, <3>1, <3>2, <4>1, <5>1
      <4>2. CASE i # 1
        <5>1. ~(i <= 1) /\ i \in 1..(1 + m) /\ i - 1 \in 1..m /\ a + (i - 1) - 1 = i
          BY <2>1, <2>3, <4>2
        <5>2. v[i] = c[i - 1]
          BY <3>2, <5>1
        <5>3. c[i - 1] = p[a + (i - 1) - 1]
          BY <1>1, <5>1
        <5> QED BY <2>2, <5>1, <5>2, <5>3
      <4> QED BY <4>1, <4>2
    <3>4. Len(v) = b
      BY <2>3, <3>2
    <3>5. v = r
      BY <2>2, <3>2, <3>3, <3>4, SeqEqual
    <3> QED BY <3>5 DEF v
  <2>5. Caches!Absolute(r)
    <3>1. 1 \in 1..b /\ b > 1
      BY <2>3
    <3> QED BY <2>1, <2>2, <3>1 DEF Caches!Absolute
  <2>6. Caches!Leading(r) = c
    <3>1. \A k \in 1..b : r[k] \notin {Caches!Empty, "."} <=> 2 <= k /\ k <= b
      <4> SUFFICES ASSUME NEW k \in 1..b
                   PROVE r[k] \notin {Caches!Empty, "."} <=> 2 <= k /\ k <= b
        OBVIOUS
      <4>1. CASE k = 1
        BY <2>1, <2>2, <4>1
      <4>2. CASE k # 1
        <5>1. k \in a..b /\ 2 <= k /\ k <= b
          BY <2>1, <2>3, <4>2
        <5> QED BY <1>k, <2>2, <5>1
      <4> QED BY <4>1, <4>2
    <3>2. Leads(r, 2, b)
      <4>1. 2 \in 1..(b + 1) /\ b \in 0..b
        BY <2>3
      <4> QED BY <2>2, <3>1, <4>1 DEF Leads
    <3>3. Caches!Leading(r) = SubSeq(r, 2, b)
      BY <2>2, <3>2, LeadingIs
    <3> DEFINE v == SubSeq(r, 2, b)
    <3>4. v \in Seq(Caches!Segments) /\ Len(v) = b - 2 + 1
          /\ \A i \in 1..(b - 2 + 1) : v[i] = r[2 + i - 1]
      <4>1. 2 \in 1..Len(r) /\ b \in 2..Len(r)
        BY <2>2, <2>3
      <4> QED BY <2>2, <4>1, PartIs
    <3> HIDE DEF v
    <3>5. b - 2 + 1 = m /\ \A i \in 1..m : 2 + i - 1 \in 1..b
      BY <2>3
    <3>6. \A i \in 1..m : v[i] = c[i]
      BY <1>1, <2>1, <2>2, <3>4, <3>5
    <3>7. v = c
      BY <1>1, <3>4, <3>5, <3>6, SeqEqual
    <3> QED BY <3>3, <3>7 DEF v
  <2>7. c[1] # "workspace"
    <3> SUFFICES ASSUME c[1] = "workspace" PROVE FALSE
      OBVIOUS
    <3> DEFINE w == <<Caches!Empty, "workspace">>
               u == SubSeq(r, 1, 2)
    <3>1. w \in Seq({Caches!Empty, "workspace"}) /\ Len(w) = 2 /\ w[1] = Caches!Empty
          /\ w[2] = "workspace"
      OBVIOUS
    <3>2. r[1] = Caches!Empty /\ r[2] = "workspace"
      <4>1. 1 \in 1..m /\ a + 1 - 1 = 2 /\ 2 \in 1..b /\ 1 \in 1..b
        BY <2>1, <2>3
      <4> QED BY <1>1, <2>1, <2>2, <4>1
    <3>3. u \in Seq(Caches!Segments) /\ Len(u) = 2 /\ u[1] = r[1] /\ u[2] = r[2]
      <4>1. 1 \in 1..Len(r) /\ 2 \in 1..Len(r)
        BY <2>2, <2>3
      <4>2. u \in Seq(Caches!Segments) /\ Len(u) = 2 - 1 + 1 /\ \A i \in 1..(2 - 1 + 1) : u[i] = r[1 + i - 1]
        BY <2>2, <4>1, PartIs
      <4>3. 2 - 1 + 1 = 2 /\ 1 \in 1..2 /\ 2 \in 1..2 /\ 1 + 1 - 1 = 1 /\ 1 + 2 - 1 = 2
        OBVIOUS
      <4> QED BY <4>2, <4>3
    <3>4. SubSeq(w, 1, 2) = w
      BY <3>1, SubSeqFull
    <3>w. 2 <= Len(r)
      BY <2>2, <2>3
    <3> HIDE DEF w, u
    <3>5. u = w
      <4>1. u \in Seq(Caches!Segments \cup {"workspace"}) /\ w \in Seq(Caches!Segments \cup {"workspace"})
        BY <3>1, <3>3 DEF Caches!Segments
      <4>2. \A i \in 1..2 : u[i] = w[i]
        <5>1. \A i \in 1..2 : i = 1 \/ i = 2
          OBVIOUS
        <5> QED BY <3>1, <3>2, <3>3, <5>1
      <4> QED BY <3>1, <3>3, <4>1, <4>2, SeqEqual
    <3>6. Caches!IsPrefix(w, r)
      BY <3>1, <3>4, <3>5, <3>w DEF Caches!IsPrefix, u
    <3>7. Caches!Bad(r)
      BY <3>6 DEF Caches!Bad, w
    <3> QED BY <2>1, <3>7
  <2>8. LeadsAlong(p, c)
    BY <1>0, <1>1, <1>4, <1>5, <1>9, <2>1, <2>4, <2>5, <2>6, <2>7 DEF LeadsAlong
  <2> QED BY <2>8
<1> QED BY <1>8, <1>9

\* Where such a path is mounted.
Place(p, c) == (IF Rooted(p) THEN <<>> ELSE <<"workspace">>) \o c

LEMMA PlaceIs ==
  ASSUME NEW p, NEW c, LeadsAlong(p, c)
  PROVE /\ Caches!Resolved(Norm(p)) = Place(p, c) /\ Caches!Resolved(p) = Place(p, c)
        /\ Place(p, c) \in Seq(Caches!Segments \cup {"workspace"})
        /\ IF Rooted(p) THEN Place(p, c) = c /\ c[1] # "workspace"
           ELSE /\ Len(Place(p, c)) = 1 + Len(c) /\ Place(p, c)[1] = "workspace"
                /\ \A k \in 1..Len(c) : Place(p, c)[k + 1] = c[k]
<1> DEFINE S == Caches!Segments \cup {"workspace"}
<1>1. c \in Seq(S) /\ Len(c) \in Nat
  BY LenProperties DEF LeadsAlong
<1>2. Caches!Resolved(Norm(p)) = Place(p, c) /\ Caches!Resolved(p) = Place(p, c)
  BY DEF LeadsAlong, Caches!Resolved, Place
<1>3. CASE Rooted(p)
  <2>1. <<>> \o c = c
    BY <1>1, ConcatEmptySeq
  <2> QED BY <1>1, <1>2, <1>3, <2>1 DEF Place, LeadsAlong
<1>4. CASE ~Rooted(p)
  <2> DEFINE v == <<"workspace">> \o c
  <2>1. <<"workspace">> \in Seq(S) /\ Len(<<"workspace">>) = 1
        /\ <<"workspace">>[1] = "workspace"
    OBVIOUS
  <2>2. v \in Seq(S) /\ Len(v) = 1 + Len(c)
        /\ \A i \in 1..(1 + Len(c)) : v[i] = IF i <= 1 THEN <<"workspace">>[i] ELSE c[i - 1]
    BY <1>1, <2>1, ConcatProperties
  <2> HIDE DEF v
  <2>3. v[1] = "workspace"
    <3>1. 1 \in 1..(1 + Len(c)) /\ 1 <= 1
      BY <1>1
    <3> QED BY <2>1, <2>2, <3>1
  <2>4. ASSUME NEW k \in 1..Len(c) PROVE v[k + 1] = c[k]
    <3>1. k + 1 \in 1..(1 + Len(c)) /\ ~(k + 1 <= 1) /\ (k + 1) - 1 = k
      BY <1>1
    <3> QED BY <2>2, <3>1
  <2>5. Place(p, c) = v
    BY <1>4 DEF Place, v
  <2> QED BY <1>2, <1>4, <2>2, <2>3, <2>4, <2>5
<1> QED BY <1>3, <1>4

\* Two of them at one place are one and the same.
LEMMA OnePlace ==
  ASSUME NEW p, NEW c, LeadsAlong(p, c), NEW q, NEW d, LeadsAlong(q, d),
         Place(p, c) = Place(q, d)
  PROVE Norm(p) = Norm(q)
<1>1. /\ c \in Seq(Caches!Segments) /\ Len(c) \in Nat /\ Len(c) >= 1
      /\ d \in Seq(Caches!Segments) /\ Len(d) \in Nat /\ Len(d) >= 1
  BY LenProperties DEF LeadsAlong
<1>2. Rooted(p) <=> Rooted(q)
  BY PlaceIs
<1>3. c = d
  <2>1. CASE Rooted(p)
    BY <1>2, <2>1, PlaceIs
  <2>2. CASE ~Rooted(p)
    <3>1. /\ Len(Place(p, c)) = 1 + Len(c)
          /\ \A k \in 1..Len(c) : Place(p, c)[k + 1] = c[k]
      BY <2>2, PlaceIs
    <3>2. /\ Len(Place(q, d)) = 1 + Len(d)
          /\ \A k \in 1..Len(d) : Place(q, d)[k + 1] = d[k]
      BY <1>2, <2>2, PlaceIs
    <3>3. Len(c) = Len(d)
      BY <1>1, <3>1, <3>2
    <3>4. \A k \in 1..Len(c) : c[k] = d[k]
      BY <3>1, <3>2, <3>3
    <3> QED BY <1>1, <3>3, <3>4, SeqEqual
  <2> QED BY <2>1, <2>2
<1> QED BY <1>2, <1>3 DEF LeadsAlong

LEMMA PrefixOne ==
  ASSUME NEW S, NEW s \in Seq(S), Len(s) >= 1
  PROVE /\ Caches!IsPrefix(s, <<"workspace">>) => Len(s) = 1 /\ s[1] = "workspace"
        /\ Caches!IsPrefix(<<"workspace">>, s) => s[1] = "workspace"
<1> DEFINE w == <<"workspace">>
<1>1. w \in Seq({"workspace"}) /\ Len(w) = 1 /\ w[1] = "workspace" /\ SubSeq(w, 1, 1) = w
  <2>1. w \in Seq({"workspace"}) /\ Len(w) = 1 /\ w[1] = "workspace"
    OBVIOUS
  <2> HIDE DEF w
  <2> QED BY <2>1, SubSeqFull
<1> HIDE DEF w
<1>2. Len(s) \in Nat
  BY LenProperties
<1>3. ASSUME Caches!IsPrefix(s, w) PROVE Len(s) = 1 /\ s[1] = "workspace"
  <2>1. Len(s) = 1
    BY <1>1, <1>2, <1>3 DEF Caches!IsPrefix
  <2>2. SubSeq(s, 1, 1) = s
    BY <2>1, SubSeqFull
  <2> QED BY <1>1, <1>3, <2>1, <2>2 DEF Caches!IsPrefix
<1>4. ASSUME Caches!IsPrefix(w, s) PROVE s[1] = "workspace"
  <2>1. SubSeq(s, 1, 1) = w
    BY <1>1, <1>4 DEF Caches!IsPrefix
  <2>2. SubSeq(s, 1, 1)[1] = s[1]
    <3>1. 1 \in 1..Len(s)
      BY <1>2
    <3>2. \A i \in 1..(1 - 1 + 1) : SubSeq(s, 1, 1)[i] = s[1 + i - 1]
      BY <3>1, PartIs
    <3>3. 1 \in 1..(1 - 1 + 1) /\ 1 + 1 - 1 = 1
      OBVIOUS
    <3> QED BY <3>2, <3>3
  <2> QED BY <1>1, <2>1, <2>2
<1> QED BY <1>3, <1>4 DEF w

\* What validate_cache knows of the caches while it has refused none.
CachesInv ==
  /\ cache \in Seq(Caches!Path)
  /\ seen \in Seq({Norm(p) : p \in Caches!Path})
  /\ refused = "none" =>
       /\ Len(seen) = Len(cache)
       /\ \A i \in 1..Len(cache) : seen[i] = Norm(Caches!Trimmed(cache[i])) /\ ~Caches!Bad(seen[i])
       /\ \A i, j \in 1..Len(cache) : seen[i] = seen[j] => i = j

LEMMA CacheStep ==
  ASSUME CachesInv, NEW p \in Caches!Path, Caches!ValidateCache(p)
  PROVE CachesInv'
<1> DEFINE n == Norm(Caches!Trimmed(p))
<1>n. PICK l \in Nat : l = Len(cache)
  BY LenProperties DEF CachesInv
<1>1. refused = "none" /\ cache' = Append(cache, p)
  BY DEF Caches!ValidateCache
<1>2. cache' \in Seq(Caches!Path) /\ Len(cache') = l + 1 /\ cache'[l + 1] = p
      /\ \A i \in 1..l : cache'[i] = cache[i]
  BY <1>n, <1>1, AppendProperties DEF CachesInv
<1>3. Len(seen) = l /\ DOMAIN seen = 1..l
      /\ (\A i \in 1..l : seen[i] = Norm(Caches!Trimmed(cache[i])) /\ ~Caches!Bad(seen[i]))
      /\ (\A i, j \in 1..l : seen[i] = seen[j] => i = j)
  BY <1>n, <1>1, LenProperties DEF CachesInv
<1>4. CASE refused' # "none"
  <2>1. seen' = seen
    BY <1>1, <1>4 DEF Caches!ValidateCache
  <2> QED BY <1>2, <1>4, <2>1 DEF CachesInv
<1>5. CASE refused' = "none"
  <2>1. ~Caches!Bad(n) /\ n \notin Caches!Range(seen) /\ seen' = Append(seen, n)
    BY <1>1, <1>5 DEF Caches!ValidateCache, Caches!normalize_cache_path, Norm
  <2>2. \A i \in 1..l : seen[i] # n
    BY <1>3, <2>1 DEF Caches!Range
  <2>3. n \in {Norm(q) : q \in Caches!Path}
    BY TrimmedIs
  <2> HIDE DEF n
  <2>4. seen' \in Seq({Norm(q) : q \in Caches!Path}) /\ Len(seen') = l + 1 /\ seen'[l + 1] = n
        /\ \A i \in 1..l : seen'[i] = seen[i]
    BY <1>3, <2>1, <2>3, AppendProperties DEF CachesInv
  <2>5. \A i \in 1..(l + 1) : i = l + 1 \/ i \in 1..l
    OBVIOUS
  <2>6. ASSUME NEW i \in 1..(l + 1)
        PROVE seen'[i] = Norm(Caches!Trimmed(cache'[i])) /\ ~Caches!Bad(seen'[i])
    <3>1. CASE i = l + 1
      BY <1>2, <2>1, <2>4, <3>1 DEF n
    <3>2. CASE i \in 1..l
      BY <1>2, <1>3, <2>4, <3>2
    <3> QED BY <2>5, <3>1, <3>2
  <2>7. ASSUME NEW i \in 1..(l + 1), NEW j \in 1..(l + 1), seen'[i] = seen'[j] PROVE i = j
    BY <1>3, <2>2, <2>4, <2>5, <2>7
  <2> QED BY <1>2, <2>4, <2>6, <2>7 DEF CachesInv
<1> QED BY <1>4, <1>5

LEMMA CachesInvariance == FileSpec => []CachesInv
<1>1. FileInit => CachesInv
  <2> SUFFICES ASSUME FileInit PROVE CachesInv
    OBVIOUS
  <2>1. cache = <<>> /\ seen = <<>>
    BY DEF FileInit, Caches!Init
  <2>2. Len(<<>>) = 0 /\ \A i \in 1..0 : FALSE
    OBVIOUS
  <2>3. \A S : <<>> \in Seq(S)
    OBVIOUS
  <2> QED BY <2>1, <2>2, <2>3 DEF CachesInv
<1>2. CachesInv /\ [FileNext]_fileVars => CachesInv'
  <2> SUFFICES ASSUME CachesInv, [FileNext]_fileVars PROVE CachesInv'
    OBVIOUS
  <2>1. CASE validate_cache
    <3>1. PICK p \in Caches!Path : Caches!ValidateCache(p)
      BY <2>1 DEF validate_cache, Caches!Next
    <3> QED BY <3>1, CacheStep
  <2>2. CASE validate_steps \/ UNCHANGED fileVars
    <3>1. UNCHANGED <<cache, seen, refused>>
      BY <2>2 DEF validate_steps, fileVars
    <3> QED BY <3>1 DEF CachesInv
  <2>3. CASE validate_head
    <3>1. UNCHANGED <<cache, seen>> /\ refused' # "none"
      BY <2>3 DEF validate_head
    <3> QED BY <3>1 DEF CachesInv
  <2> QED BY <2>1, <2>2, <2>3 DEF FileNext
<1> QED BY <1>1, <1>2, PTL DEF FileSpec

\* However many caches a file has, and however long their paths are: once they
\* are accepted, those written plainly are mounted where they say, each at a
\* place of its own that is neither over nor around the workspace.
THEOREM CachesApart == FileSpec => []MountedApart
<1>1. CachesInv => MountedApart
  <2> DEFINE Q(k) == Caches!Trimmed(cache[k])
  <2> SUFFICES ASSUME CachesInv, refused = "none",
                      \A k \in DOMAIN cache : Caches!Plain(Q(k)),
                      NEW i \in DOMAIN cache
               PROVE /\ Caches!MountPoint(cache[i]) = Caches!Resolved(Q(i))
                     /\ ~Caches!IsPrefix(Caches!MountPoint(cache[i]), <<"workspace">>)
                     /\ Caches!Absolute(Q(i)) =>
                          ~Caches!IsPrefix(<<"workspace">>, Caches!MountPoint(cache[i]))
                     /\ \A j \in DOMAIN cache :
                          Caches!MountPoint(cache[i]) = Caches!MountPoint(cache[j]) => i = j
    BY DEF MountedApart, Caches!MountedApart
  <2>0. \A k \in DOMAIN cache : Caches!MountPoint(cache[k]) = Caches!Resolved(Norm(Q(k)))
    BY DEF Caches!MountPoint, Caches!normalize_cache_path, Norm
  <2>1. DOMAIN cache = 1..Len(cache)
    BY LenProperties DEF CachesInv
  <2>2. \A k \in DOMAIN cache : \E c : LeadsAlong(Q(k), c)
    <3> SUFFICES ASSUME NEW k \in DOMAIN cache PROVE \E c : LeadsAlong(Q(k), c)
      OBVIOUS
    <3>1. cache[k] \in Caches!Path
      BY <2>1, ElementOfSeq DEF CachesInv
    <3>2. ~Caches!Bad(Norm(Q(k))) /\ Caches!Plain(Q(k))
      BY <2>1 DEF CachesInv
    <3>3. Q(k) \in Caches!Path
      BY <3>1, TrimmedIs
    <3> HIDE DEF Q
    <3> QED BY <3>2, <3>3, PlainLeads
  <2>r. \A j, k \in DOMAIN cache : Norm(Q(j)) = Norm(Q(k)) => j = k
    BY <2>1 DEF CachesInv
  <2> HIDE DEF Q
  <2>3. PICK c : LeadsAlong(Q(i), c)
    BY <2>2
  <2> DEFINE m == Place(Q(i), c)
  <2>4. /\ Caches!MountPoint(cache[i]) = m /\ Caches!Resolved(Q(i)) = m
        /\ m \in Seq(Caches!Segments \cup {"workspace"})
        /\ IF Rooted(Q(i)) THEN m = c /\ c[1] # "workspace" ELSE Len(m) = 1 + Len(c)
    BY <2>0, <2>3, PlaceIs
  <2>5. Len(c) \in Nat /\ Len(c) >= 1 /\ (Caches!Absolute(Q(i)) <=> Rooted(Q(i)))
    BY <2>3, LenProperties DEF LeadsAlong
  <2> HIDE DEF m
  <2>6. Len(m) >= 1 /\ (Len(m) # 1 \/ m[1] # "workspace")
        /\ (Rooted(Q(i)) => m[1] # "workspace")
    <3>1. CASE Rooted(Q(i))
      BY <2>4, <2>5, <3>1
    <3>2. CASE ~Rooted(Q(i))
      <4>1. Len(m) = 1 + Len(c)
        BY <2>4, <3>2
      <4>2. Len(m) >= 1 /\ Len(m) # 1
        BY <2>5, <4>1
      <4> QED BY <3>2, <4>2
    <3> QED BY <3>1, <3>2
  <2>7. ~Caches!IsPrefix(m, <<"workspace">>)
    BY <2>4, <2>6, PrefixOne
  <2>8. Caches!Absolute(Q(i)) => ~Caches!IsPrefix(<<"workspace">>, m)
    BY <2>4, <2>5, <2>6, PrefixOne
  <2>9. ASSUME NEW j \in DOMAIN cache,
               Caches!MountPoint(cache[i]) = Caches!MountPoint(cache[j])
        PROVE i = j
    <3>1. PICK d : LeadsAlong(Q(j), d)
      BY <2>2
    <3>2. Caches!MountPoint(cache[j]) = Place(Q(j), d)
      BY <2>0, <3>1, PlaceIs
    <3>3. Norm(Q(i)) = Norm(Q(j))
      BY <2>3, <2>4, <2>9, <3>1, <3>2, OnePlace DEF m
    <3> QED BY <2>r, <3>3
  <2> QED BY <2>4, <2>7, <2>8, <2>9
<1> QED BY <1>1, CachesInvariance, PTL
=============================================================================
