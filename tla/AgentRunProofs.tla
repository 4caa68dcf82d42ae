--------------------------- MODULE AgentRunProofs ---------------------------
(***************************************************************************)
(* Proofs about AgentRun, for any number of steps, any configurations,     *)
(* values and lines, and any number of faults.                             *)
(*                                                                         *)
(* The masker is a recursion over a list of values, and what it does to a  *)
(* line a recursion over the line.  Both are reasoned about by Counting:   *)
(* the numbers of which a statement holds form a set, and a set that has 0 *)
(* and goes on to n has all of them.                                       *)
(***************************************************************************)
EXTENDS AgentRun, FiniteSetTheorems, SequenceTheorems, TLAPS

\* The types of what decides the course of a run.
ControlOK ==
  /\ skipped \subseteq Steps
  /\ explicit \in [Steps -> MaybeConf] /\ mapped \in MaybeConf
  /\ at \in 1..(N + 1) /\ (pc \in {"unmet", "exec"} => at \in Steps)
  /\ fetched \subseteq Configs
  /\ overall \in Verdict
  /\ ran \in [Steps -> {"none", "ok", "bad", "error"}]
  /\ verdicts \in Seq(Verdict)
  /\ faults \in Nat

Meant == Steps \ skipped

\* The preflight has loaded what the steps before `at` need, and before the
\* first step runs, all of them.
FetchInv ==
  /\ pc \in {"parse", "attach"} => at = 1
  /\ pc = "preflight" => \A s \in Meant : s < at => Loaded(s)
  /\ pc \in {"step", "exec"} => \A s \in Meant : Loaded(s)

\* overall is what became of the steps that were meant to run.
Judged ==
  /\ overall = "success" => \A s \in Meant : ran[s] = "ok"
  /\ overall = "failure" => Meant = {} \/ \E s \in Meant : ran[s] # "ok"

Unrun == \A s \in Steps : ran[s] = "none"

StepsInv ==
  /\ pc \in {"parse", "attach", "preflight", "unmet"} =>
       Unrun /\ overall = "success"
  /\ pc \in {"unmet", "exec"} => at \in Meant
  /\ pc \in {"step", "exec"} =>
       /\ overall = "success"
       /\ \A s \in Steps : IF s < at THEN s \in skipped \/ ran[s] = "ok"
                           ELSE ran[s] = "none"
  /\ pc = "error" =>
       /\ Meant = {} \/ \E s \in Meant : ran[s] # "ok"
       /\ Unrun \/ faults > 0
  /\ pc \in {"conclude", "commit", "finish", "done"} => Judged

\* Who has heard of it.
ReportInv ==
  /\ pc \in {"commit", "finish", "done"} =>
       Len(verdicts) = 1 /\ verdicts[1] = overall
  /\ pc \notin {"commit", "finish", "done"} => Len(verdicts) = 0
  /\ IF pc \in {"finish", "done"}
     THEN /\ github \in {"none", overall}
          /\ token = "token" /\ faults = 0 /\ ~Unrun => github # "none"
     ELSE github = "none"
  /\ IF pc = "done"
     THEN \/ caches = "none"
          \/ caches = (IF overall = "success" THEN "committed" ELSE "dropped")
     ELSE caches \in {"none", "attached"}

LEMMA ControlInit == Init => ControlOK
  BY NAssumption DEF Init, ControlOK, Verdict

LEMMA ControlStep ==
  ASSUME ControlOK, [Next]_vars
  PROVE ControlOK'
<1> USE NAssumption, NoConfAssumption, MaxFaultsAssumption
    DEF ControlOK, Verdict, Steps, MaybeConf, job, secrets, noPost,
        post_step_status, post_run_status, Fault, Load
<1>1. CASE UNCHANGED vars
  BY <1>1 DEF vars
<1>2. CASE Parse \/ AttachCaches
  BY <1>2 DEF Parse, AttachCaches
<1>3. CASE PreflightEnds \/ PreflightPass \/ PreflightRefused \/ StepUnmet
  BY <1>3 DEF PreflightEnds, PreflightPass, PreflightRefused, StepUnmet
<1>4. CASE PreflightFetch
  BY <1>4 DEF PreflightFetch, Loaded, configuration_for
<1>5. CASE StepsEnd \/ SkipStep
  BY <1>5 DEF StepsEnd, SkipStep
<1>6. CASE StartStep
  BY <1>6 DEF StartStep, Loaded, configuration_for
<1>7. CASE StepPasses
  BY <1>7 DEF StepPasses
<1>8. CASE StepFails
  <2>1. ran' \in [Steps -> {"none", "ok", "bad", "error"}]
    BY <1>8 DEF StepFails
  <2> QED BY <1>8, <2>1 DEF StepFails
<1>9. CASE StepPanics
  BY <1>9 DEF StepPanics
<1>10. CASE Conclude \/ ReportError
  <2>1. \A v \in Verdict : Append(verdicts, v) \in Seq(Verdict)
    OBVIOUS
  <2>2. verdicts' \in Seq(Verdict)
    BY <1>10, <2>1 DEF Conclude, ReportError
  <2>3. overall' \in Verdict /\ faults' \in Nat /\ pc' \in {"commit", "finish"}
    BY <1>10 DEF Conclude, ReportError
  <2>4. UNCHANGED <<job, at, fetched, ran>>
    BY <1>10 DEF Conclude, ReportError
  <2> QED BY <2>2, <2>3, <2>4
<1>11. CASE PostCommitStatus
  BY <1>11 DEF PostCommitStatus
<1>12. CASE Finish
  BY <1>12 DEF Finish
<1> QED BY <1>1, <1>2, <1>3, <1>4, <1>5, <1>6, <1>7, <1>8, <1>9, <1>10, <1>11,
      <1>12 DEF Next

LEMMA ControlInvariance == Spec => []ControlOK
<1>1. ControlOK /\ [Next]_vars => ControlOK'
  BY ControlStep
<1> QED BY <1>1, ControlInit, PTL DEF Spec

(***************************************************************************)
(* Secrets come first.                                                     *)
(***************************************************************************)

LEMMA FetchStep ==
  ASSUME ControlOK, FetchInv, [Next]_vars
  PROVE FetchInv'
<1> USE NAssumption
    DEF ControlOK, FetchInv, Meant, Loaded, configuration_for, Steps, job,
        secrets, Load
<1>1. CASE UNCHANGED vars
  BY <1>1 DEF vars
<1>2. CASE Parse
  BY <1>2 DEF Parse
<1>3. CASE AttachCaches
  BY <1>3 DEF AttachCaches
<1>4. CASE PreflightEnds
  BY <1>4 DEF PreflightEnds
<1>5. CASE PreflightPass
  BY <1>5 DEF PreflightPass
<1>6. CASE PreflightFetch
  BY <1>6 DEF PreflightFetch
<1>7. CASE StartStep
  BY <1>7 DEF StartStep
<1>8. CASE SkipStep
  BY <1>8 DEF SkipStep
<1>9. CASE StepPasses
  BY <1>9 DEF StepPasses
<1>10. CASE \/ PreflightRefused \/ StepUnmet \/ StepsEnd \/ StepFails
            \/ StepPanics \/ Conclude \/ PostCommitStatus \/ ReportError
            \/ Finish
  BY <1>10 DEF PreflightRefused, StepUnmet, StepsEnd, StepFails, StepPanics,
    Conclude, PostCommitStatus, ReportError, Finish
<1> QED BY <1>1, <1>2, <1>3, <1>4, <1>5, <1>6, <1>7, <1>8, <1>9, <1>10 DEF Next

\* However many steps there are and whichever configurations they name: when
\* one runs, the secrets of all have been fetched.
THEOREM SecretsFirst == Spec => []PreflightComplete
<1>1. Init => FetchInv
  BY DEF Init, FetchInv
<1>2. ControlOK /\ FetchInv /\ [Next]_vars => FetchInv'
  BY FetchStep
<1>3. FetchInv => PreflightComplete
  BY DEF FetchInv, PreflightComplete, Needed, Loaded, Meant
<1> QED BY <1>1, <1>2, <1>3, ControlInvariance, PTL DEF Spec

(***************************************************************************)
(* The verdict is that of the steps, and goes to everyone once.            *)
(***************************************************************************)

LEMMA StepsStep ==
  ASSUME ControlOK, StepsInv, [Next]_vars
  PROVE StepsInv'
<1> USE NAssumption, MaxFaultsAssumption
    DEF ControlOK, StepsInv, Meant, Judged, Unrun, Steps, Verdict, job, Fault
<1>1. CASE UNCHANGED vars
  BY <1>1 DEF vars
<1>2. CASE Parse
  BY <1>2 DEF Parse
<1>3. CASE AttachCaches
  BY <1>3 DEF AttachCaches
<1>4. CASE PreflightEnds
  BY <1>4 DEF PreflightEnds
<1>5. CASE PreflightPass
  BY <1>5 DEF PreflightPass
<1>6. CASE PreflightFetch
  BY <1>6 DEF PreflightFetch
<1>7. CASE PreflightRefused
  BY <1>7 DEF PreflightRefused
<1>8. CASE StepUnmet
  BY <1>8 DEF StepUnmet
<1>9. CASE StepsEnd
  BY <1>9 DEF StepsEnd
<1>10. CASE SkipStep
  BY <1>10 DEF SkipStep
<1>11. CASE StartStep
  BY <1>11 DEF StartStep
<1>12. CASE StepPasses
  BY <1>12 DEF StepPasses
<1>13. CASE StepFails
  BY <1>13 DEF StepFails
<1>14. CASE StepPanics
  BY <1>14 DEF StepPanics
<1>15. CASE Conclude \/ PostCommitStatus \/ Finish
  BY <1>15 DEF Conclude, PostCommitStatus, Finish, noPost
<1>16. CASE ReportError
  BY <1>16 DEF ReportError
<1> QED BY <1>1, <1>2, <1>3, <1>4, <1>5, <1>6, <1>7, <1>8, <1>9, <1>10, <1>11,
      <1>12, <1>13, <1>14, <1>15, <1>16 DEF Next

LEMMA ReportStep ==
  ASSUME ControlOK, StepsInv, ReportInv, [Next]_vars
  PROVE ReportInv'
<1> USE MaxFaultsAssumption
    DEF ControlOK, ReportInv, Unrun, Steps, Verdict, job, noPost, Fault
<1>1. CASE UNCHANGED vars
  BY <1>1 DEF vars
<1>2. CASE Parse \/ AttachCaches
  BY <1>2 DEF Parse, AttachCaches
<1>3. CASE PreflightEnds \/ PreflightPass \/ PreflightFetch \/ PreflightRefused
  BY <1>3 DEF PreflightEnds, PreflightPass, PreflightFetch, PreflightRefused
<1>4. CASE StepUnmet \/ StepsEnd \/ SkipStep \/ StartStep
  BY <1>4 DEF StepUnmet, StepsEnd, SkipStep, StartStep
<1>5. CASE StepPasses \/ StepFails \/ StepPanics
  BY <1>5 DEF StepPasses, StepFails, StepPanics
<1>6. CASE Conclude \/ ReportError
  <2>1. \A v \in Verdict : Len(verdicts) = 0 =>
          Len(Append(verdicts, v)) = 1 /\ Append(verdicts, v)[1] = v
    OBVIOUS
  <2>2. Len(verdicts') = 1 /\ verdicts'[1] = overall'
    BY <1>6, <2>1 DEF Conclude, ReportError, post_run_status
  <2>3. pc' \in {"commit", "finish"} /\ (pc' = "finish" => pc = "error")
    BY <1>6 DEF Conclude, ReportError
  <2>4. UNCHANGED <<ran, caches, github, token>>
    BY <1>6 DEF Conclude, ReportError
  <2>5. faults' = 0 => faults = 0
    BY <1>6 DEF Conclude, ReportError, post_run_status
  <2>6. github = "none" /\ caches \in {"none", "attached"}
    BY <1>6 DEF Conclude, ReportError
  <2>7. pc = "error" /\ faults = 0 => Unrun
    BY DEF StepsInv
  <2> QED BY <2>2, <2>3, <2>4, <2>5, <2>6, <2>7
<1>7. CASE PostCommitStatus
  BY <1>7 DEF PostCommitStatus
<1>8. CASE Finish
  BY <1>8 DEF Finish
<1> QED BY <1>1, <1>2, <1>3, <1>4, <1>5, <1>6, <1>7, <1>8 DEF Next

LEMMA CourseInvariance == Spec => [](ControlOK /\ StepsInv /\ ReportInv)
<1>1. Init => StepsInv /\ ReportInv
  BY DEF Init, StepsInv, ReportInv, Unrun
<1>2. ControlOK /\ StepsInv /\ ReportInv /\ [Next]_vars => StepsInv' /\ ReportInv'
  BY StepsStep, ReportStep
<1> QED BY <1>1, <1>2, ControlInvariance, PTL DEF Spec

\* A run of any pipeline gets one verdict, a success when every step meant for
\* the branch has passed and only then.
THEOREM VerdictOfSteps == Spec => []VerdictEarned
<1>1. ControlOK /\ StepsInv /\ ReportInv => VerdictEarned
  <2> SUFFICES ASSUME ControlOK, StepsInv, ReportInv
               PROVE VerdictEarned
    OBVIOUS
  <2>1. pc = "done" => Len(verdicts) = 1
    BY DEF ReportInv
  <2>2. ASSUME NEW k \in 1..Len(verdicts)
        PROVE verdicts[k] = overall /\ Judged
    BY DEF ReportInv, StepsInv, ControlOK
  <2> QED BY <2>1, <2>2 DEF VerdictEarned, Judged, Meant
<1> QED BY <1>1, CourseInvariance, PTL

\* Server, GitHub and caches hear the same verdict, whatever goes wrong.
THEOREM AllAgree == Spec => []Agreement
<1>1. ControlOK /\ StepsInv /\ ReportInv => Agreement
  <2> SUFFICES ASSUME ControlOK, ReportInv, pc = "done"
               PROVE Agreement
    BY DEF Agreement
  <2>1. verdicts[1] = overall /\ Len(verdicts) = 1 /\ overall \in Verdict
    BY DEF ReportInv, ControlOK
  <2> QED BY <2>1 DEF Agreement, ReportInv, Unrun, Verdict
<1> QED BY <1>1, CourseInvariance, PTL

(***************************************************************************)
(* Counting and recursion.                                                 *)
(***************************************************************************)

\* What holds of 0, and of each number up to n if it holds of the one before,
\* holds of all of them.
LEMMA Counting ==
  ASSUME NEW n \in Nat, NEW T, 0 \in T, \A k \in 1..n : k - 1 \in T => k \in T
  PROVE 0..n \subseteq T
<1> SUFFICES ASSUME ~(0..n \subseteq T) PROVE FALSE
  OBVIOUS
<1> DEFINE Bad == (0..n) \ T
           Below(k) == {j \in Nat : j < k}
           U == {Below(k) : k \in Bad}
<1>1. \A k \in Bad : Below(k) \in SUBSET Nat /\ IsFiniteSet(Below(k))
  <2> TAKE k \in Bad
  <2>1. Below(k) \in SUBSET Nat /\ k \in Nat /\ \A j \in Below(k) : j <= k
    OBVIOUS
  <2> HIDE DEF Below
  <2> QED BY <2>1, FS_BoundedSetOfNaturals
<1>2. U \subseteq FiniteSubsetsOf(Nat) /\ U # {}
  <2>1. Bad # {}
    OBVIOUS
  <2> HIDE DEF Bad, Below
  <2> QED BY <1>1, <2>1 DEF FiniteSubsetsOf
<1>3. \E u \in U : \A v \in U : <<v, u>> \notin StrictSubsetOrdering(Nat)
  <2> HIDE DEF U
  <2> QED BY <1>2, FS_StrictSubsetOrderingWellFounded, WFMin
<1>4. PICK k \in Bad : \A v \in U : <<v, Below(k)>> \notin StrictSubsetOrdering(Nat)
  BY <1>3
<1>5. k - 1 \in Bad
  OBVIOUS
<1>6. k - 1 \in Below(k) /\ k - 1 \notin Below(k - 1) /\ Below(k - 1) \subseteq Below(k)
  BY <1>5
<1>7. <<Below(k - 1), Below(k)>> \in StrictSubsetOrdering(Nat)
  <2> HIDE DEF Below
  <2> QED BY <1>1, <1>5, <1>6 DEF StrictSubsetOrdering
<1> QED BY <1>4, <1>5, <1>7

\* The same from n down to 1, and from all that come later.
LEMMA CountingDown ==
  ASSUME NEW n \in Nat, NEW T,
         \A k \in 1..n : (k + 1)..n \subseteq T => k \in T
  PROVE 1..n \subseteq T
<1> DEFINE D == {d \in 0..n : (n + 1 - d)..n \subseteq T}
<1>1. 0 \in D
  <2>1. (n + 1 - 0)..n = {} /\ 0 \in 0..n
    OBVIOUS
  <2> QED BY <2>1
<1>2. ASSUME NEW d \in 1..n, d - 1 \in D PROVE d \in D
  <2>1. PICK k : k = n + 1 - d
    OBVIOUS
  <2>2. k \in 1..n /\ n + 1 - (d - 1) = k + 1 /\ d \in 0..n
    BY <2>1
  <2>3. (k + 1)..n \subseteq T
    BY <1>2, <2>2
  <2>4. k \in T
    BY <2>2, <2>3
  <2>5. k..n \subseteq T
    <3>1. \A j \in k..n : j = k \/ j \in (k + 1)..n
      BY <2>2
    <3> QED BY <2>3, <2>4, <3>1
  <2> QED BY <2>1, <2>2, <2>5
<1>3. n \in D
  <2> HIDE DEF D
  <2>1. 0..n \subseteq D
    BY <1>1, <1>2, Counting
  <2> QED BY <2>1
<1>4. n + 1 - n = 1
  OBVIOUS
<1> QED BY <1>3, <1>4

\* There is a function that starts with b and goes on with G, for every G.
Recursive(n, S, b) ==
  \A G \in [S \X (1..n) -> S] :
    \E f \in [0..n -> S] :
      f[0] = b /\ \A k \in 1..n : f[k] = G[<<f[k - 1], k>>]

LEMMA Recursion ==
  ASSUME NEW n \in Nat, NEW S, NEW b \in S
  PROVE Recursive(n, S, b)
<1> SUFFICES ASSUME NEW G \in [S \X (1..n) -> S]
             PROVE \E f \in [0..n -> S] :
                     f[0] = b /\ \A k \in 1..n : f[k] = G[<<f[k - 1], k>>]
  BY DEF Recursive
<1> DEFINE Good(m, f) == f[0] = b /\ \A k \in 1..m : f[k] = G[<<f[k - 1], k>>]
           T == {m \in 0..n : \E f \in [0..m -> S] : Good(m, f)}
<1>1. 0 \in T
  <2> DEFINE f == [k \in 0..0 |-> b]
  <2>1. f \in [0..0 -> S] /\ Good(0, f) /\ 0 \in 0..n
    OBVIOUS
  <2> HIDE DEF f, Good
  <2> QED BY <2>1
<1>2. ASSUME NEW m \in 1..n, m - 1 \in T
      PROVE m \in T
  <2>1. PICK f \in [0..(m - 1) -> S] : Good(m - 1, f)
    BY <1>2
  <2> DEFINE g == [k \in 0..m |-> IF k = m THEN G[<<f[m - 1], m>>] ELSE f[k]]
  <2>2. f[m - 1] \in S /\ <<f[m - 1], m>> \in S \X (1..n)
    OBVIOUS
  <2>3. g \in [0..m -> S]
    BY <2>2
  <2>4. g[m] = G[<<f[m - 1], m>>] /\ \A k \in 0..(m - 1) : g[k] = f[k]
    OBVIOUS
  <2> HIDE DEF g
  <2>5. ASSUME NEW k \in 1..m PROVE g[k] = G[<<g[k - 1], k>>]
    <3>1. CASE k = m
      BY <2>4, <3>1
    <3>2. CASE k # m
      <4>1. k \in 1..(m - 1) /\ k - 1 \in 0..(m - 1) /\ k \in 0..(m - 1)
        BY <3>2
      <4> QED BY <2>1, <2>4, <4>1
    <3> QED BY <3>1, <3>2
  <2>6. g[0] = b
    BY <2>1, <2>4
  <2> QED BY <2>3, <2>5, <2>6
<1>3. 0..n \subseteq T
  <2> HIDE DEF T
  <2> QED BY <1>1, <1>2, Counting
<1>4. n \in T
  <2> HIDE DEF T
  <2> QED BY <1>3
<1> QED BY <1>4

(***************************************************************************)
(* str::replace.                                                           *)
(***************************************************************************)

Text == Seq(Chars)

\* w is in s, from p on.
Occurs(s, p, w) ==
  p \in 1..(Len(s) + 1 - Len(w)) /\ \A j \in 1..Len(w) : s[p + j - 1] = w[j]

LEMMA OccursIs ==
  ASSUME NEW s \in Text, NEW w \in Text
  PROVE /\ \A p \in 1..(Len(s) + 1 - Len(w)) :
             SubSeq(s, p, p + Len(w) - 1) = w <=> Occurs(s, p, w)
        /\ M!Shows(s, w) <=> \E p : Occurs(s, p, w)
<1>0. Len(s) \in Nat /\ Len(w) \in Nat
  BY LenProperties DEF Text
<1>1. ASSUME NEW p \in 1..(Len(s) + 1 - Len(w))
      PROVE SubSeq(s, p, p + Len(w) - 1) = w <=> Occurs(s, p, w)
  <2> DEFINE u == SubSeq(s, p, p + Len(w) - 1)
  <2>1. p \in Int /\ p + Len(w) - 1 \in Int
    BY <1>0
  <2>2. \A i \in p..(p + Len(w) - 1) : s[i] \in Chars
    <3>1. \A i \in p..(p + Len(w) - 1) : i \in 1..Len(s)
      BY <1>0
    <3> QED BY <3>1, ElementOfSeq DEF Text
  <2>3. /\ u \in Text
        /\ Len(u) = IF p <= p + Len(w) - 1 THEN p + Len(w) - 1 - p + 1 ELSE 0
        /\ \A i \in 1..(p + Len(w) - 1 - p + 1) : u[i] = s[p + i - 1]
    BY <2>1, <2>2, SubSeqProperties DEF Text
  <2>4. Len(u) = Len(w) /\ p + Len(w) - 1 - p + 1 = Len(w)
    BY <1>0, <2>3
  <2> HIDE DEF u
  <2>5. \A i \in 1..Len(w) : u[i] = s[p + i - 1]
    BY <2>3, <2>4
  <2>6. (\A i \in 1..Len(w) : u[i] = w[i]) => u = w
    BY <2>3, <2>4, SeqEqual DEF Text
  <2>7. u = w <=> Occurs(s, p, w)
    BY <2>5, <2>6 DEF Occurs
  <2> QED BY <2>7 DEF u
<1>2. M!Shows(s, w) <=> \E p : Occurs(s, p, w)
  BY <1>1 DEF M!Shows, Occurs
<1> QED BY <1>1, <1>2

\* What comes of the line from its i-th character on.
Rest(f, line, v, i) ==
  IF i > Len(line) THEN <<>>
  ELSE IF i + Len(v) - 1 <= Len(line) /\ SubSeq(line, i, i + Len(v) - 1) = v
       THEN M!Stars \o f[i + Len(v)]
       ELSE <<line[i]>> \o f[i + 1]

IsRest(f, line, v) ==
  /\ f \in [1..(Len(line) + Len(v)) -> Text]
  /\ \A i \in 1..(Len(line) + Len(v)) : f[i] = Rest(f, line, v, i)

LEMMA StarsText == M!Stars \in Text /\ Len(M!Stars) = 3
                   /\ \A j \in 1..3 : M!Stars[j] = "*"
<1>1. M!Stars = <<"*", "*", "*">>
  BY DEF M!Stars
<1> QED BY <1>1, CharsAssumption DEF Text

LEMMA RestType ==
  ASSUME NEW line \in Text, NEW v \in Text, Len(v) >= 1,
         NEW f, NEW i \in 1..Len(line), f[i + 1] \in Text,
         i + Len(v) - 1 <= Len(line) => f[i + Len(v)] \in Text
  PROVE Rest(f, line, v, i) \in Text
<1>1. line[i] \in Chars
  BY ElementOfSeq DEF Text
<1>2. <<line[i]>> \in Text
  BY <1>1 DEF Text
<1>3. \A s, t \in Text : s \o t \in Text
  BY ConcatProperties DEF Text
<1>4. ~(i > Len(line))
  BY LenProperties DEF Text
<1> QED BY <1>2, <1>3, <1>4, StarsText DEF Rest

LEMMA RestExists ==
  ASSUME NEW line \in Text, NEW v \in Text, Len(v) >= 1
  PROVE \E f : IsRest(f, line, v)
<1>0. Len(line) \in Nat /\ Len(v) \in Nat
  BY LenProperties DEF Text
<1>e. <<>> \in Text
  BY EmptySeq DEF Text
<1>m. PICK m \in Nat : m = Len(line) + Len(v)
  BY <1>0
<1> DEFINE Good(d, f) == /\ f \in [(m - d)..m -> Text]
                         /\ \A i \in (m - d)..m : f[i] = Rest(f, line, v, i)
           T == {d \in 0..(m - 1) : \E f : Good(d, f)}
<1>1. 0 \in T
  <2> DEFINE f == [i \in m..m |-> <<>>]
  <2>1. f \in [m..m -> Text] /\ \A i \in m..m : i = m /\ f[i] = <<>>
    BY <1>e
  <2> HIDE DEF f
  <2>2. m > Len(line) /\ m - 0 = m /\ 0 \in 0..(m - 1)
    BY <1>0, <1>m
  <2>3. Good(0, f)
    BY <2>1, <2>2 DEF Rest
  <2> QED BY <2>2, <2>3
<1>2. ASSUME NEW d \in 1..(m - 1), d - 1 \in T
      PROVE d \in T
  <2>1. PICK f : Good(d - 1, f)
    BY <1>2
  <2>2. PICK a : a = m - d
    OBVIOUS
  <2>3. a \in 1..(m - 1) /\ a + 1 \in 1..m /\ m - (d - 1) = a + 1 /\ d \in 0..(m - 1)
    BY <2>2
  <2>4. f \in [(a + 1)..m -> Text] /\ \A i \in (a + 1)..m : f[i] = Rest(f, line, v, i)
    BY <2>1, <2>3
  <2> DEFINE g == [i \in a..m |-> IF i = a THEN Rest(f, line, v, a) ELSE f[i]]
  <2>5. Rest(f, line, v, a) \in Text
    <3>1. CASE a > Len(line)
      BY <1>e, <3>1 DEF Rest
    <3>2. CASE ~(a > Len(line))
      <4>1. a \in 1..Len(line) /\ a + 1 \in (a + 1)..m
        BY <1>0, <1>m, <2>3, <3>2
      <4>2. a + Len(v) \in (a + 1)..m
        BY <1>0, <1>m, <2>3, <3>2
      <4>3. f[a + 1] \in Text /\ f[a + Len(v)] \in Text
        BY <2>4, <4>1, <4>2
      <4> QED BY <4>1, <4>3, RestType
    <3> QED BY <3>1, <3>2
  <2>6. g \in [a..m -> Text]
    <3>1. \A i \in a..m : i # a => i \in (a + 1)..m
      BY <2>3
    <3>2. \A i \in a..m : (IF i = a THEN Rest(f, line, v, a) ELSE f[i]) \in Text
      BY <2>4, <2>5, <3>1
    <3> QED BY <3>2
  <2>7. g[a] = Rest(f, line, v, a) /\ \A i \in (a + 1)..m : g[i] = f[i]
    BY <2>3
  <2> HIDE DEF g
  <2>8. ASSUME NEW i \in a..m PROVE g[i] = Rest(g, line, v, i)
    <3>1. g[i] = Rest(f, line, v, i)
      <4>1. i = a \/ i \in (a + 1)..m
        BY <2>3
      <4> QED BY <2>4, <2>7, <4>1
    <3>2. ~(i > Len(line)) => i + 1 \in (a + 1)..m /\ i + Len(v) \in (a + 1)..m
      BY <1>0, <1>m, <2>3
    <3> QED BY <2>7, <3>1, <3>2 DEF Rest
  <2>9. Good(d, g)
    BY <2>2, <2>6, <2>8
  <2> QED BY <2>3, <2>9
<1>3. m - 1 \in Nat
  BY <1>0, <1>m
<1>4. m - 1 \in T
  <2> HIDE DEF T
  <2>1. 0..(m - 1) \subseteq T
    BY <1>1, <1>2, <1>3, Counting
  <2> QED BY <1>3, <2>1
<1>5. PICK f : Good(m - 1, f)
  BY <1>4
<1>6. m - (m - 1) = 1
  BY <1>m
<1> QED BY <1>m, <1>5, <1>6 DEF IsRest

\* What str::replace returns.
LEMMA ReplacedIs ==
  ASSUME NEW line \in Text, NEW v \in Text, Len(v) >= 1
  PROVE \E f : IsRest(f, line, v) /\ M!Replaced(line, v) = f[1]
<1> DEFINE Eq(f) == f = [i \in 1..(Len(line) + Len(v)) |->
             IF i > Len(line) THEN <<>>
             ELSE IF i + Len(v) - 1 <= Len(line) /\ SubSeq(line, i, i + Len(v) - 1) = v
                  THEN M!Stars \o f[i + Len(v)]
                  ELSE <<line[i]>> \o f[i + 1]]
           F == CHOOSE f : Eq(f)
<1>1. M!Replaced(line, v) = F[1]
  BY DEF M!Replaced
<1>2. \E f : Eq(f)
  <2>1. PICK f : IsRest(f, line, v)
    BY RestExists
  <2>2. Eq(f)
    BY <2>1 DEF IsRest, Rest
  <2> QED BY <2>2
<1>3. Eq(F)
  <2> HIDE DEF Eq
  <2> QED BY <1>2, Zenon
<1> HIDE DEF F
<1>4. \A i \in 1..(Len(line) + Len(v)) : F[i] = Rest(F, line, v, i)
  BY <1>3 DEF Rest
<1>0. Len(line) \in Nat /\ Len(v) \in Nat
  BY LenProperties DEF Text
<1>e. <<>> \in Text
  BY EmptySeq DEF Text
<1>m. PICK m \in Nat : m = Len(line) + Len(v)
  BY <1>0
<1>5. \A i \in 1..m : F[i] \in Text
  <2> DEFINE T == {i \in 1..m : F[i] \in Text}
  <2>1. ASSUME NEW i \in 1..m, (i + 1)..m \subseteq T
        PROVE i \in T
    <3>1. CASE i > Len(line)
      BY <1>e, <1>m, <1>4, <3>1 DEF Rest
    <3>2. CASE ~(i > Len(line))
      <4>1. i \in 1..Len(line) /\ i + 1 \in (i + 1)..m /\ i + Len(v) \in (i + 1)..m
        BY <1>0, <1>m, <3>2
      <4>2. F[i + 1] \in Text /\ F[i + Len(v)] \in Text
        BY <2>1, <4>1
      <4> QED BY <1>m, <1>4, <4>1, <4>2, RestType
    <3> QED BY <3>1, <3>2
  <2>2. 1..m \subseteq T
    <3> HIDE DEF T
    <3> QED BY <2>1, CountingDown
  <2> QED BY <2>2
<1>6. F \in [1..m -> Text]
  <2>1. \E g : F = [i \in 1..m |-> g[i]]
    <3> DEFINE e(i) == IF i > Len(line) THEN <<>>
             ELSE IF i + Len(v) - 1 <= Len(line) /\ SubSeq(line, i, i + Len(v) - 1) = v
                  THEN M!Stars \o F[i + Len(v)]
                  ELSE <<line[i]>> \o F[i + 1]
               h == [i \in 1..m |-> e(i)]
    <3>1. F = h
      BY <1>3, <1>m
    <3>2. h = [i \in 1..m |-> h[i]]
      OBVIOUS
    <3> HIDE DEF h
    <3> QED BY <3>1, <3>2
  <2>2. F = [i \in 1..m |-> F[i]]
    BY <2>1
  <2> QED BY <1>5, <2>2
<1> QED BY <1>1, <1>4, <1>6, <1>m DEF IsRest

\* Facts about s \o t, place by place.
LEMMA Joined ==
  ASSUME NEW s \in Text, NEW t \in Text
  PROVE /\ s \o t \in Text /\ Len(s \o t) = Len(s) + Len(t)
        /\ Len(s) \in Nat /\ Len(t) \in Nat
        /\ \A i \in 1..Len(s) : (s \o t)[i] = s[i]
        /\ \A i \in 1..Len(t) : (s \o t)[Len(s) + i] = t[i]
<1>1. /\ s \o t \in Text /\ Len(s \o t) = Len(s) + Len(t)
      /\ \A i \in 1..(Len(s) + Len(t)) :
           (s \o t)[i] = IF i <= Len(s) THEN s[i] ELSE t[i - Len(s)]
  BY ConcatProperties DEF Text
<1>2. Len(s) \in Nat /\ Len(t) \in Nat
  BY LenProperties DEF Text
<1>3. \A i \in 1..Len(s) : (s \o t)[i] = s[i]
  BY <1>1, <1>2
<1>4. ASSUME NEW i \in 1..Len(t) PROVE (s \o t)[Len(s) + i] = t[i]
  <2>1. Len(s) + i \in 1..(Len(s) + Len(t)) /\ ~(Len(s) + i <= Len(s))
        /\ (Len(s) + i) - Len(s) = i
    BY <1>2
  <2> QED BY <1>1, <2>1
<1> QED BY <1>1, <1>2, <1>3, <1>4

\* A part of s \o t that begins after s is one of t, and one that begins with
\* the single character of s goes on in t.
LEMMA OccursLater ==
  ASSUME NEW s \in Text, NEW t \in Text, NEW w \in Text,
         NEW p, Occurs(s \o t, p, w), p > Len(s)
  PROVE Occurs(t, p - Len(s), w)
<1>1. Len(s) \in Nat /\ Len(t) \in Nat /\ Len(w) \in Nat /\ Len(s \o t) = Len(s) + Len(t)
  BY Joined, LenProperties DEF Text
<1>2. p \in 1..(Len(s) + Len(t) + 1 - Len(w)) /\ p \in Nat
  BY <1>1 DEF Occurs
<1>3. p - Len(s) \in 1..(Len(t) + 1 - Len(w))
  BY <1>1, <1>2
<1>4. ASSUME NEW j \in 1..Len(w) PROVE t[p - Len(s) + j - 1] = w[j]
  <2>1. PICK x : x = p - Len(s) + j - 1
    OBVIOUS
  <2>2. x \in 1..Len(t) /\ Len(s) + x = p + j - 1
    BY <1>1, <1>2, <1>3, <2>1
  <2>3. (s \o t)[Len(s) + x] = t[x]
    BY <2>2, Joined
  <2>4. (s \o t)[p + j - 1] = w[j]
    BY DEF Occurs
  <2> QED BY <2>1, <2>2, <2>3, <2>4
<1> QED BY <1>3, <1>4 DEF Occurs

\* One more character before w.
LEMMA OccursTail ==
  ASSUME NEW t \in Text, NEW x \in Chars, NEW w \in Text, Len(w) > 1,
         Occurs(<<x>> \o t, 1, w)
  PROVE /\ w[1] = x /\ Tail(w) \in Text /\ Len(Tail(w)) = Len(w) - 1
        /\ \A j \in 1..(Len(w) - 1) : Tail(w)[j] = w[j + 1]
        /\ Occurs(t, 1, Tail(w))
<1>1. <<x>> \in Text /\ Len(<<x>>) = 1 /\ <<x>>[1] = x
  BY DEF Text
<1>2. Len(t) \in Nat /\ Len(w) \in Nat /\ Len(<<x>> \o t) = 1 + Len(t)
      /\ (<<x>> \o t)[1] = x /\ \A i \in 1..Len(t) : (<<x>> \o t)[1 + i] = t[i]
  BY <1>1, Joined, LenProperties DEF Text
<1>3. w # <<>>
  BY EmptySeq
<1>4. /\ Tail(w) \in Text /\ Len(Tail(w)) = Len(w) - 1
      /\ \A j \in 1..(Len(w) - 1) : Tail(w)[j] = w[j + 1]
  BY <1>2, <1>3, HeadTailProperties DEF Text
<1>5. w[1] = x
  BY <1>2 DEF Occurs
<1>6. 1 \in 1..(Len(t) + 1 - Len(Tail(w)))
  BY <1>2, <1>4 DEF Occurs
<1>7. ASSUME NEW j \in 1..Len(Tail(w)) PROVE t[1 + j - 1] = Tail(w)[j]
  <2>1. j + 1 \in 1..Len(w) /\ 1 + (j + 1) - 1 = 1 + j /\ 1 + j - 1 = j /\ j \in 1..Len(t)
    BY <1>2, <1>4 DEF Occurs
  <2>2. (<<x>> \o t)[1 + (j + 1) - 1] = w[j + 1]
    BY <2>1 DEF Occurs
  <2> QED BY <1>2, <1>4, <2>1, <2>2
<1> QED BY <1>4, <1>5, <1>6, <1>7 DEF Occurs

\* Of what comes of a line from its i-th character on, a part without a star is
\* one of the line, and never the value that is replaced.
Kept(f, line, v, i) ==
  \A w \in Text : Starless(w) /\ Len(w) >= 1 =>
    \A p : Occurs(f[i], p, w) =>
      /\ w # v
      /\ \E q : Occurs(line, q, w)
      /\ p = 1 => Occurs(line, i, w)

LEMMA RestKept ==
  ASSUME NEW line \in Text, NEW v \in Text, Len(v) >= 1,
         NEW f, IsRest(f, line, v)
  PROVE \A i \in 1..(Len(line) + Len(v)) : Kept(f, line, v, i)
<1>0. Len(line) \in Nat /\ Len(v) \in Nat
  BY LenProperties DEF Text
<1>m. PICK m \in Nat : m = Len(line) + Len(v)
  BY <1>0
<1>f. f \in [1..m -> Text] /\ \A i \in 1..m : f[i] = Rest(f, line, v, i)
  BY <1>m DEF IsRest
<1> DEFINE T == {i \in 1..m : Kept(f, line, v, i)}
<1>1. ASSUME NEW i \in 1..m, (i + 1)..m \subseteq T
      PROVE i \in T
  <2> SUFFICES ASSUME NEW w \in Text, Starless(w), Len(w) >= 1,
                      NEW p, Occurs(f[i], p, w)
               PROVE /\ w # v
                     /\ \E q : Occurs(line, q, w)
                     /\ p = 1 => Occurs(line, i, w)
    BY DEF Kept
  <2>w. Len(w) \in Nat /\ DOMAIN w = 1..Len(w) /\ w[1] # "*"
    <3>1. Len(w) \in Nat /\ DOMAIN w = 1..Len(w)
      BY LenProperties DEF Text
    <3> QED BY <3>1 DEF Starless
  <2>p. p \in Nat /\ p >= 1 /\ f[i][p] = w[1]
    <3>1. Len(f[i]) \in Nat
      BY <1>f, LenProperties DEF Text
    <3>2. p \in Nat /\ p >= 1 /\ p + 1 - 1 = p /\ 1 \in 1..Len(w)
      BY <2>w, <3>1 DEF Occurs
    <3> QED BY <3>2 DEF Occurs
  <2>1. CASE i > Len(line)
    <3>1. f[i] = <<>>
      BY <1>f, <2>1 DEF Rest
    <3>2. p \in 1..(0 + 1 - Len(w))
      BY <3>1, EmptySeq DEF Occurs
    <3> QED BY <2>w, <3>2
  <2>2. CASE ~(i > Len(line)) /\ i + Len(v) - 1 <= Len(line)
             /\ SubSeq(line, i, i + Len(v) - 1) = v
    <3>1. f[i] = M!Stars \o f[i + Len(v)]
      BY <1>f, <2>2 DEF Rest
    <3>2. i + Len(v) \in (i + 1)..m /\ i + Len(v) \in 1..m
      BY <1>0, <1>m, <2>2
    <3>3. f[i + Len(v)] \in Text
      BY <1>f, <3>2
    <3>4. p > Len(M!Stars)
      <4>1. \A j \in 1..3 : f[i][j] = "*"
        <5>1. \A j \in 1..Len(M!Stars) : (M!Stars \o f[i + Len(v)])[j] = M!Stars[j]
          BY <3>3, StarsText, Joined
        <5> QED BY <3>1, <5>1, StarsText
      <4> QED BY <2>w, <2>p, <4>1, StarsText
    <3>5. Occurs(f[i + Len(v)], p - Len(M!Stars), w)
      BY <3>1, <3>3, <3>4, StarsText, OccursLater
    <3>6. Kept(f, line, v, i + Len(v))
      BY <1>1, <3>2
    <3>7. w # v /\ \E q : Occurs(line, q, w)
      BY <3>5, <3>6 DEF Kept
    <3> QED BY <3>4, <3>7, StarsText
  <2>3. CASE ~(i > Len(line)) /\ ~(i + Len(v) - 1 <= Len(line)
                                   /\ SubSeq(line, i, i + Len(v) - 1) = v)
    <3>1. f[i] = <<line[i]>> \o f[i + 1]
      BY <1>f, <2>3 DEF Rest
    <3>2. i + 1 \in (i + 1)..m /\ i + 1 \in 1..m /\ i \in 1..Len(line)
      BY <1>0, <1>m, <2>3
    <3>3. f[i + 1] \in Text /\ line[i] \in Chars
      BY <1>f, <3>2, ElementOfSeq DEF Text
    <3>4. <<line[i]>> \in Text /\ Len(<<line[i]>>) = 1 /\ <<line[i]>>[1] = line[i]
      BY <3>3 DEF Text
    <3>5. Kept(f, line, v, i + 1)
      BY <1>1, <3>2
    <3>6. CASE p > 1
      <4>1. Occurs(f[i + 1], p - 1, w)
        BY <3>1, <3>3, <3>4, <3>6, OccursLater
      <4>2. w # v /\ \E q : Occurs(line, q, w)
        BY <3>5, <4>1 DEF Kept
      <4> QED BY <3>6, <4>2
    <3>7. CASE p = 1
      <4>1. Occurs(line, i, w)
        <5>1. line[i] = w[1]
          BY <2>p, <3>1, <3>3, <3>4, <3>7, Joined
        <5>2. CASE Len(w) = 1
          <6>1. i \in 1..(Len(line) + 1 - 1) /\ \A j \in 1..1 : j = 1 /\ i + j - 1 = i
            BY <1>0, <3>2
          <6> QED BY <5>1, <5>2, <6>1 DEF Occurs
        <5>3. CASE Len(w) > 1
          <6>1. /\ Tail(w) \in Text /\ Len(Tail(w)) = Len(w) - 1
                /\ \A j \in 1..(Len(w) - 1) : Tail(w)[j] = w[j + 1]
                /\ Occurs(f[i + 1], 1, Tail(w))
            BY <3>1, <3>3, <3>7, <5>3, OccursTail
          <6>2. Starless(Tail(w)) /\ Len(Tail(w)) >= 1
            <7>1. DOMAIN Tail(w) = 1..(Len(w) - 1)
              BY <6>1, LenProperties DEF Text
            <7>2. \A j \in 1..(Len(w) - 1) : j + 1 \in DOMAIN w
              BY <2>w
            <7> QED BY <2>w, <5>3, <6>1, <7>1, <7>2 DEF Starless
          <6>3. Occurs(line, i + 1, Tail(w))
            BY <3>5, <6>1, <6>2 DEF Kept
          <6>4. i \in 1..(Len(line) + 1 - Len(w))
            <7>1. i + 1 \in 1..(Len(line) + 1 - (Len(w) - 1))
              BY <6>1, <6>3 DEF Occurs
            <7> QED BY <1>0, <2>w, <3>2, <5>3, <7>1
          <6>5. ASSUME NEW j \in 1..Len(w) PROVE line[i + j - 1] = w[j]
            <7>1. CASE j = 1
              <8>1. i + 1 - 1 = i
                BY <3>2
              <8> QED BY <5>1, <7>1, <8>1
            <7>2. CASE j # 1
              <8>1. j - 1 \in 1..(Len(w) - 1) /\ (i + 1) + (j - 1) - 1 = i + j - 1
                    /\ (j - 1) + 1 = j
                BY <2>w, <3>2, <7>2
              <8>2. line[(i + 1) + (j - 1) - 1] = Tail(w)[j - 1]
                BY <6>1, <6>3, <8>1 DEF Occurs
              <8>3. Tail(w)[j - 1] = w[(j - 1) + 1]
                BY <6>1, <8>1
              <8> QED BY <8>1, <8>2, <8>3
            <7> QED BY <7>1, <7>2
          <6> QED BY <6>4, <6>5 DEF Occurs
        <5> QED BY <2>w, <5>2, <5>3
      <4>2. w # v
        <5> SUFFICES ASSUME w = v PROVE FALSE
          OBVIOUS
        <5>1. i \in 1..(Len(line) + 1 - Len(v)) /\ SubSeq(line, i, i + Len(v) - 1) = v
          <6>1. Occurs(line, i, v) /\ i \in 1..(Len(line) + 1 - Len(v))
            BY <4>1 DEF Occurs
          <6> QED BY <6>1, OccursIs
        <5>2. i + Len(v) - 1 <= Len(line)
          BY <1>0, <5>1
        <5> QED BY <2>3, <5>1, <5>2
      <4> QED BY <4>1, <4>2
    <3> QED BY <2>p, <3>6, <3>7
  <2> QED BY <2>1, <2>2, <2>3
<1>2. 1..m \subseteq T
  <2> HIDE DEF T
  <2> QED BY <1>1, CountingDown
<1> QED BY <1>m, <1>2

\* Replacing leaves no occurrence of a value without a star, and makes no new
\* one of another.
LEMMA ReplacedHides ==
  ASSUME NEW line \in Text, NEW v \in Text, Len(v) >= 1
  PROVE /\ M!Replaced(line, v) \in Text
        /\ \A w \in Text : Starless(w) /\ Len(w) >= 1 /\ M!Shows(M!Replaced(line, v), w)
             => w # v /\ M!Shows(line, w)
<1>0. Len(line) \in Nat /\ Len(v) \in Nat
  BY LenProperties DEF Text
<1>1. PICK f : IsRest(f, line, v) /\ M!Replaced(line, v) = f[1]
  BY ReplacedIs
<1>2. 1 \in 1..(Len(line) + Len(v))
  BY <1>0
<1>3. f[1] \in Text /\ Kept(f, line, v, 1)
  BY <1>1, <1>2, RestKept DEF IsRest
<1>4. ASSUME NEW w \in Text, Starless(w), Len(w) >= 1, M!Shows(f[1], w)
      PROVE w # v /\ M!Shows(line, w)
  <2>1. PICK p : Occurs(f[1], p, w)
    BY <1>3, <1>4, OccursIs
  <2>2. w # v /\ \E q : Occurs(line, q, w)
    BY <1>3, <1>4, <2>1 DEF Kept
  <2> QED BY <2>2, OccursIs
<1> QED BY <1>1, <1>3, <1>4

\* A line without the value is left as it is.
LEMMA ReplacedNothing ==
  ASSUME NEW line \in Text, NEW v \in Text, Len(v) >= 1, ~M!Shows(line, v)
  PROVE M!Replaced(line, v) = line
<1>0. Len(line) \in Nat /\ Len(v) \in Nat
  BY LenProperties DEF Text
<1>m. PICK m \in Nat : m = Len(line) + Len(v)
  BY <1>0
<1>1. PICK f : IsRest(f, line, v) /\ M!Replaced(line, v) = f[1]
  BY ReplacedIs
<1>f. f \in [1..m -> Text] /\ \A i \in 1..m : f[i] = Rest(f, line, v, i)
  BY <1>m, <1>1 DEF IsRest
<1> DEFINE T == {i \in 1..m : f[i] = SubSeq(line, i, Len(line))}
<1>2. ASSUME NEW i \in 1..m, (i + 1)..m \subseteq T
      PROVE i \in T
  <2>1. CASE i > Len(line)
    <3>1. f[i] = <<>>
      BY <1>f, <2>1 DEF Rest
    <3>2. SubSeq(line, i, Len(line)) = <<>>
      BY <1>0, <2>1, SubSeqEmpty
    <3> QED BY <3>1, <3>2
  <2>2. CASE ~(i > Len(line))
    <3>1. i \in 1..Len(line) /\ i + 1 \in (i + 1)..m
      BY <1>0, <1>m, <2>2
    <3>2. ~(i + Len(v) - 1 <= Len(line) /\ SubSeq(line, i, i + Len(v) - 1) = v)
      <4> SUFFICES ASSUME i + Len(v) - 1 <= Len(line), SubSeq(line, i, i + Len(v) - 1) = v
                   PROVE FALSE
        OBVIOUS
      <4>1. i \in 1..(Len(line) + 1 - Len(v))
        BY <1>0, <3>1
      <4> QED BY <4>1, OccursIs
    <3>3. f[i] = <<line[i]>> \o f[i + 1]
      BY <1>f, <2>2, <3>2 DEF Rest
    <3>4. f[i + 1] = SubSeq(line, i + 1, Len(line))
      BY <1>2, <3>1
    <3>5. SubSeq(line, i, Len(line)) = <<line[i]>> \o SubSeq(line, i + 1, Len(line))
      <4>1. Len(line) \in i..Len(line)
        BY <1>0, <3>1
      <4> QED BY <3>1, <4>1, SubSeqRecursiveFirst DEF Text
    <3> QED BY <3>3, <3>4, <3>5
  <2> QED BY <2>1, <2>2
<1>3. 1..m \subseteq T
  <2> HIDE DEF T
  <2> QED BY <1>2, CountingDown
<1>4. 1 \in 1..m
  BY <1>0, <1>m
<1>5. f[1] = SubSeq(line, 1, Len(line))
  BY <1>3, <1>4
<1> QED BY <1>1, <1>5, SubSeqFull DEF Text

\* A line that is the value becomes the mask.
LEMMA ReplacedWhole ==
  ASSUME NEW v \in Text, Len(v) >= 1
  PROVE M!Replaced(v, v) = M!Stars
<1>0. Len(v) \in Nat
  BY LenProperties DEF Text
<1>1. PICK f : IsRest(f, v, v) /\ M!Replaced(v, v) = f[1]
  BY ReplacedIs
<1>2. 1 \in 1..(Len(v) + Len(v)) /\ 1 + Len(v) \in 1..(Len(v) + Len(v))
      /\ ~(1 > Len(v)) /\ 1 + Len(v) > Len(v) /\ 1 + Len(v) - 1 = Len(v)
  BY <1>0
<1>3. SubSeq(v, 1, 1 + Len(v) - 1) = v
  BY <1>2, SubSeqFull DEF Text
<1>4. f[1] = M!Stars \o f[1 + Len(v)] /\ f[1 + Len(v)] = <<>>
  <2>1. f[1] = Rest(f, v, v, 1) /\ f[1 + Len(v)] = Rest(f, v, v, 1 + Len(v))
    BY <1>1, <1>2 DEF IsRest
  <2>2. f[1] = M!Stars \o f[1 + Len(v)]
    <3>1. 1 + Len(v) - 1 <= Len(v)
      BY <1>0
    <3> QED BY <1>2, <1>3, <2>1, <3>1 DEF Rest
  <2>3. f[1 + Len(v)] = <<>>
    BY <1>2, <2>1 DEF Rest
  <2> QED BY <2>2, <2>3
<1>5. M!Stars \o <<>> = M!Stars
  BY StarsText, ConcatEmptySeq DEF Text
<1> QED BY <1>1, <1>4, <1>5

(***************************************************************************)
(* Masker::mask: one value after the other.                                *)
(***************************************************************************)

\* A list of values that can occur in a line.
Masking(values) == values \in Seq(Text) /\ \A k \in 1..Len(values) : Len(values[k]) >= 1

IsMasked(f, values, line) ==
  /\ f \in [0..Len(values) -> Text] /\ f[0] = line
  /\ \A k \in 1..Len(values) : f[k] = M!Replaced(f[k - 1], values[k])

LEMMA MaskIs ==
  ASSUME NEW values, Masking(values), NEW line \in Text
  PROVE \E f : IsMasked(f, values, line) /\ M!Mask(values, line) = f[Len(values)]
<1>n. PICK n \in Nat : n = Len(values)
  BY LenProperties DEF Masking
<1>v. \A k \in 1..n : values[k] \in Text /\ Len(values[k]) >= 1
  BY <1>n, ElementOfSeq DEF Masking
<1>r. \A l \in Text, k \in 1..n : M!Replaced(l, values[k]) \in Text
  BY <1>v, ReplacedHides
<1> DEFINE Eq(f) == f = [k \in 0..Len(values) |->
                       IF k = 0 THEN line ELSE M!Replaced(f[k - 1], values[k])]
           F == CHOOSE f : Eq(f)
           G == [x \in Text \X (1..n) |-> M!Replaced(x[1], values[x[2]])]
<1>1. M!Mask(values, line) = F[Len(values)]
  BY DEF M!Mask
<1>2. \E f : Eq(f)
  <2>1. G \in [Text \X (1..n) -> Text]
    BY <1>r
  <2>2. \A l \in Text, k \in 1..n : G[<<l, k>>] = M!Replaced(l, values[k])
    OBVIOUS
  <2> HIDE DEF G
  <2>3. PICK f \in [0..n -> Text] : f[0] = line /\ \A k \in 1..n : f[k] = G[<<f[k - 1], k>>]
    <3>1. Recursive(n, Text, line)
      BY Recursion
    <3> QED BY <2>1, <3>1 DEF Recursive
  <2>4. ASSUME NEW k \in 0..n
        PROVE f[k] = IF k = 0 THEN line ELSE M!Replaced(f[k - 1], values[k])
    <3>1. CASE k = 0
      BY <2>3, <3>1
    <3>2. CASE k # 0
      <4>1. k \in 1..n /\ k - 1 \in 0..n
        BY <3>2
      <4> QED BY <2>2, <2>3, <3>2, <4>1
    <3> QED BY <3>1, <3>2
  <2>5. Eq(f)
    BY <1>n, <2>4
  <2> QED BY <2>5
<1>3. Eq(F)
  <2> HIDE DEF Eq
  <2> QED BY <1>2, Zenon
<1> HIDE DEF F
<1>4. F[0] = line
  BY <1>3, <1>n
<1>5. ASSUME NEW k \in 1..n PROVE F[k] = M!Replaced(F[k - 1], values[k])
  <2>1. k \in 0..n /\ k # 0
    OBVIOUS
  <2> QED BY <1>3, <1>n, <2>1
<1>6. 0..n \subseteq {k \in 0..n : F[k] \in Text}
  <2> DEFINE T == {k \in 0..n : F[k] \in Text}
  <2>1. 0 \in T
    BY <1>4
  <2>2. ASSUME NEW k \in 1..n, k - 1 \in T PROVE k \in T
    BY <1>r, <1>5, <2>2
  <2> HIDE DEF T
  <2>3. 0..n \subseteq T
    BY <2>1, <2>2, Counting
  <2> QED BY <2>3 DEF T
<1>7. F = [k \in 0..n |-> F[k]]
  <2> DEFINE e(k) == IF k = 0 THEN line ELSE M!Replaced(F[k - 1], values[k])
             h == [k \in 0..n |-> e(k)]
  <2>1. F = h
    BY <1>3, <1>n
  <2>2. h = [k \in 0..n |-> h[k]]
    OBVIOUS
  <2> HIDE DEF h
  <2> QED BY <2>1, <2>2
<1>8. F \in [0..n -> Text]
  BY <1>6, <1>7
<1> QED BY <1>1, <1>4, <1>5, <1>8, <1>n DEF IsMasked

\* A value of the list, if it has no star, is nowhere in a masked line.
LEMMA MaskHides ==
  ASSUME NEW values, Masking(values), NEW line \in Text,
         NEW m \in 1..Len(values), Starless(values[m])
  PROVE ~M!Shows(M!Mask(values, line), values[m])
<1>n. PICK n \in Nat : n = Len(values)
  BY LenProperties DEF Masking
<1>v. \A k \in 1..n : values[k] \in Text /\ Len(values[k]) >= 1
  BY <1>n, ElementOfSeq DEF Masking
<1>1. PICK f : IsMasked(f, values, line) /\ M!Mask(values, line) = f[n]
  BY <1>n, MaskIs
<1>2. PICK v \in Text : v = values[m] /\ Starless(v) /\ Len(v) >= 1
  BY <1>n, <1>v
<1> DEFINE T == {k \in 0..n : k >= m => ~M!Shows(f[k], v)}
<1>3. 0 \in T
  BY <1>n
<1>4. ASSUME NEW k \in 1..n, k - 1 \in T PROVE k \in T
  <2>1. f[k - 1] \in Text /\ values[k] \in Text /\ Len(values[k]) >= 1
        /\ f[k] = M!Replaced(f[k - 1], values[k])
    <3>1. k - 1 \in 0..n
      OBVIOUS
    <3> QED BY <1>1, <1>n, <1>v, <3>1 DEF IsMasked
  <2>2. M!Shows(f[k], v) => v # values[k] /\ M!Shows(f[k - 1], v)
    BY <1>2, <2>1, ReplacedHides
  <2>3. k >= m => k = m \/ k - 1 >= m
    BY <1>n
  <2> QED BY <1>2, <1>4, <2>2, <2>3
<1>5. 0..n \subseteq T
  <2> HIDE DEF T
  <2> QED BY <1>3, <1>4, Counting
<1> QED BY <1>1, <1>2, <1>5, <1>n

\* Longest first, and each once.
Sorted(values) ==
  \A i, j \in 1..Len(values) :
    i < j => Len(values[i]) >= Len(values[j]) /\ values[i] # values[j]

\* A value is not part of another that is as long or shorter.
LEMMA NotWithin ==
  ASSUME NEW v \in Text, NEW w \in Text, Len(w) >= Len(v), w # v
  PROVE ~M!Shows(v, w)
<1> SUFFICES ASSUME M!Shows(v, w) PROVE FALSE
  OBVIOUS
<1>1. Len(v) \in Nat /\ Len(w) \in Nat
  BY LenProperties DEF Text
<1>2. PICK p : Occurs(v, p, w)
  BY OccursIs
<1>3. p = 1 /\ Len(w) = Len(v)
  BY <1>1, <1>2 DEF Occurs
<1>4. \A j \in 1..Len(w) : 1 + j - 1 = j
  BY <1>1
<1>5. \A j \in 1..Len(w) : v[j] = w[j]
  BY <1>2, <1>3, <1>4 DEF Occurs
<1> QED BY <1>3, <1>5, SeqEqual DEF Text

\* A value that is printed alone becomes the mask, as longer ones go first and
\* none occurs in the mask itself.
LEMMA MaskWhole ==
  ASSUME NEW values, Masking(values), Sorted(values), NEW m \in 1..Len(values),
         \A k \in 1..Len(values) : ~M!Shows(M!Stars, values[k])
  PROVE M!Mask(values, values[m]) = M!Stars
<1>n. PICK n \in Nat : n = Len(values)
  BY LenProperties DEF Masking
<1>v. \A k \in 1..n : values[k] \in Text /\ Len(values[k]) >= 1
  BY <1>n, ElementOfSeq DEF Masking
<1>2. PICK v \in Text : v = values[m]
  BY <1>n, <1>v
<1>1. PICK f : IsMasked(f, values, v) /\ M!Mask(values, v) = f[n]
  BY <1>n, MaskIs
<1> DEFINE T == {k \in 0..n : f[k] = IF k < m THEN v ELSE M!Stars}
<1>3. 0 \in T
  BY <1>1, <1>n DEF IsMasked
<1>4. ASSUME NEW k \in 1..n, k - 1 \in T PROVE k \in T
  <2>1. values[k] \in Text /\ Len(values[k]) >= 1
        /\ f[k] = M!Replaced(f[k - 1], values[k])
    BY <1>1, <1>n, <1>v DEF IsMasked
  <2>2. f[k - 1] = IF k - 1 < m THEN v ELSE M!Stars
    BY <1>4
  <2>3. m \in 1..n /\ k \in 1..n
    BY <1>n
  <2>4. CASE k < m
    <3>1. Len(values[k]) >= Len(v) /\ values[k] # v
      BY <1>2, <1>n, <2>3, <2>4 DEF Sorted
    <3>2. f[k] = v
      BY <2>1, <2>2, <2>4, <3>1, NotWithin, ReplacedNothing
    <3> QED BY <2>4, <3>2
  <2>5. CASE k = m
    <3>1. f[k] = M!Stars
      BY <1>2, <2>1, <2>2, <2>5, ReplacedWhole
    <3> QED BY <2>3, <2>5, <3>1
  <2>6. CASE k > m
    <3>1. f[k - 1] = M!Stars /\ ~(k < m)
      BY <2>2, <2>3, <2>6
    <3>2. ~M!Shows(M!Stars, values[k])
      BY <1>n
    <3>3. f[k] = M!Stars
      BY <2>1, <3>1, <3>2, StarsText, ReplacedNothing
    <3> QED BY <3>1, <3>3
  <2> QED BY <2>3, <2>4, <2>5, <2>6
<1>5. 0..n \subseteq T
  <2> HIDE DEF T
  <2> QED BY <1>3, <1>4, Counting
<1>6. n \in T /\ ~(n < m)
  <2>1. n \in 0..n /\ ~(n < m)
    BY <1>n
  <2> HIDE DEF T
  <2> QED BY <1>5, <2>1
<1> QED BY <1>1, <1>2, <1>6

(***************************************************************************)
(* Masker::add: the list stays sorted.                                     *)
(***************************************************************************)

LEMMA SameCount == \A S : M!Cardinality(S) = Cardinality(S)
  BY DEF Cardinality, M!Cardinality, IsFiniteSet, M!IsFiniteSet

\* A set of numbers with all smaller ones is an interval.
LEMMA Interval ==
  ASSUME NEW n \in Nat, NEW B, B \subseteq 1..n, \A k \in B : 1..k \subseteq B
  PROVE \E c \in 0..n : B = 1..c /\ Cardinality(B) = c
<1> DEFINE T == {m \in 0..n : \E c \in 0..m : B \cap (1..m) = 1..c}
<1>1. 0 \in T
  <2>1. 0 \in 0..0 /\ B \cap (1..0) = 1..0 /\ 0 \in 0..n
    OBVIOUS
  <2> QED BY <2>1
<1>2. ASSUME NEW m \in 1..n, m - 1 \in T PROVE m \in T
  <2>0. m \in 0..n
    OBVIOUS
  <2>1. CASE m \in B
    <3>1. B \cap (1..m) = 1..m /\ m \in 0..m
      BY <2>1
    <3> QED BY <2>0, <3>1
  <2>2. CASE m \notin B
    <3>1. PICK c \in 0..(m - 1) : B \cap (1..(m - 1)) = 1..c
      BY <1>2
    <3>2. \A j \in 1..m : j \in 1..(m - 1) \/ j = m
      OBVIOUS
    <3>3. \A j \in 1..(m - 1) : j \in 1..m
      OBVIOUS
    <3>4. B \cap (1..m) = 1..c /\ c \in 0..m
      BY <2>2, <3>1, <3>2, <3>3
    <3> QED BY <2>0, <3>4
  <2> QED BY <2>1, <2>2
<1>3. n \in T
  <2> HIDE DEF T
  <2>1. 0..n \subseteq T /\ n \in 0..n
    BY <1>1, <1>2, Counting
  <2> QED BY <2>1
<1>4. PICK c \in 0..n : B \cap (1..n) = 1..c
  BY <1>3
<1>5. B = 1..c
  BY <1>4
<1>6. Cardinality(1..c) = c
  <2>1. 1 \in Int /\ c \in Int /\ (IF 1 > c THEN 0 ELSE c - 1 + 1) = c
    OBVIOUS
  <2> QED BY <2>1, FS_Interval
<1> QED BY <1>5, <1>6

\* The list holds the values of S, the longest first.
Holds(values, S) ==
  /\ values \in Seq(Text) /\ Sorted(values)
  /\ \A k \in 1..Len(values) : values[k] \in S
  /\ \A v \in S : \E k \in 1..Len(values) : values[k] = v

\* The list with v after its first c values.
LEMMA Inserted ==
  ASSUME NEW values \in Seq(Text), NEW v \in Text, NEW c \in 0..Len(values)
  PROVE LET u == M!InsertAt(values, 1 + c, v)
        IN /\ u \in Seq(Text) /\ Len(u) = Len(values) + 1
           /\ \A i \in 1..Len(u) :
                u[i] = IF i <= c THEN values[i]
                       ELSE IF i = c + 1 THEN v ELSE values[i - 1]
<1>n. PICK n \in Nat : n = Len(values)
  BY LenProperties
<1>c. c \in 0..n
  BY <1>n
<1> DEFINE a == SubSeq(values, 1, c)
           b == SubSeq(values, 1 + c, n)
           ab == a \o <<v>>
<1>1. a \in Seq(Text) /\ Len(a) = c /\ \A i \in 1..c : a[i] = values[i]
  <2>1. \A i \in 1..c : values[i] \in Text
    <3>1. \A i \in 1..c : i \in 1..Len(values)
      BY <1>n, <1>c
    <3> QED BY <3>1, ElementOfSeq
  <2>2. 1 \in Int /\ c \in Int /\ (IF 1 <= c THEN c - 1 + 1 ELSE 0) = c /\ c - 1 + 1 = c
        /\ \A i \in 1..c : 1 + i - 1 = i
    BY <1>c
  <2>3. /\ a \in Seq(Text) /\ Len(a) = IF 1 <= c THEN c - 1 + 1 ELSE 0
        /\ \A i \in 1..(c - 1 + 1) : a[i] = values[1 + i - 1]
    BY <2>1, <2>2, SubSeqProperties
  <2> QED BY <2>2, <2>3
<1>2. b \in Seq(Text) /\ Len(b) = n - c /\ \A i \in 1..(n - c) : b[i] = values[c + i]
  <2>1. \A i \in (1 + c)..n : values[i] \in Text
    <3>1. \A i \in (1 + c)..n : i \in 1..Len(values)
      BY <1>n, <1>c
    <3> QED BY <3>1, ElementOfSeq
  <2>2. 1 + c \in Int /\ n \in Int
        /\ (IF 1 + c <= n THEN n - (1 + c) + 1 ELSE 0) = n - c
        /\ n - (1 + c) + 1 = n - c
        /\ \A i \in 1..(n - c) : (1 + c) + i - 1 = c + i
    BY <1>c
  <2>3. /\ b \in Seq(Text) /\ Len(b) = IF 1 + c <= n THEN n - (1 + c) + 1 ELSE 0
        /\ \A i \in 1..(n - (1 + c) + 1) : b[i] = values[(1 + c) + i - 1]
    BY <2>1, <2>2, SubSeqProperties
  <2> QED BY <2>2, <2>3
<1>3. <<v>> \in Seq(Text) /\ Len(<<v>>) = 1 /\ <<v>>[1] = v
  OBVIOUS
<1>u. M!InsertAt(values, 1 + c, v) = ab \o b
  <2>1. (1 + c) - 1 = c
    BY <1>c
  <2> QED BY <1>n, <2>1 DEF M!InsertAt
<1> HIDE DEF a, b
<1>4. /\ ab \in Seq(Text) /\ Len(ab) = c + 1
      /\ \A i \in 1..(c + 1) : ab[i] = IF i <= c THEN a[i] ELSE <<v>>[i - c]
  BY <1>1, <1>3, ConcatProperties
<1> HIDE DEF ab
<1>5. /\ ab \o b \in Seq(Text) /\ Len(ab \o b) = (c + 1) + (n - c)
      /\ \A i \in 1..((c + 1) + (n - c)) :
           (ab \o b)[i] = IF i <= c + 1 THEN ab[i] ELSE b[i - (c + 1)]
  <2>1. ab \in Seq(Text) /\ b \in Seq(Text)
    BY <1>2, <1>4
  <2>2. /\ ab \o b \in Seq(Text) /\ Len(ab \o b) = Len(ab) + Len(b)
        /\ \A i \in 1..(Len(ab) + Len(b)) :
             (ab \o b)[i] = IF i <= Len(ab) THEN ab[i] ELSE b[i - Len(ab)]
    BY <2>1, ConcatProperties
  <2> QED BY <1>2, <1>4, <2>2
<1>6. (c + 1) + (n - c) = n + 1
  BY <1>c
<1>7. ASSUME NEW i \in 1..(n + 1)
      PROVE (ab \o b)[i] = IF i <= c THEN values[i]
                           ELSE IF i = c + 1 THEN v ELSE values[i - 1]
  <2>1. CASE i <= c
    <3>1. i \in 1..c /\ i \in 1..(c + 1) /\ i <= c + 1
      BY <1>c, <2>1
    <3> QED BY <1>1, <1>4, <1>5, <1>6, <2>1, <3>1
  <2>2. CASE i = c + 1
    <3>1. i \in 1..(c + 1) /\ ~(i <= c) /\ i - c = 1 /\ i <= c + 1
      BY <1>c, <2>2
    <3> QED BY <1>3, <1>4, <1>5, <1>6, <2>2, <3>1
  <2>3. CASE i > c + 1
    <3>1. i - (c + 1) \in 1..(n - c) /\ c + (i - (c + 1)) = i - 1
          /\ ~(i <= c) /\ ~(i = c + 1) /\ ~(i <= c + 1)
      BY <1>c, <2>3
    <3>2. (ab \o b)[i] = b[i - (c + 1)]
      BY <1>5, <1>6, <3>1
    <3>3. b[i - (c + 1)] = values[c + (i - (c + 1))]
      BY <1>2, <3>1
    <3> QED BY <3>1, <3>2, <3>3
  <2>4. i \in Nat /\ c \in Nat
    BY <1>c
  <2>5. i <= c \/ i = c + 1 \/ i > c + 1
    BY <2>4
  <2> QED BY <2>1, <2>2, <2>3, <2>5
<1> DEFINE u == ab \o b
<1>8. u \in Seq(Text) /\ Len(u) = n + 1
  BY <1>5, <1>6
<1>9. \A i \in 1..(n + 1) :
        u[i] = IF i <= c THEN values[i]
               ELSE IF i = c + 1 THEN v ELSE values[i - 1]
  BY <1>7
<1> HIDE DEF u
<1>10. M!InsertAt(values, 1 + c, v) = u
  BY <1>u DEF u
<1> QED BY <1>n, <1>8, <1>9, <1>10

\* A value that is long enough comes to the list, in its place.
LEMMA AddHolds ==
  ASSUME NEW values, NEW S, Holds(values, S), NEW v \in Text
  PROVE Holds(M!Add(values, v), S \cup {x \in {v} : Len(x) >= MinLen})
<1>n. PICK n \in Nat : n = Len(values)
  BY LenProperties DEF Holds
<1>l. Len(v) \in Nat /\ \A k \in 1..n : values[k] \in Text /\ Len(values[k]) \in Nat
  BY <1>n, ElementOfSeq, LenProperties DEF Holds, Text
<1>d. DOMAIN values = 1..n /\ M!Range(values) = {values[k] : k \in 1..n}
  BY <1>n, LenProperties DEF Holds, M!Range
<1> DEFINE S2 == S \cup {x \in {v} : Len(x) >= MinLen}
<1>1. CASE Len(v) < MinLen \/ v \in M!Range(values)
  <2>1. M!Add(values, v) = values
    BY <1>1 DEF M!Add
  <2>2. S2 = S
    <3>1. CASE Len(v) < MinLen
      <4>1. ~(Len(v) >= MinLen)
        BY <1>l, <3>1, MinLenAssumption
      <4> QED BY <4>1
    <3>2. CASE v \in M!Range(values)
      <4>1. v \in S
        BY <1>d, <1>n, <3>2 DEF Holds
      <4> QED BY <4>1
    <3> QED BY <1>1, <3>1, <3>2
  <2> QED BY <2>1, <2>2
<1>2. CASE ~(Len(v) < MinLen \/ v \in M!Range(values))
  <2> DEFINE B == {k \in 1..n : Len(values[k]) >= Len(v)}
  <2>1. PICK c \in 0..n : B = 1..c /\ Cardinality(B) = c
    <3>1. \A k \in B : 1..k \subseteq B
      <4> SUFFICES ASSUME NEW k \in B, NEW j \in 1..k PROVE j \in B
        OBVIOUS
      <4>1. j \in 1..n /\ k \in 1..n /\ (j = k \/ j < k)
        OBVIOUS
      <4>2. j < k => Len(values[j]) >= Len(values[k])
        BY <1>n, <4>1 DEF Holds, Sorted
      <4>3. Len(values[j]) >= Len(v)
        BY <1>l, <4>1, <4>2
      <4> QED BY <4>1, <4>3
    <3>2. B \subseteq 1..n
      OBVIOUS
    <3> HIDE DEF B
    <3> QED BY <3>1, <3>2, Interval
  <2> DEFINE u == M!InsertAt(values, 1 + c, v)
  <2>2. M!Add(values, v) = u
    <3>1. M!Cardinality({k \in DOMAIN values : Len(values[k]) >= Len(v)}) = c
      BY <1>d, <2>1, SameCount
    <3> QED BY <1>2, <3>1 DEF M!Add
  <2>3. /\ u \in Seq(Text) /\ Len(u) = n + 1
        /\ \A i \in 1..(n + 1) :
             u[i] = IF i <= c THEN values[i]
                    ELSE IF i = c + 1 THEN v ELSE values[i - 1]
    <3>1. values \in Seq(Text) /\ c \in 0..Len(values)
      BY <1>n DEF Holds
    <3>2. /\ u \in Seq(Text) /\ Len(u) = Len(values) + 1
          /\ \A i \in 1..Len(u) :
               u[i] = IF i <= c THEN values[i]
                      ELSE IF i = c + 1 THEN v ELSE values[i - 1]
      BY <3>1, Inserted
    <3> HIDE DEF u
    <3> QED BY <1>n, <3>2
  <2> HIDE DEF u
  <2>4. \A i \in 1..c : i \in 1..n /\ Len(values[i]) >= Len(v)
    BY <2>1
  <2>5. \A i \in 1..n : i > c => ~(Len(values[i]) >= Len(v))
    <3> SUFFICES ASSUME NEW i \in 1..n, i > c, Len(values[i]) >= Len(v) PROVE FALSE
      OBVIOUS
    <3>1. i \in B
      OBVIOUS
    <3>2. i \in 1..c
      BY <2>1, <3>1
    <3> QED BY <3>2
  <2>6. S2 = S \cup {v} /\ \A k \in 1..n : values[k] # v
    BY <1>2, <1>d, <1>l, MinLenAssumption
  <2>7. Sorted(u)
    <3> SUFFICES ASSUME NEW i \in 1..(n + 1), NEW j \in 1..(n + 1), i < j
                 PROVE Len(u[i]) >= Len(u[j]) /\ u[i] # u[j]
      BY <2>3 DEF Sorted
    <3>0. c \in Nat /\ i \in Nat /\ j \in Nat
      OBVIOUS
    <3>s. \A a, b \in 1..n : a < b => Len(values[a]) >= Len(values[b]) /\ values[a] # values[b]
      BY <1>n DEF Holds, Sorted
    <3>1. CASE i <= c /\ j <= c
      <4>1. u[i] = values[i] /\ u[j] = values[j] /\ i \in 1..n /\ j \in 1..n
        BY <2>3, <2>4, <3>0, <3>1
      <4> QED BY <3>s, <4>1
    <3>2. CASE i <= c /\ j = c + 1
      <4>1. u[i] = values[i] /\ i \in 1..c
        BY <2>3, <3>0, <3>2
      <4>2. u[j] = v
        <5>1. ~(j <= c)
          BY <3>0, <3>2
        <5> QED BY <2>3, <3>2, <5>1
      <4> QED BY <2>4, <2>6, <4>1, <4>2
    <3>3. CASE i <= c /\ j > c + 1
      <4>1. u[i] = values[i] /\ i \in 1..n
        BY <2>3, <2>4, <3>0, <3>3
      <4>2. ~(j <= c) /\ ~(j = c + 1) /\ j - 1 \in 1..n /\ i < j - 1
        BY <3>0, <3>3
      <4>3. u[j] = values[j - 1]
        BY <2>3, <4>2
      <4> QED BY <3>s, <4>1, <4>2, <4>3
    <3>4. CASE i = c + 1 /\ j > c + 1
      <4>1. ~(i <= c) /\ ~(j <= c) /\ ~(j = c + 1) /\ j - 1 \in 1..n /\ j - 1 > c
        BY <3>0, <3>4
      <4>2. u[i] = v /\ u[j] = values[j - 1]
        BY <2>3, <3>4, <4>1
      <4>3. ~(Len(values[j - 1]) >= Len(v)) /\ Len(values[j - 1]) \in Nat /\ values[j - 1] # v
        BY <1>l, <2>5, <2>6, <4>1
      <4> QED BY <1>l, <4>2, <4>3
    <3>5. CASE i > c + 1
      <4>1. ~(i <= c) /\ ~(i = c + 1) /\ ~(j <= c) /\ ~(j = c + 1)
            /\ i - 1 \in 1..n /\ j - 1 \in 1..n /\ i - 1 < j - 1
        BY <3>0, <3>5
      <4>2. u[i] = values[i - 1] /\ u[j] = values[j - 1]
        BY <2>3, <4>1
      <4> QED BY <3>s, <4>1, <4>2
    <3>6. \/ i <= c /\ (j <= c \/ j = c + 1 \/ j > c + 1)
          \/ i = c + 1 /\ j > c + 1
          \/ i > c + 1
      BY <3>0
    <3> QED BY <3>1, <3>2, <3>3, <3>4, <3>5, <3>6
  <2>8. \A i \in 1..(n + 1) : u[i] \in S2
    <3> SUFFICES ASSUME NEW i \in 1..(n + 1) PROVE u[i] \in S2
      OBVIOUS
    <3>0. c \in Nat /\ i \in Nat
      OBVIOUS
    <3>s. \A k \in 1..n : values[k] \in S
      BY <1>n DEF Holds
    <3>1. CASE i <= c
      <4>1. i \in 1..n
        BY <3>0, <3>1
      <4> QED BY <2>3, <2>6, <3>1, <3>s, <4>1
    <3>2. CASE i = c + 1
      <4>1. ~(i <= c)
        BY <3>0, <3>2
      <4> QED BY <2>3, <2>6, <3>2, <4>1
    <3>3. CASE i > c + 1
      <4>1. ~(i <= c) /\ ~(i = c + 1) /\ i - 1 \in 1..n
        BY <3>0, <3>3
      <4> QED BY <2>3, <2>6, <3>s, <4>1
    <3> QED BY <3>0, <3>1, <3>2, <3>3
  <2>9. \A x \in S2 : \E k \in 1..(n + 1) : u[k] = x
    <3> SUFFICES ASSUME NEW x \in S2 PROVE \E k \in 1..(n + 1) : u[k] = x
      OBVIOUS
    <3>0. c \in Nat
      OBVIOUS
    <3>1. CASE x = v
      <4>1. c + 1 \in 1..(n + 1) /\ ~(c + 1 <= c)
        BY <3>0
      <4>2. u[c + 1] = v
        BY <2>3, <4>1
      <4> QED BY <3>1, <4>1, <4>2
    <3>2. CASE x # v
      <4>1. PICK k \in 1..n : values[k] = x
        BY <1>n, <2>6, <3>2 DEF Holds
      <4>2. CASE k <= c
        <5>1. k \in 1..(n + 1)
          OBVIOUS
        <5> QED BY <2>3, <4>1, <4>2, <5>1
      <4>3. CASE k > c
        <5>1. PICK j : j = k + 1
          OBVIOUS
        <5>2. j \in 1..(n + 1) /\ ~(j <= c) /\ ~(j = c + 1) /\ j - 1 = k
          BY <3>0, <4>3, <5>1
        <5>3. u[j] = values[j - 1]
          BY <2>3, <5>2
        <5> QED BY <4>1, <5>2, <5>3
      <4> QED BY <3>0, <4>2, <4>3
    <3> QED BY <3>1, <3>2
  <2> HIDE DEF S2
  <2>10. Holds(u, S2)
    BY <2>3, <2>7, <2>8, <2>9 DEF Holds
  <2> QED BY <2>2, <2>10 DEF S2
<1> QED BY <1>1, <1>2

\* And so do all of a configuration.
LEMMA AddAllHolds ==
  ASSUME NEW values, NEW S, Holds(values, S), NEW new \in Seq(Text)
  PROVE Holds(M!AddAll(values, new),
              S \cup {v \in {new[k] : k \in DOMAIN new} : Len(v) >= MinLen})
<1>n. PICK n \in Nat : n = Len(new) /\ DOMAIN new = 1..n
  BY LenProperties
<1>v. \A k \in 1..n : new[k] \in Text
  BY <1>n, ElementOfSeq
<1> DEFINE Some(k) == S \cup {v \in {new[j] : j \in 1..k} : Len(v) >= MinLen}
           Lists == {l \in Seq(Text) : \E R : Holds(l, R)}
           Eq(f) == f = [k \in 0..Len(new) |->
                       IF k = 0 THEN values ELSE M!Add(f[k - 1], new[k])]
           F == CHOOSE f : Eq(f)
           G == [x \in Lists \X (1..n) |-> M!Add(x[1], new[x[2]])]
<1>1. M!AddAll(values, new) = F[Len(new)]
  BY DEF M!AddAll
<1>2. \E f : Eq(f)
  <2>0. \A l \in Lists, k \in 1..n : M!Add(l, new[k]) \in Lists
    <3> SUFFICES ASSUME NEW l \in Lists, NEW k \in 1..n PROVE M!Add(l, new[k]) \in Lists
      OBVIOUS
    <3>1. PICK R : Holds(l, R)
      OBVIOUS
    <3>2. Holds(M!Add(l, new[k]), R \cup {x \in {new[k]} : Len(x) >= MinLen})
      BY <1>v, <3>1, AddHolds
    <3>3. M!Add(l, new[k]) \in Seq(Text)
      BY <3>2 DEF Holds
    <3> QED BY <3>2, <3>3
  <2>1. G \in [Lists \X (1..n) -> Lists]
    BY <2>0
  <2>2. \A l \in Lists, k \in 1..n : G[<<l, k>>] = M!Add(l, new[k])
    OBVIOUS
  <2>v. values \in Lists
    BY DEF Holds
  <2> HIDE DEF G, Lists
  <2>3. PICK f \in [0..n -> Lists] : f[0] = values /\ \A k \in 1..n : f[k] = G[<<f[k - 1], k>>]
    <3>1. Recursive(n, Lists, values)
      BY <2>v, Recursion
    <3> QED BY <2>1, <3>1 DEF Recursive
  <2>4. ASSUME NEW k \in 0..n
        PROVE f[k] = IF k = 0 THEN values ELSE M!Add(f[k - 1], new[k])
    <3>1. CASE k = 0
      BY <2>3, <3>1
    <3>2. CASE k # 0
      <4>1. k \in 1..n /\ k - 1 \in 0..n
        BY <3>2
      <4> QED BY <2>2, <2>3, <3>2, <4>1
    <3> QED BY <3>1, <3>2
  <2>5. Eq(f)
    BY <1>n, <2>4
  <2> QED BY <2>5
<1>3. Eq(F)
  <2> HIDE DEF Eq
  <2> QED BY <1>2, Zenon
<1> HIDE DEF F
<1>4. F[0] = values
  BY <1>3, <1>n
<1>5. ASSUME NEW k \in 1..n PROVE F[k] = M!Add(F[k - 1], new[k])
  <2>1. k \in 0..n /\ k # 0
    OBVIOUS
  <2> QED BY <1>3, <1>n, <2>1
<1> DEFINE T == {k \in 0..n : Holds(F[k], Some(k))}
<1>6. 0 \in T
  <2>1. Some(0) = S
    OBVIOUS
  <2> HIDE DEF Some
  <2> QED BY <1>4, <2>1
<1>7. ASSUME NEW k \in 1..n, k - 1 \in T PROVE k \in T
  <2>1. Holds(F[k - 1], Some(k - 1)) /\ new[k] \in Text
    BY <1>7, <1>v
  <2>2. Some(k) = Some(k - 1) \cup {x \in {new[k]} : Len(x) >= MinLen}
    <3>1. \A j \in 1..k : j = k \/ j \in 1..(k - 1)
      OBVIOUS
    <3>2. k \in 1..k /\ \A j \in 1..(k - 1) : j \in 1..k
      OBVIOUS
    <3> QED BY <3>1, <3>2
  <2> HIDE DEF Some
  <2>3. Holds(M!Add(F[k - 1], new[k]), Some(k - 1) \cup {x \in {new[k]} : Len(x) >= MinLen})
    BY <2>1, AddHolds
  <2>4. Holds(F[k], Some(k)) /\ k \in 0..n
    BY <1>5, <2>2, <2>3
  <2> QED BY <2>4
<1>8. n \in T
  <2> HIDE DEF T
  <2>1. 0..n \subseteq T
    BY <1>6, <1>7, Counting
  <2> QED BY <2>1
<1> QED BY <1>1, <1>8, <1>n

(***************************************************************************)
(* No secret gets out.                                                     *)
(***************************************************************************)

Secrets(c) == {Values[c][k] : k \in DOMAIN Values[c]}

Known(F) == UNION {Secrets(c) : c \in F}

Maskable(S) == {v \in S : Len(v) >= MinLen}

\* The masker knows what has been fetched, and nothing else.
MaskerInv == Holds(masker, Maskable(Known(fetched)))

LEMMA LoadHolds ==
  ASSUME ControlOK, MaskerInv, NEW c \in Configs, Load(c)
  PROVE MaskerInv'
<1> DEFINE new == Values[c]
           S == Maskable(Known(fetched))
           S2 == Maskable(Known(fetched \cup {c}))
<1>1. new \in Seq(Text)
  BY ValuesAssumption DEF Text
<1>2. S2 = S \cup {v \in {new[k] : k \in DOMAIN new} : Len(v) >= MinLen}
  <2> DEFINE More == {v \in {new[k] : k \in DOMAIN new} : Len(v) >= MinLen}
  <2>1. \A F, x : x \in Known(F) <=> \E d \in F : x \in Secrets(d)
    BY DEF Known
  <2>2. Known(fetched \cup {c}) = Known(fetched) \cup Secrets(c)
    BY <2>1
  <2>3. \A A, B : Maskable(A \cup B) = Maskable(A) \cup Maskable(B)
    BY DEF Maskable
  <2>4. Maskable(Secrets(c)) = More
    BY DEF Maskable, Secrets
  <2> HIDE DEF More
  <2>5. Maskable(Known(fetched \cup {c})) = Maskable(Known(fetched)) \cup More
    BY <2>2, <2>3, <2>4
  <2> QED BY <2>5 DEF More
<1> HIDE DEF new, S, S2
<1>3. Holds(M!AddAll(masker, new), S2)
  <2>1. Holds(masker, S)
    BY DEF MaskerInv, S
  <2> QED BY <1>1, <1>2, <2>1, AddAllHolds
<1>4. masker' = M!AddAll(masker, new) /\ fetched' = fetched \cup {c}
  BY DEF Load, new
<1>5. Holds(masker', Maskable(Known(fetched')))
  BY <1>3, <1>4 DEF S2
<1> QED BY <1>5 DEF MaskerInv

LEMMA MaskerStep ==
  ASSUME ControlOK, MaskerInv, [Next]_vars
  PROVE MaskerInv'
<1>1. ASSUME UNCHANGED secrets PROVE MaskerInv'
  BY <1>1 DEF secrets, MaskerInv
<1>2. ASSUME NEW s \in Steps, ~Loaded(s), Load(configuration_for(s))
      PROVE MaskerInv'
  <2>1. configuration_for(s) \in Configs
    BY <1>2 DEF Loaded, configuration_for, ControlOK, MaybeConf
  <2> QED BY <1>2, <2>1, LoadHolds
<1>3. CASE PreflightFetch
  BY <1>2, <1>3 DEF PreflightFetch
<1>4. CASE StartStep
  <2>1. CASE Loaded(at)
    <3>1. UNCHANGED secrets
      BY <1>4, <2>1 DEF StartStep
    <3> QED BY <1>1, <3>1
  <2>2. CASE ~Loaded(at)
    <3>1. at \in Steps /\ Load(configuration_for(at))
      BY <1>4, <2>2 DEF StartStep
    <3> QED BY <1>2, <2>2, <3>1
  <2> QED BY <2>1, <2>2
<1>5. CASE ~PreflightFetch /\ ~StartStep
  <2>1. UNCHANGED secrets
    BY <1>5 DEF Next, vars, Parse, AttachCaches, PreflightEnds, PreflightPass,
      PreflightRefused, StepUnmet, StepsEnd, SkipStep, StepPasses, StepFails,
      StepPanics, Conclude, PostCommitStatus, ReportError, Finish
  <2> QED BY <1>1, <2>1
<1> QED BY <1>3, <1>4, <1>5

LEMMA MaskerInvariance == Spec => []MaskerInv
<1>1. Init => MaskerInv
  <2> SUFFICES ASSUME Init PROVE MaskerInv
    OBVIOUS
  <2>1. masker = <<>> /\ fetched = {}
    BY DEF Init
  <2>2. <<>> \in Seq(Text) /\ Len(<<>>) = 0 /\ \A k \in 1..0 : FALSE
    OBVIOUS
  <2>3. Maskable(Known({})) = {}
    BY DEF Known, Maskable
  <2> QED BY <2>1, <2>2, <2>3 DEF MaskerInv, Holds, Sorted
<1>2. ControlOK /\ MaskerInv /\ [Next]_vars => MaskerInv'
  BY MaskerStep
<1> QED BY <1>1, <1>2, ControlInvariance, PTL DEF Spec

\* While a step runs, no line shows a secret that some step of the run may
\* use, whatever is printed around it and however the secrets overlap.
THEOREM SecretsMasked == Spec => []NothingPrinted
<1>1. ControlOK /\ PreflightComplete /\ MaskerInv => NothingPrinted
  <2> SUFFICES ASSUME ControlOK, PreflightComplete, MaskerInv, pc = "exec",
                      NEW c \in Needed, NEW k \in DOMAIN Values[c],
                      Len(Values[c][k]) >= MinLen
               PROVE /\ M!Mask(masker, Values[c][k]) = M!Stars
                     /\ Starless(Values[c][k]) =>
                          \A t, u \in Texts :
                            ~M!Shows(M!Mask(masker, t \o Values[c][k] \o u), Values[c][k])
    BY DEF NothingPrinted
  <2> DEFINE v == Values[c][k]
             S == Maskable(Known(fetched))
  <2>1. c \in fetched /\ c \in Configs /\ fetched \subseteq Configs
    BY DEF PreflightComplete, ControlOK
  <2>2. v \in S
    BY <2>1 DEF Known, Maskable, Secrets
  <2>3. \A w \in S : w \in AllValues /\ Len(w) >= MinLen
    BY <2>1 DEF Known, Maskable, Secrets, AllValues
  <2>4. v \in Text
    <3>1. Values[c] \in Seq(Seq(Chars))
      BY <2>1, ValuesAssumption
    <3> QED BY <3>1 DEF Text
  <2> HIDE DEF v, S
  <2>5. Holds(masker, S)
    BY DEF MaskerInv, S
  <2>6. Masking(masker) /\ Sorted(masker)
    <3>1. \A j \in 1..Len(masker) : Len(masker[j]) >= MinLen /\ masker[j] \in Text
      BY <2>3, <2>5, ElementOfSeq DEF Holds
    <3>2. \A j \in 1..Len(masker) : Len(masker[j]) >= 1
      BY <3>1, MinLenAssumption, LenProperties DEF Text
    <3> QED BY <2>5, <3>2 DEF Holds, Masking
  <2>7. PICK m \in 1..Len(masker) : masker[m] = v
    BY <2>2, <2>5 DEF Holds
  <2>8. M!Mask(masker, v) = M!Stars
    <3>1. \A j \in 1..Len(masker) : ~M!Shows(M!Stars, masker[j])
      BY <2>3, <2>5, StarsAssumption DEF Holds
    <3> QED BY <2>6, <2>7, <3>1, MaskWhole
  <2>9. ASSUME Starless(v), NEW t \in Texts, NEW u \in Texts
        PROVE ~M!Shows(M!Mask(masker, t \o v \o u), v)
    <3>1. t \in Text /\ u \in Text
      BY CharsAssumption DEF Text
    <3>2. t \o v \o u \in Text
      BY <2>4, <3>1 DEF Text
    <3> QED BY <2>6, <2>7, <2>9, <3>2, MaskHides
  <2>10. /\ M!Mask(masker, v) = M!Stars
         /\ Starless(v) => \A t, u \in Texts : ~M!Shows(M!Mask(masker, t \o v \o u), v)
    BY <2>8, <2>9
  <2> QED BY <2>10 DEF v
<1> QED BY <1>1, ControlInvariance, SecretsFirst, MaskerInvariance, PTL

(***************************************************************************)
(* Types.                                                                  *)
(***************************************************************************)

\* The types ControlOK leaves out.
OthersOK ==
  /\ token \in {"token", "none"}
  /\ pc \in {"parse", "attach", "preflight", "unmet", "step", "exec",
             "conclude", "commit", "error", "finish", "done"}
  /\ sent \in [Steps -> StepStatus]
  /\ caches \in {"none", "attached", "committed", "dropped"}
  /\ runRow \in {"running"} \cup Verdict
  /\ stepRows \in [Steps -> StepStatus \cup {"absent"}]
  /\ github \in {"none"} \cup Verdict
  /\ faults \in 0..MaxFaults

LEMMA OthersStep ==
  ASSUME ControlOK, OthersOK, [Next]_vars
  PROVE OthersOK'
<1> USE MaxFaultsAssumption
    DEF OthersOK, Verdict, StepStatus, job, noPost, Fault
<1>o. overall \in Verdict /\ (pc \in {"unmet", "exec"} => at \in Steps)
  BY DEF ControlOK
<1>p. ASSUME NEW s \in Steps, NEW x \in StepStatus, post_step_status(s, x)
      PROVE /\ sent' \in [Steps -> StepStatus]
            /\ stepRows' \in [Steps -> StepStatus \cup {"absent"}]
            /\ runRow' \in {"running"} \cup Verdict
            /\ faults' \in 0..MaxFaults
  BY <1>p DEF post_step_status
<1>r. ASSUME NEW v \in Verdict, post_run_status(v)
      PROVE /\ runRow' \in {"running"} \cup Verdict
            /\ stepRows' = stepRows
            /\ faults' \in 0..MaxFaults
  BY <1>r DEF post_run_status
<1>1. CASE UNCHANGED vars
  BY <1>1 DEF vars
<1>2. CASE Parse \/ AttachCaches \/ PreflightEnds \/ PreflightPass \/ PreflightFetch
  BY <1>2 DEF Parse, AttachCaches, PreflightEnds, PreflightPass, PreflightFetch
<1>3. CASE PreflightRefused
  BY <1>3, <1>p DEF PreflightRefused
<1>4. CASE StepUnmet
  BY <1>4, <1>o, <1>p DEF StepUnmet
<1>5. CASE StepsEnd \/ StepPanics
  BY <1>5 DEF StepsEnd, StepPanics
<1>6. CASE SkipStep
  <2>1. at \in Steps
    BY <1>6 DEF SkipStep, ControlOK
  <2> QED BY <1>6, <1>p, <2>1 DEF SkipStep
<1>7. CASE StartStep
  BY <1>7, <1>p DEF StartStep
<1>8. CASE StepPasses
  BY <1>8, <1>o, <1>p DEF StepPasses
<1>9. CASE StepFails
  BY <1>9, <1>o, <1>p DEF StepFails
<1>10. CASE Conclude
  BY <1>10, <1>o, <1>r DEF Conclude
<1>11. CASE PostCommitStatus
  BY <1>11, <1>o DEF PostCommitStatus
<1>12. CASE ReportError
  BY <1>12, <1>r DEF ReportError
<1>13. CASE Finish
  BY <1>13 DEF Finish
<1> QED BY <1>1, <1>2, <1>3, <1>4, <1>5, <1>6, <1>7, <1>8, <1>9, <1>10, <1>11,
      <1>12, <1>13 DEF Next

\* Every variable of the agent's run keeps its type, the masker that of a list
\* of the provider's values.
THEOREM RunTypes == Spec => []TypeOK
<1>1. Init => OthersOK
  BY MaxFaultsAssumption DEF Init, OthersOK, Verdict, StepStatus
<1>2. ControlOK /\ OthersOK /\ [Next]_vars => OthersOK'
  BY OthersStep
<1>3. ControlOK /\ OthersOK /\ MaskerInv => TypeOK
  <2> SUFFICES ASSUME ControlOK, OthersOK, MaskerInv PROVE TypeOK
    OBVIOUS
  <2>1. masker \in Seq(AllValues)
    <3>1. masker \in Seq(Text) /\ fetched \subseteq Configs
          /\ \A k \in 1..Len(masker) :
               masker[k] \in Maskable(Known(fetched))
      BY DEF MaskerInv, Holds, ControlOK
    <3>2. Maskable(Known(fetched)) \subseteq AllValues
      BY <3>1 DEF Known, Maskable, Secrets, AllValues
    <3>3. \A k \in 1..Len(masker) : masker[k] \in AllValues
      BY <3>1, <3>2
    <3>4. Len(masker) \in Nat /\ masker = [k \in 1..Len(masker) |-> masker[k]]
      BY <3>1, LenProperties
    <3> QED BY <3>3, <3>4, IsASeq
  <2> QED BY <2>1 DEF ControlOK, OthersOK, TypeOK
<1> QED BY <1>1, <1>2, <1>3, ControlInvariance, MaskerInvariance, PTL DEF Spec
=============================================================================
