----------------------------- MODULE WebProofs -----------------------------
(***************************************************************************)
(* Proofs about the web pages.  SignIn: for any tabs, pages and bounds, a  *)
(* tab's sign-in carries the page it began with through the cookies, or    *)
(* finds out that they are not its own.  ProjectPages: for any number of   *)
(* projects and runs and any size of a page, whoever follows the links of  *)
(* a list sees all of it, though runs come in between.                     *)
(***************************************************************************)
EXTENDS MCWeb, Sequences, FiniteSetTheorems, TLAPS

(***************************************************************************)
(* Types.                                                                  *)
(***************************************************************************)

LEMMA TypeInit == Init => TypeOK
  BY HomeAssumption, NoneAssumption, BoundsAssumption DEF Init, TypeOK

\* Steps of the user, of time and of the server as a whole.
LEMMA TypeEvents ==
  ASSUME TypeOK, User \/ ExpireLogin \/ ExpireSession \/ Restart
  PROVE TypeOK'
<1> USE HomeAssumption, NoneAssumption, BoundsAssumption DEF TypeOK, server, userVars
<1>1. CASE User
  BY <1>1 DEF User, Visit, logout, Ask, Redirect, Move, Cost
<1>2. CASE ExpireLogin \/ ExpireSession
  BY <1>2 DEF ExpireLogin, ExpireSession, Fault, Cost
<1>3. CASE Restart
  BY <1>3 DEF Restart, Fault, Cost, cookies, KeyLost
<1> QED BY <1>1, <1>2, <1>3

LEMMA TypeServe ==
  ASSUME TypeOK, NEW t \in Tabs, Serve(t) \/ Answer(t)
  PROVE TypeOK'
<1> USE HomeAssumption, NoneAssumption, BoundsAssumption
    DEF TypeOK, server, cookies, userVars, Move, NoFault
<1>1. CASE require_auth(t)
  BY <1>1 DEF require_auth
<1>2. CASE login(t)
  BY <1>2 DEF login
<1>3. CASE CallbackRefused(t) \/ CallbackStale(t)
  BY <1>3 DEF CallbackRefused, CallbackStale, error_redirect, Redirect
<1>4. CASE CallbackMatch(t)
  BY <1>4 DEF CallbackMatch
<1>5. CASE ExchangeOk(t)
  BY <1>5 DEF ExchangeOk, Redirect
<1>6. CASE ExchangeFails(t)
  BY <1>6 DEF ExchangeFails, error_redirect, Redirect, Fault, Cost
<1>7. CASE Answer(t)
  BY <1>7 DEF Answer, Approve, Refuse, Fault, Cost
<1> QED BY <1>1, <1>2, <1>3, <1>4, <1>5, <1>6, <1>7 DEF Serve, callback

\* The variables keep their types: a callback whose state cookie is there finds
\* a page in the other one, and no session is signed with a key yet to come.
THEOREM TypeCorrect == Spec => []TypeOK
<1>1. TypeOK /\ [Next]_vars => TypeOK'
  <2>1. CASE UNCHANGED vars
    BY <2>1 DEF vars, TypeOK, server, cookies
  <2> QED BY <2>1, TypeEvents, TypeServe DEF Next
<1> QED BY <1>1, TypeInit, PTL DEF Spec

(***************************************************************************)
(* The page a tab shows.                                                   *)
(***************************************************************************)

\* Something may have come in between.
Disturbed == ~Solo \/ faults > 0

Meant(t, p) == p = asked[t] \/ (p = Home /\ Disturbed)

\* The sign-in of tab t is that of the cookies.
Owner(t) == state = t

PageInv ==
  \A t \in Tabs :
    /\ pc[t] # "rest" => t \in used
    /\ Meant(t, want[t])
    /\ shown[t] = None \/ Meant(t, shown[t])
    /\ pc[t] = "refused" => faults > 0
    /\ pc[t] \in {"provider", "callback"} =>
         (Owner(t) /\ next = want[t]) \/ (~Owner(t) /\ Disturbed)
    /\ pc[t] = "exchange" => goal[t] = want[t]

\* What disturbed a sign-in once remains.
LEMMA DisturbedStays ==
  ASSUME TypeOK, [Next]_vars, Disturbed
  PROVE Disturbed'
<1> USE BoundsAssumption DEF TypeOK, Disturbed, Solo, Fault, Cost, server, cookies, userVars
<1>0. used \subseteq used' /\ faults' \in Nat /\ faults <= faults'
  <2>1. CASE UNCHANGED vars
    BY <2>1 DEF vars
  <2>2. CASE User
    BY <2>2 DEF User, Visit, logout, Ask
  <2>3. CASE ExpireLogin \/ ExpireSession \/ Restart
    BY <2>3 DEF ExpireLogin, ExpireSession, Restart, userVars
  <2>4. ASSUME NEW t \in Tabs, Serve(t) \/ Answer(t)
        PROVE used \subseteq used' /\ faults' \in Nat /\ faults <= faults'
    BY <2>4 DEF Serve, Answer, require_auth, login, callback, CallbackRefused,
      CallbackStale, CallbackMatch, ExchangeOk, ExchangeFails, error_redirect,
      Approve, Refuse, NoFault, userVars
  <2> QED BY <2>1, <2>2, <2>3, <2>4 DEF Next
<1> QED BY <1>0

LEMMA PageInit == Init => PageInv
  BY HomeAssumption DEF Init, PageInv, Meant

LEMMA PageStep ==
  ASSUME TypeOK, PageInv, [Next]_vars
  PROVE PageInv'
<1>0. Disturbed => Disturbed'
  BY DisturbedStays
<1> USE NoneAssumption, HomeAssumption, BoundsAssumption, <1>0
    DEF TypeOK, PageInv, Meant, Owner, Move, Cost, server, cookies,
        userVars
<1>1. CASE UNCHANGED vars
  BY <1>1 DEF vars, cookies
<1>2. ASSUME NEW t \in Tabs, logout(t) \/ \E p \in Pages : Visit(t, p)
      PROVE PageInv'
  BY <1>2 DEF logout, Visit, Ask, Redirect
<1>3. CASE ExpireLogin \/ ExpireSession
  BY <1>3 DEF ExpireLogin, ExpireSession, Disturbed, Fault, userVars
<1>4. CASE Restart
  BY <1>4 DEF Restart, Dies, Disturbed, Fault, userVars, cookies
<1>5. ASSUME NEW t \in Tabs, require_auth(t)
      PROVE PageInv'
  BY <1>5 DEF require_auth, userVars, cookies, NoFault
<1>6. ASSUME NEW t \in Tabs, login(t)
      PROVE PageInv'
  BY <1>6 DEF login, userVars, NoFault, Disturbed, Solo
<1>7. ASSUME NEW t \in Tabs, CallbackRefused(t) \/ CallbackStale(t)
      PROVE PageInv'
  <2>1. Disturbed
    BY <1>7 DEF CallbackRefused, CallbackStale, error_redirect, Redirect,
      Disturbed
  <2>2. \A s \in Tabs : s # t /\ state = s /\ pc[s] # "rest" => ~Solo
    BY <1>7 DEF CallbackRefused, CallbackStale, error_redirect, Redirect, Solo
  <2> QED BY <1>7, <2>1, <2>2 DEF CallbackRefused, CallbackStale,
      error_redirect, Redirect, userVars, NoFault
<1>8. ASSUME NEW t \in Tabs, CallbackMatch(t)
      PROVE PageInv'
  BY <1>8 DEF CallbackMatch, userVars, cookies, NoFault
<1>9. ASSUME NEW t \in Tabs, ExchangeOk(t)
      PROVE PageInv'
  BY <1>9 DEF ExchangeOk, Redirect, userVars, NoFault, Disturbed, Solo
<1>10. ASSUME NEW t \in Tabs, ExchangeFails(t)
       PROVE PageInv'
  BY <1>10 DEF ExchangeFails, error_redirect, Redirect, userVars, Fault,
    Disturbed, Solo
<1>11. ASSUME NEW t \in Tabs, Answer(t)
       PROVE PageInv'
  BY <1>11 DEF Answer, Approve, Refuse, userVars, cookies, NoFault, Fault,
    Disturbed
<1> QED BY <1>1, <1>2, <1>3, <1>4, <1>5, <1>6, <1>7, <1>8, <1>9, <1>10, <1>11
      DEF Next, User, Serve, callback

\* For any number of tabs, none shows a page that was asked for in another one.
THEOREM EachTabItsPage == Spec => []LandsWhereAsked
<1>1. PageInv /\ TypeOK => LandsWhereAsked
  <2> SUFFICES ASSUME PageInv, TypeOK, NEW t \in Tabs
               PROVE \/ shown[t] \in {None, asked[t]}
                     \/ shown[t] = Home /\ ~(Solo /\ faults = 0)
    BY DEF LandsWhereAsked
  <2>1. Disturbed => ~(Solo /\ faults = 0)
    BY BoundsAssumption DEF TypeOK, Disturbed
  <2> QED BY <2>1 DEF PageInv, Meant
<1>2. TypeOK /\ PageInv /\ [Next]_vars => PageInv'
  BY PageStep
<1> QED BY <1>1, <1>2, PageInit, TypeCorrect, PTL DEF Spec

(***************************************************************************)
(* The number of sign-ins.                                                 *)
(***************************************************************************)

\* The last sign-in is under way, or its session is there.
OfUse(t) == (pc[t] \in {"provider", "callback"} /\ Owner(t)) \/ pc[t] = "exchange"
Paid == session = key \/ \E t \in Tabs : OfUse(t)

OnceInv ==
  Solo =>
    /\ signins <= trouble + 1
    /\ Paid \/ signins <= trouble
    /\ \A t \in Tabs : pc[t] = "login" => session # key

LEMMA OnceInit == Init => OnceInv
  BY DEF Init, OnceInv

\* As long as one tab is used, every sign-in that is lost is some trouble.
LEMMA OnceStep ==
  ASSUME TypeOK, PageInv, OnceInv, [Next]_vars
  PROVE OnceInv'
<1> USE NoneAssumption, HomeAssumption, BoundsAssumption
    DEF TypeOK, OnceInv, Paid, OfUse, Owner, Move, Cost, server, cookies,
        userVars
<1>1. CASE UNCHANGED vars
  BY <1>1 DEF vars, Solo
<1>2. ASSUME NEW t \in Tabs, logout(t) \/ \E p \in Pages : Visit(t, p)
      PROVE OnceInv'
  <2>1. Solo' => Solo
    BY <1>2 DEF logout, Visit, Ask, Solo
  <2> QED BY <1>2, <2>1 DEF logout, Visit, Ask, Redirect, Solo, PageInv
<1>3. CASE ExpireLogin \/ ExpireSession
  BY <1>3 DEF ExpireLogin, ExpireSession, Fault, Solo
<1>4. CASE Restart
  BY <1>4 DEF Restart, Dies, KeyLost, Fault, Solo
<1>5. ASSUME NEW t \in Tabs, require_auth(t)
      PROVE OnceInv'
  BY <1>5 DEF require_auth, Admitted, NoFault, Solo
<1>6. ASSUME NEW t \in Tabs, login(t)
      PROVE OnceInv'
  BY <1>6 DEF login, NoFault, Solo, PageInv
<1>7. ASSUME NEW t \in Tabs, CallbackRefused(t) \/ CallbackStale(t)
      PROVE OnceInv'
  BY <1>7 DEF CallbackRefused, CallbackStale, error_redirect, Redirect,
    NoFault, Solo, PageInv
<1>8. ASSUME NEW t \in Tabs, CallbackMatch(t)
      PROVE OnceInv'
  BY <1>8 DEF CallbackMatch, NoFault, Solo
<1>9. ASSUME NEW t \in Tabs, ExchangeOk(t)
      PROVE OnceInv'
  BY <1>9 DEF ExchangeOk, Redirect, NoFault, Solo, PageInv
<1>10. ASSUME NEW t \in Tabs, ExchangeFails(t)
       PROVE OnceInv'
  BY <1>10 DEF ExchangeFails, error_redirect, Redirect, Fault, Solo, PageInv
<1>11. ASSUME NEW t \in Tabs, Answer(t)
       PROVE OnceInv'
  BY <1>11 DEF Answer, Approve, Refuse, NoFault, Fault, Solo
<1> QED BY <1>1, <1>2, <1>3, <1>4, <1>5, <1>6, <1>7, <1>8, <1>9, <1>10, <1>11
      DEF Next, User, Serve, callback

\* For any bounds on visits and faults, one tab signs in once and then once for
\* each event that costs it a sign-in.
THEOREM OnceForEachReason == Spec => []SignsInOnce
<1>1. TypeOK /\ OnceInv => SignsInOnce
  BY DEF TypeOK, OnceInv, SignsInOnce
<1>2. TypeOK /\ PageInv /\ OnceInv /\ [Next]_vars => PageInv' /\ OnceInv'
  BY PageStep, OnceStep
<1> QED BY <1>1, <1>2, PageInit, OnceInit, TypeCorrect, PTL DEF Spec

(***************************************************************************)
(* Finite sets of numbers, and how many of a set are newer.                *)
(***************************************************************************)

\* Among finitely many sets one has none of the others within it.
LEMMA Minimal ==
  ASSUME NEW T, IsFiniteSet(T), T # {}
  PROVE \A F \in [T -> SUBSET T] :
          \E n \in T : \A m \in T : ~(F[m] \subseteq F[n] /\ F[m] # F[n])
<1> TAKE F \in [T -> SUBSET T]
<1> DEFINE U == {F[n] : n \in T}
<1>1. \A n \in T : F[n] \in SUBSET T /\ IsFiniteSet(F[n])
  BY FS_Subset
<1>2. U \subseteq FiniteSubsetsOf(T) /\ U # {}
  BY <1>1 DEF FiniteSubsetsOf
<1>3. \E u \in U : \A v \in U : <<v, u>> \notin StrictSubsetOrdering(T)
  <2> HIDE DEF U
  <2> QED BY <1>2, FS_StrictSubsetOrderingWellFounded, WFMin
<1>4. PICK n \in T : \A v \in U : <<v, F[n]>> \notin StrictSubsetOrdering(T)
  BY <1>3
<1>5. ASSUME NEW m \in T, F[m] \subseteq F[n], F[m] # F[n]
      PROVE FALSE
  BY <1>1, <1>4, <1>5 DEF StrictSubsetOrdering
<1> QED BY <1>5

LEMMA Least ==
  ASSUME NEW T, T \subseteq Nat, IsFiniteSet(T), T # {}
  PROVE \E n \in T : \A m \in T : n <= m
<1>0. \A m, n \in T : m \in Nat /\ n \in Nat
  OBVIOUS
<1> DEFINE Below(n) == {i \in T : i < n}
           F == [n \in T |-> Below(n)]
<1>1. \A n \in T : F[n] = Below(n)
  OBVIOUS
<1>2. F \in [T -> SUBSET T]
  OBVIOUS
<1> HIDE DEF F
<1>3. \E n \in T : \A m \in T : ~(F[m] \subseteq F[n] /\ F[m] # F[n])
  <2>1. \A G \in [T -> SUBSET T] :
          \E n \in T : \A m \in T : ~(G[m] \subseteq G[n] /\ G[m] # G[n])
    BY Minimal
  <2> QED BY <1>2, <2>1
<1>4. PICK n \in T : \A m \in T : ~(F[m] \subseteq F[n] /\ F[m] # F[n])
  BY <1>3
<1>5. ASSUME NEW m \in T, ~(n <= m) PROVE FALSE
  <2>1. m < n /\ ~(m < m) /\ \A i \in T : i < m => i < n
    BY <1>0, <1>5
  <2>2. m \in Below(n) /\ m \notin Below(m) /\ Below(m) \subseteq Below(n)
    BY <2>1
  <2> HIDE DEF Below
  <2> QED BY <1>1, <1>4, <2>2
<1> QED BY <1>5

LEMMA Greatest ==
  ASSUME NEW T, T \subseteq Nat, IsFiniteSet(T), T # {}
  PROVE \E n \in T : \A m \in T : m <= n
<1>0. \A m, n \in T : m \in Nat /\ n \in Nat
  OBVIOUS
<1> DEFINE Above(n) == {i \in T : i > n}
           F == [n \in T |-> Above(n)]
<1>1. \A n \in T : F[n] = Above(n)
  OBVIOUS
<1>2. F \in [T -> SUBSET T]
  OBVIOUS
<1> HIDE DEF F
<1>3. \E n \in T : \A m \in T : ~(F[m] \subseteq F[n] /\ F[m] # F[n])
  <2>1. \A G \in [T -> SUBSET T] :
          \E n \in T : \A m \in T : ~(G[m] \subseteq G[n] /\ G[m] # G[n])
    BY Minimal
  <2> QED BY <1>2, <2>1
<1>4. PICK n \in T : \A m \in T : ~(F[m] \subseteq F[n] /\ F[m] # F[n])
  BY <1>3
<1>5. ASSUME NEW m \in T, ~(m <= n) PROVE FALSE
  <2>1. m > n /\ ~(m > m) /\ \A i \in T : i > m => i > n
    BY <1>0, <1>5
  <2>2. m \in Above(n) /\ m \notin Above(m) /\ Above(m) \subseteq Above(n)
    BY <2>1
  <2> HIDE DEF Above
  <2> QED BY <1>1, <1>4, <2>2
<1> QED BY <1>5

\* The elements of S that are newer than i, and how many there are.
Later(S, i) == {j \in S : j > i}
Rank(S, i) == Cardinality(Later(S, i))

LEMMA LaterType ==
  ASSUME NEW S, IsFiniteSet(S), NEW i
  PROVE /\ Later(S, i) \subseteq S /\ IsFiniteSet(Later(S, i))
        /\ Rank(S, i) \in Nat /\ Rank(S, i) <= Cardinality(S)
        /\ Cardinality(S) \in Nat
<1>1. Later(S, i) \in SUBSET S
  BY DEF Later
<1> QED BY <1>1, FS_Subset, FS_CardinalityType DEF Rank

LEMMA LaterOrder ==
  ASSUME NEW S, S \subseteq Nat, NEW i \in S
  PROVE /\ i \notin Later(S, i)
        /\ \A k \in S : k < i => Later(S, i) \cup {i} \subseteq Later(S, k)
<1>1. i \notin Later(S, i)
  BY DEF Later
<1>2. ASSUME NEW k \in S, k < i
      PROVE Later(S, i) \cup {i} \subseteq Later(S, k)
  <2>1. i \in Nat /\ k \in Nat /\ i > k
    BY <1>2
  <2>2. ASSUME NEW j \in S, j > i PROVE j > k
    <3>1. j \in Nat
      OBVIOUS
    <3> QED BY <2>1, <2>2, <3>1
  <2> QED BY <2>1, <2>2 DEF Later
<1> QED BY <1>1, <1>2

\* With itself, an element has one more.
LEMMA WithItself ==
  ASSUME NEW S, S \subseteq Nat, IsFiniteSet(S), NEW i \in S
  PROVE Cardinality(Later(S, i) \cup {i}) = Rank(S, i) + 1
  BY LaterType, LaterOrder, FS_AddElement DEF Rank

\* The older of two has more newer ones.
LEMMA OlderRank ==
  ASSUME NEW S, S \subseteq Nat, IsFiniteSet(S),
         NEW k \in S, NEW i \in S, k < i
  PROVE Rank(S, i) < Rank(S, k)
<1>1. Later(S, i) \cup {i} \in SUBSET Later(S, k)
  BY LaterOrder
<1>2. /\ IsFiniteSet(Later(S, k))
      /\ Rank(S, i) \in Nat /\ Rank(S, k) \in Nat
  BY LaterType
<1>3. Cardinality(Later(S, i) \cup {i}) <= Rank(S, k)
  BY <1>1, <1>2, FS_Subset DEF Rank
<1>4. Cardinality(Later(S, i) \cup {i}) = Rank(S, i) + 1
  BY WithItself
<1> QED BY <1>2, <1>3, <1>4

\* With nothing in between there is one more.
LEMMA NextRank ==
  ASSUME NEW S, S \subseteq Nat, IsFiniteSet(S),
         NEW k \in S, NEW i \in S, k < i, \A j \in S : j <= k \/ i <= j
  PROVE Rank(S, k) = Rank(S, i) + 1
<1>1. ASSUME NEW j \in S, j > k PROVE j = i \/ j > i
  <2>1. j \in Nat /\ k \in Nat /\ i \in Nat
    OBVIOUS
  <2>2. j <= k \/ i <= j
    OBVIOUS
  <2> QED BY <1>1, <2>1, <2>2
<1>2. Later(S, k) \subseteq Later(S, i) \cup {i}
  BY <1>1 DEF Later
<1>3. Later(S, k) = Later(S, i) \cup {i}
  BY <1>2, LaterOrder
<1> QED BY <1>3, WithItself DEF Rank

\* Every number below that of its elements is the rank of one.
LEMMA RankExists ==
  ASSUME NEW S, S \subseteq Nat, IsFiniteSet(S),
         NEW r \in Nat, r < Cardinality(S)
  PROVE \E i \in S : Rank(S, i) = r
<1>0. \A i \in S : i \in Nat /\ Rank(S, i) \in Nat
  BY LaterType
<1> DEFINE A == {i \in S : Rank(S, i) <= r}
<1>1. IsFiniteSet(A) /\ A \subseteq Nat
  BY FS_Subset
<1>2. A # {}
  <2>1. S # {}
    BY FS_EmptySet
  <2>2. PICK g \in S : \A j \in S : j <= g
    BY <2>1, Greatest
  <2>3. \A j \in S : ~(j > g)
    BY <1>0, <2>2
  <2>4. Later(S, g) = {}
    BY <2>3 DEF Later
  <2>5. Rank(S, g) = 0
    BY <2>4, FS_EmptySet DEF Rank
  <2> QED BY <2>5
<1>3. PICK i \in A : \A j \in A : i <= j
  <2> HIDE DEF A
  <2> QED BY <1>1, <1>2, Least
<1>4. ASSUME Rank(S, i) # r PROVE FALSE
  <2>0. i \in S /\ Rank(S, i) \in Nat /\ Rank(S, i) < r
    BY <1>0, <1>4
  <2> DEFINE L == {j \in S : j < i}
  <2>1. IsFiniteSet(L) /\ L \subseteq Nat
    BY FS_Subset
  <2>2. CASE L = {}
    <3>1. ASSUME NEW j \in S PROVE j = i \/ j > i
      <4>1. ~(j < i)
        BY <2>2
      <4> QED BY <1>0, <4>1
    <3>2. S \subseteq Later(S, i) \cup {i}
      BY <3>1 DEF Later
    <3>3. S = Later(S, i) \cup {i}
      BY <3>2, LaterType
    <3>4. Cardinality(S) = Rank(S, i) + 1
      BY <2>0, <3>3, WithItself
    <3> QED BY <2>0, <3>4
  <2>3. CASE L # {}
    <3>1. PICK k \in L : \A j \in L : j <= k
      <4> HIDE DEF L
      <4> QED BY <2>1, <2>3, Greatest
    <3>2. k \in S /\ k < i
      OBVIOUS
    <3>3. ASSUME NEW j \in S PROVE j <= k \/ i <= j
      <4>1. j < i => j <= k
        BY <3>1
      <4> QED BY <1>0, <2>0, <4>1
    <3>4. Rank(S, k) = Rank(S, i) + 1
      BY <2>0, <3>2, <3>3, NextRank
    <3>5. k \in A
      BY <2>0, <3>2, <3>4
    <3>6. i <= k
      BY <1>3, <3>5
    <3> QED BY <1>0, <2>0, <3>2, <3>6
  <2> QED BY <2>2, <2>3
<1> QED BY <1>4

\* The elements from the (m + 1)-th on, up to n of them.
Part(S, n, m) == {i \in S : Rank(S, i) \in m..(m + n - 1)}

\* One element more than a page has room for is there whenever some element
\* comes after the page,
LEMMA PartFull ==
  ASSUME NEW S, S \subseteq Nat, IsFiniteSet(S), NEW n \in Nat, NEW m \in Nat,
         NEW i \in S, Rank(S, i) >= m + n
  PROVE Cardinality(Part(S, n + 1, m)) > n
<1>0. \A j \in S : j \in Nat /\ Rank(S, j) \in Nat
  BY LaterType
<1>1. Cardinality(S) \in Nat /\ Rank(S, i) < Cardinality(S)
  <2>1. Later(S, i) \cup {i} \in SUBSET S
    BY LaterType
  <2>2. Cardinality(Later(S, i) \cup {i}) <= Cardinality(S)
    BY <2>1, FS_Subset
  <2>3. Cardinality(S) \in Nat
    BY FS_CardinalityType
  <2>4. Cardinality(Later(S, i) \cup {i}) = Rank(S, i) + 1
    BY WithItself
  <2> QED BY <1>0, <2>2, <2>3, <2>4
<1>2. PICK k \in S : Rank(S, k) = m + n
  <2>1. m + n \in Nat /\ m + n < Cardinality(S)
    BY <1>0, <1>1
  <2> QED BY <2>1, RankExists
<1>3. PICK l \in S : Rank(S, l) = m
  <2>1. m < Cardinality(S)
    BY <1>0, <1>1
  <2> QED BY <2>1, RankExists
<1> DEFINE A == Later(S, l)
           B == Later(S, k)
           P == Part(S, n + 1, m)
<1>4. /\ IsFiniteSet(A) /\ Cardinality(A) = m
      /\ Cardinality(B \cup {k}) = m + n + 1
  BY <1>2, <1>3, LaterType, WithItself DEF Rank
<1>5. IsFiniteSet(P) /\ Cardinality(P) \in Nat
  <2>1. P \in SUBSET S
    BY DEF Part
  <2> QED BY <2>1, FS_Subset, FS_CardinalityType
<1>6. B \cup {k} \subseteq A \cup P
  <2>1. ASSUME NEW j \in S, j > k \/ j = k, ~(j > l)
        PROVE j \in P
    <3>1. j = k \/ Rank(S, j) < Rank(S, k)
      <4>1. CASE j > k
        <5>1. k < j
          BY <1>0, <4>1
        <5> QED BY <5>1, OlderRank
      <4> QED BY <2>1, <4>1
    <3>2. j = l \/ Rank(S, l) < Rank(S, j)
      <4>1. j = l \/ j < l
        BY <1>0, <2>1
      <4> QED BY <4>1, OlderRank
    <3>3. Rank(S, j) \in Nat /\ m <= Rank(S, j) /\ Rank(S, j) <= m + n
      BY <1>0, <1>2, <1>3, <3>1, <3>2
    <3> QED BY <3>3 DEF Part
  <2> QED BY <2>1 DEF Later
<1> HIDE DEF A, B, P
<1>7. IsFiniteSet(A \cup P) /\ Cardinality(A \cup P) <= Cardinality(A) + Cardinality(P)
      /\ Cardinality(A \cup P) \in Nat
  <2>1. IsFiniteSet(A \cap P) /\ Cardinality(A \cap P) \in Nat
    BY <1>4, FS_Subset, FS_CardinalityType
  <2>2. IsFiniteSet(A \cup P)
        /\ Cardinality(A \cup P) = Cardinality(A) + Cardinality(P) - Cardinality(A \cap P)
    BY <1>4, <1>5, FS_Union
  <2>3. Cardinality(A \cup P) \in Nat
    BY <2>2, FS_CardinalityType
  <2> QED BY <1>4, <1>5, <2>1, <2>2, <2>3
<1>8. Cardinality(B \cup {k}) <= Cardinality(A \cup P)
  <2>1. B \cup {k} \in SUBSET (A \cup P)
    BY <1>6
  <2> QED BY <1>7, <2>1, FS_Subset
<1>9. Cardinality(P) > n
  BY <1>4, <1>5, <1>7, <1>8
<1> QED BY <1>9 DEF P

\* and only then.
LEMMA PartMore ==
  ASSUME NEW S, S \subseteq Nat, IsFiniteSet(S), NEW n \in Nat, NEW m \in Nat,
         Cardinality(Part(S, n + 1, m)) > n
  PROVE Cardinality(S) > m + n
<1>0. \A j \in S : j \in Nat /\ Rank(S, j) \in Nat
  BY LaterType
<1> DEFINE P == Part(S, n + 1, m)
<1>1. P \in SUBSET S /\ \A j \in P : Rank(S, j) >= m
  BY <1>0 DEF Part
<1>2. P \subseteq Nat /\ IsFiniteSet(P) /\ Cardinality(P) \in Nat
  BY <1>1, FS_Subset, FS_CardinalityType
<1>3. Cardinality(P) > n
  OBVIOUS
<1> HIDE DEF P
<1>4. P # {}
  BY <1>3, FS_EmptySet
<1>5. PICK l \in P : \A j \in P : j <= l
  BY <1>2, <1>4, Greatest
<1> DEFINE A == Later(S, l)
<1>6. A \subseteq S /\ IsFiniteSet(A) /\ Cardinality(A) \in Nat /\ Cardinality(A) >= m
  BY <1>1, LaterType DEF Rank
<1>7. A \cap P = {}
  <2>1. \A j \in P : ~(j > l)
    BY <1>2, <1>5
  <2> QED BY <2>1 DEF Later
<1> HIDE DEF A
<1>8. Cardinality(A \cup P) = Cardinality(A) + Cardinality(P)
  <2>1. Cardinality(A \cap P) = 0
    BY <1>7, FS_EmptySet
  <2>2. Cardinality(A \cup P) = Cardinality(A) + Cardinality(P) - Cardinality(A \cap P)
    BY <1>2, <1>6, FS_Union
  <2> QED BY <1>2, <1>6, <2>1, <2>2
<1>9. Cardinality(A \cup P) <= Cardinality(S) /\ Cardinality(S) \in Nat
  <2>1. A \cup P \in SUBSET S
    BY <1>1, <1>6
  <2> QED BY <2>1, FS_Subset, FS_CardinalityType
<1> QED BY <1>2, <1>3, <1>6, <1>8, <1>9

\* New elements never make one newer.
LEMMA RankGrows ==
  ASSUME NEW S, NEW T, IsFiniteSet(T), S \subseteq T, NEW i
  PROVE Rank(S, i) <= Rank(T, i) /\ Rank(S, i) \in Nat /\ Rank(T, i) \in Nat
<1>1. Later(S, i) \in SUBSET Later(T, i)
  BY DEF Later
<1>2. IsFiniteSet(Later(T, i)) /\ IsFiniteSet(S)
  BY FS_Subset, LaterType
<1> QED BY <1>1, <1>2, FS_Subset, LaterType DEF Rank

\* The instance has a Cardinality of its own, defined alike.
LEMMA SameCount == \A S : List!Cardinality(S) = Cardinality(S)
  BY DEF Cardinality, List!Cardinality, IsFiniteSet, List!IsFiniteSet

LEMMA Multiples ==
  ASSUME NEW p \in Nat \ {0}, NEW n \in Nat \ {0}
  PROVE /\ (p - 1) * n \in Nat /\ p * n = (p - 1) * n + n /\ p <= p * n
        /\ ((p + 1) - 1) * n = (p - 1) * n + n
  OBVIOUS

(***************************************************************************)
(* The lists of projects and runs: invariant.                              *)
(***************************************************************************)

\* The page is being put together.
Reading == at \in {"branches", "latest", "rows"}

\* How many runs come before the page.
Offset == (page - 1) * PageSize

\* The ghost variable holds no more than what is in the tables.
KnownInv == known \subseteq List!Known

\* What has had runs since the first query of the overview, that query found.
FoundInv == at = "repos" => \A n \in Projects : <<"runs", n>> \in known => n \in found

\* A project without a repository goes on as one with runs.
BuildInv ==
  /\ at = "branches" /\ conf = None => <<"repos", asked_.repo>> \notin known
  /\ at = "latest" => List!RunsOf(asked_.repo, None) # {}
  /\ at \in {"rows", "shown"} => build # "nothing"
  /\ at = "notfound" => ~List!Still(asked_.repo)

\* While newer runs push the others on, those that were there at the start and
\* come before the page have been shown; and a link to a page is given only
\* when there is a run to show on it.
RowsInv ==
  /\ present \subseteq List!Matching
  /\ Reading =>
       /\ \A i \in present : Rank(List!Matching, i) < Offset => i \in got
       /\ page > 1 => Cardinality(List!Matching) > Offset
  /\ at = "shown" =>
       /\ \A i \in present : Rank(List!Matching, i) < Offset + PageSize => i \in got
       /\ more = "yes" => Cardinality(List!Matching) > Offset + PageSize
       /\ more = "no" => present \subseteq got
       /\ page > 1 => rows # {}

ListInv == KnownInv /\ FoundInv /\ BuildInv /\ RowsInv

LEMMA RunsOfType ==
  ASSUME List!TypeOK, NEW n, NEW b
  PROVE /\ List!RunsOf(n, b) \subseteq 1..MaxRuns /\ List!RunsOf(n, b) \subseteq Nat
        /\ IsFiniteSet(List!RunsOf(n, b))
        /\ Cardinality(List!RunsOf(n, b)) \in Nat
        /\ Cardinality(List!RunsOf(n, b)) <= MaxRuns
<1> USE TablesAssumption
<1>1. DOMAIN runs = 1..Len(runs) /\ Len(runs) \in Nat /\ Len(runs) <= MaxRuns
  BY DEF List!TypeOK
<1>2. List!RunsOf(n, b) \subseteq 1..Len(runs)
  BY <1>1 DEF List!RunsOf
<1>3. \A i \in 1..Len(runs) : i \in 1..MaxRuns /\ i \in Nat
  BY <1>1
<1>4. List!RunsOf(n, b) \in SUBSET (1..MaxRuns) /\ List!RunsOf(n, b) \subseteq Nat
  BY <1>2, <1>3
<1>5. IsFiniteSet(1..MaxRuns) /\ Cardinality(1..MaxRuns) = MaxRuns
  <2>1. 1 \in Int /\ MaxRuns \in Int /\ (IF 1 > MaxRuns THEN 0 ELSE MaxRuns - 1 + 1) = MaxRuns
    OBVIOUS
  <2> QED BY <2>1, FS_Interval
<1> QED BY <1>4, <1>5, FS_Subset, FS_CardinalityType

LEMMA RegisteredType ==
  ASSUME List!TypeOK, NEW n
  PROVE /\ List!Registered(n) \subseteq Urls
        /\ IsFiniteSet(List!Registered(n))
        /\ Cardinality(List!Registered(n)) \in 0..Cardinality(Urls)
        /\ Cardinality(Urls) \in Nat /\ Cardinality(Urls) >= 1
        /\ List!Registered(n) # {} => Cardinality(List!Registered(n)) >= 1
<1> USE TablesAssumption
<1>1. List!Registered(n) \in SUBSET Urls
  BY DEF List!TypeOK, List!Registered
<1>2. /\ IsFiniteSet(List!Registered(n))
      /\ Cardinality(List!Registered(n)) \in Nat /\ Cardinality(Urls) \in Nat
      /\ Cardinality(List!Registered(n)) <= Cardinality(Urls)
  BY <1>1, FS_Subset, FS_CardinalityType
<1>3. Cardinality(Urls) # 0
  BY FS_EmptySet
<1>4. List!Registered(n) # {} => Cardinality(List!Registered(n)) # 0
  BY <1>2, FS_EmptySet
<1> QED BY <1>1, <1>2, <1>3, <1>4

\* Runs are added, never removed or renumbered.
LEMMA RunsOfGrow ==
  ASSUME List!TypeOK, NEW r \in List!Run, List!create_run(r), NEW n, NEW b
  PROVE List!RunsOf(n, b) \subseteq List!RunsOf(n, b)'
<1>1. \A i \in DOMAIN runs : i \in DOMAIN runs' /\ runs'[i] = runs[i]
  BY DEF List!TypeOK, List!create_run
<1> QED BY <1>1 DEF List!RunsOf

LEMMA ListTypeInit == List!Init => List!TypeOK /\ ListInv
<1> SUFFICES ASSUME List!Init PROVE List!TypeOK /\ ListInv
  OBVIOUS
<1> USE TablesAssumption
<1>1. List!TypeOK
  <2>1. [n \in Projects |-> 0] \in [Projects -> 0..Cardinality(Urls)]
    <3>1. Cardinality(Urls) \in Nat
      BY FS_CardinalityType
    <3> QED BY <3>1
  <2>2. List!NoList \in [repo : Projects, branch : Branches \cup {None}]
    BY DEF List!NoList
  <2> QED BY <2>1, <2>2, SameCount DEF List!Init, List!TypeOK
<1>2. ListInv
  BY DEF List!Init, ListInv, KnownInv, FoundInv, BuildInv, RowsInv, Reading
<1> QED BY <1>1, <1>2

(***************************************************************************)
(* Types.                                                                  *)
(***************************************************************************)

LEMMA ListTypeStep ==
  ASSUME List!TypeOK, ListInv, [List!Next]_List!pageVars
  PROVE List!TypeOK'
<1> USE TablesAssumption DEF List!TypeOK, List!tables, List!overviewVars, List!listVars
<1>0. List!NoList \in [repo : Projects, branch : Branches \cup {None}]
  BY DEF List!NoList
<1>1. CASE UNCHANGED List!pageVars
  BY <1>1 DEF List!pageVars
<1>2. ASSUME NEW u \in Urls, List!create_repo(u) \/ List!delete_repo(u)
      PROVE List!TypeOK'
  BY <1>2 DEF List!create_repo, List!delete_repo, List!Write
<1>3. ASSUME NEW r \in List!Run, List!create_run(r)
      PROVE List!TypeOK'
  <2>1. runs' \in Seq(List!Run) /\ Len(runs') <= MaxRuns
    BY <1>3 DEF List!create_run
  <2> QED BY <1>3, <2>1 DEF List!create_run, List!Write
<1>4. CASE List!Leave
  <2>1. [n \in Projects |-> 0] \in [Projects -> 0..Cardinality(Urls)]
    <3>1. Cardinality(Urls) \in Nat
      BY FS_CardinalityType
    <3> QED BY <3>1
  <2> QED BY <1>0, <1>4, <2>1, SameCount DEF List!Leave
<1>5. CASE List!ui_projects
  BY <1>5 DEF List!ui_projects, List!Known
<1>6. CASE List!ListRepos
  <2>1. \A n \in Projects : Cardinality(List!Registered(n)) \in 0..Cardinality(Urls)
    BY RegisteredType
  <2>2. 1 \in 0..Cardinality(Urls)
    BY RegisteredType
  <2>3. listed' \in [Projects -> 0..Cardinality(Urls)]
    <3> DEFINE times(n) == IF n \in found /\ List!Registered(n) = {} THEN 1
                           ELSE Cardinality(List!Registered(n))
    <3>1. \A n \in Projects : times(n) \in 0..Cardinality(Urls)
      BY <2>1, <2>2
    <3>2. listed' = [n \in Projects |-> times(n)]
      BY <1>6, SameCount DEF List!ListRepos
    <3> HIDE DEF times
    <3> QED BY <3>1, <3>2
  <2> QED BY <1>6, <2>3, SameCount DEF List!ListRepos
<1>7. ASSUME NEW n \in Projects, NEW b \in Branches \cup {None}, List!Open(n, b)
      PROVE List!TypeOK'
  <2>1. List!RunsOf(n, b) \subseteq 1..MaxRuns
    BY RunsOfType
  <2>2. List!Registered(n) \subseteq Urls
    BY RegisteredType
  <2>3. asked_' \in [repo : Projects, branch : Branches \cup {None}]
    BY <1>7 DEF List!Open, List!ui_project
  <2> QED BY <1>7, <2>1, <2>2, <2>3 DEF List!Open, List!ui_project, List!Known
<1>8. CASE List!Follow
  <2>1. page + 1 \in 1..(MaxRuns + 1)
    <3>1. Cardinality(List!Matching) > Offset + PageSize
      BY <1>8 DEF List!Follow, ListInv, RowsInv
    <3>2. Cardinality(List!Matching) \in Nat /\ Cardinality(List!Matching) <= MaxRuns
      BY RunsOfType DEF List!Matching
    <3>3. Offset \in Nat /\ page \in Nat /\ page <= Offset + PageSize
      BY Multiples DEF Offset
    <3> QED BY <3>1, <3>2, <3>3
  <2>2. List!Registered(asked_.repo) \subseteq Urls
    BY RegisteredType
  <2>3. asked_' = asked_
    BY <1>8 DEF List!Follow, List!ui_project
  <2> QED BY <1>8, <2>1, <2>2, <2>3 DEF List!Follow, List!ui_project
<1>9. CASE List!list_project_branches
  BY <1>9 DEF List!list_project_branches
<1>10. CASE List!LatestRun
  BY <1>10 DEF List!LatestRun
<1>11. CASE List!list_project_runs
  <2>1. List!Matching \subseteq 1..MaxRuns
    BY RunsOfType DEF List!Matching
  <2> QED BY <1>11, <2>1 DEF List!list_project_runs, List!Show, List!Selected
<1> QED BY <1>1, <1>2, <1>3, <1>4, <1>5, <1>6, <1>7, <1>8, <1>9, <1>10, <1>11
      DEF List!Next

(***************************************************************************)
(* What is known is there, and what is there is found.                     *)
(***************************************************************************)

LEMMA KnownStep ==
  ASSUME List!TypeOK, ListInv, [List!Next]_List!pageVars
  PROVE KnownInv' /\ FoundInv'
<1> USE TablesAssumption
    DEF List!tables, List!overviewVars, List!listVars, ListInv, KnownInv, FoundInv
<1>1. CASE UNCHANGED List!pageVars
  BY <1>1 DEF List!pageVars, List!Known, List!Registered, List!RunsOf
<1>2. ASSUME List!Write PROVE KnownInv' /\ FoundInv'
  BY <1>2 DEF List!Write
<1>3. CASE (\E u \in Urls : List!create_repo(u) \/ List!delete_repo(u))
           \/ \E r \in List!Run : List!create_run(r)
  BY <1>2, <1>3 DEF List!create_repo, List!delete_repo, List!create_run
<1>4. CASE List!Leave
  BY <1>4 DEF List!Leave
<1>5. ASSUME UNCHANGED <<repos, runs>>, known' \in {known, List!Known}
      PROVE KnownInv'
  BY <1>5 DEF List!Known, List!Registered, List!RunsOf
<1>6. CASE List!ui_projects
  <2>1. KnownInv'
    BY <1>5, <1>6 DEF List!ui_projects
  <2>2. FoundInv'
    BY <1>6 DEF List!ui_projects, List!Known
  <2> QED BY <2>1, <2>2
<1>7. CASE List!ListRepos
  <2>1. KnownInv'
    BY <1>5, <1>7 DEF List!ListRepos
  <2> QED BY <1>7, <2>1 DEF List!ListRepos
<1>8. ASSUME NEW n \in Projects, NEW b \in Branches \cup {None}, List!Open(n, b)
      PROVE KnownInv' /\ FoundInv'
  <2>1. KnownInv'
    BY <1>5, <1>8 DEF List!Open, List!ui_project
  <2> QED BY <1>8, <2>1 DEF List!Open, List!ui_project
<1>9. CASE List!Follow \/ List!list_project_branches \/ List!LatestRun
           \/ List!list_project_runs
  <2>1. UNCHANGED <<repos, runs, known>> /\ at' \in {"branches", "rows", "latest", "notfound", "shown"}
    BY <1>9 DEF List!Follow, List!ui_project, List!list_project_branches,
      List!LatestRun, List!list_project_runs, List!Show
  <2>2. KnownInv'
    BY <1>5, <2>1
  <2> QED BY <2>1, <2>2
<1> QED BY <1>1, <1>3, <1>4, <1>6, <1>7, <1>8, <1>9 DEF List!Next

\* The overview of any number of projects is complete.
LEMMA OverviewComplete ==
  ASSUME List!TypeOK, ListInv, List!ListRepos, NEW n \in Projects
  PROVE /\ List!Still(n) => listed'[n] >= 1
        /\ List!Cardinality(List!Registered(n)) <= 1 => listed'[n] <= 1
<1>1. listed'[n] = IF n \in found /\ List!Registered(n) = {} THEN 1
                   ELSE Cardinality(List!Registered(n))
  BY SameCount DEF List!ListRepos
<1>2. List!Still(n) => n \in found \/ List!Registered(n) # {}
  BY DEF List!Still, List!ListRepos, ListInv, FoundInv, KnownInv, List!Known
<1>3. /\ Cardinality(List!Registered(n)) \in Nat
      /\ List!Registered(n) # {} => Cardinality(List!Registered(n)) >= 1
  BY RegisteredType
<1> QED BY <1>1, <1>2, <1>3, SameCount

(***************************************************************************)
(* A page has something to build, or says that there is nothing.           *)
(***************************************************************************)

LEMMA BuildStep ==
  ASSUME List!TypeOK, ListInv, [List!Next]_List!pageVars
  PROVE BuildInv'
<1> USE TablesAssumption
    DEF List!tables, List!overviewVars, List!listVars, ListInv, BuildInv
<1>1. CASE UNCHANGED List!pageVars
  BY <1>1 DEF List!pageVars, List!Still, List!RunsOf
<1>2. ASSUME List!Write, List!RunsOf(asked_.repo, None) \subseteq List!RunsOf(asked_.repo, None)'
      PROVE BuildInv'
  BY <1>2 DEF List!Write, List!Still
<1>3. CASE \E u \in Urls : List!create_repo(u) \/ List!delete_repo(u)
  <2>1. runs' = runs /\ List!Write
    BY <1>3 DEF List!create_repo, List!delete_repo
  <2> QED BY <1>2, <2>1 DEF List!RunsOf, List!Write
<1>4. ASSUME NEW r \in List!Run, List!create_run(r)
      PROVE BuildInv'
  <2> DEFINE n == asked_.repo
  <2>1. asked_' = asked_ /\ List!Write
    BY <1>4 DEF List!create_run, List!Write
  <2>2. PICK p : p = asked_.repo
    OBVIOUS
  <2>3. List!RunsOf(p, None) \subseteq List!RunsOf(p, None)'
    BY <1>4, RunsOfGrow
  <2> QED BY <1>2, <2>1, <2>2, <2>3 DEF List!RunsOf
<1>5. CASE List!Leave \/ List!ui_projects \/ List!ListRepos
  BY <1>5 DEF List!Leave, List!ui_projects, List!ListRepos
<1>6. ASSUME NEW n \in Projects, NEW b \in Branches \cup {None}, List!Open(n, b)
      PROVE BuildInv'
  BY <1>6 DEF List!Open, List!ui_project, List!Known, List!Registered, List!TypeOK
<1>7. CASE List!Follow
  BY <1>7 DEF List!Follow, List!ui_project, List!Known, KnownInv, List!Registered, List!TypeOK
<1>8. CASE List!list_project_branches
  <2>1. List!RunsOf(asked_.repo, None)' = List!RunsOf(asked_.repo, None)
    BY <1>8 DEF List!list_project_branches, List!RunsOf
  <2>2. List!RunsOf(asked_.repo, None) = {} => <<"runs", asked_.repo>> \notin known
    BY DEF KnownInv, List!Known
  <2> QED BY <1>8, <2>1, <2>2 DEF List!list_project_branches, List!Still
<1>9. CASE List!LatestRun
  BY <1>9 DEF List!LatestRun
<1>10. CASE List!list_project_runs
  BY <1>10 DEF List!list_project_runs, List!Show
<1> QED BY <1>1, <1>3, <1>4, <1>5, <1>6, <1>7, <1>8, <1>9, <1>10 DEF List!Next

(***************************************************************************)
(* The rows, page after page.                                              *)
(***************************************************************************)

\* What matches what is asked for only grows while the pages are read.
LEMMA RowsKept ==
  ASSUME List!TypeOK, RowsInv, List!TypeOK',
         List!Matching \subseteq List!Matching',
         UNCHANGED <<at, asked_, page, rows, more, got, present>>
  PROVE RowsInv'
<1> DEFINE S == List!Matching
<1>1. PICK T : T = List!Matching'
  OBVIOUS
<1>2. IsFiniteSet(T) /\ Cardinality(T) \in Nat
  <2>1. PICK n, b : n = asked_'.repo /\ b = asked_'.branch
    OBVIOUS
  <2>2. (IsFiniteSet(List!RunsOf(n, b)) /\ Cardinality(List!RunsOf(n, b)) \in Nat)'
    BY RunsOfType, PTL
  <2> QED BY <1>1, <2>1, <2>2 DEF List!Matching, List!RunsOf
<1>3. IsFiniteSet(S) /\ S \subseteq T /\ Cardinality(S) \in Nat
  BY <1>1, RunsOfType DEF List!Matching
<1>4. Cardinality(S) <= Cardinality(T)
  <2>1. S \in SUBSET T
    BY <1>3
  <2> QED BY <1>2, <2>1, FS_Subset
<1>5. \A i : /\ Rank(S, i) <= Rank(T, i)
             /\ Rank(S, i) \in Nat /\ Rank(T, i) \in Nat
  BY <1>2, <1>3, RankGrows
<1>6. Offset' = Offset /\ Offset \in Nat /\ PageSize \in Nat
  BY TablesAssumption, Multiples DEF Offset, List!TypeOK
<1> HIDE DEF S
<1>7. /\ \A i \in present : Rank(T, i) < Offset => Rank(S, i) < Offset
      /\ \A i \in present : Rank(T, i) < Offset + PageSize => Rank(S, i) < Offset + PageSize
      /\ Cardinality(S) > Offset => Cardinality(T) > Offset
      /\ Cardinality(S) > Offset + PageSize => Cardinality(T) > Offset + PageSize
  BY <1>2, <1>3, <1>4, <1>5, <1>6
<1>8. \A i : Rank(List!Matching, i)' = Rank(T, i)
  BY <1>1 DEF Rank, Later
<1> QED BY <1>1, <1>3, <1>6, <1>7, <1>8 DEF RowsInv, Reading, S

LEMMA OpenRows ==
  ASSUME List!TypeOK, NEW n \in Projects, NEW b \in Branches \cup {None},
         List!Open(n, b)
  PROVE RowsInv'
<1>1. /\ asked_' = [repo |-> n, branch |-> b] /\ page' = 1 /\ at' = "branches"
      /\ UNCHANGED runs /\ present' = List!RunsOf(n, b)
  BY DEF List!Open, List!ui_project, List!tables
<1>2. present' = List!Matching'
  BY <1>1 DEF List!Matching, List!RunsOf
<1>3. PICK T : T = List!Matching'
  OBVIOUS
<1>4. IsFiniteSet(T)
  BY <1>2, <1>1, <1>3, RunsOfType
<1>5. \A i : Rank(T, i) \in Nat
  BY <1>4, LaterType
<1>6. \A i : Rank(List!Matching, i)' = Rank(T, i)
  BY <1>3 DEF Rank, Later
<1>7. Offset' = 0
  BY <1>1, TablesAssumption DEF Offset
<1>8. \A i : ~(Rank(T, i) < 0)
  BY <1>5
<1> QED BY <1>1, <1>2, <1>6, <1>7, <1>8 DEF RowsInv, Reading

LEMMA FollowRows ==
  ASSUME List!TypeOK, RowsInv, List!Follow
  PROVE RowsInv'
<1>1. /\ asked_' = asked_ /\ page' = page + 1 /\ at' = "branches" /\ at = "shown"
      /\ more = "yes" /\ UNCHANGED <<runs, got, present>>
  BY DEF List!Follow, List!ui_project, List!tables, List!TypeOK
<1>2. List!Matching' = List!Matching
  BY <1>1 DEF List!Matching, List!RunsOf
<1>3. Offset' = Offset + PageSize
  BY <1>1, TablesAssumption, Multiples DEF Offset, List!TypeOK
<1> QED BY <1>1, <1>2, <1>3 DEF RowsInv, Reading, Rank, Later

\* One row too many tells that there is a next page, and one too few that
\* everything has been shown.
LEMMA ShowRows ==
  ASSUME List!TypeOK, RowsInv, List!list_project_runs
  PROVE RowsInv'
<1> USE TablesAssumption
<1> DEFINE S == List!Matching
           P == Part(S, PageSize + 1, Offset)
<1>1. /\ S \subseteq Nat /\ IsFiniteSet(S)
      /\ Cardinality(S) \in Nat
  BY RunsOfType DEF List!Matching
<1>2. \A i : List!Newer(i) = Rank(S, i) /\ Rank(S, i) \in Nat
  BY <1>1, SameCount, LaterType DEF List!Newer, Rank, Later
<1>3. Offset \in Nat /\ page * PageSize = Offset + PageSize /\ PageSize \in Nat \ {0}
  BY Multiples DEF Offset, List!TypeOK
<1>4. List!Selected(PageSize + 1, (page - 1) * PageSize) = P
  BY <1>2 DEF List!Selected, Part, Offset
<1>5. /\ at = "rows" /\ at' = "shown"
      /\ more' = IF Cardinality(P) > PageSize THEN "yes" ELSE "no"
      /\ rows' = {i \in P : Rank(S, i) < Offset + PageSize}
      /\ got' = got \cup rows'
      /\ UNCHANGED <<runs, asked_, page, present>>
  BY <1>2, <1>3, <1>4, SameCount DEF List!list_project_runs, List!Show, List!tables
<1>6. S' = S /\ Offset' = Offset
  BY <1>5 DEF List!Matching, List!RunsOf, Offset
<1>7. present \subseteq S /\ (\A i \in present : Rank(S, i) < Offset => i \in got)
      /\ (page > 1 => Cardinality(S) > Offset)
  BY <1>5 DEF RowsInv, Reading
<1>8. \A i \in S : Rank(S, i) < Offset + PageSize /\ ~(Rank(S, i) < Offset) => i \in rows'
  BY <1>2, <1>3, <1>5 DEF Part
<1>9. \A i \in present : Rank(S, i) < Offset + PageSize => i \in got'
  BY <1>5, <1>7, <1>8
<1>10. page > 1 => rows' # {}
  <2> SUFFICES ASSUME page > 1 PROVE rows' # {}
    OBVIOUS
  <2>1. PICK i \in S : Rank(S, i) = Offset
    BY <1>1, <1>3, <1>7, RankExists
  <2> QED BY <1>3, <1>8, <2>1
<1>11. more' = "yes" => Cardinality(S) > Offset + PageSize
  BY <1>1, <1>3, <1>5, PartMore
<1>12. more' = "no" => present \subseteq got'
  <2> SUFFICES ASSUME more' = "no", NEW i \in present PROVE i \in got'
    OBVIOUS
  <2>1. ~(Rank(S, i) >= Offset + PageSize)
    BY <1>1, <1>3, <1>5, <1>7, PartFull
  <2> QED BY <1>2, <1>3, <1>7, <1>9, <2>1
<1> HIDE DEF S, P
<1>13. \A i : Rank(List!Matching, i)' = Rank(S, i)
  BY <1>6 DEF Rank, Later, S
<1> QED BY <1>5, <1>6, <1>7, <1>9, <1>10, <1>11, <1>12, <1>13 DEF RowsInv, Reading, S

LEMMA RowsStep ==
  ASSUME List!TypeOK, ListInv, [List!Next]_List!pageVars, List!TypeOK'
  PROVE RowsInv'
<1> USE DEF List!tables, List!overviewVars, List!listVars
<1>0. RowsInv
  BY DEF ListInv
<1>1. ASSUME UNCHANGED <<asked_, runs>>
      PROVE List!Matching' = List!Matching
  BY <1>1 DEF List!Matching, List!RunsOf
<1>2. CASE UNCHANGED List!pageVars
  BY <1>0, <1>1, <1>2, RowsKept DEF List!pageVars
<1>3. CASE \E u \in Urls : List!create_repo(u) \/ List!delete_repo(u)
  BY <1>0, <1>1, <1>3, RowsKept DEF List!create_repo, List!delete_repo, List!Write
<1>4. ASSUME NEW r \in List!Run, List!create_run(r)
      PROVE RowsInv'
  <2>1. UNCHANGED <<at, asked_, page, rows, more, got, present>>
    BY <1>4 DEF List!create_run, List!Write
  <2>2. PICK n, b : n = asked_.repo /\ b = asked_.branch
    OBVIOUS
  <2>3. List!RunsOf(n, b) \subseteq List!RunsOf(n, b)'
    BY <1>4, RunsOfGrow
  <2>4. List!Matching \subseteq List!Matching'
    BY <2>1, <2>2, <2>3 DEF List!Matching, List!RunsOf
  <2> QED BY <1>0, <2>1, <2>4, RowsKept
<1>5. CASE List!Leave
  BY <1>5 DEF List!Leave, RowsInv, Reading
<1>6. CASE List!ui_projects \/ List!ListRepos
  BY <1>0, <1>1, <1>6 DEF List!ui_projects, List!ListRepos, RowsInv, Reading
<1>7. CASE \E n \in Projects, b \in Branches \cup {None} : List!Open(n, b)
  BY <1>7, OpenRows
<1>8. CASE List!Follow
  BY <1>0, <1>8, FollowRows
<1>9. CASE List!list_project_branches \/ List!LatestRun
  <2>1. /\ UNCHANGED <<asked_, runs, page, got, present>>
        /\ Reading /\ at' \notin {"shown"}
    BY <1>9 DEF List!list_project_branches, List!LatestRun, Reading
  <2> QED BY <1>0, <1>1, <2>1 DEF RowsInv, Reading, Rank, Later, Offset
<1>10. CASE List!list_project_runs
  BY <1>0, <1>10, ShowRows
<1> QED BY <1>2, <1>3, <1>4, <1>5, <1>6, <1>7, <1>8, <1>9, <1>10 DEF List!Next

LEMMA ListStep ==
  ASSUME List!TypeOK, ListInv, [List!Next]_List!pageVars
  PROVE List!TypeOK' /\ ListInv'
  BY ListTypeStep, KnownStep, BuildStep, RowsStep DEF ListInv

LEMMA ListInvariance == List!Spec => [](List!TypeOK /\ ListInv)
  BY ListTypeInit, ListStep, PTL DEF List!Spec

\* For any projects, URLs and names of them, the overview lists each project
\* that has been there since its first query, and none twice as long as its
\* name is registered once.
THEOREM OverviewListsAll == List!Spec => ProjectsListed
<1>1. List!TypeOK /\ ListInv
      => [List!ListRepos =>
            \A n \in Projects :
              /\ List!Still(n) => listed'[n] >= 1
              /\ List!Cardinality(List!Registered(n)) <= 1 => listed'[n] <= 1]_List!pageVars
  BY OverviewComplete
<1> QED BY <1>1, ListInvariance, PTL DEF ProjectsListed, List!ProjectsListed

\* For any size of a page, whoever follows the links sees every run that was
\* there when he began, whatever comes in meanwhile.
THEOREM LinksLeadToAll == List!Spec => []PagesComplete
<1>1. ListInv => PagesComplete
  BY DEF ListInv, BuildInv, RowsInv, PagesComplete, List!PagesComplete
<1> QED BY <1>1, ListInvariance, PTL

\* The variables of both keep their types, side by side.
THEOREM WebTypes == MCSpec => []TypesOK
<1>1. MCInit => Init /\ List!Init
  BY DEF MCInit
<1>2. [MCNext]_allVars => [Next]_vars /\ [List!Next]_List!pageVars
  BY DEF MCNext, allVars, listVars, List!pageVars, List!tables, List!overviewVars, List!listVars
<1>3. MCSpec => Spec /\ List!Spec
  BY <1>1, <1>2, PTL DEF MCSpec, Spec, List!Spec
<1> QED BY <1>3, TypeCorrect, ListInvariance, PTL DEF TypesOK

=============================================================================
