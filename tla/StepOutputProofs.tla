-------------------------- MODULE StepOutputProofs --------------------------
(***************************************************************************)
(* Proofs about StepOutput, for any number of lines, any capacities and    *)
(* any number of lost posts and failed statements.                         *)
(***************************************************************************)
EXTENDS StepOutput, SequenceTheorems, TLAPS

(***************************************************************************)
(* Lines move between places, and none is ever in two of them.             *)
(***************************************************************************)

Places == {"log", "stray", "req", "batch", "chan", "held", "errs", "out", "err"}
Item == (Output \X Nat) \cup {Mark}
Layout == [Places -> Seq(Item)]

\* Everything there is in b is there once.
Once(b) ==
  \A i, j \in Places : \A x \in 1..Len(b[i]), y \in 1..Len(b[j]) :
    b[i][x] = b[j][y] => i = j /\ x = y

\* What is in c has been in b.
From(c, b) ==
  \A i \in Places : \A x \in 1..Len(c[i]) :
    \E j \in Places : \E y \in 1..Len(b[j]) : c[i][x] = b[j][y]

\* Lines can get lost.
LEMMA Lose ==
  ASSUME NEW b \in Layout, NEW c \in Layout, Once(b),
         \A i \in Places : c[i] \in {b[i], <<>>, Tail(b[i])}
  PROVE Once(c) /\ From(c, b)
<1>1. ASSUME NEW i \in Places
      PROVE \/ /\ Len(c[i]) \in {0, Len(b[i])}
               /\ \A x \in 1..Len(c[i]) : c[i][x] = b[i][x]
            \/ /\ Len(c[i]) = Len(b[i]) - 1
               /\ \A x \in 1..Len(c[i]) : c[i][x] = b[i][x + 1]
  <2>1. b[i] \in Seq(Item) /\ c[i] \in Seq(Item)
    BY DEF Layout
  <2>2. CASE c[i] = b[i] \/ c[i] = <<>>
    BY <2>1, <2>2
  <2>3. CASE b[i] # <<>> /\ c[i] = Tail(b[i])
    BY <2>1, <2>3, HeadTailProperties
  <2>4. CASE b[i] = <<>> /\ c[i] = Tail(b[i])
    BY <2>1, <2>4
  <2> QED BY <2>2, <2>3, <2>4
<1>2. ASSUME NEW i \in Places
      PROVE \E d \in {0, 1} : \A x \in 1..Len(c[i]) :
              x + d \in 1..Len(b[i]) /\ c[i][x] = b[i][x + d]
  <2>1. Len(b[i]) \in Nat /\ Len(c[i]) \in Nat
    BY LenProperties DEF Layout
  <2>2. CASE Len(c[i]) \in {0, Len(b[i])} /\ \A x \in 1..Len(c[i]) : c[i][x] = b[i][x]
    <3>1. \A x \in 1..Len(c[i]) : x + 0 \in 1..Len(b[i]) /\ c[i][x] = b[i][x + 0]
      BY <2>1, <2>2
    <3> QED BY <3>1
  <2>3. CASE Len(c[i]) = Len(b[i]) - 1 /\ \A x \in 1..Len(c[i]) : c[i][x] = b[i][x + 1]
    <3>1. \A x \in 1..Len(c[i]) : x + 1 \in 1..Len(b[i]) /\ c[i][x] = b[i][x + 1]
      BY <2>1, <2>3
    <3> QED BY <3>1
  <2> QED BY <1>1, <2>2, <2>3
<1>3. From(c, b)
  BY <1>2 DEF From
<1>4. ASSUME NEW i \in Places, NEW x \in 1..Len(b[i]), NEW y \in 1..Len(b[i]),
             b[i][x] = b[i][y]
      PROVE x = y
  BY <1>4 DEF Once
<1>5. ASSUME NEW i \in Places, NEW j \in Places,
             NEW x \in 1..Len(c[i]), NEW y \in 1..Len(c[j]), c[i][x] = c[j][y]
      PROVE i = j /\ x = y
  <2>1. PICK d \in {0, 1} : \A z \in 1..Len(c[i]) :
          z + d \in 1..Len(b[i]) /\ c[i][z] = b[i][z + d]
    BY <1>2
  <2>2. PICK e \in {0, 1} : \A z \in 1..Len(c[j]) :
          z + e \in 1..Len(b[j]) /\ c[j][z] = b[j][z + e]
    BY <1>2
  <2>3. i = j /\ x + d = y + e
    BY <1>5, <2>1, <2>2 DEF Once
  <2>4. x + d \in 1..Len(b[i]) /\ c[i][x] = b[i][x + d]
    BY <2>1
  <2>5. CASE d = e
    BY <2>3, <2>5
  <2>6. CASE d # e
    <3>1. Len(c[i]) \in Nat
      BY LenProperties DEF Layout
    <3>2. CASE d = 0 /\ e = 1
      <4>1. y \in 1..Len(b[i]) /\ c[i][y] = b[i][y]
        <5>1. y + 0 = y
          OBVIOUS
        <5> QED BY <2>1, <2>3, <3>2, <5>1
      <4>2. y + 1 \in 1..Len(b[i]) /\ c[i][y] = b[i][y + 1]
        BY <2>2, <2>3, <3>2
      <4>3. b[i][y] = b[i][y + 1]
        BY <4>1, <4>2
      <4>4. y = y + 1
        BY <4>1, <4>2, <4>3, <1>4
      <4> QED BY <4>4
    <3>3. CASE d = 1 /\ e = 0
      <4>1. x \in 1..Len(b[i]) /\ c[i][x] = b[i][x]
        <5>1. x + 0 = x
          OBVIOUS
        <5> QED BY <2>2, <2>3, <3>3, <5>1
      <4>2. x + 1 \in 1..Len(b[i]) /\ c[i][x] = b[i][x + 1]
        BY <2>1, <3>3
      <4>3. b[i][x] = b[i][x + 1]
        BY <4>1, <4>2
      <4>4. x = x + 1
        BY <4>1, <4>2, <4>3, <1>4
      <4> QED BY <4>4
    <3> QED BY <2>6, <3>2, <3>3
  <2> QED BY <2>5, <2>6
<1> QED BY <1>3, <1>5 DEF Once

\* The first line of one place goes to the end of another.
LEMMA MoveHead ==
  ASSUME NEW b \in Layout, NEW c \in Layout, Once(b),
         NEW i \in Places, NEW j \in Places, i # j, b[i] # <<>>,
         c[i] = Tail(b[i]), c[j] = Append(b[j], Head(b[i])),
         \A k \in Places : k = i \/ k = j \/ c[k] = b[k]
  PROVE Once(c) /\ From(c, b)
<1>1. /\ b[i] \in Seq(Item) /\ b[j] \in Seq(Item)
      /\ Len(b[i]) \in Nat \ {0} /\ Len(b[j]) \in Nat
  BY EmptySeq, LenProperties DEF Layout
<1>2. /\ Head(b[i]) = b[i][1] /\ Head(b[i]) \in Item
      /\ Len(c[i]) = Len(b[i]) - 1
      /\ \A x \in 1..Len(c[i]) : c[i][x] = b[i][x + 1]
  BY <1>1, HeadTailProperties
<1>3. /\ Len(c[j]) = Len(b[j]) + 1
      /\ \A x \in 1..Len(b[j]) : c[j][x] = b[j][x]
      /\ c[j][Len(b[j]) + 1] = b[i][1]
  BY <1>1, <1>2
<1>4. \A k \in Places : Len(b[k]) \in Nat
  BY LenProperties DEF Layout
\* Where a line has come from.
<1> DEFINE P(k, x) == IF k = j /\ x = Len(b[j]) + 1 THEN i ELSE k
           N(k, x) == IF k = i THEN x + 1
                      ELSE IF k = j /\ x = Len(b[j]) + 1 THEN 1 ELSE x
<1>5. ASSUME NEW k \in Places, NEW x \in 1..Len(c[k])
      PROVE P(k, x) \in Places /\ N(k, x) \in 1..Len(b[P(k, x)])
              /\ c[k][x] = b[P(k, x)][N(k, x)]
  <2>1. CASE k = i
    <3>1. P(k, x) = i /\ N(k, x) = x + 1
      BY <2>1
    <3>2. x \in 1..Len(c[i]) /\ x + 1 \in 1..Len(b[i])
      <4>1. Len(c[i]) = Len(b[i]) - 1 /\ Len(b[i]) \in Nat
        BY <1>1, <1>2
      <4>2. x \in 1..Len(c[i])
        BY <2>1
      <4> QED BY <4>1, <4>2
    <3>3. c[k][x] = b[i][x + 1]
      BY <1>2, <2>1, <3>2
    <3> HIDE DEF P, N
    <3> QED BY <3>1, <3>2, <3>3
  <2>2. CASE k = j /\ x = Len(b[j]) + 1
    <3>1. P(k, x) = i /\ N(k, x) = 1 /\ 1 \in 1..Len(b[i])
      BY <1>1, <2>2
    <3>2. c[k][x] = b[i][1]
      BY <1>3, <2>2
    <3> HIDE DEF P, N
    <3> QED BY <3>1, <3>2
  <2>3. CASE k = j /\ x # Len(b[j]) + 1
    <3>1. P(k, x) = j /\ N(k, x) = x /\ x \in 1..Len(b[j])
      BY <1>1, <1>3, <2>3
    <3>2. c[k][x] = b[j][x]
      BY <1>3, <2>3, <3>1
    <3> HIDE DEF P, N
    <3> QED BY <3>1, <3>2
  <2>4. CASE k # i /\ k # j
    BY <2>4
  <2> QED BY <2>1, <2>2, <2>3, <2>4
<1>6. From(c, b)
  BY <1>5 DEF From
<1>7. ASSUME NEW k \in Places, NEW l \in Places,
             NEW x \in 1..Len(c[k]), NEW y \in 1..Len(c[l]), c[k][x] = c[l][y]
      PROVE k = l /\ x = y
  <2>1. P(k, x) = P(l, y) /\ N(k, x) = N(l, y)
    <3>1. b[P(k, x)][N(k, x)] = b[P(l, y)][N(l, y)]
      BY <1>5, <1>7
    <3> HIDE DEF P, N
    <3> QED BY <1>5, <3>1, SMTT(20) DEF Once
  <2>2. x \in Nat \ {0} /\ y \in Nat \ {0}
    BY <1>2, <1>3, <1>4
  <2> QED BY <1>1, <2>1, <2>2
<1> QED BY <1>6, <1>7 DEF Once

\* All of one place goes to the end of another.
LEMMA MoveAll ==
  ASSUME NEW b \in Layout, NEW c \in Layout, Once(b),
         NEW i \in Places, NEW j \in Places, i # j,
         c[i] = <<>>, c[j] = b[j] \o b[i],
         \A k \in Places : k = i \/ k = j \/ c[k] = b[k]
  PROVE Once(c) /\ From(c, b)
<1>1. /\ b[i] \in Seq(Item) /\ b[j] \in Seq(Item)
      /\ Len(b[i]) \in Nat /\ Len(b[j]) \in Nat
  BY LenProperties DEF Layout
<1>2. /\ Len(c[j]) = Len(b[j]) + Len(b[i])
      /\ \A x \in 1..(Len(b[j]) + Len(b[i])) :
           c[j][x] = IF x <= Len(b[j]) THEN b[j][x] ELSE b[i][x - Len(b[j])]
  <2>1. \A s, t \in Seq(Item) :
          /\ Len(s \o t) = Len(s) + Len(t)
          /\ \A x \in 1..(Len(s) + Len(t)) :
               (s \o t)[x] = IF x <= Len(s) THEN s[x] ELSE t[x - Len(s)]
    BY ConcatProperties
  <2>2. /\ Len(b[j] \o b[i]) = Len(b[j]) + Len(b[i])
        /\ \A x \in 1..(Len(b[j]) + Len(b[i])) :
             (b[j] \o b[i])[x] = IF x <= Len(b[j]) THEN b[j][x]
                                 ELSE b[i][x - Len(b[j])]
    BY <1>1, <2>1, Zenon
  <2> QED BY <2>2, Zenon
<1>3. Len(c[i]) = 0
  OBVIOUS
<1>4. \A k \in Places : Len(b[k]) \in Nat
  BY LenProperties DEF Layout
<1> DEFINE P(k, x) == IF k = j /\ x > Len(b[j]) THEN i ELSE k
           N(k, x) == IF k = j /\ x > Len(b[j]) THEN x - Len(b[j]) ELSE x
<1>5. ASSUME NEW k \in Places, NEW x \in 1..Len(c[k])
      PROVE P(k, x) \in Places /\ N(k, x) \in 1..Len(b[P(k, x)])
              /\ c[k][x] = b[P(k, x)][N(k, x)]
  <2>1. CASE k = i
    BY <1>3, <2>1
  <2>2. CASE k = j /\ x > Len(b[j])
    <3>1. /\ P(k, x) = i /\ N(k, x) = x - Len(b[j])
          /\ x - Len(b[j]) \in 1..Len(b[i])
      <4>1. x \in 1..(Len(b[j]) + Len(b[i]))
        BY <1>2, <2>2
      <4>2. P(k, x) = i /\ N(k, x) = x - Len(b[j])
        BY <2>2
      <4> HIDE DEF P, N
      <4>3. \A m, n \in Nat : \A z \in 1..(m + n) : z > m => z - m \in 1..n
        OBVIOUS
      <4>4. x - Len(b[j]) \in 1..Len(b[i])
        BY <1>1, <2>2, <4>1, <4>3
      <4> QED BY <4>2, <4>4
    <3>2. c[k][x] = b[i][x - Len(b[j])]
      <4> HIDE DEF P, N
      <4>1. x \in 1..(Len(b[j]) + Len(b[i]))
        BY <1>2, <2>2
      <4>2. x \in Int /\ ~(x <= Len(b[j]))
        BY <1>1, <2>2, <4>1
      <4> QED BY <1>2, <2>2, <4>1, <4>2
    <3> HIDE DEF P, N
    <3> QED BY <3>1, <3>2
  <2>3. CASE k = j /\ ~(x > Len(b[j]))
    <3>1. P(k, x) = j /\ N(k, x) = x /\ x \in 1..Len(b[j])
      BY <1>1, <1>2, <2>3
    <3>2. c[k][x] = b[j][x]
      BY <1>1, <1>2, <2>3
    <3> HIDE DEF P, N
    <3> QED BY <3>1, <3>2
  <2>4. CASE k # i /\ k # j
    BY <2>4
  <2> QED BY <2>1, <2>2, <2>3, <2>4
<1>6. From(c, b)
  BY <1>5 DEF From
<1>7. ASSUME NEW k \in Places, NEW l \in Places,
             NEW x \in 1..Len(c[k]), NEW y \in 1..Len(c[l]), c[k][x] = c[l][y]
      PROVE k = l /\ x = y
  <2>1. P(k, x) = P(l, y) /\ N(k, x) = N(l, y)
    <3>1. b[P(k, x)][N(k, x)] = b[P(l, y)][N(l, y)]
      BY <1>5, <1>7
    <3> HIDE DEF P, N
    <3> QED BY <1>5, <3>1, SMTT(20) DEF Once
  <2>2. x \in Nat \ {0} /\ y \in Nat \ {0} /\ k # i /\ l # i
    BY <1>2, <1>3, <1>4
  <2> QED BY <1>1, <2>1, <2>2
<1> QED BY <1>6, <1>7 DEF Once

\* A new line is added.
LEMMA AddFresh ==
  ASSUME NEW b \in Layout, NEW c \in Layout, Once(b),
         NEW j \in Places, NEW e \in Item, c[j] = Append(b[j], e),
         \A k \in Places : \A x \in 1..Len(b[k]) : b[k][x] # e,
         \A k \in Places : k = j \/ c[k] = b[k]
  PROVE /\ Once(c)
        /\ \A i \in Places : \A x \in 1..Len(c[i]) :
             c[i][x] = e \/ \E k \in Places : \E y \in 1..Len(b[k]) : c[i][x] = b[k][y]
<1>1. b[j] \in Seq(Item) /\ \A k \in Places : Len(b[k]) \in Nat
  BY LenProperties DEF Layout
<1>2. /\ Len(c[j]) = Len(b[j]) + 1
      /\ \A x \in 1..Len(b[j]) : c[j][x] = b[j][x]
      /\ c[j][Len(b[j]) + 1] = e
  BY <1>1
<1>3. ASSUME NEW k \in Places, NEW x \in 1..Len(c[k])
      PROVE IF k = j /\ x = Len(b[j]) + 1 THEN c[k][x] = e
            ELSE x \in 1..Len(b[k]) /\ c[k][x] = b[k][x]
  BY <1>1, <1>2
<1> QED BY <1>3 DEF Once

(***************************************************************************)
(* Types and control.                                                      *)
(***************************************************************************)

LineTypes ==
  /\ {log, stray, req, batch, chan, held, errLines} \subseteq Seq(Item)
  /\ pipe \in [Output -> Seq(Item)]
  /\ written \in [Output -> Nat]

\* Who is where while lines are on their way.
ControlInv ==
  /\ main = "join" => held = <<>>
  /\ req # <<>> => cons = "post" \/ agent = "mark"
  /\ agent # "step" => cons = "ended" /\ main = "ended"

LEMMA ControlInit == Init => LineTypes /\ ControlInv
  BY DEF Init, LineTypes, ControlInv, Output

LEMMA ControlStep ==
  ASSUME LineTypes, ControlInv, [Next]_vars
  PROVE LineTypes' /\ ControlInv'
<1> USE DEF LineTypes, ControlInv, script, childVars, mainVars, errVars,
            consVars, serverVars
<1>m. Mark \in Item /\ \A o \in Output, n \in Nat : <<o, n + 1>> \in Item
  BY DEF Item
<1>s. /\ \A s \in Seq(Item), e \in Item : Append(s, e) \in Seq(Item)
      /\ \A s, t \in Seq(Item) : s \o t \in Seq(Item)
      /\ \A s \in Seq(Item) : s # <<>> => Head(s) \in Item /\ Tail(s) \in Seq(Item)
  BY HeadTailProperties, ConcatProperties
<1>o. "out" \in Output /\ "err" \in Output
  BY DEF Output
<1>1. CASE UNCHANGED vars
  BY <1>1 DEF vars
<1>2. ASSUME NEW o \in Output, ChildWrites(o) PROVE LineTypes' /\ ControlInv'
  <2>1. <<o, written[o] + 1>> \in Item /\ written[o] + 1 \in Nat
    BY <1>m
  <2>2. Append(pipe[o], <<o, written[o] + 1>>) \in Seq(Item)
    BY <2>1, <1>s
  <2>3. pipe' \in [Output -> Seq(Item)] /\ written' \in [Output -> Nat]
    BY <1>2, <2>1, <2>2 DEF ChildWrites
  <2> QED BY <1>2, <2>3 DEF ChildWrites
<1>3. ASSUME NEW o \in Output, ChildWritesBroken(o) PROVE LineTypes' /\ ControlInv'
  BY <1>3 DEF ChildWritesBroken
<1>4. CASE ChildExits \/ Spawn \/ SpawnFails
  BY <1>4 DEF ChildExits, Spawn, SpawnFails
<1>5. CASE SendLine
  BY <1>5, <1>s DEF SendLine
<1>6. CASE ReadStdout
  <2>1. <<Head(pipe["out"])>> \in Seq(Item)
    BY <1>6, <1>s, <1>o DEF ReadStdout
  <2> QED BY <1>6, <1>s, <1>o, <2>1 DEF ReadStdout
<1>7. CASE StdoutError \/ StdoutEnds \/ StderrEnds \/ RunStepEnds
  BY <1>7 DEF StdoutError, StdoutEnds, StderrEnds, RunStepEnds
<1>8. CASE ReadStderr
  <2>1. Head(pipe["err"]) \in Item /\ Tail(pipe["err"]) \in Seq(Item)
    BY <1>8, <1>s, <1>o DEF ReadStderr
  <2>2. Append(errLines, Head(pipe["err"])) \in Seq(Item)
    BY <2>1, <1>s
  <2> QED BY <1>8, <2>1, <2>2, <1>o DEF ReadStderr
<1>9. CASE JoinStderr
  BY <1>9 DEF JoinStderr
<1>10. CASE Receive
  BY <1>10, <1>s DEF Receive
<1>11. CASE PostBatch \/ Posted \/ ConsumerEnds
  BY <1>11 DEF PostBatch, Posted, ConsumerEnds
<1>12. CASE PostMark
  <2>1. <<Mark>> \in Seq(Item)
    BY <1>m
  <2> QED BY <1>12, <2>1 DEF PostMark
<1>13. CASE Report
  BY <1>13 DEF Report
<1>14. CASE Insert \/ InsertFails
  <2>1. CASE Insert
    <3>1. Head(req) \in Item /\ Tail(req) \in Seq(Item) /\ log \in Seq(Item)
      BY <2>1, <1>s DEF Insert
    <3>2. Append(log, Head(req)) \in Seq(Item)
      BY <3>1, <1>s
    <3> QED BY <2>1, <3>1, <3>2 DEF Insert
  <2>2. CASE InsertFails
    BY <2>2 DEF InsertFails
  <2> QED BY <1>14, <2>1, <2>2
<1>15. CASE LosePost \/ InsertStray
  <2>1. CASE LosePost
    <3>1. stray \o req \in Seq(Item)
      BY <1>s
    <3> QED BY <2>1, <3>1 DEF LosePost
  <2>2. CASE InsertStray
    <3>1. /\ Head(stray) \in Item /\ Tail(stray) \in Seq(Item)
          /\ log \in Seq(Item)
      BY <2>2, <1>s DEF InsertStray
    <3>2. Append(log, Head(stray)) \in Seq(Item)
      BY <3>1, <1>s
    <3>3. CASE log' = Append(log, Head(stray)) /\ stray' = Tail(stray)
      BY <2>2, <3>1, <3>2, <3>3 DEF InsertStray
    <3>4. CASE stray' = <<>> /\ log' = log
      BY <2>2, <3>1, <3>4 DEF InsertStray
    <3> QED BY <2>2, <3>3, <3>4 DEF InsertStray
  <2> QED BY <1>15, <2>1, <2>2
<1>16. CASE OpenPage \/ ShowPage \/ PageTrouble
  BY <1>16 DEF OpenPage, ShowPage, PageTrouble, noView
<1> QED
  BY <1>1, <1>2, <1>3, <1>4, <1>5, <1>6, <1>7, <1>8, <1>9, <1>10, <1>11, <1>12,
     <1>13, <1>14, <1>15, <1>16
     DEF Next, Child, run_step, StderrThread, Consumer, Agent

(***************************************************************************)
(* The lines of this step.                                                 *)
(***************************************************************************)

\* The stderr lines wait until they are sent, those of a batch until they are
\* posted.
Collected == IF main \in {"spawn", "stdout", "join"} THEN errLines ELSE <<>>
Unposted == IF cons = "post" THEN <<>> ELSE batch

Flow ==
  [p \in Places |->
     CASE p = "log" -> log [] p = "stray" -> stray [] p = "req" -> req
       [] p = "batch" -> Unposted [] p = "chan" -> chan [] p = "held" -> held
       [] p = "errs" -> Collected [] p = "out" -> pipe["out"]
       [] p = "err" -> pipe["err"]]

FlowIs ==
  /\ Flow["log"] = log /\ Flow["stray"] = stray /\ Flow["req"] = req
  /\ Flow["batch"] = Unposted /\ Flow["chan"] = chan /\ Flow["held"] = held
  /\ Flow["errs"] = Collected /\ Flow["out"] = pipe["out"]
  /\ Flow["err"] = pipe["err"]

LEMMA FlowParts == FlowIs /\ FlowIs'
  BY DEF FlowIs, Flow, Places

LEMMA FlowLayout ==
  /\ LineTypes => Flow \in Layout
  /\ LineTypes' => Flow' \in Layout
<1>1. <<>> \in Seq(Item) /\ "out" \in Output /\ "err" \in Output
  BY DEF Output
<1>2. LineTypes => Flow \in Layout
  BY <1>1 DEF LineTypes, Flow, Layout, Places, Collected, Unposted
<1>3. LineTypes' => Flow' \in Layout
  BY <1>1 DEF LineTypes, Flow, Layout, Places, Collected, Unposted
<1> QED BY <1>2, <1>3

\* Lines that have been written, and the agent's mark once it has come to it.
Known(e) ==
  \/ e = Mark /\ agent # "step"
  \/ \E o \in Output : \E n \in 1..written[o] : e = <<o, n>>

AllKnown == \A p \in Places : \A x \in 1..Len(Flow[p]) : Known(Flow[p][x])

FlowInv == Once(Flow) /\ AllKnown

LEMMA FlowInit == Init => FlowInv
<1> SUFFICES ASSUME Init PROVE FlowInv
  OBVIOUS
<1>1. \A p \in Places : Flow[p] = <<>>
  BY FlowParts DEF Init, FlowIs, Places, Output, Collected, Unposted
<1>2. \A p \in Places : Len(Flow[p]) = 0
  BY <1>1
<1> QED BY <1>2 DEF FlowInv, AllKnown, Once

\* What is known stays known.
LEMMA KnownGrows ==
  ASSUME LineTypes, LineTypes', NEW e, Known(e),
         \A o \in Output : written[o] <= written'[o],
         agent # "step" => agent' # "step"
  PROVE Known(e)'
<1>1. CASE e = Mark /\ agent # "step"
  BY <1>1 DEF Known
<1>2. ASSUME NEW o \in Output, NEW n \in 1..written[o], e = <<o, n>>
      PROVE Known(e)'
  <2>1. written[o] \in Nat /\ written'[o] \in Nat /\ written[o] <= written'[o]
    BY DEF LineTypes
  <2>2. n \in 1..written'[o]
    BY <2>1
  <2> QED BY <1>2, <2>2 DEF Known
<1> QED BY <1>1, <1>2 DEF Known

\* As long as nothing new comes in, all stays known.
LEMMA KnownStays ==
  ASSUME FlowInv, LineTypes, LineTypes', From(Flow', Flow),
         \A o \in Output : written[o] <= written'[o],
         agent # "step" => agent' # "step"
  PROVE AllKnown'
<1>1. ASSUME NEW e, Known(e) PROVE Known(e)'
  BY <1>1, KnownGrows
<1> SUFFICES ASSUME NEW p \in Places, NEW x \in 1..Len(Flow'[p])
             PROVE Known(Flow[p][x])'
  BY DEF AllKnown
<1>2. PICK q \in Places : \E y \in 1..Len(Flow[q]) : Flow'[p][x] = Flow[q][y]
  BY DEF From
<1>3. PICK y \in 1..Len(Flow[q]) : Flow'[p][x] = Flow[q][y]
  BY <1>2
<1>4. ASSUME NEW e, e = Flow'[p][x] PROVE Known(e)'
  <2>1. Known(Flow[q][y])
    BY DEF FlowInv, AllKnown
  <2>2. Known(e)
    BY <1>3, <1>4, <2>1
  <2> QED BY <1>1, <2>2
<1> QED BY <1>4 DEF Known

\* The steps in which every line stays where it is, is lost, or moves.
LEMMA FlowMoves ==
  ASSUME LineTypes, LineTypes', ControlInv, FlowInv,
         \/ UNCHANGED vars
         \/ \E o \in Output : ChildWritesBroken(o)
         \/ ChildExits \/ run_step \/ StderrThread \/ Consumer \/ Report
         \/ Insert \/ InsertFails \/ LosePost \/ InsertStray
         \/ OpenPage \/ ShowPage \/ PageTrouble
  PROVE Once(Flow') /\ From(Flow', Flow)
<1>l. Flow \in Layout /\ Flow' \in Layout /\ Once(Flow)
  BY FlowLayout DEF FlowInv
<1>p. /\ "log" \in Places /\ "stray" \in Places /\ "req" \in Places
      /\ "batch" \in Places /\ "chan" \in Places /\ "held" \in Places
      /\ "errs" \in Places /\ "out" \in Places /\ "err" \in Places
  BY DEF Places
<1>0. ASSUME \A p \in Places : Flow'[p] \in {Flow[p], <<>>, Tail(Flow[p])}
      PROVE Once(Flow') /\ From(Flow', Flow)
  BY <1>l, <1>0, Lose
<1>h. ASSUME NEW i \in Places, NEW j \in Places, i # j, Flow[i] # <<>>,
             Flow'[i] = Tail(Flow[i]), Flow'[j] = Append(Flow[j], Head(Flow[i])),
             \A k \in Places : k = i \/ k = j \/ Flow'[k] = Flow[k]
      PROVE Once(Flow') /\ From(Flow', Flow)
  BY <1>l, <1>h, MoveHead
<1>a. ASSUME NEW i \in Places, NEW j \in Places, i # j,
             Flow'[i] = <<>>, Flow'[j] = Flow[j] \o Flow[i],
             \A k \in Places : k = i \/ k = j \/ Flow'[k] = Flow[k]
      PROVE Once(Flow') /\ From(Flow', Flow)
  BY <1>l, <1>a, MoveAll
<1>e. \A s \in Seq(Item) : <<>> \o s = s
  BY ConcatEmptySeq
<1>d. \A e \in Item : <<e>> = Append(<<>>, e)
  OBVIOUS
<1> USE FlowParts DEF FlowIs, script, childVars, mainVars, errVars, consVars,
                      serverVars
<1>1. CASE UNCHANGED vars
  <2>1. \A p \in Places : Flow'[p] = Flow[p]
    BY <1>1 DEF vars, Collected, Unposted, Places
  <2> QED BY <1>0, <2>1
<1>2. CASE \/ (\E o \in Output : ChildWritesBroken(o))
           \/ ChildExits \/ StderrEnds \/ ConsumerEnds \/ Report
           \/ OpenPage \/ ShowPage \/ PageTrouble
  <2>1. \A p \in Places : Flow'[p] = Flow[p]
    BY <1>2 DEF ChildWritesBroken, ChildExits, StderrEnds, ConsumerEnds, Report,
                OpenPage, ShowPage, PageTrouble, noView, Collected, Unposted, Places
  <2> QED BY <1>0, <2>1
<1>3. CASE Spawn \/ SpawnFails \/ StdoutError \/ StdoutEnds \/ RunStepEnds
  <2>1. \A p \in Places : Flow'[p] \in {Flow[p], <<>>, Tail(Flow[p])}
    BY <1>3 DEF Spawn, SpawnFails, StdoutError, StdoutEnds, RunStepEnds,
                Collected, Unposted, Places
  <2> QED BY <1>0, <2>1
<1>4. CASE SendLine
  <2>1. /\ Flow["held"] # <<>> /\ Flow'["held"] = Tail(Flow["held"])
        /\ Flow'["chan"] = Append(Flow["chan"], Head(Flow["held"]))
        /\ \A k \in Places : k = "held" \/ k = "chan" \/ Flow'[k] = Flow[k]
    BY <1>4 DEF SendLine, Collected, Unposted, Places
  <2> QED BY <1>h, <1>p, <2>1
<1>5. CASE ReadStdout
  <2>1. Head(pipe["out"]) \in Item
    BY <1>5, HeadTailProperties DEF ReadStdout, LineTypes, Output
  <2>2. pipe'["out"] = Tail(pipe["out"]) /\ pipe'["err"] = pipe["err"]
    BY <1>5 DEF ReadStdout, LineTypes, Output
  <2>3. /\ Flow["out"] # <<>> /\ Flow'["out"] = Tail(Flow["out"])
        /\ Flow'["held"] = Append(Flow["held"], Head(Flow["out"]))
        /\ \A k \in Places : k = "out" \/ k = "held" \/ Flow'[k] = Flow[k]
    BY <1>5, <1>d, <2>1, <2>2 DEF ReadStdout, Collected, Unposted, Places
  <2> QED BY <1>h, <1>p, <2>3
<1>6. CASE ReadStderr
  <2>1. pipe'["err"] = Tail(pipe["err"]) /\ pipe'["out"] = pipe["out"]
    BY <1>6 DEF ReadStderr, LineTypes, Output
  <2>2. CASE main \in {"spawn", "stdout", "join"} /\ ~Unreadable("err")
    <3>1. /\ Flow["err"] # <<>> /\ Flow'["err"] = Tail(Flow["err"])
          /\ Flow'["errs"] = Append(Flow["errs"], Head(Flow["err"]))
          /\ \A k \in Places : k = "err" \/ k = "errs" \/ Flow'[k] = Flow[k]
      BY <1>6, <2>1, <2>2 DEF ReadStderr, Collected, Unposted, Places
    <3> QED BY <1>h, <1>p, <3>1
  <2>3. CASE main \notin {"spawn", "stdout", "join"} \/ Unreadable("err")
    <3>1. \A p \in Places : Flow'[p] \in {Flow[p], <<>>, Tail(Flow[p])}
      BY <1>6, <2>1, <2>3 DEF ReadStderr, Collected, Unposted, Places
    <3> QED BY <1>0, <3>1
  <2> QED BY <2>2, <2>3
<1>7. CASE JoinStderr
  <2>1. CASE errs = "done"
    <3>1. /\ Flow'["errs"] = <<>>
          /\ Flow'["held"] = Flow["held"] \o Flow["errs"]
          /\ \A k \in Places : k = "errs" \/ k = "held" \/ Flow'[k] = Flow[k]
      BY <1>7, <1>e, <2>1
         DEF JoinStderr, ControlInv, LineTypes, Collected, Unposted, Places
    <3> QED BY <1>a, <1>p, <3>1
  <2>2. CASE errs # "done"
    <3>1. \A p \in Places : Flow'[p] \in {Flow[p], <<>>, Tail(Flow[p])}
      BY <1>7, <2>2 DEF JoinStderr, Collected, Unposted, Places
    <3> QED BY <1>0, <3>1
  <2> QED BY <2>1, <2>2
<1>8. CASE Receive
  <2>1. /\ Flow["chan"] # <<>> /\ Flow'["chan"] = Tail(Flow["chan"])
        /\ Flow'["batch"] = Append(Flow["batch"], Head(Flow["chan"]))
        /\ \A k \in Places : k = "chan" \/ k = "batch" \/ Flow'[k] = Flow[k]
    BY <1>8 DEF Receive, Collected, Unposted, Places
  <2> QED BY <1>h, <1>p, <2>1
<1>9. CASE PostBatch
  <2>1. req = <<>>
    BY <1>9 DEF PostBatch, ControlInv
  <2>2. /\ Flow'["batch"] = <<>>
        /\ Flow'["req"] = Flow["req"] \o Flow["batch"]
        /\ \A k \in Places : k = "batch" \/ k = "req" \/ Flow'[k] = Flow[k]
    BY <1>9, <1>e, <2>1 DEF PostBatch, LineTypes, Collected, Unposted, Places
  <2> QED BY <1>a, <1>p, <2>2
<1>10. CASE Posted
  <2>1. \A p \in Places : Flow'[p] \in {Flow[p], <<>>, Tail(Flow[p])}
    BY <1>10 DEF Posted, Collected, Unposted, Places
  <2> QED BY <1>0, <2>1
<1>11. CASE Insert
  <2>1. /\ Flow["req"] # <<>> /\ Flow'["req"] = Tail(Flow["req"])
        /\ Flow'["log"] = Append(Flow["log"], Head(Flow["req"]))
        /\ \A k \in Places : k = "req" \/ k = "log" \/ Flow'[k] = Flow[k]
    BY <1>11 DEF Insert, Collected, Unposted, Places
  <2> QED BY <1>h, <1>p, <2>1
<1>12. CASE InsertFails
  <2>1. \A p \in Places : Flow'[p] \in {Flow[p], <<>>, Tail(Flow[p])}
    BY <1>12 DEF InsertFails, Collected, Unposted, Places
  <2> QED BY <1>0, <2>1
<1>13. CASE LosePost
  <2>1. /\ Flow'["req"] = <<>>
        /\ Flow'["stray"] = Flow["stray"] \o Flow["req"]
        /\ \A k \in Places : k = "req" \/ k = "stray" \/ Flow'[k] = Flow[k]
    BY <1>13 DEF LosePost, Collected, Unposted, Places
  <2> QED BY <1>a, <1>p, <2>1
<1>14. CASE InsertStray
  <2>1. CASE stray' = <<>> /\ log' = log
    <3>1. \A p \in Places : Flow'[p] \in {Flow[p], <<>>, Tail(Flow[p])}
      BY <1>14, <2>1 DEF InsertStray, Collected, Unposted, Places
    <3> QED BY <1>0, <3>1
  <2>2. CASE log' = Append(log, Head(stray)) /\ stray' = Tail(stray)
    <3>1. /\ Flow["stray"] # <<>> /\ Flow'["stray"] = Tail(Flow["stray"])
          /\ Flow'["log"] = Append(Flow["log"], Head(Flow["stray"]))
          /\ \A k \in Places : k = "stray" \/ k = "log" \/ Flow'[k] = Flow[k]
      BY <1>14, <2>2 DEF InsertStray, Collected, Unposted, Places
    <3> QED BY <1>h, <1>p, <3>1
  <2> QED BY <1>14, <2>1, <2>2 DEF InsertStray
<1> QED
  BY <1>1, <1>2, <1>3, <1>4, <1>5, <1>6, <1>7, <1>8, <1>9, <1>10, <1>11, <1>12,
     <1>13, <1>14
     DEF run_step, StderrThread, Consumer

\* The steps that make a line: the script's, and the agent's mark.
LEMMA FlowGrows ==
  ASSUME LineTypes, LineTypes', ControlInv, FlowInv, NEW j \in Places,
         NEW e \in Item, ~Known(e), Known(e)',
         Flow'[j] = Append(Flow[j], e),
         \A k \in Places : k = j \/ Flow'[k] = Flow[k],
         \A o \in Output : written[o] <= written'[o],
         agent # "step" => agent' # "step"
  PROVE FlowInv'
<1>1. Flow \in Layout /\ Flow' \in Layout /\ Once(Flow)
  BY FlowLayout DEF FlowInv
<1>2. \A k \in Places : \A x \in 1..Len(Flow[k]) : Flow[k][x] # e
  BY DEF FlowInv, AllKnown
<1>3. /\ Once(Flow')
      /\ \A i \in Places : \A x \in 1..Len(Flow'[i]) :
           Flow'[i][x] = e \/ \E k \in Places : \E y \in 1..Len(Flow[k]) : Flow'[i][x] = Flow[k][y]
  BY <1>1, <1>2, AddFresh
<1>4. ASSUME NEW d, Known(d) PROVE Known(d)'
  BY <1>4, KnownGrows
<1>5. ASSUME NEW p \in Places, NEW x \in 1..Len(Flow'[p])
      PROVE Known(Flow[p][x])'
  <2>1. ASSUME NEW d, d = Flow'[p][x] PROVE Known(d)'
    <3>1. CASE d = e
      BY <3>1
    <3>2. CASE d # e
      <4>1. PICK k \in Places : \E y \in 1..Len(Flow[k]) : d = Flow[k][y]
        BY <1>3, <2>1, <3>2
      <4>2. Known(d)
        BY <4>1 DEF FlowInv, AllKnown
      <4> QED BY <1>4, <4>2
    <3> QED BY <3>1, <3>2
  <2> QED BY <2>1 DEF Known
<1> QED BY <1>3, <1>5 DEF FlowInv, AllKnown, Once

LEMMA FlowStep ==
  ASSUME LineTypes, LineTypes', ControlInv, FlowInv, [Next]_vars
  PROVE FlowInv'
<1> USE FlowParts DEF FlowIs, script, childVars, mainVars, errVars, consVars,
                      serverVars
<1>w. written \in [Output -> Nat] /\ written' \in [Output -> Nat]
  BY DEF LineTypes
<1>1. ASSUME NEW o \in Output, ChildWrites(o) PROVE FlowInv'
  <2>1. written' = [written EXCEPT ![o] = @ + 1] /\ agent' = agent
    BY <1>1 DEF ChildWrites
  <2>2. written[o] \in Nat /\ written'[o] = written[o] + 1
    BY <1>w, <2>1
  <2>3. \A q \in Output : written[q] <= written'[q]
    BY <1>w, <2>1
  <2>4. PICK e : e = <<o, written[o] + 1>>
    OBVIOUS
  <2>5. e \in Item
    BY <2>2, <2>4 DEF Item
  <2>6. ~Known(e)
    <3>1. e # Mark
      BY <2>4 DEF Mark, Output
    <3>2. ASSUME NEW q \in Output, NEW n \in 1..written[q], e = <<q, n>>
          PROVE FALSE
      BY <2>2, <2>4, <3>2
    <3> QED BY <3>1, <3>2 DEF Known
  <2>7. Known(e)'
    <3>1. written[o] + 1 \in 1..written'[o]
      BY <2>2
    <3>2. \E q \in Output : \E n \in 1..written'[q] : e = <<q, n>>
      BY <2>4, <3>1
    <3> QED BY <3>2 DEF Known
  <2>8. o \in Places /\ pipe \in [Output -> Seq(Item)]
    BY DEF Output, Places, LineTypes
  <2>9. /\ Flow'[o] = Append(Flow[o], e)
        /\ \A k \in Places : k = o \/ Flow'[k] = Flow[k]
    BY <1>1, <2>4, <2>8 DEF ChildWrites, Output, Places, Collected, Unposted
  <2> QED BY <2>1, <2>3, <2>5, <2>6, <2>7, <2>8, <2>9, FlowGrows
<1>2. CASE PostMark
  <2>1. req = <<>>
    BY <1>2 DEF PostMark, ControlInv
  <2>2. Mark \in Item /\ "req" \in Places
    BY DEF Item, Places
  <2>3. ~Known(Mark)
    BY <1>2 DEF PostMark, Known, Mark, Output
  <2>4. Known(Mark)'
    BY <1>2 DEF PostMark, Known
  <2>5. /\ Flow'["req"] = Append(Flow["req"], Mark)
        /\ \A k \in Places : k = "req" \/ Flow'[k] = Flow[k]
    <3>1. <<Mark>> = Append(<<>>, Mark)
      OBVIOUS
    <3> QED BY <1>2, <2>1, <3>1 DEF PostMark, Places, Collected, Unposted
  <2>6. \A o \in Output : written[o] <= written'[o]
    BY <1>2, <1>w DEF PostMark
  <2>7. agent' # "step"
    BY <1>2 DEF PostMark
  <2> QED BY <2>2, <2>3, <2>4, <2>5, <2>6, <2>7, FlowGrows
<1>3. CASE \/ UNCHANGED vars
           \/ \E o \in Output : ChildWritesBroken(o)
           \/ ChildExits \/ run_step \/ StderrThread \/ Consumer \/ Report
           \/ Insert \/ InsertFails \/ LosePost \/ InsertStray
           \/ OpenPage \/ ShowPage \/ PageTrouble
  <2>1. Once(Flow') /\ From(Flow', Flow)
    BY <1>3, FlowMoves
  <2>2. \A o \in Output : written[o] <= written'[o]
    <3>1. CASE \E o \in Output : ChildWritesBroken(o)
      BY <1>w, <3>1 DEF ChildWritesBroken
    <3>2. CASE ~\E o \in Output : ChildWritesBroken(o)
      <4>1. written' = written
        BY <1>3, <3>2
           DEF vars, ChildExits, run_step, Spawn, SpawnFails,
               SendLine, ReadStdout, StdoutError, StdoutEnds, JoinStderr,
               RunStepEnds, StderrThread, ReadStderr, StderrEnds, Consumer,
               Receive, PostBatch, Posted, ConsumerEnds, Report, Insert,
               InsertFails, LosePost, InsertStray, OpenPage, ShowPage,
               PageTrouble, noView
      <4> QED BY <1>w, <4>1
    <3> QED BY <3>1, <3>2
  <2>3. agent # "step" => agent' # "step"
    BY <1>3
       DEF vars, ChildWritesBroken, ChildExits, run_step, Spawn, SpawnFails,
           SendLine, ReadStdout, StdoutError, StdoutEnds, JoinStderr,
           RunStepEnds, StderrThread, ReadStderr, StderrEnds, Consumer, Receive,
           PostBatch, Posted, ConsumerEnds, Report, Insert, InsertFails,
           LosePost, InsertStray, OpenPage, ShowPage, PageTrouble, noView
  <2> QED BY <2>1, <2>2, <2>3, KnownStays DEF FlowInv, Once
<1> QED BY <1>1, <1>2, <1>3 DEF Next, Child, Agent

\* Whatever is lost on the way, and however late a post arrives that the
\* agent has given up, no line of the step is in the log twice.
THEOREM EachLineOnce == Spec => []NoLineTwice
<1>1. LineTypes /\ ControlInv /\ FlowInv /\ [Next]_vars =>
        (LineTypes /\ ControlInv /\ FlowInv)'
  BY ControlStep, FlowStep
<1>2. FlowInv => NoLineTwice
  <2>1. "log" \in Places /\ Flow["log"] = log
    BY FlowParts DEF Places, FlowIs
  <2> QED BY <2>1 DEF FlowInv, Once, NoLineTwice
<1> QED BY <1>1, <1>2, ControlInit, FlowInit, PTL DEF Spec

(***************************************************************************)
(* What a jail leaves.                                                     *)
(***************************************************************************)

\* What dropping the guards of a step does.
LEMMA DroppedIs ==
  ASSUME Dropped
  PROVE /\ child' = child \/ (child = "running" /\ child' = "killed")
        /\ envFile' = "none" \/ (envFile' = envFile /\ "file" \in stuck')
        /\ stuck' \subseteq {"jail", "file"}
        /\ executor = "dail" /\ child' = "running" => "jail" \in stuck'
        /\ UNCHANGED faults \/ Fault
<1>1. PICK failed \in SUBSET {"file", "jail"} :
        /\ failed # {} => Fault
        /\ failed = {} => UNCHANGED faults
        /\ stuck' = failed
        /\ envFile' = IF "file" \in failed THEN envFile ELSE "none"
        /\ child' = IF executor = "dail" /\ child = "running" /\ "jail" \notin failed
                    THEN "killed" ELSE child
  BY DEF Dropped
<1> QED BY <1>1

\* The guards of a jail are there from the spawn until run_step returns, and
\* what is there after that could not be removed, or was never guarded.
JailInv ==
  /\ agent # "step" => main = "ended"
  /\ main = "spawn" => child = "none"
  /\ executor = "dail" =>
       /\ main \in {"stdout", "join", "stderr"} => envFile = "there"
       /\ main = "ended" =>
            /\ child = "running" => "jail" \in stuck
            /\ envFile = "there" => "file" \in stuck
            /\ envFile = "cut" => child = "none"

LEMMA JailStep == JailInv /\ [Next]_vars => JailInv'
<1> SUFFICES ASSUME JailInv, [Next]_vars PROVE JailInv'
  OBVIOUS
<1> USE DEF JailInv, script, childVars, mainVars, errVars, consVars, serverVars
<1>1. CASE UNCHANGED vars \/ OpenPage \/ ShowPage \/ PageTrouble
  BY <1>1 DEF vars, OpenPage, ShowPage, PageTrouble, noView
<1>2. CASE Child
  BY <1>2 DEF Child, ChildExits, ChildWrites, ChildWritesBroken
<1>3. CASE Spawn \/ SpawnFails \/ SendLine \/ ReadStdout
  BY <1>3 DEF Spawn, SpawnFails, SendLine, ReadStdout
<1>4. CASE StdoutError \/ RunStepEnds
  <2>1. Dropped /\ main \in {"stdout", "stderr"} /\ main' = "ended" /\ UNCHANGED executor
    BY <1>4 DEF StdoutError, RunStepEnds
  <2> QED BY <2>1, DroppedIs
<1>5. CASE StdoutEnds \/ JoinStderr
  BY <1>5 DEF StdoutEnds, JoinStderr
<1>6. CASE StderrThread \/ Consumer
  BY <1>6 DEF StderrThread, ReadStderr, StderrEnds, Consumer, Receive, PostBatch,
              Posted, ConsumerEnds
<1>7. CASE Agent \/ Insert \/ InsertFails \/ LosePost \/ InsertStray
  BY <1>7 DEF Agent, PostMark, Report, Insert, InsertFails, LosePost, InsertStray
<1> QED BY <1>1, <1>2, <1>3, <1>4, <1>5, <1>6, <1>7 DEF Next, run_step

\* However run_step returns, and with any output, once a step in a jail is
\* reported it has processes left only where the removal of the jail failed,
\* its environment only where the removal of the file failed, and a part of
\* it only where the write failed and no script was started.
THEOREM JailIsDown == Spec => []JailTakenDown
<1>1. Init => JailInv
  BY DEF Init, JailInv
<1>2. JailInv => JailTakenDown
  BY DEF JailInv, JailTakenDown
<1> QED BY <1>1, <1>2, JailStep, PTL DEF Spec

(***************************************************************************)
(* Without faults the log is the output.                                   *)
(***************************************************************************)

\* The lines of output o after the first m, up to the n-th.
Between(o, m, n) == [k \in 1..(n - m) |-> <<o, m + k>>]

LEMMA LinesGrow ==
  ASSUME NEW o \in Output, NEW n \in Nat
  PROVE /\ Lines(o, n) \in Seq(Item) /\ Len(Lines(o, n)) = n
        /\ Append(Lines(o, n), <<o, n + 1>>) = Lines(o, n + 1)
        /\ Lines(o, 0) = <<>>
<1>1. \A m \in Nat : Lines(o, m) \in [1..m -> Item]
  BY DEF Lines, Item
<1>2. \A m \in Nat : Lines(o, m) \in Seq(Item) /\ Len(Lines(o, m)) = m
  BY <1>1, IsASeq, LenProperties
<1>3. <<o, n + 1>> \in Item
  BY DEF Item
<1>4. PICK s : s = Append(Lines(o, n), <<o, n + 1>>)
  OBVIOUS
<1>5. s \in Seq(Item) /\ Len(s) = n + 1
        /\ \A i \in 1..(n + 1) : s[i] = IF i <= n THEN Lines(o, n)[i] ELSE <<o, n + 1>>
  <2>1. PICK l : l = Lines(o, n)
    OBVIOUS
  <2>2. l \in Seq(Item) /\ Len(l) = n
    BY <1>2, <2>1
  <2>3. s = Append(l, <<o, n + 1>>)
    BY <1>4, <2>1
  <2>4. /\ s \in Seq(Item) /\ Len(s) = n + 1
        /\ \A i \in 1..n : s[i] = l[i]
        /\ s[n + 1] = <<o, n + 1>>
    BY <1>3, <2>2, <2>3, AppendProperties
  <2>5. \A i \in 1..(n + 1) : i <= n => i \in 1..n
    OBVIOUS
  <2>6. \A i \in 1..(n + 1) : ~(i <= n) => i = n + 1
    OBVIOUS
  <2> QED BY <2>1, <2>4, <2>5, <2>6
<1>6. \A i \in 1..(n + 1) : s[i] = Lines(o, n + 1)[i]
  BY <1>5 DEF Lines
<1>7. n + 1 \in Nat
  OBVIOUS
<1>8. s = Lines(o, n + 1)
  <2>1. Lines(o, n + 1) \in Seq(Item) /\ Len(Lines(o, n + 1)) = n + 1
    BY <1>2, <1>7
  <2>2. \A i \in 1..Len(s) : s[i] = Lines(o, n + 1)[i]
    BY <1>5, <1>6
  <2> QED BY <1>5, <2>1, <2>2, SeqEqual
<1>9. Lines(o, 0) = <<>>
  BY <1>2, EmptySeq
<1> QED BY <1>2, <1>4, <1>8, <1>9

LEMMA BetweenMoves ==
  ASSUME NEW o \in Output, NEW m \in Nat, NEW n \in Nat, m <= n
  PROVE /\ Between(o, m, n) = <<>> <=> m = n
        /\ Append(Between(o, m, n), <<o, n + 1>>) = Between(o, m, n + 1)
        /\ m # n => /\ Head(Between(o, m, n)) = <<o, m + 1>>
                    /\ Tail(Between(o, m, n)) = Between(o, m + 1, n)
<1>1. ASSUME NEW a \in Nat, NEW b \in Nat, a <= b
      PROVE /\ Between(o, a, b) \in Seq(Item) /\ Len(Between(o, a, b)) = b - a
            /\ \A i \in 1..(b - a) : Between(o, a, b)[i] = <<o, a + i>>
  <2>1. b - a \in Nat
    BY <1>1
  <2>2. \A i \in 1..(b - a) : <<o, a + i>> \in Item
    BY <2>1 DEF Item
  <2>3. Between(o, a, b) \in [1..(b - a) -> Item]
    BY <2>2 DEF Between
  <2>4. Between(o, a, b) \in Seq(Item)
    BY <2>1, <2>3, IsASeq
  <2>5. Len(Between(o, a, b)) = b - a
    BY <2>1, <2>3, <2>4, LenProperties
  <2> QED BY <2>4, <2>5 DEF Between
<1>2. Between(o, m, n) = <<>> <=> m = n
  <2>1. \A s \in Seq(Item) : s = <<>> <=> Len(s) = 0
    BY EmptySeq
  <2>2. Between(o, m, n) \in Seq(Item) /\ Len(Between(o, m, n)) = n - m
    BY <1>1
  <2>3. n - m = 0 <=> m = n
    OBVIOUS
  <2> QED BY <2>1, <2>2, <2>3
<1>3. Append(Between(o, m, n), <<o, n + 1>>) = Between(o, m, n + 1)
  <2>1. <<o, n + 1>> \in Item /\ n + 1 \in Nat /\ m <= n + 1
    BY DEF Item
  <2>2. PICK s : s = Append(Between(o, m, n), <<o, n + 1>>)
    OBVIOUS
  <2>3. /\ s \in Seq(Item) /\ Len(s) = n - m + 1
        /\ \A i \in 1..(n - m + 1) :
             s[i] = IF i <= n - m THEN Between(o, m, n)[i] ELSE <<o, n + 1>>
    <3>1. Between(o, m, n) \in Seq(Item) /\ Len(Between(o, m, n)) = n - m
      BY <1>1
    <3>2. PICK b : b = Between(o, m, n)
      OBVIOUS
    <3>3. n - m \in Nat /\ b \in Seq(Item) /\ Len(b) = n - m
      BY <3>1, <3>2
    <3>4. s = Append(b, <<o, n + 1>>)
      BY <2>2, <3>2
    <3>5. s \in Seq(Item) /\ Len(s) = n - m + 1
      BY <2>1, <3>3, <3>4, AppendProperties
    <3>6. \A i \in 1..(n - m + 1) :
            s[i] = IF i <= n - m THEN b[i] ELSE <<o, n + 1>>
      BY <2>1, <3>3, <3>4, AppendProperties
    <3> QED BY <3>2, <3>5, <3>6
  <2>4. \A i \in 1..(n - m + 1) : s[i] = <<o, m + i>>
    <3>1. ASSUME NEW i \in 1..(n - m + 1) PROVE s[i] = <<o, m + i>>
      <4>1. CASE i <= n - m
        <5>1. i \in 1..(n - m)
          BY <4>1
        <5>2. Between(o, m, n)[i] = <<o, m + i>>
          BY <1>1, <5>1
        <5> QED BY <2>3, <4>1, <5>2
      <4>2. CASE ~(i <= n - m)
        <5>1. m + i = n + 1
          BY <4>2
        <5> QED BY <2>3, <4>2, <5>1
      <4> QED BY <4>1, <4>2
    <3> QED BY <3>1
  <2>5. /\ Between(o, m, n + 1) \in Seq(Item)
        /\ Len(Between(o, m, n + 1)) = n + 1 - m
        /\ \A i \in 1..(n + 1 - m) : Between(o, m, n + 1)[i] = <<o, m + i>>
    <3>1. ASSUME NEW b \in Nat, b = n + 1
          PROVE /\ Between(o, m, b) \in Seq(Item) /\ Len(Between(o, m, b)) = b - m
                /\ \A i \in 1..(b - m) : Between(o, m, b)[i] = <<o, m + i>>
      <4>1. m <= b
        BY <3>1
      <4> QED BY <1>1, <4>1
    <3> QED BY <2>1, <3>1
  <2>6. n - m + 1 = n + 1 - m
    OBVIOUS
  <2>7. Len(s) = Len(Between(o, m, n + 1))
          /\ \A i \in 1..Len(s) : s[i] = Between(o, m, n + 1)[i]
    BY <2>3, <2>4, <2>5, <2>6
  <2> QED BY <2>2, <2>3, <2>5, <2>7, SeqEqual
<1>4. ASSUME m # n
      PROVE /\ Head(Between(o, m, n)) = <<o, m + 1>>
            /\ Tail(Between(o, m, n)) = Between(o, m + 1, n)
  <2>1. m + 1 \in Nat /\ m + 1 <= n
    BY <1>4
  <2>2. PICK s : s = Between(o, m, n)
    OBVIOUS
  <2>3. /\ s \in Seq(Item) /\ Len(s) = n - m /\ s # <<>>
        /\ \A i \in 1..(n - m) : s[i] = <<o, m + i>>
    BY <1>1, <1>2, <1>4, <2>2
  <2>4. /\ Head(s) = s[1] /\ Tail(s) \in Seq(Item) /\ Len(Tail(s)) = Len(s) - 1
        /\ \A i \in 1..Len(Tail(s)) : Tail(s)[i] = s[i + 1]
    BY <2>3, HeadTailProperties
  <2>5. PICK t : t = Between(o, m + 1, n)
    OBVIOUS
  <2>6. /\ t \in Seq(Item) /\ Len(t) = n - (m + 1)
        /\ \A i \in 1..(n - (m + 1)) : t[i] = <<o, m + 1 + i>>
    BY <1>1, <2>1, <2>5
  <2>7. Len(Tail(s)) = Len(t) /\ \A i \in 1..Len(t) : Tail(s)[i] = t[i]
    <3>1. Len(Tail(s)) = Len(t)
      BY <2>3, <2>4, <2>6
    <3>2. ASSUME NEW i \in 1..Len(t) PROVE Tail(s)[i] = t[i]
      <4>1. i + 1 \in 1..(n - m) /\ m + (i + 1) = m + 1 + i
        BY <2>6, <3>2
      <4>2. Tail(s)[i] = s[i + 1]
        BY <2>4, <3>1
      <4>3. s[i + 1] = <<o, m + (i + 1)>>
        BY <2>3, <4>1
      <4>4. t[i] = <<o, m + 1 + i>>
        BY <2>6
      <4> QED BY <4>1, <4>2, <4>3, <4>4
    <3> QED BY <3>1, <3>2
  <2>8. Tail(s) = t
    BY <2>4, <2>6, <2>7, SeqEqual
  <2>9. Head(s) = <<o, m + 1>>
    BY <2>1, <2>3, <2>4
  <2> QED BY <2>2, <2>5, <2>8, <2>9
<1> QED BY <1>2, <1>3, <1>4

\* What moves along a chain of sequences.
LEMMA Chain ==
  /\ \A s, t \in Seq(Item) : t # <<>> => Append(s, Head(t)) \o Tail(t) = s \o t
  /\ \A s, t \in Seq(Item) : \A e \in Item : s \o Append(t, e) = Append(s \o t, e)
  /\ \A s, t, u \in Seq(Item) : (s \o t) \o u = s \o (t \o u)
  /\ \A s \in Seq(Item) : <<>> \o s = s /\ s \o <<>> = s
  /\ \A s, t \in Seq(Item) : s \o t \in Seq(Item)
  /\ \A s \in Seq(Item) : \A e \in Item : Append(s, e) = s \o <<e>>
<1>1. \A s, t, u \in Seq(Item) : (s \o t) \o u = s \o (t \o u)
  BY ConcatAssociative
<1>2. \A s \in Seq(Item) : <<>> \o s = s /\ s \o <<>> = s
  BY ConcatEmptySeq
<1>3. \A s, t \in Seq(Item) : s \o t \in Seq(Item)
  BY ConcatProperties
<1>4. \A s \in Seq(Item) : \A e \in Item : Append(s, e) = s \o <<e>>
  BY AppendIsConcat
<1>5. \A e \in Item : <<e>> \in Seq(Item)
  OBVIOUS
<1>6. ASSUME NEW s \in Seq(Item), NEW t \in Seq(Item), NEW e \in Item
      PROVE s \o Append(t, e) = Append(s \o t, e)
  <2>1. s \o t \in Seq(Item) /\ <<e>> \in Seq(Item)
    BY <1>3, <1>5
  <2>2. Append(t, e) = t \o <<e>>
    BY <1>4
  <2>3. Append(s \o t, e) = (s \o t) \o <<e>>
    BY <1>4, <2>1, Zenon
  <2>4. (s \o t) \o <<e>> = s \o (t \o <<e>>)
    BY <1>1, <2>1, Zenon
  <2> QED BY <2>2, <2>3, <2>4, Zenon
<1>7. ASSUME NEW s \in Seq(Item), NEW t \in Seq(Item), t # <<>>
      PROVE Append(s, Head(t)) \o Tail(t) = s \o t
  <2>1. Head(t) \in Item /\ Tail(t) \in Seq(Item) /\ t = <<Head(t)>> \o Tail(t)
    <3>1. \A q \in Seq(Item) : q # <<>> =>
            Head(q) \in Item /\ Tail(q) \in Seq(Item) /\ q = <<Head(q)>> \o Tail(q)
      BY HeadTailProperties, HeadTailAppend, ConcatProperties
    <3> QED BY <1>7, <3>1, Zenon
  <2>2. <<Head(t)>> \in Seq(Item)
    BY <1>5, <2>1
  <2>3. Append(s, Head(t)) = s \o <<Head(t)>>
    BY <1>4, <2>1, Zenon
  <2>4. (s \o <<Head(t)>>) \o Tail(t) = s \o (<<Head(t)>> \o Tail(t))
    BY <1>1, <2>1, <2>2, Zenon
  <2> QED BY <2>1, <2>3, <2>4, Zenon
<1> QED BY <1>1, <1>2, <1>3, <1>4, <1>6, <1>7, Zenon

\* All that is on its way from run_step to the log, in the order of the way.
Ahead == log \o (req \o (Unposted \o chan))
Sent == Ahead \o held

\* Who holds no lines.
QuietInv ==
  /\ cons = "ended" => chan = <<>> /\ main = "ended"
  /\ cons \in {"recv", "ended"} => batch = <<>>
  /\ agent = "reported" => req = <<>>
  /\ main \in {"spawn", "join", "ended"} => held = <<>>

LEMMA QuietInit == Init => QuietInv
  BY DEF Init, QuietInv

LEMMA QuietStep ==
  ASSUME LineTypes, ControlInv, QuietInv, [Next]_vars
  PROVE QuietInv'
<1> USE DEF ControlInv, QuietInv, script, childVars, mainVars, errVars,
            consVars, serverVars
<1>1. CASE UNCHANGED vars \/ OpenPage \/ ShowPage \/ PageTrouble
  BY <1>1 DEF vars, OpenPage, ShowPage, PageTrouble, noView
<1>2. CASE Child
  BY <1>2 DEF Child, ChildExits, ChildWrites, ChildWritesBroken
<1>3. CASE Spawn \/ SpawnFails \/ SendLine \/ ReadStdout
  BY <1>3 DEF Spawn, SpawnFails, SendLine, ReadStdout
<1>4. CASE StdoutError \/ StdoutEnds \/ JoinStderr \/ RunStepEnds
  BY <1>4 DEF StdoutError, StdoutEnds, JoinStderr, RunStepEnds
<1>5. CASE StderrThread \/ Consumer
  BY <1>5 DEF StderrThread, ReadStderr, StderrEnds, Consumer, Receive, PostBatch,
              Posted, ConsumerEnds
<1>6. CASE Agent \/ Insert \/ InsertFails \/ LosePost \/ InsertStray
  BY <1>6 DEF Agent, PostMark, Report, Insert, InsertFails, LosePost, InsertStray
<1> QED BY <1>1, <1>2, <1>3, <1>4, <1>5, <1>6 DEF Next, run_step

\* The steps on the way lose nothing and swap nothing.
LEMMA SentTypes ==
  /\ LineTypes => Unposted \in Seq(Item) /\ Ahead \in Seq(Item) /\ Sent \in Seq(Item)
  /\ LineTypes' => Unposted' \in Seq(Item) /\ Ahead' \in Seq(Item) /\ Sent' \in Seq(Item)
<1>1. <<>> \in Seq(Item)
  OBVIOUS
<1>2. ASSUME LineTypes
      PROVE Unposted \in Seq(Item) /\ Ahead \in Seq(Item) /\ Sent \in Seq(Item)
  <2>1. /\ log \in Seq(Item) /\ req \in Seq(Item) /\ chan \in Seq(Item)
        /\ held \in Seq(Item) /\ Unposted \in Seq(Item)
    BY <1>1, <1>2 DEF LineTypes, Unposted
  <2>2. Unposted \o chan \in Seq(Item)
    BY <2>1, Chain, Zenon
  <2>3. req \o (Unposted \o chan) \in Seq(Item)
    BY <2>1, <2>2, Chain, Zenon
  <2>4. Ahead \in Seq(Item)
    BY <2>1, <2>3, Chain, Zenon DEF Ahead
  <2> QED BY <2>1, <2>4, Chain, Zenon DEF Sent
<1>3. ASSUME LineTypes'
      PROVE Unposted' \in Seq(Item) /\ Ahead' \in Seq(Item) /\ Sent' \in Seq(Item)
  <2>1. /\ log' \in Seq(Item) /\ req' \in Seq(Item) /\ chan' \in Seq(Item)
        /\ held' \in Seq(Item) /\ Unposted' \in Seq(Item)
    BY <1>1, <1>3 DEF LineTypes, Unposted
  <2>2. Unposted' \o chan' \in Seq(Item)
    BY <2>1, Chain, Zenon
  <2>3. req' \o (Unposted' \o chan') \in Seq(Item)
    BY <2>1, <2>2, Chain, Zenon
  <2>4. Ahead' \in Seq(Item)
    BY <2>1, <2>3, Chain, Zenon DEF Ahead
  <2> QED BY <2>1, <2>4, Chain, Zenon DEF Sent
<1> QED BY <1>2, <1>3

LEMMA SentSame ==
  ASSUME LineTypes, LineTypes', ControlInv, QuietInv,
         SendLine \/ Receive \/ PostBatch \/ Posted \/ Insert
  PROVE Sent' = Sent
<1> USE DEF script, childVars, mainVars, errVars, consVars, serverVars
<1>t. /\ log \in Seq(Item) /\ req \in Seq(Item) /\ chan \in Seq(Item)
      /\ held \in Seq(Item) /\ batch \in Seq(Item) /\ Unposted \in Seq(Item)
      /\ Unposted \o chan \in Seq(Item) /\ req \o (Unposted \o chan) \in Seq(Item)
      /\ <<>> \in Seq(Item) /\ log' \in Seq(Item) /\ req' \in Seq(Item)
  <2>1. /\ log \in Seq(Item) /\ req \in Seq(Item) /\ chan \in Seq(Item)
        /\ held \in Seq(Item) /\ batch \in Seq(Item) /\ Unposted \in Seq(Item)
        /\ <<>> \in Seq(Item) /\ log' \in Seq(Item) /\ req' \in Seq(Item)
    BY SentTypes DEF LineTypes
  <2>2. Unposted \o chan \in Seq(Item)
    BY <2>1, Chain, Zenon
  <2>3. req \o (Unposted \o chan) \in Seq(Item)
    BY <2>1, <2>2, Chain, Zenon
  <2> QED BY <2>1, <2>2, <2>3
<1>a. \A s, t \in Seq(Item) : \A e \in Item : s \o Append(t, e) = Append(s \o t, e)
  BY Chain
<1>b. \A s, t, u \in Seq(Item) : (s \o t) \o u = s \o (t \o u)
  BY Chain
<1>1. CASE SendLine
  <2>1. PICK e : e = Head(held)
    OBVIOUS
  <2>2. /\ held # <<>> /\ held' = Tail(held) /\ chan' = Append(chan, e)
        /\ log' = log /\ req' = req /\ Unposted' = Unposted
    BY <1>1, <2>1 DEF SendLine, Unposted
  <2>3. e \in Item
    BY <1>t, <2>1, <2>2, HeadTailProperties
  <2>4. Unposted' \o chan' = Append(Unposted \o chan, e)
    <3>1. Unposted \o Append(chan, e) = Append(Unposted \o chan, e)
      BY <1>t, <1>a, <2>3, Zenon
    <3> QED BY <2>2, <3>1, Zenon
  <2>5. req' \o (Unposted' \o chan') = Append(req \o (Unposted \o chan), e)
    <3>1. req \o Append(Unposted \o chan, e) = Append(req \o (Unposted \o chan), e)
      BY <1>t, <1>a, <2>3, Zenon
    <3> QED BY <2>2, <2>4, <3>1, Zenon
  <2>6. Ahead' = Append(Ahead, e)
    <3>1. log \o Append(req \o (Unposted \o chan), e)
            = Append(log \o (req \o (Unposted \o chan)), e)
      BY <1>t, <1>a, <2>3, Zenon
    <3> QED BY <2>2, <2>5, <3>1, Zenon DEF Ahead
  <2>7. Append(Ahead, Head(held)) \o Tail(held) = Ahead \o held
    BY <1>t, <2>2, Chain, SentTypes, Zenon
  <2> QED BY <2>1, <2>2, <2>6, <2>7, Zenon DEF Sent
<1>2. CASE Receive
  <2>1. /\ chan # <<>> /\ Unposted' = Append(Unposted, Head(chan))
        /\ chan' = Tail(chan) /\ log' = log /\ req' = req /\ held' = held
    BY <1>2 DEF Receive, Unposted, QuietInv
  <2>2. Unposted' \o chan' = Unposted \o chan
    BY <1>t, <2>1, Chain, Zenon
  <2> QED BY <2>1, <2>2, Zenon DEF Sent, Ahead
<1>3. CASE PostBatch
  <2>1. /\ chan = <<>> /\ chan' = <<>> /\ req' = batch /\ Unposted = batch
        /\ Unposted' = <<>> /\ log' = log /\ held' = held
    BY <1>3 DEF PostBatch, Unposted
  <2>2. req = <<>>
    BY <1>3 DEF PostBatch, ControlInv
  <2>3. req \o (Unposted \o chan) = batch
    BY <1>t, <2>1, <2>2, Chain, Zenon
  <2>4. req' \o (Unposted' \o chan') = batch
    BY <1>t, <2>1, Chain, Zenon
  <2> QED BY <2>1, <2>3, <2>4, Zenon DEF Sent, Ahead
<1>4. CASE Posted
  <2>1. /\ Unposted = <<>> /\ Unposted' = <<>> /\ log' = log /\ held' = held
        /\ req' = req /\ chan' = chan
    BY <1>4 DEF Posted, Unposted
  <2> QED BY <2>1, Zenon DEF Sent, Ahead
<1>5. CASE Insert
  <2>1. /\ req # <<>> /\ req' = Tail(req) /\ log' = Append(log, Head(req))
        /\ held' = held /\ Unposted' = Unposted /\ chan' = chan
    BY <1>5 DEF Insert, Unposted
  <2>2. log' \o req' = log \o req
    BY <1>t, <2>1, Chain, Zenon
  <2>3. ASSUME NEW s \in Seq(Item), NEW t \in Seq(Item)
        PROVE (s \o t) \o (Unposted \o chan) = s \o (t \o (Unposted \o chan))
    <3>1. PICK u : u = Unposted \o chan
      OBVIOUS
    <3>2. u \in Seq(Item)
      BY <1>t, <3>1
    <3>3. (s \o t) \o u = s \o (t \o u)
      BY <1>b, <3>2, Zenon
    <3> QED BY <3>1, <3>3, Zenon
  <2>4. /\ (log' \o req') \o (Unposted \o chan) = log' \o (req' \o (Unposted \o chan))
        /\ (log \o req) \o (Unposted \o chan) = log \o (req \o (Unposted \o chan))
    BY <1>t, <2>3, Zenon
  <2> QED BY <2>1, <2>2, <2>3, <2>4, Zenon DEF Sent, Ahead
<1> QED BY <1>1, <1>2, <1>3, <1>4, <1>5

\* The steps with which lines set out.
LEMMA SentMore ==
  ASSUME LineTypes, LineTypes', ControlInv, QuietInv
  PROVE /\ ReadStdout => Sent' = Append(Sent, Head(pipe["out"]))
        /\ JoinStderr => Sent' = Sent \o held'
        /\ PostMark => Sent' = Append(Sent, Mark)
<1> USE DEF script, childVars, mainVars, errVars, consVars, serverVars
<1>t. /\ log \in Seq(Item) /\ Ahead \in Seq(Item) /\ Sent \in Seq(Item)
      /\ <<>> \in Seq(Item) /\ held' \in Seq(Item)
  BY SentTypes DEF LineTypes
<1>1. ASSUME ReadStdout PROVE Sent' = Append(Sent, Head(pipe["out"]))
  <2>1. PICK e : e = Head(pipe["out"])
    OBVIOUS
  <2>2. /\ held = <<>> /\ held' = <<e>> /\ pipe["out"] # <<>>
        /\ log' = log /\ req' = req /\ Unposted' = Unposted /\ chan' = chan
    BY <1>1, <2>1 DEF ReadStdout, Unposted
  <2>3. e \in Item
    BY <2>1, <2>2, HeadTailProperties DEF LineTypes, Output
  <2>4. Sent = Ahead
    BY <1>t, <2>2, Chain, Zenon DEF Sent
  <2>5. Sent' = Ahead \o <<e>>
    BY <2>2, Zenon DEF Sent, Ahead
  <2>6. Append(Ahead, e) = Ahead \o <<e>>
    BY <1>t, <2>3, Chain, Zenon
  <2> QED BY <2>1, <2>4, <2>5, <2>6, Zenon
<1>2. ASSUME JoinStderr PROVE Sent' = Sent \o held'
  <2>1. /\ held = <<>> /\ log' = log /\ req' = req /\ Unposted' = Unposted
        /\ chan' = chan
    BY <1>2 DEF JoinStderr, Unposted, ControlInv
  <2>2. Sent = Ahead
    BY <1>t, <2>1, Chain, Zenon DEF Sent
  <2> QED BY <2>1, <2>2, Zenon DEF Sent, Ahead
<1>3. ASSUME PostMark PROVE Sent' = Append(Sent, Mark)
  <2>1. /\ held = <<>> /\ held' = <<>> /\ chan = <<>> /\ chan' = <<>>
        /\ Unposted = <<>> /\ Unposted' = <<>> /\ req = <<>> /\ log' = log
        /\ req' = <<Mark>> /\ Mark \in Item
    BY <1>3 DEF PostMark, QuietInv, ControlInv, Unposted, Item
  <2>2. <<Mark>> \in Seq(Item)
    BY <2>1
  <2>3. Sent = log
    <3>1. /\ <<>> \o <<>> = <<>> /\ log \o <<>> = log
      BY <1>t, Chain, Zenon
    <3> QED BY <2>1, <3>1, Zenon DEF Sent, Ahead
  <2>4. Append(log, Mark) = log \o <<Mark>>
    BY <1>t, <2>1, Chain, Zenon
  <2>5. log \o <<Mark>> \in Seq(Item)
    BY <1>t, <2>2, Chain, Zenon
  <2>6. /\ Unposted' \o chan' = <<>> /\ req' \o <<>> = <<Mark>>
        /\ (log \o <<Mark>>) \o <<>> = log \o <<Mark>>
    BY <1>t, <2>1, <2>2, <2>5, Chain, Zenon
  <2>7. Sent' = log \o <<Mark>>
    BY <2>1, <2>6, Zenon DEF Sent, Ahead
  <2> QED BY <2>3, <2>4, <2>7, Zenon
<1> QED BY <1>1, <1>2, <1>3

\* What the script has written, and what can still become of it.
ScriptInv ==
  /\ total \in [Output -> Nat] /\ bad \in [Output -> Nat]
  /\ \A o \in Output : written[o] <= total[o] /\ bad[o] <= total[o]
  /\ child \in {"none", "running", "exited", "killed"}
  /\ child = "exited" => written = total
  /\ child = "killed" => main = "ended" \/ errs = "failed"
  /\ main \in {"stdout", "join", "stderr"} => child # "none"
  /\ main \in {"join", "stderr"} => child # "running"
  /\ main = "spawn" => child = "none"
  /\ child = "none" => \A o \in Output : written[o] = 0

\* The stderr thread has the lines up to some point, and the pipe has the
\* others; the thread ends with all of them or at one that can not be read.
ErrInv ==
  /\ errs \in {"reading", "done", "failed"}
  /\ errs # "failed" => \E n \in 0..written["err"] :
       /\ errLines = Lines("err", n)
       /\ bad["err"] \notin 1..n
       /\ pipe["err"] = Between("err", n, written["err"])
       /\ errs = "done" => n = written["err"]
  /\ errs = "failed" => bad["err"] # 0
  /\ errs = "done" => child \in {"exited", "killed"}
  /\ main = "stderr" => errs # "reading"

LEMMA ScriptInit == Init => ScriptInv /\ ErrInv
<1> SUFFICES ASSUME Init PROVE ScriptInv /\ ErrInv
  OBVIOUS
<1>1. ScriptInv
  BY BoundsAssumption DEF Init, ScriptInv, Output
<1>2. Lines("err", 0) = <<>> /\ Between("err", 0, 0) = <<>>
  <2>1. "err" \in Output /\ 0 \in Nat /\ 0 <= 0
    BY DEF Output
  <2>2. Lines("err", 0) = <<>>
    BY <2>1, LinesGrow
  <2>3. Between("err", 0, 0) = <<>>
    BY <2>1, BetweenMoves
  <2> QED BY <2>2, <2>3
<1>3. /\ errs = "reading" /\ errLines = Lines("err", 0) /\ written["err"] = 0
      /\ pipe["err"] = Between("err", 0, written["err"]) /\ main = "spawn"
  BY <1>2 DEF Init, Output
<1>4. 0 \in 0..written["err"] /\ bad["err"] \notin 1..0
  BY <1>3
<1> QED BY <1>1, <1>3, <1>4 DEF ErrInv

LEMMA ScriptStep ==
  ASSUME LineTypes, ScriptInv, ErrInv, [Next]_vars
  PROVE ScriptInv'
<1> USE DEF ScriptInv, script, childVars, mainVars, errVars, consVars,
            serverVars
<1>o. "out" \in Output /\ "err" \in Output
  BY DEF Output
<1>1. CASE UNCHANGED vars \/ OpenPage \/ ShowPage \/ PageTrouble
  BY <1>1 DEF vars, OpenPage, ShowPage, PageTrouble, noView
<1>2. CASE Child
  <2>1. CASE ChildExits
    BY <2>1 DEF ChildExits
  <2>2. ASSUME NEW o \in Output, ChildWrites(o) PROVE ScriptInv'
    BY <2>2 DEF LineTypes, ChildWrites
  <2>3. ASSUME NEW o \in Output, ChildWritesBroken(o) PROVE ScriptInv'
    <3>1. main = "ended" \/ errs = "failed"
      BY <2>3 DEF ChildWritesBroken, Broken
    <3>2. CASE child' = "killed" /\ written' = written
      BY <2>3, <3>1, <3>2 DEF ChildWritesBroken
    <3>3. CASE child' = child /\ written' = [written EXCEPT ![o] = @ + 1]
      BY <2>3, <3>3 DEF LineTypes, ChildWritesBroken
    <3> QED BY <2>3, <3>2, <3>3 DEF ChildWritesBroken
  <2> QED BY <1>2, <2>1, <2>2, <2>3 DEF Child
<1>3. CASE Spawn \/ SpawnFails \/ SendLine \/ ReadStdout
  BY <1>3 DEF Spawn, SpawnFails, SendLine, ReadStdout
<1>4. CASE StdoutError \/ StdoutEnds \/ JoinStderr \/ RunStepEnds
  <2>1. Dropped => child' = child \/ (child = "running" /\ child' = "killed")
    BY DroppedIs
  <2> QED BY <1>4, <2>1 DEF StdoutError, StdoutEnds, JoinStderr, RunStepEnds
<1>5. CASE StderrThread \/ Consumer
  BY <1>5 DEF ErrInv, StderrThread, ReadStderr, StderrEnds, Consumer, Receive,
              PostBatch, Posted, ConsumerEnds
<1>6. CASE Agent \/ Insert \/ InsertFails \/ LosePost \/ InsertStray
  BY <1>6 DEF Agent, PostMark, Report, Insert, InsertFails, LosePost, InsertStray
<1> QED BY <1>1, <1>2, <1>3, <1>4, <1>5, <1>6 DEF Next, run_step

LEMMA ErrStep ==
  ASSUME LineTypes, ScriptInv, ErrInv, [Next]_vars
  PROVE ErrInv'
<1> USE DEF script, childVars, mainVars, errVars, consVars, serverVars
<1>o. "out" \in Output /\ "err" \in Output /\ "out" # "err"
  BY DEF Output
<1>w. /\ written["err"] \in Nat /\ bad["err"] \in Nat
      /\ pipe \in [Output -> Seq(Item)] /\ written \in [Output -> Nat]
  BY <1>o DEF LineTypes, ScriptInv
\* Nothing that is about stderr changes.
<1>s. ASSUME UNCHANGED <<errs, errLines>>, UNCHANGED bad,
             pipe'["err"] = pipe["err"], written'["err"] = written["err"],
             child \in {"exited", "killed"} => child' \in {"exited", "killed"},
             main' = "stderr" => main = "stderr" \/ errs # "reading"
      PROVE ErrInv'
  BY <1>s DEF ErrInv
<1>1. CASE UNCHANGED vars \/ OpenPage \/ ShowPage \/ PageTrouble
  BY <1>s, <1>1 DEF vars, OpenPage, ShowPage, PageTrouble, noView
<1>2. ASSUME NEW o \in Output, ChildWrites(o) PROVE ErrInv'
  <2>1. CASE o = "out"
    BY <1>s, <1>o, <1>w, <1>2, <2>1 DEF ChildWrites
  <2>2. CASE o = "err"
    <3>1. /\ errs # "failed" /\ child = "running" /\ child' = child
          /\ UNCHANGED <<errs, errLines, bad, main>>
          /\ written'["err"] = written["err"] + 1
          /\ pipe'["err"] = Append(pipe["err"], <<"err", written["err"] + 1>>)
      BY <1>o, <1>w, <1>2, <2>2 DEF ChildWrites, Broken
    <3>2. errs = "reading"
      BY <3>1 DEF ErrInv
    <3>3. PICK n \in 0..written["err"] :
            /\ errLines = Lines("err", n)
            /\ bad["err"] \notin 1..n
            /\ pipe["err"] = Between("err", n, written["err"])
      BY <3>1 DEF ErrInv
    <3>4. n \in Nat /\ n <= written["err"] /\ n \in 0..written'["err"]
      BY <1>w, <3>1
    <3>5. ASSUME NEW m \in Nat, m = written["err"]
          PROVE Append(Between("err", n, m), <<"err", m + 1>>) = Between("err", n, m + 1)
      BY <1>o, <3>4, <3>5, BetweenMoves
    <3>6. pipe'["err"] = Between("err", n, written'["err"])
      BY <1>w, <3>1, <3>3, <3>5
    <3> QED BY <3>1, <3>2, <3>3, <3>4, <3>6 DEF ErrInv
  <2> QED BY <2>1, <2>2 DEF Output
<1>3. ASSUME NEW o \in Output, ChildWritesBroken(o) PROVE ErrInv'
  <2>1. CASE o = "out"
    BY <1>s, <1>o, <1>w, <1>3, <2>1 DEF ChildWritesBroken
  <2>2. CASE o = "err"
    BY <1>o, <1>w, <1>3, <2>2 DEF ChildWritesBroken, Broken, ErrInv
  <2> QED BY <2>1, <2>2 DEF Output
<1>4. CASE ChildExits \/ Spawn \/ SpawnFails \/ SendLine \/ StdoutEnds
  BY <1>s, <1>4 DEF ChildExits, Spawn, SpawnFails, SendLine, StdoutEnds, ScriptInv
<1>5. CASE ReadStdout \/ StdoutError \/ JoinStderr \/ RunStepEnds
  <2>1. Dropped => child' = child \/ (child = "running" /\ child' = "killed")
    BY DroppedIs
  <2> QED BY <1>s, <1>5, <1>o, <1>w, <2>1
          DEF ReadStdout, StdoutError, JoinStderr, RunStepEnds
<1>6. CASE ReadStderr
  <2>1. /\ errs = "reading" /\ pipe["err"] # <<>>
        /\ pipe'["err"] = Tail(pipe["err"])
        /\ UNCHANGED <<written, bad, main, child>>
    BY <1>6, <1>o, <1>w DEF ReadStderr
  <2>2. PICK n \in 0..written["err"] :
          /\ errLines = Lines("err", n)
          /\ bad["err"] \notin 1..n
          /\ pipe["err"] = Between("err", n, written["err"])
    BY <2>1 DEF ErrInv
  <2>3. n \in Nat /\ n <= written["err"]
    BY <1>w
  <2>4. ASSUME NEW m \in Nat, m = written["err"]
        PROVE /\ n # m
              /\ Head(Between("err", n, m)) = <<"err", n + 1>>
              /\ Tail(Between("err", n, m)) = Between("err", n + 1, m)
    <3>1. n <= m /\ Between("err", n, m) # <<>>
      BY <2>1, <2>2, <2>3, <2>4
    <3>2. n # m
      BY <1>o, <2>3, <3>1, BetweenMoves
    <3>3. /\ Head(Between("err", n, m)) = <<"err", n + 1>>
          /\ Tail(Between("err", n, m)) = Between("err", n + 1, m)
      BY <1>o, <2>3, <3>1, <3>2, BetweenMoves
    <3> QED BY <3>2, <3>3
  <2>5. /\ n # written["err"] /\ Head(pipe["err"]) = <<"err", n + 1>>
        /\ pipe'["err"] = Between("err", n + 1, written["err"])
    BY <1>w, <2>1, <2>2, <2>4
  <2>6. CASE Unreadable("err")
    <3>1. bad["err"] # 0 /\ errs' = "failed"
      BY <1>6, <2>3, <2>5, <2>6 DEF Unreadable, ReadStderr
    <3> QED BY <2>1, <3>1 DEF ErrInv
  <2>7. CASE ~Unreadable("err")
    <3>1. /\ bad["err"] # n + 1 /\ errs' = "reading"
          /\ errLines' = Append(Lines("err", n), <<"err", n + 1>>)
      BY <1>6, <2>1, <2>2, <2>5, <2>7 DEF Unreadable, ReadStderr
    <3>2. errLines' = Lines("err", n + 1)
      BY <1>o, <2>3, <3>1, LinesGrow
    <3>3. n + 1 \in 0..written'["err"] /\ bad'["err"] \notin 1..(n + 1)
      BY <1>w, <2>1, <2>2, <2>3, <2>5, <3>1
    <3>4. pipe'["err"] = Between("err", n + 1, written'["err"])
      BY <2>1, <2>5
    <3> QED BY <2>1, <3>1, <3>2, <3>3, <3>4 DEF ErrInv
  <2> QED BY <2>6, <2>7
<1>7. CASE StderrEnds
  <2>1. /\ errs = "reading" /\ pipe["err"] = <<>> /\ child \in {"exited", "killed"}
        /\ errs' = "done" /\ UNCHANGED <<written, bad, main, child, errLines, pipe>>
    BY <1>7 DEF StderrEnds
  <2>2. PICK n \in 0..written["err"] :
          /\ errLines = Lines("err", n)
          /\ bad["err"] \notin 1..n
          /\ pipe["err"] = Between("err", n, written["err"])
    BY <2>1 DEF ErrInv
  <2>3. ASSUME NEW m \in Nat, m = written["err"] PROVE n = m
    <3>1. n \in Nat /\ n <= m /\ Between("err", n, m) = <<>>
      BY <1>w, <2>1, <2>2, <2>3
    <3> QED BY <1>o, <3>1, BetweenMoves
  <2>4. n = written["err"]
    BY <1>w, <2>3
  <2> QED BY <2>1, <2>2, <2>4 DEF ErrInv
<1>8. CASE Consumer
  BY <1>s, <1>8 DEF Consumer, Receive, PostBatch, Posted, ConsumerEnds
<1>9. CASE Agent \/ Insert \/ InsertFails \/ LosePost \/ InsertStray
  BY <1>s, <1>9 DEF Agent, PostMark, Report, Insert, InsertFails, LosePost, InsertStray
<1> QED
  BY <1>1, <1>2, <1>3, <1>4, <1>5, <1>6, <1>7, <1>8, <1>9
     DEF Next, Child, run_step, StderrThread

\* The output without the mark, for what has become of the script.
BodyOf(c, w, t, b) ==
  LET n == IF c = "killed" THEN w["out"] ELSE t["out"]
      out == IF b["out"] \in 1..n THEN b["out"] - 1 ELSE n
      err == IF b = [o \in Output |-> 0] THEN t["err"] ELSE 0
  IN IF c = "none" THEN <<>> ELSE Lines("out", out) \o Lines("err", err)
Body == BodyOf(child, written, total, bad)

\* How far the output has come.  Once run_step has returned, a script that is
\* still running is one whose output could not be read.
SentInv ==
  /\ main = "spawn" => Sent = <<>> /\ pipe["out"] = <<>>
  /\ main = "stdout" => \E n \in 0..written["out"] :
       /\ Sent = Lines("out", n)
       /\ bad["out"] \notin 1..n
       /\ pipe["out"] = Between("out", n, written["out"])
  /\ main \in {"join", "stderr"} => bad["out"] \notin 1..written["out"]
  /\ main = "join" => Sent = Lines("out", written["out"])
  /\ main = "stderr" =>
       Sent = Lines("out", written["out"]) \o
                (IF errs = "done" THEN Lines("err", written["err"]) ELSE <<>>)
  /\ main = "ended" =>
       /\ Sent = IF agent = "step" THEN Body ELSE Append(Body, Mark)
       /\ child = "running" => bad["out"] \in 1..written["out"]

WholeInv == faults \in Nat /\ (faults = 0 => stray = <<>> /\ SentInv)

\* What the body of the log comes to.
BodyCases(c, w, t, b) ==
  /\ BodyOf(c, w, t, b) \in Seq(Item)
  /\ c = "none" => BodyOf(c, w, t, b) = <<>>
  /\ c # "none" /\ b["out"] \in 1..w["out"] =>
       BodyOf(c, w, t, b) = Lines("out", b["out"] - 1)
  /\ c \notin {"none", "killed"} /\ b["out"] = 0 /\ b["err"] = 0 =>
       BodyOf(c, w, t, b) = Lines("out", t["out"]) \o Lines("err", t["err"])
  /\ c # "none" /\ (c # "killed" => w = t)
       /\ b["err"] # 0 /\ b["out"] \notin 1..w["out"] =>
       BodyOf(c, w, t, b) = Lines("out", w["out"])

LEMMA BodyIs ==
  ASSUME NEW c, NEW w \in [Output -> Nat], NEW t \in [Output -> Nat],
         NEW b \in [Output -> Nat],
         \A o \in Output : w[o] <= t[o] /\ b[o] <= t[o]
  PROVE BodyCases(c, w, t, b)
<1>o. "out" \in Output /\ "err" \in Output
  BY DEF Output
<1>l. /\ \A n \in Nat : Lines("out", n) \in Seq(Item)
      /\ \A n \in Nat : Lines("err", n) \in Seq(Item)
      /\ Lines("err", 0) = <<>> /\ <<>> \in Seq(Item)
  BY <1>o, LinesGrow
<1>e. \A n \in Nat : Lines("out", n) \o Lines("err", 0) = Lines("out", n)
  <2>1. \A s \in Seq(Item) : s \o <<>> = s
    BY Chain
  <2> QED BY <1>l, <2>1, Zenon
<1>n. /\ w["out"] \in Nat /\ t["out"] \in Nat /\ t["err"] \in Nat
      /\ b["out"] \in Nat /\ b["err"] \in Nat
      /\ w["out"] <= t["out"] /\ b["out"] <= t["out"]
  BY <1>o
<1> DEFINE n == IF c = "killed" THEN w["out"] ELSE t["out"]
           out == IF b["out"] \in 1..n THEN b["out"] - 1 ELSE n
           err == IF b = [o \in Output |-> 0] THEN t["err"] ELSE 0
<1>1. BodyOf(c, w, t, b) = IF c = "none" THEN <<>> ELSE Lines("out", out) \o Lines("err", err)
  BY DEF BodyOf
<1>2. n \in Nat /\ out \in Nat /\ err \in Nat
  BY <1>n
<1>3. b["err"] # 0 => err = 0
  BY <1>o
<1>4. b["out"] # 0 => err = 0
  BY <1>o
<1>5. b["out"] = 0 /\ b["err"] = 0 => err = t["err"]
  <2>1. ASSUME b["out"] = 0, b["err"] = 0 PROVE b = [o \in Output |-> 0]
    BY <2>1 DEF Output
  <2> QED BY <2>1
<1>6. BodyOf(c, w, t, b) \in Seq(Item)
  <2>1. Lines("out", out) \in Seq(Item) /\ Lines("err", err) \in Seq(Item)
    BY <1>l, <1>2
  <2>2. Lines("out", out) \o Lines("err", err) \in Seq(Item)
    BY <2>1, Chain, Zenon
  <2> QED BY <1>l, <1>1, <2>2
<1>7. ASSUME c # "none", b["out"] \in 1..w["out"]
      PROVE BodyOf(c, w, t, b) = Lines("out", b["out"] - 1)
  <2>1. out = b["out"] - 1 /\ err = 0 /\ b["out"] - 1 \in Nat
    BY <1>n, <1>4, <1>7
  <2> QED BY <1>e, <1>1, <1>7, <2>1
<1>8. ASSUME c \notin {"none", "killed"}, b["out"] = 0, b["err"] = 0
      PROVE BodyOf(c, w, t, b) = Lines("out", t["out"]) \o Lines("err", t["err"])
  <2>1. out = t["out"] /\ err = t["err"]
    BY <1>n, <1>5, <1>8
  <2> QED BY <1>1, <1>8, <2>1
<1>9. ASSUME c # "none", c # "killed" => w = t, b["err"] # 0, b["out"] \notin 1..w["out"]
      PROVE BodyOf(c, w, t, b) = Lines("out", w["out"])
  <2>1. out = w["out"] /\ err = 0
    BY <1>n, <1>3, <1>9
  <2> QED BY <1>n, <1>e, <1>1, <1>9, <2>1
<1> QED BY <1>1, <1>6, <1>7, <1>8, <1>9 DEF BodyCases

LEMMA ExpectedIs ==
  ASSUME LineTypes, ScriptInv
  PROVE Expected = Append(Body, Mark) /\ Body \in Seq(Item)
<1>1. Body \in Seq(Item)
  <2>1. BodyCases(child, written, total, bad)
    BY BodyIs, Zenon DEF LineTypes, ScriptInv
  <2> QED BY <2>1 DEF Body, BodyCases
<1>2. Mark \in Item /\ <<Mark>> \in Seq(Item)
  BY DEF Item
<1>3. Append(Body, Mark) = Body \o <<Mark>>
  BY <1>1, <1>2, Chain, Zenon
<1>4. <<>> \o <<Mark>> = <<Mark>>
  BY <1>2, Chain, Zenon
<1>5. Expected = Body \o <<Mark>>
  <2>1. CASE child = "none"
    BY <1>4, <2>1 DEF Expected, Body, BodyOf
  <2>2. CASE child # "none"
    BY <2>2 DEF Expected, Body, BodyOf
  <2> QED BY <2>1, <2>2
<1> QED BY <1>1, <1>3, <1>5

LEMMA WholeInit == Init => WholeInv
<1> SUFFICES ASSUME Init PROVE WholeInv
  OBVIOUS
<1>1. <<>> \o <<>> = <<>>
  BY ConcatEmptySeq, EmptySeq
<1>2. Sent = <<>>
  BY <1>1 DEF Init, Sent, Ahead, Unposted
<1> QED BY <1>2 DEF Init, WholeInv, SentInv, Output

LEMMA WholeStep ==
  ASSUME LineTypes, LineTypes', ControlInv, QuietInv, ScriptInv, ScriptInv', ErrInv,
         WholeInv, [Next]_vars
  PROVE WholeInv'
<1> USE DEF script, childVars, mainVars, errVars, consVars, serverVars
<1>d. Dropped => UNCHANGED faults \/ Fault
  BY DroppedIs
<1>f. faults' \in Nat /\ (faults' = 0 => faults = 0 /\ UNCHANGED faults)
  BY <1>d DEF WholeInv, vars, Next, Child, ChildWrites, ChildWritesBroken, ChildExits,
         run_step, Spawn, SpawnFails, SendLine, ReadStdout, StdoutError,
         StdoutEnds, JoinStderr, RunStepEnds, StderrThread, ReadStderr,
         StderrEnds, Consumer, Receive, PostBatch, Posted, ConsumerEnds, Agent,
         PostMark, Report, Insert, InsertFails, LosePost, Fault, InsertStray,
         OpenPage, ShowPage, PageTrouble
<1> SUFFICES ASSUME faults' = 0, faults = 0, stray = <<>>, SentInv
             PROVE stray' = <<>> /\ SentInv'
  BY <1>f DEF WholeInv
<1>n. ~InsertFails /\ ~LosePost /\ ~PageTrouble /\ ~InsertStray
  BY DEF InsertFails, LosePost, PageTrouble, InsertStray, Fault
<1>r. stray' = <<>>
  BY <1>n DEF vars, Next, Child, ChildWrites, ChildWritesBroken, ChildExits,
         run_step, Spawn, SpawnFails, SendLine, ReadStdout, StdoutError,
         StdoutEnds, JoinStderr, RunStepEnds, StderrThread, ReadStderr,
         StderrEnds, Consumer, Receive, PostBatch, Posted, ConsumerEnds, Agent,
         PostMark, Report, Insert, OpenPage, ShowPage, noView
<1> SUFFICES SentInv'
  BY <1>r
<1>o. "out" \in Output /\ "err" \in Output /\ "out" # "err"
  BY DEF Output
<1>w. /\ written \in [Output -> Nat] /\ pipe \in [Output -> Seq(Item)]
      /\ written["out"] \in Nat /\ written["err"] \in Nat
      /\ written["out"] <= total["out"] /\ written["err"] <= total["err"]
      /\ bad["out"] <= total["out"] /\ bad["err"] <= total["err"]
      /\ total["out"] \in Nat /\ total["err"] \in Nat
      /\ bad["out"] \in Nat /\ bad["err"] \in Nat
  BY <1>o DEF LineTypes, ScriptInv
<1>y. /\ written \in [Output -> Nat] /\ total \in [Output -> Nat] /\ bad \in [Output -> Nat]
      /\ \A o \in Output : written[o] <= total[o] /\ bad[o] <= total[o]
  BY DEF LineTypes, ScriptInv
<1>z. /\ written' \in [Output -> Nat] /\ total' \in [Output -> Nat] /\ bad' \in [Output -> Nat]
      /\ \A o \in Output : written'[o] <= total'[o] /\ bad'[o] <= total'[o]
  BY DEF LineTypes, ScriptInv
<1>q. BodyCases(child, written, total, bad)
  BY <1>y, BodyIs, Zenon
<1>p. BodyCases(child', written', total', bad')
  BY <1>z, BodyIs, Zenon
<1>b. /\ Body = BodyOf(child, written, total, bad)
      /\ Body' = BodyOf(child', written', total', bad')
  BY DEF Body
\* Nothing that is about stdout or the script changes.
<1>s. ASSUME Sent' = Sent, UNCHANGED <<child, written, total, bad>>,
             pipe'["out"] = pipe["out"], UNCHANGED main,
             main = "ended" => (agent = "step" <=> agent' = "step"),
             main = "stderr" => UNCHANGED errs
      PROVE SentInv'
  BY <1>s, <1>b DEF SentInv
<1>k. ASSUME UNCHANGED <<log, req, cons, batch, chan, held>> PROVE Sent' = Sent
  BY <1>k DEF Sent, Ahead, Unposted
<1>1. CASE UNCHANGED vars \/ OpenPage \/ ShowPage \/ PageTrouble
  BY <1>s, <1>k, <1>1, <1>n DEF vars, OpenPage, ShowPage, noView
<1>2. CASE SendLine \/ Receive \/ PostBatch \/ Posted \/ Insert
  <2>1. Sent' = Sent
    BY <1>2, SentSame
  <2> QED BY <1>s, <1>2, <2>1 DEF SendLine, Receive, PostBatch, Posted, Insert
<1>3. CASE ConsumerEnds \/ Report
  <2>1. Sent' = Sent
    BY <1>3 DEF ConsumerEnds, Report, Sent, Ahead, Unposted
  <2> QED BY <1>s, <1>3, <2>1 DEF ConsumerEnds, Report
<1>4. CASE StderrThread
  <2>1. Sent' = Sent
    BY <1>4, <1>k DEF StderrThread, ReadStderr, StderrEnds
  <2>2. pipe'["out"] = pipe["out"]
    BY <1>4, <1>o, <1>w DEF StderrThread, ReadStderr, StderrEnds
  <2>3. main # "stderr"
    BY <1>4 DEF ErrInv, StderrThread, ReadStderr, StderrEnds
  <2> QED BY <1>s, <1>4, <2>1, <2>2, <2>3 DEF StderrThread, ReadStderr, StderrEnds
<1>5. CASE Child
  <2>1. /\ Sent' = Sent /\ child = "running" /\ child' # "none"
        /\ UNCHANGED <<main, errs, agent, total, bad>>
        /\ written["out"] <= written'["out"]
    <3>1. UNCHANGED <<log, req, cons, batch, chan, held, main, errs, agent, total, bad>>
            /\ child = "running" /\ child' # "none"
      BY <1>5 DEF Child, ChildExits, ChildWrites, ChildWritesBroken
    <3>2. written["out"] <= written'["out"]
      <4>1. ASSUME NEW o \in Output, ChildWrites(o) \/ ChildWritesBroken(o)
            PROVE written["out"] <= written'["out"]
        <5>1. written' \in {written, [written EXCEPT ![o] = @ + 1]}
          BY <4>1 DEF ChildWrites, ChildWritesBroken
        <5>2. written'["out"] \in {written["out"], written["out"] + 1}
          BY <1>o, <1>w, <5>1
        <5> QED BY <1>w, <5>2
      <4>2. CASE ChildExits
        BY <1>w, <4>2 DEF ChildExits
      <4> QED BY <1>5, <4>1, <4>2 DEF Child
    <3> QED BY <3>1, <3>2, <1>k
  <2>2. main \in {"stdout", "ended"} \/ main \notin {"spawn", "stdout", "join", "stderr", "ended"}
    BY <2>1 DEF ScriptInv
  <2>3. CASE main = "stdout"
    <3>1. PICK n \in 0..written["out"] :
            /\ Sent = Lines("out", n)
            /\ bad["out"] \notin 1..n
            /\ pipe["out"] = Between("out", n, written["out"])
      BY <2>3 DEF SentInv
    <3>2. n \in Nat /\ n <= written["out"]
      BY <1>w
    <3>3. CASE ChildWrites("out")
      <4>1. /\ written'["out"] = written["out"] + 1
            /\ pipe'["out"] = Append(pipe["out"], <<"out", written["out"] + 1>>)
        BY <3>3, <1>o, <1>w DEF ChildWrites
      <4>2. ASSUME NEW m \in Nat, m = written["out"]
            PROVE Append(Between("out", n, m), <<"out", m + 1>>) = Between("out", n, m + 1)
        BY <1>o, <3>2, <4>2, BetweenMoves
      <4>3. pipe'["out"] = Between("out", n, written'["out"])
        BY <1>w, <3>1, <4>1, <4>2
      <4>4. n \in 0..written'["out"]
        BY <1>w, <3>2, <4>1
      <4> QED BY <2>1, <2>3, <3>1, <4>3, <4>4 DEF SentInv
    <3>4. CASE ~ChildWrites("out")
      <4>1. written'["out"] = written["out"] /\ pipe'["out"] = pipe["out"]
        BY <1>5, <1>o, <1>w, <2>3, <3>4
           DEF Child, ChildExits, ChildWrites, ChildWritesBroken, Broken, Output
      <4> QED BY <2>1, <2>3, <3>1, <4>1 DEF SentInv
    <3> QED BY <3>3, <3>4
  <2>4. CASE main = "ended"
    <3>1. bad["out"] \in 1..written["out"]
      BY <2>1, <2>4 DEF SentInv
    <3>2. written'["out"] \in Nat /\ bad'["out"] \in 1..written'["out"]
      BY <1>o, <1>w, <1>z, <2>1, <3>1
    <3>3. Body = Lines("out", bad["out"] - 1)
      BY <1>b, <2>1, <3>1, <1>q DEF BodyCases
    <3>4. Body' = Lines("out", bad'["out"] - 1)
      BY <1>b, <2>1, <3>2, <1>p DEF BodyCases
    <3> QED BY <2>1, <2>4, <3>2, <3>3, <3>4 DEF SentInv
  <2>5. CASE main \notin {"spawn", "stdout", "join", "stderr", "ended"}
    BY <2>1, <2>5 DEF SentInv
  <2> QED BY <2>2, <2>3, <2>4, <2>5
<1>6. CASE Spawn
  <2>1. /\ main = "spawn" /\ main' = "stdout" /\ Sent' = Sent
        /\ UNCHANGED <<written, pipe, bad>>
    BY <1>6, <1>k DEF Spawn
  <2>2. Sent = <<>> /\ pipe["out"] = <<>> /\ written["out"] = 0
    BY <1>o, <2>1 DEF SentInv, ScriptInv
  <2>3. Lines("out", 0) = <<>>
    BY <1>o, LinesGrow
  <2>4. Between("out", 0, 0) = <<>>
    <3>1. 0 \in Nat /\ 0 <= 0
      OBVIOUS
    <3> QED BY <1>o, <3>1, BetweenMoves
  <2>5. 0 \in 0..written'["out"] /\ bad'["out"] \notin 1..0
    BY <2>1, <2>2
  <2> QED BY <2>1, <2>2, <2>3, <2>4, <2>5 DEF SentInv
<1>7. CASE SpawnFails
  <2>1. /\ main = "spawn" /\ main' = "ended" /\ Sent' = Sent
        /\ UNCHANGED <<written, pipe, bad, child, total, agent>>
    BY <1>7, <1>k DEF SpawnFails
  <2>2. Sent = <<>> /\ child = "none" /\ agent = "step"
    BY <2>1 DEF SentInv, ScriptInv, ControlInv
  <2>3. Body' = <<>>
    BY <1>b, <2>1, <2>2, <1>p DEF BodyCases
  <2> QED BY <2>1, <2>2, <2>3 DEF SentInv
<1>8. CASE ReadStdout \/ StdoutError \/ StdoutEnds
  <2>1. main = "stdout" /\ UNCHANGED <<written, bad, total, agent>>
    BY <1>8 DEF ReadStdout, StdoutError, StdoutEnds
  <2>2. PICK n \in 0..written["out"] :
          /\ Sent = Lines("out", n)
          /\ bad["out"] \notin 1..n
          /\ pipe["out"] = Between("out", n, written["out"])
    BY <2>1 DEF SentInv
  <2>3. n \in Nat /\ n <= written["out"]
    BY <1>w
  <2>4. ASSUME NEW m \in Nat, m = written["out"]
        PROVE /\ pipe["out"] = <<>> => n = m
              /\ pipe["out"] # <<>> =>
                   /\ n # m /\ Head(pipe["out"]) = <<"out", n + 1>>
                   /\ Tail(pipe["out"]) = Between("out", n + 1, m)
    <3>1. n <= m /\ pipe["out"] = Between("out", n, m)
      BY <2>2, <2>3, <2>4
    <3>2. Between("out", n, m) = <<>> <=> n = m
      BY <1>o, <2>3, <3>1, BetweenMoves
    <3>3. n # m => /\ Head(Between("out", n, m)) = <<"out", n + 1>>
                   /\ Tail(Between("out", n, m)) = Between("out", n + 1, m)
      BY <1>o, <2>3, <3>1, BetweenMoves
    <3> QED BY <3>1, <3>2, <3>3
  <2>5. /\ pipe["out"] = <<>> => n = written["out"]
        /\ pipe["out"] # <<>> =>
             /\ n # written["out"] /\ Head(pipe["out"]) = <<"out", n + 1>>
             /\ Tail(pipe["out"]) = Between("out", n + 1, written["out"])
    BY <1>w, <2>4
  <2>6. CASE ReadStdout
    <3>1. /\ pipe["out"] # <<>> /\ bad["out"] # n + 1 /\ main' = "stdout"
          /\ pipe'["out"] = Between("out", n + 1, written'["out"])
      BY <1>o, <1>w, <2>5, <2>6 DEF ReadStdout, Unreadable
    <3>2. Sent' = Append(Lines("out", n), <<"out", n + 1>>)
      BY <2>2, <2>5, <2>6, <3>1, SentMore
    <3>3. Sent' = Lines("out", n + 1)
      BY <1>o, <2>3, <3>2, LinesGrow
    <3>4. n + 1 \in 0..written'["out"] /\ bad'["out"] \notin 1..(n + 1)
      BY <1>w, <2>1, <2>2, <2>3, <2>5, <3>1
    <3> QED BY <3>1, <3>3, <3>4 DEF SentInv
  <2>7. CASE StdoutError
    <3>1. /\ pipe["out"] # <<>> /\ bad["out"] = n + 1 /\ main' = "ended"
          /\ child' \in {child, "killed"} /\ Sent' = Sent
      BY <1>k, <2>5, <2>7, DroppedIs DEF StdoutError, Unreadable
    <3>2. agent = "step" /\ child # "none" /\ child' # "none"
      BY <2>1, <3>1 DEF ControlInv, ScriptInv
    <3>3. bad'["out"] \in 1..written'["out"] /\ bad'["out"] - 1 = n
      BY <1>w, <2>1, <2>3, <2>5, <3>1
    <3>4. Body' = Lines("out", n)
      BY <1>b, <3>2, <3>3, <1>p DEF BodyCases
    <3> QED BY <2>1, <2>2, <3>1, <3>2, <3>3, <3>4 DEF SentInv
  <2>8. CASE StdoutEnds
    <3>1. pipe["out"] = <<>> /\ main' = "join" /\ Sent' = Sent
      BY <1>k, <2>8 DEF StdoutEnds
    <3> QED BY <2>1, <2>2, <2>5, <3>1 DEF SentInv
  <2> QED BY <1>8, <2>6, <2>7, <2>8
<1>9. CASE JoinStderr
  <2>1. /\ main = "join" /\ main' = "stderr" /\ Sent' = Sent \o held'
        /\ held' = IF errs = "done" THEN errLines ELSE <<>>
        /\ UNCHANGED <<written, bad, errs>>
    BY <1>9, SentMore DEF JoinStderr
  <2>2. Sent = Lines("out", written["out"]) /\ bad["out"] \notin 1..written["out"]
    BY <2>1 DEF SentInv
  <2>3. errs = "done" => errLines = Lines("err", written["err"])
    BY DEF ErrInv
  <2>4. Sent' = Lines("out", written["out"]) \o
                  (IF errs = "done" THEN Lines("err", written["err"]) ELSE <<>>)
    BY <2>1, <2>2, <2>3
  <2> QED BY <2>1, <2>2, <2>4 DEF SentInv
<1>10. CASE RunStepEnds
  <2>1. /\ main = "stderr" /\ main' = "ended" /\ Sent' = Sent
        /\ child \in {"exited", "killed"} /\ child' = child
        /\ UNCHANGED <<written, bad, total, agent>>
    BY <1>10, <1>k, DroppedIs DEF RunStepEnds, ScriptInv
  <2>2. /\ agent = "step" /\ bad["out"] \notin 1..written["out"]
        /\ Sent = Lines("out", written["out"]) \o
                    (IF errs = "done" THEN Lines("err", written["err"]) ELSE <<>>)
    BY <2>1 DEF SentInv, ControlInv
  <2>3. CASE errs = "done"
    <3>1. child = "exited" /\ written = total
      BY <2>1, <2>3 DEF ScriptInv
    <3>2. bad["err"] \notin 1..written["err"]
      BY <2>3 DEF ErrInv
    <3>3. bad["out"] = 0 /\ bad["err"] = 0
      BY <1>w, <2>2, <3>1, <3>2
    <3>4. BodyOf(child, written, total, bad) = Lines("out", total["out"]) \o Lines("err", total["err"])
      BY <3>1, <3>3, <1>q DEF BodyCases
    <3>5. Body' = Sent
      BY <1>b, <2>1, <2>2, <2>3, <3>1, <3>4
    <3> QED BY <2>1, <2>2, <3>5 DEF SentInv
  <2>4. CASE errs # "done"
    <3>1. bad["err"] # 0
      BY <2>1, <2>4 DEF ErrInv
    <3>2. child # "killed" => written = total
      BY <2>1 DEF ScriptInv
    <3>3. BodyOf(child, written, total, bad) = Lines("out", written["out"])
      BY <2>1, <2>2, <3>1, <3>2, <1>q DEF BodyCases
    <3>4. Lines("out", written["out"]) \in Seq(Item)
      BY <1>o, <1>w, LinesGrow
    <3>5. Sent = Lines("out", written["out"])
      BY <2>2, <2>4, <3>4, Chain, Zenon
    <3>6. Body' = Sent
      BY <1>b, <2>1, <3>3, <3>5
    <3> QED BY <2>1, <2>2, <3>6 DEF SentInv
  <2> QED BY <2>3, <2>4
<1>11. CASE PostMark
  <2>1. /\ main = "ended" /\ agent = "step" /\ agent' = "mark"
        /\ Sent' = Append(Sent, Mark)
        /\ UNCHANGED <<main, child, written, total, bad>>
    BY <1>11, SentMore DEF PostMark
  <2> QED BY <1>b, <2>1 DEF SentInv
<1> QED
  BY <1>n, <1>r, <1>1, <1>2, <1>3, <1>4, <1>5, <1>6, <1>7, <1>8, <1>9, <1>10, <1>11
     DEF Next, run_step, Consumer, Agent

\* t begins with s.
Starts(s, t) == \E u \in Seq(Item) : t = s \o u

LEMMA StartsIsPrefix ==
  ASSUME NEW s \in Seq(Item), NEW t \in Seq(Item), Starts(s, t)
  PROVE IsPrefix(s, t)
<1>1. PICK u \in Seq(Item) : t = s \o u
  BY DEF Starts
<1>2. Len(s) \in Nat /\ Len(u) \in Nat /\ Len(t) = Len(s) + Len(u)
  BY <1>1, LenProperties, ConcatProperties
<1>3. SubSeq(t, 1, Len(s)) = SubSeq(s, 1, Len(s))
  <2>1. CASE Len(s) = 0
    <3>1. 0 < 1 /\ 0 \in Int /\ 1 \in Int
      OBVIOUS
    <3>2. SubSeq(t, 1, 0) = <<>> /\ SubSeq(s, 1, 0) = <<>>
      BY <3>1, SubSeqEmpty
    <3> QED BY <2>1, <3>2
  <2>2. CASE Len(s) # 0
    <3>1. 1 \in 1..Len(s) /\ Len(s) \in 1..Len(s)
      BY <1>2, <2>2
    <3>2. SubSeq(s \o u, 1, Len(s)) = SubSeq(s, 1, Len(s))
      BY <3>1, SubSeqOfConcat1
    <3> QED BY <1>1, <3>2
  <2> QED BY <2>1, <2>2
<1> QED BY <1>2, <1>3 DEF IsPrefix

LEMMA StartsFacts ==
  /\ \A s \in Seq(Item) : Starts(s, s) /\ Starts(<<>>, s)
  /\ \A s, t \in Seq(Item) : Starts(s, s \o t)
  /\ \A s, t, u \in Seq(Item) : Starts(s, t) /\ Starts(t, u) => Starts(s, u)
  /\ \A s, t \in Seq(Item) : \A e \in Item : Starts(s, t) => Starts(s, Append(t, e))
<1>1. <<>> \in Seq(Item) /\ \A s \in Seq(Item) : s \o <<>> = s /\ <<>> \o s = s
  BY Chain
<1>2. \A s \in Seq(Item) : Starts(s, s) /\ Starts(<<>>, s)
  BY <1>1, Zenon DEF Starts
<1>3. \A s, t \in Seq(Item) : Starts(s, s \o t)
  BY Zenon DEF Starts
<1>4. ASSUME NEW s \in Seq(Item), NEW t \in Seq(Item), NEW u \in Seq(Item),
             Starts(s, t), Starts(t, u)
      PROVE Starts(s, u)
  <2>1. PICK v \in Seq(Item) : t = s \o v
    BY <1>4 DEF Starts
  <2>2. PICK w \in Seq(Item) : u = t \o w
    BY <1>4 DEF Starts
  <2>3. (s \o v) \o w = s \o (v \o w)
    <3>1. \A a, b, c \in Seq(Item) : (a \o b) \o c = a \o (b \o c)
      BY Chain
    <3> QED BY <3>1, Zenon
  <2>4. v \o w \in Seq(Item)
    BY Chain, Zenon
  <2> QED BY <2>1, <2>2, <2>3, <2>4, Zenon DEF Starts
<1>5. ASSUME NEW s \in Seq(Item), NEW t \in Seq(Item), NEW e \in Item, Starts(s, t)
      PROVE Starts(s, Append(t, e))
  <2>1. <<e>> \in Seq(Item) /\ Append(t, e) \in Seq(Item)
    OBVIOUS
  <2>2. Append(t, e) = t \o <<e>>
    BY Chain, Zenon
  <2>3. Starts(t, Append(t, e))
    BY <2>1, <2>2, Zenon DEF Starts
  <2> QED BY <1>4, <1>5, <2>1, <2>3, Zenon
<1> QED BY <1>2, <1>3, <1>4, <1>5, Zenon

LEMMA LinesStart ==
  ASSUME NEW o \in Output, NEW m \in Nat, NEW n \in Nat, m <= n
  PROVE Starts(Lines(o, m), Lines(o, n))
<1>1. PICK d \in Nat : d = n - m
  OBVIOUS
<1>2. PICK u : u = [k \in 1..d |-> <<o, m + k>>]
  OBVIOUS
<1>3. \A k \in 1..d : <<o, m + k>> \in Item
  BY DEF Item
<1>4. u \in Seq(Item)
  <2>1. u \in [1..d -> Item]
    BY <1>2, <1>3
  <2> QED BY <2>1, IsASeq
<1>5. Len(u) = d /\ \A k \in 1..d : u[k] = <<o, m + k>>
  BY <1>2, <1>4, LenProperties
<1>6. PICK s : s = Lines(o, m)
  OBVIOUS
<1>7. PICK t : t = Lines(o, n)
  OBVIOUS
<1>8. /\ s \in Seq(Item) /\ Len(s) = m /\ \A k \in 1..m : s[k] = <<o, k>>
      /\ t \in Seq(Item) /\ Len(t) = n /\ \A k \in 1..n : t[k] = <<o, k>>
  BY <1>6, <1>7, LinesGrow DEF Lines
<1>9. /\ s \o u \in Seq(Item) /\ Len(s \o u) = n
      /\ \A k \in 1..n : (s \o u)[k] = IF k <= m THEN s[k] ELSE u[k - m]
  <2>1. m + d = n
    BY <1>1
  <2>2. /\ s \o u \in Seq(Item) /\ Len(s \o u) = Len(s) + Len(u)
        /\ \A k \in 1..(Len(s) + Len(u)) :
             (s \o u)[k] = IF k <= Len(s) THEN s[k] ELSE u[k - Len(s)]
    BY <1>4, <1>8, ConcatProperties
  <2> QED BY <1>5, <1>8, <2>1, <2>2
<1>10. PICK v : v = s \o u
  OBVIOUS
<1>11. \A k \in 1..n : v[k] = <<o, k>>
  <2>1. ASSUME NEW k \in 1..n PROVE v[k] = <<o, k>>
    <3>1. CASE k <= m
      BY <1>8, <1>9, <1>10, <3>1
    <3>2. CASE ~(k <= m)
      <4>1. k - m \in 1..d /\ m + (k - m) = k
        BY <1>1, <3>2
      <4>2. u[k - m] = <<o, m + (k - m)>>
        BY <1>5, <4>1
      <4> QED BY <1>9, <1>10, <3>2, <4>1, <4>2
    <3> QED BY <3>1, <3>2
  <2> QED BY <2>1
<1>12. v = t
  <2>1. v \in Seq(Item) /\ Len(v) = n
    BY <1>9, <1>10
  <2>2. Len(v) = Len(t) /\ \A k \in 1..Len(v) : v[k] = t[k]
    BY <1>8, <1>11, <2>1
  <2> QED BY <1>8, <2>1, <2>2, SeqEqual
<1> QED BY <1>4, <1>6, <1>7, <1>10, <1>12 DEF Starts

LEMMA BodyStarts ==
  ASSUME NEW c, NEW w \in [Output -> Nat], NEW t \in [Output -> Nat],
         NEW b \in [Output -> Nat],
         \A o \in Output : w[o] <= t[o] /\ b[o] <= t[o],
         NEW n \in Nat, n <= w["out"], b["out"] \notin 1..n, c # "none"
  PROVE Starts(Lines("out", n), BodyOf(c, w, t, b))
<1>o. "out" \in Output /\ "err" \in Output
  BY DEF Output
<1>n. /\ w["out"] \in Nat /\ t["out"] \in Nat /\ t["err"] \in Nat
      /\ b["out"] \in Nat /\ w["out"] <= t["out"] /\ b["out"] <= t["out"]
  BY <1>o
<1> DEFINE k == IF c = "killed" THEN w["out"] ELSE t["out"]
           out == IF b["out"] \in 1..k THEN b["out"] - 1 ELSE k
           err == IF b = [o \in Output |-> 0] THEN t["err"] ELSE 0
<1>1. BodyOf(c, w, t, b) = Lines("out", out) \o Lines("err", err)
  BY DEF BodyOf
<1>2. out \in Nat /\ err \in Nat /\ n <= out
  BY <1>n
<1> HIDE DEF k, out, err
<1>3. Lines("out", out) \in Seq(Item) /\ Lines("err", err) \in Seq(Item) /\ Lines("out", n) \in Seq(Item)
  BY <1>o, <1>2, LinesGrow
<1>4. Starts(Lines("out", n), Lines("out", out))
  BY <1>o, <1>2, LinesStart
<1>5. Lines("out", out) \o Lines("err", err) \in Seq(Item)
  BY <1>3, Chain, Zenon
<1>6. Starts(Lines("out", out), Lines("out", out) \o Lines("err", err))
  BY <1>3, StartsFacts, Zenon
<1>7. Starts(Lines("out", n), Lines("out", out) \o Lines("err", err))
  BY <1>3, <1>4, <1>5, <1>6, StartsFacts, Zenon
<1> QED BY <1>1, <1>7

\* What is on the way is never more than the output.
LEMMA SentIsOutput ==
  ASSUME LineTypes, ControlInv, QuietInv, ScriptInv, ErrInv, SentInv,
         main \in {"stdout", "join", "stderr", "ended"}
  PROVE Starts(log, Expected) /\ (agent = "reported" => log = Expected)
<1>t. /\ log \in Seq(Item) /\ Sent \in Seq(Item) /\ Ahead \in Seq(Item)
      /\ Body \in Seq(Item) /\ held \in Seq(Item) /\ Mark \in Item
      /\ Expected = Append(Body, Mark) /\ Expected \in Seq(Item)
  <2>1. Mark \in Item /\ Body \in Seq(Item) /\ Expected = Append(Body, Mark)
    BY ExpectedIs DEF Item
  <2>2. Append(Body, Mark) \in Seq(Item)
    BY <2>1
  <2> QED BY <2>1, <2>2, SentTypes DEF LineTypes
<1>y. /\ written \in [Output -> Nat] /\ total \in [Output -> Nat] /\ bad \in [Output -> Nat]
      /\ \A o \in Output : written[o] <= total[o] /\ bad[o] <= total[o]
      /\ "out" \in Output /\ "err" \in Output
  BY DEF LineTypes, ScriptInv, Output
<1>q. BodyCases(child, written, total, bad)
  BY <1>y, BodyIs, Zenon
<1>s. ASSUME NEW n \in Nat, n <= written["out"], bad["out"] \notin 1..n, child # "none"
      PROVE Starts(Lines("out", n), Body)
  BY <1>s, <1>y, BodyStarts DEF Body
<1>1. Starts(log, Sent)
  <2>1. req \o (Unposted \o chan) \in Seq(Item)
    <3>1. /\ req \in Seq(Item) /\ Unposted \in Seq(Item) /\ chan \in Seq(Item)
      BY SentTypes DEF LineTypes
    <3>2. Unposted \o chan \in Seq(Item)
      BY <3>1, Chain, Zenon
    <3> QED BY <3>1, <3>2, Chain, Zenon
  <2>2. Starts(log, Ahead) /\ Starts(Ahead, Sent)
    BY <1>t, <2>1, StartsFacts, Zenon DEF Ahead, Sent
  <2> QED BY <1>t, <2>2, StartsFacts, Zenon
<1>e. ASSUME Starts(Sent, Expected) PROVE Starts(log, Expected)
  BY <1>t, <1>1, <1>e, StartsFacts, Zenon
<1>f. ASSUME Starts(Sent, Body) PROVE Starts(log, Expected)
  <2>1. Starts(Sent, Expected)
    BY <1>t, <1>f, StartsFacts, Zenon
  <2> QED BY <1>e, <2>1
<1>2. CASE main = "stdout"
  <2>1. PICK n \in 0..written["out"] : Sent = Lines("out", n) /\ bad["out"] \notin 1..n
    BY <1>2 DEF SentInv
  <2>2. n \in Nat /\ n <= written["out"] /\ child # "none"
    BY <1>2, <1>y DEF ScriptInv
  <2>3. Starts(Sent, Body)
    BY <1>s, <2>1, <2>2
  <2> QED BY <1>f, <1>2, <2>3 DEF ControlInv
<1>3. CASE main = "join"
  <2>1. Sent = Lines("out", written["out"]) /\ bad["out"] \notin 1..written["out"]
    BY <1>3 DEF SentInv
  <2>2. child # "none" /\ written["out"] \in Nat /\ written["out"] <= written["out"]
    BY <1>3, <1>y DEF ScriptInv
  <2>3. Starts(Sent, Body)
    <3>1. ASSUME NEW n \in Nat, n = written["out"] PROVE Starts(Lines("out", n), Body)
      BY <1>s, <2>1, <2>2, <3>1
    <3> QED BY <2>1, <2>2, <3>1
  <2> QED BY <1>f, <1>3, <2>3 DEF ControlInv
<1>4. CASE main = "stderr"
  <2>1. /\ bad["out"] \notin 1..written["out"] /\ child \in {"exited", "killed"}
        /\ Sent = Lines("out", written["out"]) \o
                    (IF errs = "done" THEN Lines("err", written["err"]) ELSE <<>>)
    BY <1>4 DEF SentInv, ScriptInv
  <2>2. CASE errs = "done"
    <3>1. child = "exited" /\ written = total
      BY <1>4, <2>1, <2>2 DEF ScriptInv
    <3>2. bad["err"] \notin 1..written["err"]
      BY <2>2 DEF ErrInv
    <3>3. bad["out"] = 0 /\ bad["err"] = 0
      BY <1>y, <2>1, <3>1, <3>2
    <3>4. Sent = Body
      BY <1>q, <2>1, <2>2, <3>1, <3>3 DEF Body, BodyCases
    <3>5. Starts(Sent, Body)
      BY <1>t, <3>4, StartsFacts, Zenon
    <3> QED BY <1>f, <1>4, <3>5 DEF ControlInv
  <2>3. CASE errs # "done"
    <3>1. bad["err"] # 0
      BY <1>4, <2>3 DEF ErrInv
    <3>2. child # "killed" => written = total
      BY <2>1 DEF ScriptInv
    <3>3. BodyOf(child, written, total, bad) = Lines("out", written["out"])
      BY <1>q, <2>1, <3>1, <3>2 DEF BodyCases
    <3>4. Lines("out", written["out"]) \in Seq(Item)
      BY <1>y, LinesGrow
    <3>5. Sent = Body
      BY <2>1, <2>3, <3>3, <3>4, Chain, Zenon DEF Body
    <3>6. Starts(Sent, Body)
      BY <1>t, <3>5, StartsFacts, Zenon
    <3> QED BY <1>f, <1>4, <3>6 DEF ControlInv
  <2> QED BY <2>2, <2>3
<1>5. CASE main = "ended"
  <2>1. Sent = IF agent = "step" THEN Body ELSE Append(Body, Mark)
    BY <1>5 DEF SentInv
  <2>2. CASE agent = "step"
    <3>1. Starts(Sent, Body)
      BY <1>t, <2>1, <2>2, StartsFacts, Zenon
    <3> QED BY <1>f, <2>2, <3>1
  <2>3. CASE agent # "step"
    <3>1. Sent = Expected
      BY <1>t, <2>1, <2>3
    <3>2. Starts(log, Expected)
      BY <1>1, <3>1
    <3>3. ASSUME agent = "reported" PROVE log = Expected
      <4>1. /\ req = <<>> /\ chan = <<>> /\ Unposted = <<>> /\ held = <<>>
        BY <1>5, <3>3 DEF QuietInv, ControlInv, Unposted
      <4>2. <<>> \o <<>> = <<>> /\ log \o <<>> = log
        BY <1>t, EmptySeq, Chain, Zenon
      <4>3. Sent = log
        BY <4>1, <4>2, Zenon DEF Sent, Ahead
      <4> QED BY <3>1, <4>3
    <3> QED BY <3>2, <3>3
  <2> QED BY <2>2, <2>3
<1> QED BY <1>2, <1>3, <1>4, <1>5

\* Where everyone is, and that pipes and channel keep to their capacities.
PlaceInv ==
  /\ executor \in {"host", "dail"}
  /\ total \in [Output -> 0..MaxLines]
  /\ main \in {"spawn", "stdout", "join", "stderr", "ended"}
  /\ cons \in {"recv", "more", "post", "ended"}
  /\ agent \in {"step", "mark", "reported"}
  /\ page \in {"shut", "run", "logs", "read", "check", "settled", "broken"}
  /\ was \in {"live", "over"}
  /\ faults \in 0..MaxFaults
  /\ \A o \in Output : Len(pipe[o]) <= PipeCap
  /\ Len(chan) <= ChanCap

LEMMA PlaceInit == Init => PlaceInv
  BY BoundsAssumption DEF Init, PlaceInv, Output, Page!Init

LEMMA PlaceStep ==
  ASSUME LineTypes, LineTypes', PlaceInv, [Next]_vars
  PROVE PlaceInv'
<1> USE DEF script, childVars, mainVars, errVars, consVars, serverVars, viewVars
<1>h. \A s \in Seq(Item) : s # <<>> => Len(Tail(s)) = Len(s) - 1 /\ Len(s) \in Nat
  BY HeadTailProperties, LenProperties
<1>a. \A s \in Seq(Item) : \A e \in Item : Len(Append(s, e)) = Len(s) + 1 /\ Len(s) \in Nat
  BY AppendProperties, LenProperties
<1>o. "out" \in Output /\ "err" \in Output /\ "out" # "err"
  BY DEF Output
<1>b. PipeCap \in Nat /\ ChanCap \in Nat /\ MaxFaults \in Nat
  BY BoundsAssumption
<1>1. CASE UNCHANGED vars
  BY <1>1 DEF vars, PlaceInv
<1>2. CASE Child
  <2>1. ASSUME NEW o \in Output, ChildWrites(o) PROVE PlaceInv'
    <3>1. pipe[o] \in Seq(Item) /\ <<o, written[o] + 1>> \in Item
      <4>1. pipe[o] \in Seq(Item) /\ written[o] + 1 \in Nat
        BY DEF LineTypes
      <4> QED BY <4>1 DEF Item
    <3>2. Len(Append(pipe[o], <<o, written[o] + 1>>)) = Len(pipe[o]) + 1 /\ Len(pipe[o]) \in Nat
      BY <1>a, <3>1
    <3>3. Len(Append(pipe[o], <<o, written[o] + 1>>)) <= PipeCap
      BY <1>b, <2>1, <3>2 DEF ChildWrites
    <3>4. pipe' = [pipe EXCEPT ![o] = Append(pipe[o], <<o, written[o] + 1>>)]
      BY <2>1 DEF ChildWrites
    <3>5. \A q \in Output : Len(pipe'[q]) <= PipeCap
      BY <3>3, <3>4 DEF PlaceInv, LineTypes
    <3> QED BY <2>1, <3>5 DEF ChildWrites, PlaceInv
  <2> QED BY <1>2, <2>1 DEF Child, ChildExits, ChildWritesBroken, PlaceInv
<1>3. CASE Spawn \/ SpawnFails \/ StdoutError \/ StdoutEnds \/ JoinStderr \/ RunStepEnds
  <2>1. UNCHANGED faults \/ Fault
    BY <1>3, DroppedIs
       DEF Spawn, SpawnFails, StdoutError, StdoutEnds, JoinStderr, RunStepEnds
  <2>2. faults' \in 0..MaxFaults
    BY <1>b, <2>1 DEF Fault, PlaceInv
  <2> QED BY <1>3, <2>2
          DEF Spawn, SpawnFails, StdoutError, StdoutEnds, JoinStderr, RunStepEnds, PlaceInv
<1>4. CASE SendLine
  <2>1. Head(held) \in Item /\ chan \in Seq(Item)
    BY <1>4, HeadTailProperties DEF SendLine, LineTypes
  <2>2. Len(chan') <= ChanCap
    BY <1>4, <1>a, <1>b, <2>1 DEF SendLine
  <2> QED BY <1>4, <2>2 DEF SendLine, PlaceInv
<1>5. CASE ReadStdout \/ ReadStderr
  <2>1. PICK o \in Output : pipe[o] # <<>> /\ pipe' = [pipe EXCEPT ![o] = Tail(pipe[o])]
    BY <1>5, <1>o DEF ReadStdout, ReadStderr
  <2>2. Len(Tail(pipe[o])) = Len(pipe[o]) - 1 /\ Len(pipe[o]) \in Nat
    BY <1>h, <2>1 DEF LineTypes
  <2>3. Len(Tail(pipe[o])) <= PipeCap
    BY <1>b, <2>2 DEF PlaceInv
  <2>4. \A q \in Output : Len(pipe'[q]) <= PipeCap
    BY <2>1, <2>3 DEF PlaceInv, LineTypes
  <2> QED BY <1>5, <2>4 DEF ReadStdout, ReadStderr, PlaceInv
<1>6. CASE Receive
  <2>1. Len(chan') <= ChanCap
    BY <1>6, <1>h, <1>b DEF Receive, PlaceInv, LineTypes
  <2> QED BY <1>6, <2>1 DEF Receive, PlaceInv
<1>7. CASE StderrEnds \/ PostBatch \/ Posted \/ ConsumerEnds \/ Agent
  BY <1>7 DEF StderrEnds, PostBatch, Posted, ConsumerEnds, Agent, PostMark, Report,
              PlaceInv
<1>8. CASE Insert \/ InsertFails \/ LosePost \/ InsertStray
  BY <1>8, <1>b DEF Insert, InsertFails, LosePost, InsertStray, Fault, PlaceInv
<1>9. CASE OpenPage \/ ShowPage \/ PageTrouble
  <2>1. /\ UNCHANGED noView
        /\ \/ UNCHANGED faults
           \/ Fault
        /\ \/ Page!Open \/ Page!GetRun \/ Page!GetLogs \/ Page!StreamRead \/ Page!StreamCheck
           \/ Page!StreamReadFails \/ Page!StreamCheckFails \/ Page!Break
    BY <1>9 DEF OpenPage, ShowPage, PageTrouble, Page!ui_run, Page!stream_logs, noView
  <2>2. /\ page' \in {"shut", "run", "logs", "read", "check", "settled", "broken"}
        /\ was' \in {"live", "over"}
    BY <2>1 DEF Page!Open, Page!GetRun, Page!GetLogs, Page!StreamRead, Page!StreamCheck,
                Page!StreamReadFails, Page!StreamCheckFails, Page!Break, Page!Reload,
                Page!Move, PlaceInv
  <2>3. faults' \in 0..MaxFaults
    BY <1>b, <2>1 DEF Fault, PlaceInv
  <2> QED BY <2>1, <2>2, <2>3 DEF noView, PlaceInv
<1> QED
  BY <1>1, <1>2, <1>3, <1>4, <1>5, <1>6, <1>7, <1>8, <1>9
     DEF Next, run_step, StderrThread, Consumer

\* What may be left behind.
LeftType == envFile \in {"none", "cut", "there"} /\ stuck \subseteq {"jail", "file"}

LEMMA LeftTypeStep == LeftType /\ [Next]_vars => LeftType'
<1> SUFFICES ASSUME LeftType, [Next]_vars PROVE LeftType'
  OBVIOUS
<1> USE DEF LeftType
<1>1. CASE Spawn \/ SpawnFails
  BY <1>1 DEF Spawn, SpawnFails
<1>2. CASE StdoutError \/ RunStepEnds
  BY <1>2, DroppedIs DEF StdoutError, RunStepEnds
<1>3. CASE UNCHANGED <<envFile, stuck>>
  BY <1>3
<1>4. UNCHANGED <<envFile, stuck>> \/ Spawn \/ SpawnFails \/ StdoutError \/ RunStepEnds
  BY DEF vars, childVars, noView, Next, Child, ChildWrites, ChildWritesBroken, ChildExits,
         run_step, SendLine, ReadStdout, StdoutEnds, JoinStderr, StderrThread, ReadStderr,
         StderrEnds, Consumer, Receive, PostBatch, Posted, ConsumerEnds, Agent,
         PostMark, Report, Insert, InsertFails, LosePost, InsertStray,
         OpenPage, ShowPage, PageTrouble
<1> QED BY <1>1, <1>2, <1>3, <1>4

(***************************************************************************)
(* The page.                                                               *)
(***************************************************************************)

\* What the page shows is a beginning of the log; once it is settled, the log
\* grows no more.
PageInv ==
  /\ rendered \in Seq(Item) /\ streamed \in Seq(Item)
  /\ Starts(rendered, log) /\ Starts(streamed, log)
  /\ faults = 0 =>
       /\ page = "check" => Starts(rendered, streamed)
       /\ was = "over" /\ page \in {"logs", "settled"} => agent = "reported"
       /\ page = "settled" => was = "over" /\ rendered = log

LEMMA PageInit == Init => PageInv
<1>1. <<>> \in Seq(Item) /\ Starts(<<>>, <<>>)
  BY EmptySeq, StartsFacts, Zenon
<1> QED BY <1>1 DEF Init, Page!Init, PageInv

\* The stream sends what the page does not have.
LEMMA CatchUp ==
  ASSUME NEW s \in Seq(Item), NEW t \in Seq(Item), Starts(s, t)
  PROVE s \o SubSeq(t, Len(s) + 1, Len(t)) = t
<1>1. PICK u \in Seq(Item) : t = s \o u
  BY DEF Starts
<1>2. /\ Len(s) \in Nat /\ Len(u) \in Nat /\ Len(t) \in Nat
      /\ Len(t) = Len(s) + Len(u)
      /\ \A i \in 1..(Len(s) + Len(u)) : t[i] = IF i <= Len(s) THEN s[i] ELSE u[i - Len(s)]
  BY <1>1, LenProperties, ConcatProperties
<1>3. PICK m \in Int : m = Len(s) + 1
  BY <1>2
<1>4. PICK v : v = SubSeq(t, m, Len(t))
  OBVIOUS
<1>5. \A i \in m..Len(t) : t[i] \in Item
  <2>1. \A i \in 1..Len(t) : t[i] \in Item
    BY ElementOfSeq
  <2> QED BY <1>2, <1>3, <2>1
<1>6. /\ v \in Seq(Item)
      /\ Len(v) = IF m <= Len(t) THEN Len(t) - m + 1 ELSE 0
      /\ \A i \in 1..(Len(t) - m + 1) : v[i] = t[m + i - 1]
  <2>1. Len(t) \in Int
    BY <1>2
  <2> QED BY <1>4, <1>5, <2>1, SubSeqProperties
<1>7. Len(v) = Len(u)
  BY <1>2, <1>3, <1>6
<1>8. \A i \in 1..Len(v) : v[i] = u[i]
  <2>1. ASSUME NEW i \in 1..Len(v) PROVE v[i] = u[i]
    <3>1. i \in 1..(Len(t) - m + 1) /\ m + i - 1 = Len(s) + i
      BY <1>2, <1>3, <1>7
    <3>2. Len(s) + i \in 1..(Len(s) + Len(u)) /\ ~(Len(s) + i <= Len(s)) /\ Len(s) + i - Len(s) = i
      BY <1>2, <1>7
    <3>3. v[i] = t[Len(s) + i]
      BY <1>6, <3>1
    <3>4. t[Len(s) + i] = u[Len(s) + i - Len(s)]
      BY <1>2, <3>2
    <3> QED BY <3>2, <3>3, <3>4
  <2> QED BY <2>1
<1>9. v = u
  BY <1>6, <1>7, <1>8, SeqEqual
<1> QED BY <1>1, <1>3, <1>4, <1>9

LEMMA PageStep ==
  ASSUME LineTypes, LineTypes', ControlInv, QuietInv, WholeInv, PageInv, [Next]_vars
  PROVE PageInv'
<1> USE DEF script, childVars, mainVars, errVars, consVars, serverVars, viewVars
<1>l. log \in Seq(Item) /\ log' \in Seq(Item)
  BY DEF LineTypes
<1>d. Dropped => UNCHANGED faults \/ Fault
  BY DroppedIs
<1>f. faults' = 0 => faults = 0
  BY <1>d DEF WholeInv, vars, Next, Child, ChildWrites, ChildWritesBroken, ChildExits,
         run_step, Spawn, SpawnFails, SendLine, ReadStdout, StdoutError,
         StdoutEnds, JoinStderr, RunStepEnds, StderrThread, ReadStderr,
         StderrEnds, Consumer, Receive, PostBatch, Posted, ConsumerEnds, Agent,
         PostMark, Report, Insert, InsertFails, LosePost, Fault, InsertStray,
         OpenPage, ShowPage, PageTrouble
<1>1. CASE OpenPage \/ ShowPage \/ PageTrouble
  <2>1. /\ UNCHANGED noView /\ faults' \in Nat
        /\ \/ /\ UNCHANGED faults
              /\ Page!Open \/ Page!GetRun \/ Page!GetLogs \/ Page!StreamRead \/ Page!StreamCheck
           \/ /\ faults' # 0
              /\ Page!StreamReadFails \/ Page!StreamCheckFails \/ Page!Break
    BY <1>1 DEF OpenPage, ShowPage, PageTrouble, Page!ui_run, Page!stream_logs, noView,
                Fault, WholeInv
  <2>2. log' = log /\ agent' = agent
    BY <2>1 DEF noView
  <2>3. <<>> \in Seq(Item) /\ Starts(<<>>, log) /\ Starts(log, log)
    BY <1>l, EmptySeq, StartsFacts, Zenon
  <2>4. CASE Page!Open \/ Page!GetRun
    BY <2>1, <2>2, <2>4 DEF PageInv, Page!Open, Page!GetRun, Page!Move
  <2>5. CASE Page!GetLogs
    BY <1>f, <1>l, <2>2, <2>3, <2>5 DEF PageInv, Page!GetLogs, Page!Move
  <2>6. CASE Page!StreamRead
    <3>1. streamed' = log
      BY <1>l, <2>6, CatchUp DEF PageInv, Page!StreamRead
    <3> QED BY <1>f, <1>l, <2>2, <2>3, <2>6, <3>1 DEF PageInv, Page!StreamRead, Page!Move
  <2>7. CASE Page!StreamCheck \/ Page!StreamCheckFails
    BY <1>f, <2>2, <2>3, <2>7
       DEF PageInv, Page!StreamCheck, Page!StreamCheckFails, Page!Reload, Page!Move
  <2>8. CASE Page!StreamReadFails \/ Page!Break
    <3>1. CASE faults' # 0
      BY <2>2, <2>8, <3>1 DEF PageInv, Page!StreamReadFails, Page!Break, Page!Move
    <3>2. CASE Page!Open \/ Page!GetRun \/ Page!GetLogs \/ Page!StreamRead \/ Page!StreamCheck
      BY <2>4, <2>5, <2>6, <2>7, <3>2
    <3> QED BY <2>1, <3>1, <3>2
  <2> QED BY <2>1, <2>4, <2>5, <2>6, <2>7, <2>8
<1>2. CASE Insert \/ InsertStray
  <2>1. UNCHANGED <<page, was, rendered, streamed, agent, faults>>
    BY <1>2 DEF Insert, InsertStray
  <2>2. \/ log' = log
        \/ \E e \in Item : log' = Append(log, e)
    BY <1>2, HeadTailProperties DEF Insert, InsertStray, LineTypes
  <2>3. Starts(rendered, log') /\ Starts(streamed, log')
    <3>1. /\ rendered \in Seq(Item) /\ streamed \in Seq(Item)
          /\ Starts(rendered, log) /\ Starts(streamed, log)
      BY DEF PageInv
    <3>2. CASE log' = log
      BY <3>1, <3>2
    <3>3. ASSUME NEW e \in Item, log' = Append(log, e)
          PROVE Starts(rendered, log') /\ Starts(streamed, log')
      <4>1. Starts(rendered, Append(log, e)) /\ Starts(streamed, Append(log, e))
        BY <1>l, <3>1, StartsFacts, Zenon
      <4> QED BY <3>3, <4>1
    <3> QED BY <2>2, <3>2, <3>3
  <2>4. faults = 0 /\ page = "settled" => FALSE
    BY <1>2 DEF PageInv, WholeInv, QuietInv, Insert, InsertStray
  <2> QED BY <2>1, <2>3, <2>4 DEF PageInv
<1>3. CASE ~(OpenPage \/ ShowPage \/ PageTrouble \/ Insert \/ InsertStray)
  <2>1. UNCHANGED <<page, was, rendered, streamed, log>>
    BY <1>3 DEF vars, Next, Child, ChildWrites, ChildWritesBroken, ChildExits,
         run_step, Spawn, SpawnFails, SendLine, ReadStdout, StdoutError,
         StdoutEnds, JoinStderr, RunStepEnds, StderrThread, ReadStderr,
         StderrEnds, Consumer, Receive, PostBatch, Posted, ConsumerEnds, Agent,
         PostMark, Report, InsertFails, LosePost
  <2>2. agent = "reported" => agent' = "reported"
    BY <1>3 DEF vars, Next, Child, ChildWrites, ChildWritesBroken, ChildExits,
         run_step, Spawn, SpawnFails, SendLine, ReadStdout, StdoutError,
         StdoutEnds, JoinStderr, RunStepEnds, StderrThread, ReadStderr,
         StderrEnds, Consumer, Receive, PostBatch, Posted, ConsumerEnds, Agent,
         PostMark, Report, InsertFails, LosePost
  <2> QED BY <1>f, <2>1, <2>2 DEF PageInv
<1> QED BY <1>1, <1>2, <1>3

(***************************************************************************)
(* The theorems.                                                           *)
(***************************************************************************)

StepInv ==
  /\ LineTypes /\ ControlInv /\ QuietInv
  /\ ScriptInv /\ ErrInv /\ WholeInv
  /\ PlaceInv /\ PageInv

LEMMA StepInvariance == Spec => []StepInv
<1>1. Init => StepInv
  BY ControlInit, QuietInit, ScriptInit, WholeInit, PlaceInit, PageInit DEF StepInv
<1>2. StepInv /\ [Next]_vars => StepInv'
  <2> SUFFICES ASSUME StepInv, [Next]_vars PROVE StepInv'
    OBVIOUS
  <2>1. LineTypes' /\ ControlInv' /\ QuietInv'
    BY ControlStep, QuietStep DEF StepInv
  <2>2. ScriptInv' /\ ErrInv'
    BY ScriptStep, ErrStep DEF StepInv
  <2>3. WholeInv' /\ PlaceInv' /\ PageInv'
    BY <2>1, <2>2, WholeStep, PlaceStep, PageStep DEF StepInv
  <2> QED BY <2>1, <2>2, <2>3 DEF StepInv
<1> QED BY <1>1, <1>2, PTL DEF Spec

\* Whatever the script writes and however threads and tasks take turns: as
\* long as no post and no INSERT fails, the log of a step is its output,
\* complete when the step is reported.
THEOREM LogKeepsOutput == Spec => []LogIsOutput
<1>1. StepInv => LogIsOutput
  <2> SUFFICES ASSUME StepInv, faults = 0
               PROVE /\ main # "spawn" => IsPrefix(log, Expected)
                     /\ agent = "reported" => log = Expected
    BY DEF LogIsOutput
  <2>1. log \in Seq(Item) /\ Expected \in Seq(Item)
    <3>1. Body \in Seq(Item) /\ Expected = Append(Body, Mark) /\ Mark \in Item
      BY ExpectedIs DEF StepInv, Item
    <3>2. Append(Body, Mark) \in Seq(Item)
      BY <3>1
    <3> QED BY <3>1, <3>2 DEF StepInv, LineTypes
  <2>2. CASE main = "spawn"
    BY <2>2 DEF StepInv, ControlInv
  <2>3. CASE main # "spawn"
    <3>1. main \in {"stdout", "join", "stderr", "ended"}
      BY <2>3 DEF StepInv, PlaceInv
    <3>2. Starts(log, Expected) /\ (agent = "reported" => log = Expected)
      BY <3>1, SentIsOutput DEF StepInv, WholeInv
    <3> QED BY <2>1, <3>2, StartsIsPrefix
  <2> QED BY <2>2, <2>3
<1> QED BY <1>1, StepInvariance, PTL

\* The page shows nothing but the log, and the whole output once it is served
\* after the end.
THEOREM PageShowsLog == Spec => []PageIsLog
<1>1. StepInv => PageIsLog
  <2> SUFFICES ASSUME StepInv PROVE PageIsLog
    OBVIOUS
  <2>1. log \in Seq(Item) /\ rendered \in Seq(Item) /\ streamed \in Seq(Item)
    BY DEF StepInv, LineTypes, PageInv
  <2>2. IsPrefix(rendered, log) /\ IsPrefix(streamed, log)
    BY <2>1, StartsIsPrefix DEF StepInv, PageInv
  <2>3. ASSUME faults = 0, page = "check" PROVE IsPrefix(rendered, streamed)
    BY <2>1, <2>3, StartsIsPrefix DEF StepInv, PageInv
  <2>4. ASSUME faults = 0, page = "settled" PROVE rendered = Expected
    <3>1. agent = "reported" /\ rendered = log
      BY <2>4 DEF StepInv, PageInv
    <3>2. main = "ended"
      BY <3>1 DEF StepInv, ControlInv
    <3> QED BY <2>4, <3>1, <3>2, SentIsOutput DEF StepInv, WholeInv
  <2> QED BY <2>2, <2>3, <2>4 DEF PageIsLog
<1> QED BY <1>1, StepInvariance, PTL

(***************************************************************************)
(* Types.                                                                  *)
(***************************************************************************)

\* No line has a number beyond MaxLines.
NumberInv ==
  /\ pipe \in [Output -> Seq(Line)]
  /\ {held, errLines, chan, batch} \subseteq Seq(Line)
  /\ {req, stray, log} \subseteq Seq(Line \cup {Mark})

LEMMA NumberInit == Init => NumberInv
  BY EmptySeq DEF Init, NumberInv, Output

LEMMA NumberStep ==
  ASSUME LineTypes, ScriptInv, PlaceInv, NumberInv, [Next]_vars
  PROVE NumberInv'
<1> USE DEF script, childVars, mainVars, errVars, consVars, serverVars
<1> DEFINE Logged == Line \cup {Mark}
<1>h. /\ \A s \in Seq(Line) : s # <<>> => Head(s) \in Line /\ Tail(s) \in Seq(Line)
      /\ \A s \in Seq(Logged) : s # <<>> => Head(s) \in Logged /\ Tail(s) \in Seq(Logged)
  BY HeadTailProperties
<1>a. /\ \A s \in Seq(Line) : \A e \in Line : Append(s, e) \in Seq(Line) /\ <<e>> \in Seq(Line)
      /\ \A s \in Seq(Logged) : \A e \in Logged : Append(s, e) \in Seq(Logged)
      /\ \A s, t \in Seq(Logged) : s \o t \in Seq(Logged)
  BY AppendProperties, ConcatProperties
<1>e. /\ <<>> \in Seq(Line) /\ <<>> \in Seq(Logged) /\ <<Mark>> \in Seq(Logged)
      /\ \A s \in Seq(Line) : s \in Seq(Logged)
  BY EmptySeq, SeqMonotonic
<1>o. "out" \in Output /\ "err" \in Output /\ "out" # "err"
  BY DEF Output
<1>t. /\ pipe \in [Output -> Seq(Line)]
      /\ held \in Seq(Line) /\ errLines \in Seq(Line) /\ chan \in Seq(Line)
      /\ batch \in Seq(Line)
      /\ req \in Seq(Logged) /\ stray \in Seq(Logged) /\ log \in Seq(Logged)
  BY DEF NumberInv
<1> SUFFICES /\ pipe' \in [Output -> Seq(Line)]
             /\ held' \in Seq(Line) /\ errLines' \in Seq(Line) /\ chan' \in Seq(Line)
             /\ batch' \in Seq(Line)
             /\ req' \in Seq(Logged) /\ stray' \in Seq(Logged) /\ log' \in Seq(Logged)
  BY DEF NumberInv
<1> HIDE DEF Logged
<1>1. CASE UNCHANGED vars \/ OpenPage \/ ShowPage \/ PageTrouble
  BY <1>t, <1>1 DEF vars, OpenPage, ShowPage, PageTrouble, noView
<1>2. ASSUME NEW o \in Output, ChildWrites(o) PROVE pipe' \in [Output -> Seq(Line)]
  <2>1. written[o] + 1 \in 1..MaxLines
    <3>1. /\ written[o] \in Nat /\ total[o] \in 0..MaxLines /\ written[o] < total[o]
          /\ MaxLines \in Nat
      BY <1>2, BoundsAssumption DEF ChildWrites, LineTypes, PlaceInv
    <3> QED BY <3>1
  <2>2. <<o, written[o] + 1>> \in Line
    BY <2>1 DEF Line
  <2>3. Append(pipe[o], <<o, written[o] + 1>>) \in Seq(Line)
    BY <1>t, <1>a, <2>2
  <2> QED BY <1>2, <1>t, <2>3 DEF ChildWrites
<1>3. CASE Child
  <2>1. UNCHANGED <<held, errLines, chan, batch, req, stray, log>>
    BY <1>3 DEF Child, ChildExits, ChildWrites, ChildWritesBroken
  <2>2. pipe' \in [Output -> Seq(Line)]
    BY <1>2, <1>3, <1>t DEF Child, ChildExits, ChildWritesBroken
  <2> QED BY <1>t, <2>1, <2>2
<1>4. CASE Spawn \/ SpawnFails \/ StdoutError \/ StdoutEnds \/ JoinStderr \/ RunStepEnds
  BY <1>t, <1>e, <1>4 DEF Spawn, SpawnFails, StdoutError, StdoutEnds, JoinStderr, RunStepEnds
<1>5. CASE SendLine \/ Receive
  <2>1. CASE SendLine
    <3>1. Head(held) \in Line /\ Tail(held) \in Seq(Line)
      BY <1>t, <1>h, <2>1 DEF SendLine
    <3>2. Append(chan, Head(held)) \in Seq(Line)
      BY <1>t, <1>a, <3>1
    <3> QED BY <1>t, <2>1, <3>1, <3>2 DEF SendLine
  <2>2. CASE Receive
    <3>1. Head(chan) \in Line /\ Tail(chan) \in Seq(Line)
      BY <1>t, <1>h, <2>2 DEF Receive
    <3>2. Append(batch, Head(chan)) \in Seq(Line)
      BY <1>t, <1>a, <3>1
    <3> QED BY <1>t, <2>2, <3>1, <3>2 DEF Receive
  <2> QED BY <1>5, <2>1, <2>2
<1>6. CASE ReadStdout
  <2>1. Head(pipe["out"]) \in Line /\ Tail(pipe["out"]) \in Seq(Line)
    BY <1>t, <1>h, <1>o, <1>6 DEF ReadStdout
  <2>2. <<Head(pipe["out"])>> \in Seq(Line)
    BY <1>a, <1>e, <2>1
  <2> QED BY <1>t, <1>6, <2>1, <2>2 DEF ReadStdout
<1>7. CASE ReadStderr
  <2>1. Head(pipe["err"]) \in Line /\ Tail(pipe["err"]) \in Seq(Line)
    BY <1>t, <1>h, <1>o, <1>7 DEF ReadStderr
  <2>2. Append(errLines, Head(pipe["err"])) \in Seq(Line)
    BY <1>t, <1>a, <2>1
  <2> QED BY <1>t, <1>7, <2>1, <2>2 DEF ReadStderr
<1>8. CASE StderrEnds \/ PostBatch \/ Posted \/ ConsumerEnds \/ Agent
  BY <1>t, <1>e, <1>8 DEF StderrEnds, PostBatch, Posted, ConsumerEnds, Agent, PostMark, Report
<1>9. CASE Insert \/ InsertFails
  <2>1. CASE Insert
    <3>1. Head(req) \in Logged /\ Tail(req) \in Seq(Logged)
      BY <1>t, <1>h, <2>1 DEF Insert
    <3>2. Append(log, Head(req)) \in Seq(Logged)
      BY <1>t, <1>a, <3>1
    <3> QED BY <1>t, <2>1, <3>1, <3>2 DEF Insert
  <2>2. CASE InsertFails
    BY <1>t, <1>e, <2>2 DEF InsertFails
  <2> QED BY <1>9, <2>1, <2>2
<1>10. CASE LosePost
  <2>1. stray \o req \in Seq(Logged)
    BY <1>t, <1>a
  <2> QED BY <1>t, <1>e, <1>10, <2>1 DEF LosePost
<1>11. CASE InsertStray
  <2>1. Head(stray) \in Logged /\ Tail(stray) \in Seq(Logged)
    BY <1>t, <1>h, <1>11 DEF InsertStray
  <2>2. Append(log, Head(stray)) \in Seq(Logged)
    BY <1>t, <1>a, <2>1
  <2> QED BY <1>t, <1>e, <1>11, <2>1, <2>2 DEF InsertStray
<1> QED
  BY <1>1, <1>3, <1>4, <1>5, <1>6, <1>7, <1>8, <1>9, <1>10, <1>11
     DEF Next, run_step, StderrThread, Consumer

LEMMA StartHasRange ==
  ASSUME NEW s \in Seq(Item), NEW t \in Seq(Item), Starts(s, t)
  PROVE s \in Seq(Range(t))
<1>1. PICK u \in Seq(Item) : t = s \o u
  BY DEF Starts
<1>2. /\ Len(s) \in Nat /\ Len(u) \in Nat /\ Len(t) = Len(s) + Len(u)
      /\ \A i \in 1..(Len(s) + Len(u)) : t[i] = IF i <= Len(s) THEN s[i] ELSE u[i - Len(s)]
  BY <1>1, LenProperties, ConcatProperties
<1>3. DOMAIN t = 1..Len(t) /\ s \in [1..Len(s) -> Item]
  BY LenProperties
<1>4. \A i \in 1..Len(s) : s[i] = t[i] /\ i \in DOMAIN t
  BY <1>2, <1>3
<1>5. \A i \in 1..Len(s) : s[i] \in Range(t)
  BY <1>4 DEF Range
<1>6. s \in [1..Len(s) -> Range(t)]
  BY <1>3, <1>5
<1> QED BY <1>2, <1>6, IsASeq

\* Type correctness, with the capacities of the pipes and the channel.
THEOREM StepTypes == Spec => []TypeOK
<1>1. StepInv /\ NumberInv /\ [Next]_vars => NumberInv'
  BY NumberStep DEF StepInv
<1>2. StepInv /\ NumberInv /\ LeftType => TypeOK
  <2> SUFFICES ASSUME StepInv, NumberInv, LeftType PROVE TypeOK
    OBVIOUS
  <2>1. rendered \in Seq(Range(log)) /\ streamed \in Seq(Range(log))
    BY StartHasRange DEF StepInv, PageInv, LineTypes
  <2>2. Page!TypeOK
    BY <2>1 DEF Page!TypeOK, Page!Range, Range, StepInv, PlaceInv
  <2>3. \A o \in Output : written[o] \in 0..total[o] /\ bad[o] \in 0..total[o]
    BY DEF StepInv, ScriptInv, LineTypes
  <2>4. envFile \in {"none", "cut", "there"} /\ stuck \subseteq {"jail", "file"}
    BY DEF LeftType
  <2> QED BY <2>2, <2>3, <2>4 DEF TypeOK, StepInv, NumberInv, PlaceInv, ScriptInv, ErrInv
<1>3. Init => LeftType
  BY DEF Init, LeftType
<1> QED BY <1>1, <1>2, <1>3, NumberInit, LeftTypeStep, StepInvariance, PTL DEF Spec
=============================================================================
