--------------------------- MODULE JobQueueProofs ---------------------------
(***************************************************************************)
(* Proofs about JobQueue, for any sets of agents, connections and runs and *)
(* any bounds.                                                             *)
(***************************************************************************)
EXTENDS JobQueue, TLAPS

Working(a) == apc[a] \notin {"poll", "waiting"}
Concluded(a) == apc[a] \in {"rejecting", "concluding", "teardown"}

\* What handlers and agents hold are runs, and verdicts were reached.
WorkInv ==
  /\ \A c \in Conns : hpc[c] \in {"update", "reply"} => hrun[c] \in Runs
  /\ \A a \in Agents : Working(a) => job[a] \in Runs
  /\ \A a \in Agents : Concluded(a) => verdict[a] \in reached[job[a]]
  /\ \A a \in Agents : apc[a] = "rejecting" => verdict[a] = "failure"

\* Rows are stamped before they are inserted, with times of the past.
StampInv ==
  \A r \in Runs : /\ createdAt[r] <= clock
                  /\ status[r] # "absent" => createdAt[r] > 0

\* Posts under way speak of claimed runs and of verdicts reached.
StrayInv ==
  \A m \in strays : /\ status[m.run] \notin Unclaimed
                    /\ m.status \in Terminal => m.status \in reached[m.run]

\* A row selected is a row inserted, and so is a row seen when stamping,
\* which moreover has the smaller created_at.
SeenInv ==
  /\ \A c \in Conns : hpc[c] = "update" => status[hrun[c]] # "absent"
  /\ \A r, q \in Runs : q \in before[r] =>
       status[q] # "absent" /\ createdAt[q] < createdAt[r]

\* Whatever was there before a selected row has left the queue.
SelectInv ==
  \A c \in Conns : hpc[c] = "update" =>
    \A q \in before[hrun[c]] : status[q] # "queued"

IInv ==
  /\ TypeOK
  /\ WorkInv
  /\ StampInv
  /\ StrayInv
  /\ SeenInv
  /\ SelectInv
  /\ SuccessIsEarned
  /\ HeldNotQueued
  /\ NoOvertaking

USE DEF Terminal, RunStatus, HandlerPC, AgentPC, Unclaimed, Stray

USE DEF serverVars, pollVars, agentVars, ghostVars

\* The initial state: an empty table, idle agents, free connections.
LEMMA InitInv == Init => IInv
  BY NoRunAssumption, NoAgentAssumption, BoundsAssumption
  DEF Init, IInv, TypeOK, WorkInv, Working, Concluded, StampInv, StrayInv,
      SeenInv, SelectInv, SuccessIsEarned, HeldNotQueued, Holds, NoOvertaking

\* A webhook or the build button stamps a run with a new, larger time.
LEMMA StampRunInv ==
  ASSUME IInv, NEW r \in Runs, StampRun(r)
  PROVE IInv'
  BY DEF StampRun,
      IInv, TypeOK, WorkInv, Working, Concluded, StampInv, StrayInv,
      SeenInv, SelectInv, SuccessIsEarned, HeldNotQueued, Holds, NoOvertaking

\* INSERT: the only step that makes a row queued, and it was absent.
LEMMA create_runInv ==
  ASSUME IInv, NEW r \in Runs, create_run(r)
  PROVE IInv'
  BY DEF create_run,
      IInv, TypeOK, WorkInv, Working, Concluded, StampInv, StrayInv,
      SeenInv, SelectInv, SuccessIsEarned, HeldNotQueued, Holds, NoOvertaking

\* An agent opens a poll.
LEMMA poll_jobInv ==
  ASSUME IInv, NEW a \in Agents, NEW c \in Conns, poll_job(a, c)
  PROVE IInv'
  BY DEF poll_job,
      IInv, TypeOK, WorkInv, Working, Concluded, StampInv, StrayInv,
      SeenInv, SelectInv, SuccessIsEarned, HeldNotQueued, Holds, NoOvertaking

\* The SELECT returns the queued row with the smallest created_at: a row seen
\* when that one was stamped has a smaller one, so it is not queued.
LEMMA ClaimSelectInv ==
  ASSUME IInv, NEW c \in Conns, ClaimSelect(c)
  PROVE IInv'
<1>1. UNCHANGED <<status, createdAt, clock, howner, apc, job, verdict,
                  reports, strays, faults, before, reached, starts, pollers>>
  BY DEF ClaimSelect
<1>2. CASE Queued = {} /\ hpc' = [hpc EXCEPT ![c] = "empty"]
             /\ UNCHANGED hrun
  BY <1>1, <1>2 DEF IInv, TypeOK, WorkInv, Working, Concluded, StampInv, StrayInv,
      SeenInv, SelectInv, SuccessIsEarned, HeldNotQueued, Holds, NoOvertaking
<1>3. ASSUME NEW r \in Runs, Oldest(r), hrun' = [hrun EXCEPT ![c] = r],
             hpc' = [hpc EXCEPT ![c] = "update"]
      PROVE IInv'
  <2>1. \A q \in before[r] : status[q] # "queued"
    <3>1. SUFFICES ASSUME NEW q \in before[r], status[q] = "queued"
                   PROVE FALSE
      OBVIOUS
    <3>2. q \in Runs /\ createdAt[q] < createdAt[r]
      BY <3>1 DEF IInv, TypeOK, SeenInv
    <3>3. createdAt[r] <= createdAt[q]
      BY <1>3, <3>1, <3>2 DEF Oldest, Queued
    <3> QED
      BY <3>2, <3>3 DEF IInv, TypeOK
  <2>2. status[r] = "queued"
    BY <1>3 DEF Oldest, Queued
  <2> QED
    BY <1>1, <1>3, <2>1, <2>2 DEF IInv, TypeOK, WorkInv, Working, Concluded, StampInv, StrayInv,
          SeenInv, SelectInv, SuccessIsEarned, HeldNotQueued, Holds, NoOvertaking
<1> QED
  BY <1>2, <1>3 DEF ClaimSelect

\* The UPDATE, whatever happened since the SELECT.
LEMMA ClaimUpdateInv ==
  ASSUME IInv, NEW c \in Conns, ClaimUpdate(c)
  PROVE IInv'
  BY DEF ClaimUpdate,
      IInv, TypeOK, WorkInv, Working, Concluded, StampInv, StrayInv,
      SeenInv, SelectInv, SuccessIsEarned, HeldNotQueued, Holds, NoOvertaking

\* The job is delivered, or dropped when nobody listens.
LEMMA PollReplyInv ==
  ASSUME IInv, NEW c \in Conns, PollReply(c)
  PROVE IInv'
  BY DEF PollReply, Release,
      IInv, TypeOK, WorkInv, Working, Concluded, StampInv, StrayInv,
      SeenInv, SelectInv, SuccessIsEarned, HeldNotQueued, Holds, NoOvertaking

\* Another round of the long poll.
LEMMA PollSleepInv ==
  ASSUME IInv, NEW c \in Conns, PollSleep(c)
  PROVE IInv'
  BY DEF PollSleep,
      IInv, TypeOK, WorkInv, Working, Concluded, StampInv, StrayInv,
      SeenInv, SelectInv, SuccessIsEarned, HeldNotQueued, Holds, NoOvertaking

\* A poll ends without a job: deadline, SQL error or lost connection.
LEMMA PollEndInv ==
  ASSUME IInv, NEW c \in Conns, PollTimeout(c) \/ PollDbError(c) \/ PollLost(c)
  PROVE IInv'
  BY DEF PollTimeout, PollDbError, PollLost, Release, BackToPoll, Fault,
      IInv, TypeOK, WorkInv, Working, Concluded, StampInv, StrayInv,
      SeenInv, SelectInv, SuccessIsEarned, HeldNotQueued, Holds, NoOvertaking

\* The agent's own steps, from the poll response to the teardown.
LEMMA AgentStepInv ==
  ASSUME IInv, NEW a \in Agents,
         \/ PrepareFail(a) \/ PrepareOk(a) \/ post_step_status(a)
         \/ post_run_status(a) \/ Teardown(a)
  PROVE IInv'
<1>1. CASE PrepareFail(a)
  BY <1>1 DEF PrepareFail, IInv, TypeOK, WorkInv, Working, Concluded, StampInv,
      StrayInv, SeenInv, SelectInv, SuccessIsEarned, HeldNotQueued, Holds,
      NoOvertaking
<1>2. CASE PrepareOk(a)
  BY <1>2 DEF PrepareOk, IInv, TypeOK, WorkInv, Working, Concluded, StampInv,
      StrayInv, SeenInv, SelectInv, SuccessIsEarned, HeldNotQueued, Holds,
      NoOvertaking
<1>3. CASE post_step_status(a)
  <2>1. TypeOK'
    BY <1>3 DEF post_step_status, IInv, TypeOK
  <2>2. WorkInv' /\ HeldNotQueued'
    BY <1>3 DEF post_step_status, IInv, TypeOK, WorkInv, Working, Concluded,
       HeldNotQueued, Holds
  <2>3. (StampInv /\ StrayInv /\ SeenInv /\ SelectInv /\ SuccessIsEarned
          /\ NoOvertaking)'
    BY <1>3 DEF post_step_status, IInv, StampInv, StrayInv, SeenInv,
       SelectInv, SuccessIsEarned, NoOvertaking
  <2> QED
    BY <2>1, <2>2, <2>3 DEF IInv
<1>4. CASE post_run_status(a)
  <2>1. PICK v \in Terminal :
          /\ verdict' = [verdict EXCEPT ![a] = v]
          /\ reached' = [reached EXCEPT ![job[a]] = @ \cup {v}]
    BY <1>4 DEF post_run_status
  <2>2. \A r \in Runs : reached[r] \subseteq reached'[r]
    BY <2>1 DEF IInv, TypeOK
  <2>3. TypeOK'
    BY <1>4, <2>1 DEF post_run_status, IInv, TypeOK
  <2>4. WorkInv'
    BY <1>4, <2>1, <2>2 DEF post_run_status, IInv, TypeOK, WorkInv, Working,
       Concluded
  <2>5. StrayInv' /\ SuccessIsEarned'
    BY <1>4, <2>2 DEF post_run_status, IInv, TypeOK, StrayInv,
       SuccessIsEarned
  <2>6. (StampInv /\ SeenInv /\ SelectInv /\ HeldNotQueued /\ NoOvertaking)'
    BY <1>4 DEF post_run_status, IInv, TypeOK, StampInv, SeenInv, SelectInv,
       HeldNotQueued, Holds, NoOvertaking
  <2> QED
    BY <2>3, <2>4, <2>5, <2>6 DEF IInv
<1>5. CASE Teardown(a)
  BY <1>5 DEF Teardown, IInv, TypeOK, WorkInv, Working, Concluded, StampInv,
      StrayInv, SeenInv, SelectInv, SuccessIsEarned, HeldNotQueued, Holds,
      NoOvertaking
<1> QED
  BY <1>1, <1>2, <1>3, <1>4, <1>5

\* What an agent posts speaks of a claimed run, and a result was reached.
LEMMA PostFacts ==
  ASSUME IInv, NEW a \in Agents, apc[a] \in Posting
  PROVE /\ job[a] \in Runs
        /\ status[job[a]] \notin Unclaimed
        /\ PostStatus(a) \in {"running"} \cup Terminal
        /\ PostStatus(a) \in Terminal => PostStatus(a) \in reached[job[a]]
  BY DEF Posting, PostStatus, IInv, TypeOK, WorkInv, Working, Concluded,
      HeldNotQueued, Holds

\* A post is handled: the row gets whatever status the post carries.
LEMMA PostHandledInv ==
  ASSUME IInv, NEW a \in Agents, PostHandled(a)
  PROVE IInv'
  BY PostFacts DEF PostHandled, update_run_status, Decoded, AfterPost, JobAfterPost, Posting,
      IInv, TypeOK, WorkInv, Working, Concluded, StampInv, StrayInv,
      SeenInv, SelectInv, SuccessIsEarned, HeldNotQueued, Holds, NoOvertaking

\* A post is lost, or left behind for later.
LEMMA PostLostInv ==
  ASSUME IInv, NEW a \in Agents, PostLost(a)
  PROVE IInv'
  BY PostFacts DEF PostLost, StrayPost, AfterPost, JobAfterPost, Posting, Fault,
      IInv, TypeOK, WorkInv, Working, Concluded, StampInv, StrayInv,
      SeenInv, SelectInv, SuccessIsEarned, HeldNotQueued, Holds, NoOvertaking

\* A post left behind arrives.
LEMMA StrayHandledInv ==
  ASSUME IInv, NEW m \in strays, StrayHandled(m)
  PROVE IInv'
  BY DEF StrayHandled, update_run_status, Decoded,
      IInv, TypeOK, WorkInv, Working, Concluded, StampInv, StrayInv,
      SeenInv, SelectInv, SuccessIsEarned, HeldNotQueued, Holds, NoOvertaking

\* The agent forgets its run.
LEMMA AgentCrashInv ==
  ASSUME IInv, NEW a \in Agents, AgentCrash(a)
  PROVE IInv'
  BY PostFacts DEF AgentCrash, StrayPost, Fault,
      IInv, TypeOK, WorkInv, Working, Concluded, StampInv, StrayInv,
      SeenInv, SelectInv, SuccessIsEarned, HeldNotQueued, Holds, NoOvertaking

\* The server forgets its requests.
LEMMA ServerCrashInv ==
  ASSUME IInv, ServerCrash
  PROVE IInv'
  BY DEF ServerCrash, AfterPost, JobAfterPost, Posting, Fault,
      IInv, TypeOK, WorkInv, Working, Concluded, StampInv, StrayInv,
      SeenInv, SelectInv, SuccessIsEarned, HeldNotQueued, Holds, NoOvertaking

\* IInv is inductive.
LEMMA NextInv == IInv /\ [Next]_vars => IInv'
<1> SUFFICES ASSUME IInv, [Next]_vars
             PROVE IInv'
  OBVIOUS
<1>1. CASE UNCHANGED vars
  BY <1>1 DEF vars, IInv, TypeOK, WorkInv, Working, Concluded, StampInv, StrayInv,
      SeenInv, SelectInv, SuccessIsEarned, HeldNotQueued, Holds, NoOvertaking
<1>2. ASSUME NEW r \in Runs, Ingest(r)
      PROVE IInv'
  BY <1>2, StampRunInv, create_runInv
  DEF Ingest, github_webhook, create_run_api
<1>3. ASSUME NEW c \in Conns, Handler(c)
      PROVE IInv'
  BY <1>3, ClaimSelectInv, ClaimUpdateInv, PollReplyInv, PollSleepInv,
     PollEndInv
  DEF Handler
<1>4. ASSUME NEW a \in Agents, run_loop(a)
      PROVE IInv'
  BY <1>4, poll_jobInv, AgentStepInv, PostHandledInv DEF run_loop
<1>5. ASSUME NEW m \in strays, StrayHandled(m)
      PROVE IInv'
  BY <1>5, StrayHandledInv
<1>6. CASE Faulty
  BY <1>6, PollEndInv, PostLostInv, AgentCrashInv, ServerCrashInv DEF Faulty
<1> QED
  BY <1>1, <1>2, <1>3, <1>4, <1>5, <1>6 DEF Next

LEMMA Invariance == Spec => []IInv
  BY InitInv, NextInv, PTL DEF Spec

\* Every variable keeps its type: in particular runs.status only ever holds
\* one of the words the server and the pages know.
THEOREM TypeCorrect == Spec => []TypeOK
  BY Invariance, PTL DEF IInv

\* No sequence of lost, late and repeated reports, crashes and racing claims
\* makes the table show a result that no agent reached for that run.
THEOREM ResultsAreEarned == Spec => []SuccessIsEarned
  BY Invariance, PTL DEF IInv

\* A run in the hands of an agent, or on its way there, is out of the queue.
THEOREM HeldRunsLeftQueue == Spec => []HeldNotQueued
  BY Invariance, PTL DEF IInv

\* The queue is first come, first served with any number of agents.
THEOREM FirstComeFirstServed == Spec => []NoOvertaking
  BY Invariance, PTL DEF IInv

\* One step: the UPDATE of a claim, of a report and of a late report all
\* write "running" or a result, and an INSERT finds no row.
LEMMA ClaimedStep ==
  ASSUME IInv, [Next]_vars, NEW r \in Runs, status[r] \notin Unclaimed
  PROVE status'[r] \notin Unclaimed
<1>1. CASE UNCHANGED vars
  BY <1>1 DEF vars
<1>2. ASSUME NEW q \in Runs, Ingest(q)
      PROVE status'[r] \notin Unclaimed
  BY <1>2 DEF IInv, TypeOK, Ingest, github_webhook, create_run_api,
     StampRun, create_run
<1>3. ASSUME NEW c \in Conns, Handler(c)
      PROVE status'[r] \notin Unclaimed
  BY <1>3 DEF IInv, TypeOK, Handler, ClaimSelect, ClaimUpdate, PollReply,
     PollSleep, PollTimeout
<1>4. ASSUME NEW a \in Agents, run_loop(a)
      PROVE status'[r] \notin Unclaimed
  <2>1. CASE PostHandled(a)
    BY <2>1, PostFacts DEF IInv, TypeOK, PostHandled, update_run_status, Decoded
  <2> QED
    BY <1>4, <2>1 DEF run_loop, poll_job, PrepareFail, PrepareOk,
       post_step_status, post_run_status, Teardown
<1>5. ASSUME NEW m \in strays, StrayHandled(m)
      PROVE status'[r] \notin Unclaimed
  BY <1>5 DEF IInv, TypeOK, StrayHandled, update_run_status, Decoded
<1>6. CASE Faulty
  BY <1>6 DEF Faulty, PollDbError, PollLost, PostLost, AgentCrash,
     ServerCrash
<1> QED
  BY <1>1, <1>2, <1>3, <1>4, <1>5, <1>6 DEF Next

\* A claimed row never goes back to the queue.
THEOREM ClaimedForGood == Spec => NeverRequeued
<1>1. ASSUME IInv, [Next]_vars
      PROVE [\A r \in Runs : status[r] \notin Unclaimed
                               => status'[r] \notin Unclaimed]_vars
  BY <1>1, ClaimedStep
<1> QED
  BY <1>1, Invariance, PTL DEF Spec, NeverRequeued

(***************************************************************************)
(* One agent.  The poll of a lost connection may survive on the server,    *)
(* but its reply goes nowhere, and the agent has one live poll at a time:  *)
(* this, not the two statements of the claim, is what keeps a run from     *)
(* being started twice.                                                    *)
(***************************************************************************)

\* An agent at the other end of a poll waits for it and has no other; it has
\* polled, and so has one with a run.
OwnerInv ==
  /\ \A c \in Conns : howner[c] # NoAgent =>
       /\ apc[howner[c]] = "waiting" /\ hpc[c] # "free"
       /\ howner[c] \in pollers
  /\ \A c, d \in Conns :
       howner[c] # NoAgent /\ howner[c] = howner[d] => c = d
  /\ \A a \in Agents : Working(a) => a \in pollers

\* A started run has left the queue; the live poll's run is not started.
StartInv ==
  /\ \A r \in Runs : starts[r] # 0 => status[r] \notin Unclaimed
  /\ Alone => \A c \in Conns :
       howner[c] # NoAgent /\ hpc[c] \in {"update", "reply"}
         => starts[hrun[c]] = 0

\* OwnerInv is inductive on its own account, whatever the number of agents.
LEMMA OwnerStep ==
  ASSUME IInv, OwnerInv, [Next]_vars
  PROVE OwnerInv'
<1> USE NoAgentAssumption DEF IInv, TypeOK, OwnerInv, Working
<1>1. CASE UNCHANGED vars
  BY <1>1 DEF vars
<1>2. ASSUME NEW r \in Runs, Ingest(r)
      PROVE OwnerInv'
  BY <1>2 DEF Ingest, github_webhook, create_run_api, StampRun, create_run
<1>3. ASSUME NEW c \in Conns, Handler(c)
      PROVE OwnerInv'
  <2>1. CASE ClaimSelect(c) \/ ClaimUpdate(c) \/ PollSleep(c)
    BY <2>1 DEF ClaimSelect, ClaimUpdate, PollSleep
  <2>2. CASE PollReply(c) \/ PollTimeout(c)
    BY <2>2 DEF PollReply, PollTimeout, Release, BackToPoll
  <2> QED
    BY <1>3, <2>1, <2>2 DEF Handler
<1>4. ASSUME NEW a \in Agents, run_loop(a)
      PROVE OwnerInv'
  <2>1. ASSUME NEW c \in Conns, poll_job(a, c)
        PROVE OwnerInv'
    BY <2>1 DEF poll_job
  <2>2. CASE PostHandled(a)
    BY <2>2 DEF PostHandled, Posting, AfterPost
  <2> QED
    BY <1>4, <2>1, <2>2 DEF run_loop, PrepareFail, PrepareOk,
       post_step_status, post_run_status, Teardown
<1>5. ASSUME NEW m \in strays, StrayHandled(m)
      PROVE OwnerInv'
  BY <1>5 DEF StrayHandled
<1>6. CASE Faulty
  <2>1. ASSUME NEW c \in Conns, PollDbError(c) \/ PollLost(c)
        PROVE OwnerInv'
    BY <2>1 DEF PollDbError, PollLost, Release, BackToPoll
  <2>2. ASSUME NEW a \in Agents, PostLost(a) \/ AgentCrash(a)
        PROVE OwnerInv'
    BY <2>2 DEF PostLost, AgentCrash, Posting, AfterPost
  <2>3. CASE ServerCrash
    BY <2>3 DEF ServerCrash, Posting, AfterPost
  <2> QED
    BY <1>6, <2>1, <2>2, <2>3 DEF Faulty
<1> QED
  BY <1>1, <1>2, <1>3, <1>4, <1>5, <1>6 DEF Next

LEMMA OwnerInvariance == Spec => []OwnerInv
<1>1. Init => OwnerInv
  BY DEF Init, OwnerInv, Working
<1> QED
  BY <1>1, OwnerStep, Invariance, PTL DEF Spec

\* Agents are only ever added to those that have polled.
LEMMA AloneStep ==
  ASSUME IInv, [Next]_vars, Alone'
  PROVE Alone
<1>1. pollers \subseteq pollers'
  BY DEF Next, vars, Ingest, github_webhook, create_run_api, StampRun,
     create_run, Handler, ClaimSelect, ClaimUpdate, PollReply, PollSleep,
     PollTimeout, run_loop, poll_job, PrepareFail, PrepareOk,
     post_step_status, post_run_status, PostHandled, Teardown, StrayHandled,
     Faulty, PollDbError, PollLost, PostLost, AgentCrash, ServerCrash
<1> QED
  BY <1>1 DEF Alone

\* With one agent every step keeps StartInv: only a live poll delivers, and
\* there is only one.
LEMMA StartStep ==
  ASSUME IInv, OwnerInv, StartInv, SoloStartedOnce, [Next]_vars
  PROVE StartInv' /\ SoloStartedOnce'
<1> USE NoAgentAssumption DEF IInv, TypeOK
<1>1. \A r \in Runs : status[r] \notin Unclaimed => status'[r] \notin Unclaimed
  BY ClaimedStep
<1>a. Alone' => Alone
  BY AloneStep
<1>2. ASSUME UNCHANGED starts,
             \A c \in Conns :
               howner'[c] # NoAgent /\ hpc'[c] \in {"update", "reply"} =>
                 /\ howner[c] # NoAgent
                 /\ hpc[c] \in {"update", "reply"}
                 /\ hrun'[c] = hrun[c]
      PROVE StartInv' /\ SoloStartedOnce'
  BY <1>1, <1>2, <1>a DEF StartInv, StartedOnce, SoloStartedOnce
<1>3. CASE UNCHANGED vars
  BY <1>2, <1>3 DEF vars
<1>4. ASSUME NEW r \in Runs, Ingest(r)
      PROVE StartInv' /\ SoloStartedOnce'
  BY <1>2, <1>4
  DEF Ingest, github_webhook, create_run_api, StampRun, create_run
<1>5. ASSUME NEW c \in Conns, ClaimSelect(c)
      PROVE StartInv' /\ SoloStartedOnce'
  BY <1>5, <1>a DEF ClaimSelect, Oldest, Queued, StartInv, StartedOnce,
     SoloStartedOnce
<1>6. ASSUME NEW c \in Conns, PollReply(c)
      PROVE StartInv' /\ SoloStartedOnce'
  <2>1. CASE howner[c] = NoAgent
    BY <1>2, <1>6, <2>1 DEF PollReply, Release
  <2>2. CASE howner[c] # NoAgent
    <3>1. Alone => \A d \in Conns : howner'[d] = NoAgent
      BY <1>6, <2>2 DEF PollReply, Release, OwnerInv, Alone
    <3>2. hrun[c] \in Runs /\ status[hrun[c]] \notin Unclaimed
      BY <1>6, <2>2 DEF PollReply, WorkInv, HeldNotQueued
    <3>3. Alone => starts[hrun[c]] = 0
      BY <1>6, <2>2 DEF PollReply, StartInv
    <3>4. starts' = [starts EXCEPT ![hrun[c]] = @ + 1]
           /\ UNCHANGED status
      BY <1>6, <2>2 DEF PollReply
    <3> QED
      BY <3>1, <3>2, <3>3, <3>4, <1>a DEF StartInv, StartedOnce,
         SoloStartedOnce
  <2> QED
    BY <2>1, <2>2
<1>7. ASSUME NEW c \in Conns,
             \/ ClaimUpdate(c) \/ PollSleep(c) \/ PollTimeout(c)
             \/ PollDbError(c) \/ PollLost(c)
      PROVE StartInv' /\ SoloStartedOnce'
  BY <1>2, <1>7
  DEF ClaimUpdate, PollSleep, PollTimeout, PollDbError, PollLost, Release
<1>8. ASSUME NEW a \in Agents, run_loop(a)
      PROVE StartInv' /\ SoloStartedOnce'
  <2>1. ASSUME NEW c \in Conns, poll_job(a, c)
        PROVE StartInv' /\ SoloStartedOnce'
    BY <1>2, <2>1 DEF poll_job
  <2> QED
    BY <1>2, <1>8, <2>1 DEF run_loop, PrepareFail, PrepareOk,
       post_step_status, post_run_status, Teardown, PostHandled
<1>9. ASSUME NEW m \in strays, StrayHandled(m)
      PROVE StartInv' /\ SoloStartedOnce'
  BY <1>2, <1>9 DEF StrayHandled
<1>10. ASSUME NEW a \in Agents, PostLost(a) \/ AgentCrash(a)
       PROVE StartInv' /\ SoloStartedOnce'
  BY <1>2, <1>10 DEF PostLost, AgentCrash
<1>11. CASE ServerCrash
  BY <1>2, <1>11 DEF ServerCrash
<1> QED
  BY <1>3, <1>4, <1>5, <1>6, <1>7, <1>8, <1>9, <1>10, <1>11
  DEF Next, Handler, Faulty

\* As long as a single agent has polled, a run is started at most once,
\* whatever is lost, late or crashed.  (With two it may be started twice.)
THEOREM SoloStartsOnce == Spec => []SoloStartedOnce
<1>1. Init => StartInv /\ SoloStartedOnce
  BY DEF Init, StartInv, StartedOnce, SoloStartedOnce
<1>2. IInv /\ OwnerInv /\ StartInv /\ SoloStartedOnce /\ [Next]_vars
        => (StartInv /\ SoloStartedOnce)'
  BY StartStep
<1> QED
  BY <1>1, <1>2, Invariance, OwnerInvariance, PTL DEF Spec

(***************************************************************************)
(* One agent and no faults: results are final.                             *)
(***************************************************************************)

\* Nothing is left behind, and the row agrees with whoever has the run.
QuietInv ==
  Calm =>
    /\ strays = {}
    /\ \A c \in Conns :
         /\ hpc[c] # "free" => howner[c] # NoAgent
         /\ hpc[c] = "update" => status[hrun[c]] = "queued"
         /\ hpc[c] = "reply" => status[hrun[c]] = "running"
    /\ \A a \in Agents : Working(a) /\ apc[a] # "teardown"
                           => status[job[a]] = "running"
    /\ \A a \in Agents : apc[a] = "teardown" => status[job[a]] = verdict[a]

\* A fault is the end of calm, and calm does not come back.
LEMMA CalmStep ==
  ASSUME IInv, [Next]_vars, Calm'
  PROVE Calm /\ ~Faulty
<1>1. Alone
  BY AloneStep DEF Calm
<1>2. ~Fault
  BY DEF IInv, TypeOK, Fault, Calm
<1>3. ~Faulty
  BY <1>2 DEF Faulty, PollDbError, PollLost, PostLost, AgentCrash, ServerCrash
<1>4. UNCHANGED faults
  BY <1>3 DEF Next, vars, Ingest, github_webhook, create_run_api, StampRun,
     create_run, Handler, ClaimSelect, ClaimUpdate, PollReply, PollSleep,
     PollTimeout, run_loop, poll_job, PrepareFail, PrepareOk,
     post_step_status, post_run_status, PostHandled, Teardown, StrayHandled
<1> QED
  BY <1>1, <1>3, <1>4 DEF Calm

\* In calm times every step keeps the rest of QuietInv and moves the table
\* along an edge of RunLifecycle or not at all.
LEMMA QuietStep ==
  ASSUME IInv, OwnerInv, QuietInv, [Next]_vars, Calm'
  PROVE /\ QuietInv'
        /\ \/ UNCHANGED status
           \/ \E r \in Runs : \/ Lifecycle!Submit(r) \/ Lifecycle!Claim(r)
                              \/ Lifecycle!Finish(r)
<1> DEFINE Move ==
      \/ UNCHANGED status
      \/ \E r \in Runs : \/ Lifecycle!Submit(r) \/ Lifecycle!Claim(r)
                         \/ Lifecycle!Finish(r)
<1> USE NoAgentAssumption
    DEF IInv, TypeOK, WorkInv, QuietInv, Working, Lifecycle!Submit,
        Lifecycle!Claim, Lifecycle!Finish, Lifecycle!Edge
<1>0. Calm /\ ~Faulty
  BY CalmStep
<1>1. CASE UNCHANGED vars
  BY <1>0, <1>1 DEF vars
<1>3. ASSUME NEW c \in Conns, hpc[c] # "free"
      PROVE /\ \A d \in Conns : d # c => hpc[d] = "free"
            /\ \A a \in Agents : ~Working(a)
  <2>1. howner[c] \in pollers /\ apc[howner[c]] = "waiting"
         /\ howner[c] \in Agents
    BY <1>0, <1>3 DEF OwnerInv
  <2>2. \A d \in Conns : d # c => hpc[d] = "free"
    BY <1>0, <1>3, <2>1 DEF OwnerInv, Calm, Alone
  <2>3. \A a \in Agents : ~Working(a)
    BY <1>0, <2>1 DEF OwnerInv, Calm, Alone
  <2> QED
    BY <2>2, <2>3
<1>4. ASSUME NEW r \in Runs, Ingest(r)
      PROVE QuietInv' /\ Move
  <2>1. CASE StampRun(r)
    BY <1>0, <2>1 DEF StampRun
  <2>2. CASE create_run(r)
    <3>1. \A q \in Runs : status[q] \in {"queued", "running"} \cup Terminal
                             => status'[q] = status[q]
      BY <2>2 DEF create_run
    <3>2. QuietInv'
      BY <1>0, <2>2, <3>1 DEF create_run, Concluded
    <3>3. Move
      BY <2>2 DEF create_run
    <3> QED
      BY <3>2, <3>3
  <2> QED
    BY <1>4, <2>1, <2>2 DEF Ingest, github_webhook, create_run_api
<1>5. ASSUME NEW c \in Conns, Handler(c)
      PROVE QuietInv' /\ Move
  <2>1. CASE ClaimSelect(c)
    BY <1>0, <2>1 DEF ClaimSelect, Oldest, Queued
  <2>2. CASE ClaimUpdate(c)
    <3>1. /\ \A d \in Conns : d # c => hpc[d] = "free"
          /\ \A a \in Agents : ~Working(a)
      BY <1>3, <2>2 DEF ClaimUpdate
    <3>2. QuietInv'
      BY <1>0, <2>2, <3>1 DEF ClaimUpdate
    <3>3. hrun[c] \in Runs /\ Lifecycle!Claim(hrun[c])
      BY <1>0, <2>2 DEF ClaimUpdate
    <3> QED
      BY <3>2, <3>3
  <2>3. CASE PollReply(c)
    BY <1>0, <1>3, <2>3 DEF PollReply, Release
  <2>4. CASE PollSleep(c) \/ PollTimeout(c)
    BY <1>0, <1>3, <2>4 DEF PollSleep, PollTimeout, Release, BackToPoll
  <2> QED
    BY <1>5, <2>1, <2>2, <2>3, <2>4 DEF Handler
<1>6. ASSUME NEW a \in Agents, run_loop(a)
      PROVE QuietInv' /\ Move
  <2>1. ASSUME NEW c \in Conns, poll_job(a, c)
        PROVE QuietInv' /\ Move
    BY <1>0, <2>1 DEF poll_job
  <2>2. CASE PrepareFail(a) \/ PrepareOk(a) \/ post_step_status(a)
    BY <1>0, <2>2 DEF PrepareFail, PrepareOk, post_step_status
  <2>3. CASE post_run_status(a)
    BY <1>0, <2>3 DEF post_run_status
  <2>4. CASE PostHandled(a)
    <3>1. \A c \in Conns : hpc[c] = "free"
      BY <1>3, <2>4 DEF PostHandled, Posting
    <3>2. \A b \in Agents : Working(b) => b = a
      BY <1>0, <2>4 DEF PostHandled, Posting, OwnerInv, Calm, Alone
    <3>3. job[a] \in Runs /\ status[job[a]] = "running"
           /\ PostStatus(a) \in {"running"} \cup Terminal
      BY <1>0, <2>4, PostFacts DEF PostHandled, Posting
    <3>4. status' = [status EXCEPT ![job[a]] = PostStatus(a)]
      BY <2>4, <3>3 DEF PostHandled, update_run_status, Decoded
    <3>5. Move
      <4>1. CASE PostStatus(a) = "running"
        BY <3>3, <3>4, <4>1
      <4>2. CASE PostStatus(a) \in Terminal
        <5>1. Lifecycle!Finish(job[a])
          BY <3>3, <3>4, <4>2
        <5> QED
          BY ONLY <3>3, <5>1
      <4> QED
        BY <3>3, <4>1, <4>2
    <3>6. QuietInv'
      <4>1. CASE apc[a] = "reporting"
        BY <1>0, <2>4, <3>1, <3>2, <3>3, <3>4, <4>1 DEF PostHandled,
           AfterPost, JobAfterPost, PostStatus
      <4>2. CASE apc[a] = "rejecting"
        BY <1>0, <2>4, <3>1, <3>2, <4>2 DEF PostHandled, AfterPost,
           JobAfterPost
      <4>3. CASE apc[a] = "concluding"
        BY <1>0, <2>4, <3>1, <3>2, <3>3, <3>4, <4>3 DEF PostHandled,
           AfterPost, JobAfterPost, PostStatus
      <4> QED
        BY <2>4, <4>1, <4>2, <4>3 DEF PostHandled, Posting
    <3> QED
      BY <3>5, <3>6
  <2>5. CASE Teardown(a)
    BY <1>0, <2>5 DEF Teardown
  <2> QED
    BY <1>6, <2>1, <2>2, <2>3, <2>4, <2>5 DEF run_loop
<1>7. ~(\E m \in strays : StrayHandled(m))
  BY <1>0
<1> QED
  BY <1>0, <1>1, <1>4, <1>5, <1>6, <1>7 DEF Next

\* A step that writes runs.status is neither a poll nor a fault: it leaves
\* calm alone and moves along an edge, or overwrites a claimed row.
LEMMA AnyMove ==
  ASSUME IInv, [Next]_vars, status' # status
  PROVE /\ UNCHANGED Calm
        /\ \E r \in Runs :
             \/ Lifecycle!Submit(r) \/ Lifecycle!Claim(r)
             \/ \E from, to \in Lifecycle!Claimed : Lifecycle!Edge(r, from, to)
<1> USE DEF Lifecycle!Submit, Lifecycle!Claim, Lifecycle!Claimed,
        Lifecycle!Edge, Calm, Alone, IInv, TypeOK
<1>1. ASSUME NEW r \in Runs, Ingest(r)
      PROVE UNCHANGED Calm /\ Lifecycle!Submit(r)
  BY <1>1 DEF Ingest, github_webhook, create_run_api, StampRun, create_run
<1>2. ASSUME NEW r \in Runs, NEW s \in {"running"} \cup Terminal,
             status[r] \notin Unclaimed,
             status' = [status EXCEPT ![r] = s]
      PROVE \E from, to \in Lifecycle!Claimed : Lifecycle!Edge(r, from, to)
  BY <1>2
<1>3. ASSUME NEW c \in Conns, Handler(c)
      PROVE /\ UNCHANGED Calm
            /\ hrun[c] \in Runs
            /\ \/ Lifecycle!Claim(hrun[c])
               \/ \E from, to \in Lifecycle!Claimed :
                    Lifecycle!Edge(hrun[c], from, to)
  <2>1. ClaimUpdate(c)
    BY <1>3 DEF Handler, ClaimSelect, PollReply, PollSleep, PollTimeout
  <2>2. hrun[c] \in Runs /\ status[hrun[c]] # "absent"
    BY <2>1 DEF ClaimUpdate, WorkInv, SeenInv
  <2>3. CASE status[hrun[c]] = "queued"
    BY <2>1, <2>2, <2>3 DEF ClaimUpdate
  <2>4. CASE status[hrun[c]] # "queued"
    BY <1>2, <2>1, <2>2, <2>4 DEF ClaimUpdate
  <2> QED
    BY <2>3, <2>4
<1>4. ASSUME NEW a \in Agents, run_loop(a)
      PROVE /\ UNCHANGED Calm
            /\ job[a] \in Runs
            /\ \E from, to \in Lifecycle!Claimed :
                 Lifecycle!Edge(job[a], from, to)
  <2>1. PostHandled(a)
    BY <1>4 DEF run_loop, poll_job, PrepareFail, PrepareOk,
       post_step_status, post_run_status, Teardown
  <2> QED
    BY <1>2, <2>1, PostFacts DEF PostHandled, update_run_status, Decoded
<1>5. ASSUME NEW m \in strays, StrayHandled(m)
      PROVE /\ UNCHANGED Calm
            /\ m.run \in Runs
            /\ \E from, to \in Lifecycle!Claimed :
                 Lifecycle!Edge(m.run, from, to)
  BY <1>2, <1>5 DEF StrayHandled, update_run_status, Decoded, StrayInv
<1>6. ~Faulty /\ ~UNCHANGED vars
  BY DEF vars, Faulty, PollDbError, PollLost, PostLost, AgentCrash, ServerCrash
<1> QED
  BY <1>1, <1>3, <1>4, <1>5, <1>6 DEF Next

\* So every step of the queue is a step in the life of a run, or none.
LEMMA LifecycleStep ==
  ASSUME IInv, OwnerInv, QuietInv, [Next]_vars
  PROVE QuietInv' /\ [Lifecycle!Next]_<<status, Calm>>
<1>1. CASE Calm'
  <2>1. Calm
    BY <1>1, CalmStep
  <2> QED
    BY <1>1, <2>1, QuietStep DEF Lifecycle!Next
<1>2. CASE ~Calm' /\ Calm
  <2>1. UNCHANGED status
    BY <1>2, AnyMove
  <2> QED
    BY <1>2, <2>1 DEF QuietInv, Lifecycle!Next, Lifecycle!Disturb, Calm
<1>3. CASE ~Calm' /\ ~Calm
  <2>1. Calm' = Calm
    BY <1>3 DEF Calm
  <2>2. CASE status' # status
    BY <1>3, <2>1, <2>2, AnyMove DEF Lifecycle!Next, Lifecycle!Overwrite,
       QuietInv
  <2> QED
    BY <1>3, <2>1, <2>2 DEF QuietInv
<1> QED
  BY <1>1, <1>2, <1>3

LEMMA QuietInit == Init => QuietInv /\ Lifecycle!Init
  BY DEF Init, QuietInv, Working, Lifecycle!Init, Calm, Alone

\* Every run goes queued, running, result, and what two agents or a fault
\* can do to a row is to overwrite it once it is claimed.
THEOREM QueueImplementsLifecycle == Spec => ImplementsLifecycle
<1>1. IInv /\ OwnerInv /\ QuietInv /\ [Next]_vars
        => QuietInv' /\ [Lifecycle!Next]_<<status, Calm>>
  BY LifecycleStep
<1> QED
  BY <1>1, QuietInit, Invariance, OwnerInvariance, PTL
  DEF Spec, Lifecycle!Spec, ImplementsLifecycle

\* In calm times a result has been recorded when its workspace is torn down.
THEOREM CalmReportsBeforeTeardown == Spec => []ReportedAtTeardown
<1>1. IInv /\ OwnerInv /\ QuietInv /\ [Next]_vars => QuietInv'
  BY LifecycleStep
<1>2. QuietInv => ReportedAtTeardown
  BY DEF QuietInv, ReportedAtTeardown
<1> QED
  BY <1>1, <1>2, QuietInit, Invariance, OwnerInvariance, PTL DEF Spec

=============================================================================
