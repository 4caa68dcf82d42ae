------------------------------ MODULE JobQueue ------------------------------
(***************************************************************************)
(* The run queue: the `runs` table of the SQLite store, the server         *)
(* handlers that write it (webhook, manual run, long poll, status report)  *)
(* and the agents that poll it and report back.                            *)
(*                                                                         *)
(* Every store call is one atomic step (one SQL statement), so a handler   *)
(* that makes two of them can be interleaved with any other handler        *)
(* between them.  What the agent does inside a run is reduced to the       *)
(* number of step reports it posts and to the verdict it reaches.          *)
(*                                                                         *)
(* Faults (lost connections, failed SQL statements, crashes) are separate  *)
(* actions that together happen at most MaxFaults times.                   *)
(***************************************************************************)
EXTENDS Naturals

CONSTANTS Agents,      \* flowz-agent processes
          Conns,       \* connections that can carry a poll_job request
          Runs,        \* run ids (UUIDs)
          NoRun,       \* "no run"
          NoAgent,     \* a connection nobody listens to any more
          MaxReports,  \* bound: step reports an agent posts for one run
          MaxFaults    \* bound: faults in one behaviour

ASSUME NoRunAssumption == NoRun \notin Runs
ASSUME NoAgentAssumption == NoAgent \notin Agents
ASSUME BoundsAssumption == MaxReports \in Nat /\ MaxFaults \in Nat

VARIABLES
  status,     \* runs.status, "absent" before the INSERT
  createdAt,  \* runs.created_at as stamped by the handler, 0 before
  clock,      \* the server's clock
  hpc,        \* where the poll_job handler of a connection is
  hrun,       \* the row the handler's SELECT returned
  howner,     \* the agent waiting at the other end
  apc,        \* where an agent is
  job,        \* the run an agent works on
  verdict,    \* the outcome the agent has reached for it
  reports,    \* step reports posted for it so far
  strays,     \* status posts the agent gave up on, not yet handled
  faults,     \* faults so far
  before,     \* ghost: the rows present when a run was stamped
  reached,    \* ghost: the verdicts agents really reached for a run
  starts,     \* ghost: how often an agent started to work on a run
  pollers     \* ghost: the agents that have polled so far

serverVars == <<status, createdAt, clock>>
pollVars   == <<hpc, hrun, howner>>
agentVars  == <<apc, job, verdict, reports>>
ghostVars  == <<before, reached, starts, pollers>>
vars == <<status, createdAt, clock, hpc, hrun, howner, apc, job, verdict,
          reports, strays, faults, before, reached, starts, pollers>>

Terminal == {"success", "failure"}
RunStatus == {"absent", "queued", "running"} \cup Terminal
HandlerPC == {"free", "select", "empty", "update", "reply"}
AgentPC == {"poll", "waiting", "prepare", "exec", "reporting",
            "rejecting", "concluding", "teardown"}
Stray == [id : Nat, run : Runs, status : {"running"} \cup Terminal]

TypeOK ==
  /\ status \in [Runs -> RunStatus]
  /\ createdAt \in [Runs -> Nat]
  /\ clock \in Nat
  /\ hpc \in [Conns -> HandlerPC]
  /\ hrun \in [Conns -> Runs \cup {NoRun}]
  /\ howner \in [Conns -> Agents \cup {NoAgent}]
  /\ apc \in [Agents -> AgentPC]
  /\ job \in [Agents -> Runs \cup {NoRun}]
  /\ verdict \in [Agents -> {"none"} \cup Terminal]
  /\ reports \in [Agents -> Nat]
  /\ strays \in SUBSET Stray
  /\ faults \in Nat
  /\ before \in [Runs -> SUBSET Runs]
  /\ reached \in [Runs -> SUBSET Terminal]
  /\ starts \in [Runs -> Nat]
  /\ pollers \in SUBSET Agents

Init ==
  /\ status = [r \in Runs |-> "absent"]
  /\ createdAt = [r \in Runs |-> 0]
  /\ clock = 0
  /\ hpc = [c \in Conns |-> "free"]
  /\ hrun = [c \in Conns |-> NoRun]
  /\ howner = [c \in Conns |-> NoAgent]
  /\ apc = [a \in Agents |-> "poll"]
  /\ job = [a \in Agents |-> NoRun]
  /\ verdict = [a \in Agents |-> "none"]
  /\ reports = [a \in Agents |-> 0]
  /\ strays = {}
  /\ faults = 0
  /\ before = [r \in Runs |-> {}]
  /\ reached = [r \in Runs |-> {}]
  /\ starts = [r \in Runs |-> 0]
  /\ pollers = {}

Fault == faults < MaxFaults /\ faults' = faults + 1

(***************************************************************************)
(* New runs.  Both handlers read the clock first and INSERT afterwards.    *)
(***************************************************************************)

\* Build the Run value: a fresh id and `now` as created_at.
StampRun(r) ==
  /\ createdAt[r] = 0
  /\ clock' = clock + 1
  /\ createdAt' = [createdAt EXCEPT ![r] = clock + 1]
  /\ before' = [before EXCEPT ![r] = {q \in Runs : status[q] # "absent"}]
  /\ UNCHANGED <<status, reached, starts, pollers, strays, faults, pollVars,
                 agentVars>>

\* A push whose signature and payload were accepted.
github_webhook(r) == StampRun(r)

\* The build button.
create_run_api(r) == StampRun(r)

\* INSERT INTO runs ... status 'queued'.  (When the statement fails the
\* handler answers 500 and the stamped run never exists: no step at all.)
create_run(r) ==
  /\ createdAt[r] > 0
  /\ status[r] = "absent"
  /\ status' = [status EXCEPT ![r] = "queued"]
  /\ UNCHANGED <<createdAt, clock, strays, faults, ghostVars, pollVars,
                 agentVars>>

(***************************************************************************)
(* The long poll.                                                          *)
(***************************************************************************)

Queued == {r \in Runs : status[r] = "queued"}

\* Mutant of Oldest: ORDER BY left out.
AnyQueued(r) == r \in Queued

\* ORDER BY created_at LIMIT 1
Oldest(r) == r \in Queued /\ \A q \in Queued : createdAt[r] <= createdAt[q]

\* The agent sends GET /api/jobs/poll.
poll_job(a, c) ==
  /\ apc[a] = "poll"
  /\ hpc[c] = "free"
  /\ apc' = [apc EXCEPT ![a] = "waiting"]
  /\ hpc' = [hpc EXCEPT ![c] = "select"]
  /\ howner' = [howner EXCEPT ![c] = a]
  /\ pollers' = pollers \cup {a}
  /\ UNCHANGED <<hrun, job, verdict, reports, strays, faults, serverVars,
                 before, reached, starts>>

\* First statement of claim_next_job.
ClaimSelect(c) ==
  /\ hpc[c] = "select"
  /\ \/ \E r \in Runs : /\ Oldest(r)
                        /\ hrun' = [hrun EXCEPT ![c] = r]
                        /\ hpc' = [hpc EXCEPT ![c] = "update"]
     \/ /\ Queued = {}
        /\ hpc' = [hpc EXCEPT ![c] = "empty"]
        /\ UNCHANGED hrun
  /\ UNCHANGED <<howner, strays, faults, serverVars, ghostVars, agentVars>>

\* Mutant of ClaimUpdate: the row is handed out without being marked.
ClaimWithoutUpdate(c) ==
  /\ hpc[c] = "update"
  /\ hpc' = [hpc EXCEPT ![c] = "reply"]
  /\ UNCHANGED <<hrun, howner, strays, faults, serverVars, ghostVars,
                 agentVars>>

\* Second statement of claim_next_job: keyed by id only, whatever the status.
ClaimUpdate(c) ==
  /\ hpc[c] = "update"
  /\ status' = [status EXCEPT ![hrun[c]] = "running"]
  /\ hpc' = [hpc EXCEPT ![c] = "reply"]
  /\ UNCHANGED <<createdAt, clock, hrun, howner, strays, faults, ghostVars,
                 agentVars>>

\* The handler of c is over and its connection can be used again.
Release(c) ==
  /\ hpc' = [hpc EXCEPT ![c] = "free"]
  /\ hrun' = [hrun EXCEPT ![c] = NoRun]
  /\ howner' = [howner EXCEPT ![c] = NoAgent]

\* The agent at the other end of c, if any, goes back to polling.
BackToPoll(c) ==
  apc' = [a \in Agents |-> IF howner[c] = a THEN "poll" ELSE apc[a]]

\* 200 with the job.  Nobody gets it when the agent is gone.
PollReply(c) ==
  /\ hpc[c] = "reply"
  /\ Release(c)
  /\ apc' = [a \in Agents |-> IF howner[c] = a THEN "prepare" ELSE apc[a]]
  /\ job' = [a \in Agents |-> IF howner[c] = a THEN hrun[c] ELSE job[a]]
  /\ starts' = IF howner[c] = NoAgent THEN starts
               ELSE [starts EXCEPT ![hrun[c]] = @ + 1]
  /\ UNCHANGED <<verdict, reports, strays, faults, serverVars, before,
                 reached, pollers>>

\* Nothing queued and the deadline not reached: sleep 2s and look again.
PollSleep(c) ==
  /\ hpc[c] = "empty"
  /\ hpc' = [hpc EXCEPT ![c] = "select"]
  /\ UNCHANGED <<hrun, howner, strays, faults, serverVars, ghostVars,
                 agentVars>>

\* Nothing queued and the deadline reached: 204, the agent polls again.
PollTimeout(c) ==
  /\ hpc[c] = "empty"
  /\ Release(c)
  /\ BackToPoll(c)
  /\ UNCHANGED <<job, verdict, reports, strays, faults, serverVars,
                 ghostVars>>

\* The handler's next SQL statement fails: 500, no row changed.
PollDbError(c) ==
  /\ Fault
  /\ hpc[c] \in {"select", "update"}
  /\ Release(c)
  /\ BackToPoll(c)
  /\ UNCHANGED <<job, verdict, reports, strays, serverVars, ghostVars>>

\* The agent's request fails.  The server either notices and drops the
\* handler, or keeps running it with nobody at the other end.
PollLost(c) ==
  /\ Fault
  /\ howner[c] # NoAgent
  /\ BackToPoll(c)
  /\ \/ Release(c)
     \/ /\ howner' = [howner EXCEPT ![c] = NoAgent]
        /\ UNCHANGED <<hpc, hrun>>
  /\ UNCHANGED <<job, verdict, reports, strays, serverVars, ghostVars>>

(***************************************************************************)
(* The agent: one run at a time, from the poll response to the teardown.   *)
(***************************************************************************)

Posting == {"reporting", "rejecting", "concluding"}

\* Mutants of PostStatus: a word the server does not know, the step's outcome
\* posted as the run's, a failed preparation put back into the queue.
PostStatusMisspelt(a) ==
  IF apc[a] = "reporting" THEN "running"
  ELSE IF verdict[a] = "failure" THEN "failed" ELSE verdict[a]

PostStatusOfStep(a) ==
  IF apc[a] = "reporting" THEN "success" ELSE verdict[a]

PostStatusRetry(a) ==
  CASE apc[a] = "reporting"  -> "running"
    [] apc[a] = "rejecting"  -> "queued"
    [] apc[a] = "concluding" -> verdict[a]

\* The status in the body of the post the agent is waiting for.
PostStatus(a) ==
  CASE apc[a] = "reporting"  -> "running"
    [] apc[a] = "rejecting"  -> "failure"
    [] apc[a] = "concluding" -> verdict[a]

\* Where the agent goes once the post is over.  The result of the request
\* is logged and otherwise ignored, so it is the same place in every case.
AfterPost(a) ==
  CASE apc[a] = "reporting"  -> "exec"
    [] apc[a] = "rejecting"  -> "poll"
    [] apc[a] = "concluding" -> "teardown"

\* What the agent holds of its run once the post is over.
JobAfterPost(a) == IF apc[a] = "rejecting" THEN NoRun ELSE job[a]

\* Mutant of PrepareFail: the failed run is dropped without a report.
PrepareFailSilent(a) ==
  /\ apc[a] = "prepare"
  /\ apc' = [apc EXCEPT ![a] = "poll"]
  /\ job' = [job EXCEPT ![a] = NoRun]
  /\ UNCHANGED <<verdict, reports, strays, faults, serverVars, pollVars,
                 ghostVars>>

\* workspace::prepare failed: the run is reported as a failure and dropped.
PrepareFail(a) ==
  /\ apc[a] = "prepare"
  /\ apc' = [apc EXCEPT ![a] = "rejecting"]
  /\ verdict' = [verdict EXCEPT ![a] = "failure"]
  /\ reached' = [reached EXCEPT ![job[a]] = @ \cup {"failure"}]
  /\ UNCHANGED <<job, reports, strays, faults, before, starts, pollers,
                 serverVars, pollVars>>

PrepareOk(a) ==
  /\ apc[a] = "prepare"
  /\ apc' = [apc EXCEPT ![a] = "exec"]
  /\ reports' = [reports EXCEPT ![a] = 0]
  /\ UNCHANGED <<job, verdict, strays, faults, serverVars, pollVars,
                 ghostVars>>

\* post_step_status: every step report also says that the run is running.
post_step_status(a) ==
  /\ apc[a] = "exec"
  /\ reports[a] < MaxReports
  /\ reports' = [reports EXCEPT ![a] = @ + 1]
  /\ apc' = [apc EXCEPT ![a] = "reporting"]
  /\ UNCHANGED <<job, verdict, strays, faults, serverVars, pollVars,
                 ghostVars>>

\* Mutant of post_run_status: tear down first, report never.
TeardownUnreported(a) ==
  /\ apc[a] = "exec"
  /\ apc' = [apc EXCEPT ![a] = "teardown"]
  /\ \E v \in Terminal :
       /\ verdict' = [verdict EXCEPT ![a] = v]
       /\ reached' = [reached EXCEPT ![job[a]] = @ \cup {v}]
  /\ UNCHANGED <<job, reports, strays, faults, before, starts, pollers,
                 serverVars, pollVars>>

\* do_execute is over, with Ok(true), Ok(false) or an infrastructure error:
\* post_run_status with what it came to.
post_run_status(a) ==
  /\ apc[a] = "exec"
  /\ apc' = [apc EXCEPT ![a] = "concluding"]
  /\ \E v \in Terminal :
       /\ verdict' = [verdict EXCEPT ![a] = v]
       /\ reached' = [reached EXCEPT ![job[a]] = @ \cup {v}]
  /\ UNCHANGED <<job, reports, strays, faults, before, starts, pollers,
                 serverVars, pollVars>>

\* workspace.finish, and back to run_loop.
Teardown(a) ==
  /\ apc[a] = "teardown"
  /\ apc' = [apc EXCEPT ![a] = "poll"]
  /\ job' = [job EXCEPT ![a] = NoRun]
  /\ UNCHANGED <<verdict, reports, strays, faults, serverVars, pollVars,
                 ghostVars>>

(***************************************************************************)
(* Status reports on the server.                                           *)
(***************************************************************************)

\* The status a posted word stands for; one the handler does not know is
\* taken for "queued".
Decoded(word) == IF word \in {"running"} \cup Terminal THEN word ELSE "queued"

\* UPDATE runs SET status = ? WHERE id = ?: no look at the current status.
update_run_status(r, word) == status' = [status EXCEPT ![r] = Decoded(word)]

\* The post is handled.  (Whether the agent sees the response or a broken
\* connection makes no difference to it.)
PostHandled(a) ==
  /\ apc[a] \in Posting
  /\ update_run_status(job[a], PostStatus(a))
  /\ apc' = [apc EXCEPT ![a] = AfterPost(a)]
  /\ job' = [job EXCEPT ![a] = JobAfterPost(a)]
  /\ UNCHANGED <<createdAt, clock, verdict, reports, strays, faults,
                 pollVars, ghostVars>>

\* The agent gives up on a post that may still reach the server later on.
StrayPost(a) ==
  strays' = strays \cup {[id |-> faults, run |-> job[a],
                          status |-> PostStatus(a)]}

\* The request fails, or the server's UPDATE does: logged, never retried.
PostLost(a) ==
  /\ Fault
  /\ apc[a] \in Posting
  /\ UNCHANGED strays \/ StrayPost(a)
  /\ apc' = [apc EXCEPT ![a] = AfterPost(a)]
  /\ job' = [job EXCEPT ![a] = JobAfterPost(a)]
  /\ UNCHANGED <<verdict, reports, serverVars, pollVars, ghostVars>>

\* A post its agent gave up on is handled at last.
StrayHandled(m) ==
  /\ m \in strays
  /\ strays' = strays \ {m}
  /\ update_run_status(m.run, m.status)
  /\ UNCHANGED <<createdAt, clock, faults, pollVars, agentVars, ghostVars>>

(***************************************************************************)
(* Crashes.  The database survives, everything in memory does not.         *)
(***************************************************************************)

\* The agent dies and is started again; nothing remembers its run.
AgentCrash(a) ==
  /\ Fault
  /\ apc[a] \notin {"poll", "waiting"}
  /\ UNCHANGED strays \/ (apc[a] \in Posting /\ StrayPost(a))
  /\ apc' = [apc EXCEPT ![a] = "poll"]
  /\ job' = [job EXCEPT ![a] = NoRun]
  /\ UNCHANGED <<verdict, reports, serverVars, pollVars, ghostVars>>

\* The server dies and is started again: handlers and open requests end.
ServerCrash ==
  /\ Fault
  /\ hpc' = [c \in Conns |-> "free"]
  /\ hrun' = [c \in Conns |-> NoRun]
  /\ howner' = [c \in Conns |-> NoAgent]
  /\ apc' = [a \in Agents |->
                CASE apc[a] = "waiting"  -> "poll"
                  [] apc[a] \in Posting -> AfterPost(a)
                  [] OTHER               -> apc[a]]
  /\ job' = [a \in Agents |-> JobAfterPost(a)]
  /\ UNCHANGED <<verdict, reports, strays, serverVars, ghostVars>>

(***************************************************************************)
(* The whole system.                                                       *)
(***************************************************************************)

Ingest(r) == github_webhook(r) \/ create_run_api(r) \/ create_run(r)

Handler(c) ==
  ClaimSelect(c) \/ ClaimUpdate(c) \/ PollReply(c) \/ PollSleep(c)
    \/ PollTimeout(c)

run_loop(a) ==
  \/ \E c \in Conns : poll_job(a, c)
  \/ PrepareFail(a) \/ PrepareOk(a)
  \/ post_step_status(a) \/ post_run_status(a)
  \/ PostHandled(a) \/ Teardown(a)

Faulty ==
  \/ \E c \in Conns : PollDbError(c) \/ PollLost(c)
  \/ \E a \in Agents : PostLost(a) \/ AgentCrash(a)
  \/ ServerCrash

Next ==
  \/ \E r \in Runs : Ingest(r)
  \/ \E c \in Conns : Handler(c)
  \/ \E a \in Agents : run_loop(a)
  \/ \E m \in strays : StrayHandled(m)
  \/ Faulty

Spec == Init /\ [][Next]_vars

\* Handlers and agents are scheduled by tokio: what stays ready is run.
\* Pushes, faults and abandoned posts are the environment's and get none.
Fairness ==
  /\ \A r \in Runs : WF_vars(create_run(r))
  /\ \A c \in Conns : WF_vars(Handler(c))
  /\ \A a \in Agents : WF_vars(run_loop(a))

FairSpec == Spec /\ Fairness

(***************************************************************************)
(* Safety, with any number of agents and any faults.                       *)
(***************************************************************************)

\* Waiting in the queue, or not yet there.
Unclaimed == {"absent", "queued"}

Holds(a, r) == apc[a] \notin {"poll", "waiting"} /\ job[a] = r

\* What the runs table shows as a result is a result: a run is "success" or
\* "failure" only if some agent came to that verdict for this very run.  No
\* interleaving of lost, late or repeated posts makes one up.
SuccessIsEarned ==
  \A r \in Runs : status[r] \in Terminal => status[r] \in reached[r]

\* A run that an agent works on, or that is on its way to one, can not be
\* handed out again by a later poll: its row has left the queue for good.
HeldNotQueued ==
  \A r \in Runs :
    (\/ \E a \in Agents : Holds(a, r)
     \/ \E c \in Conns : hpc[c] = "reply" /\ hrun[c] = r)
      => status[r] \notin Unclaimed

\* First come, first served, although claim_next_job reads and writes in two
\* statements and rows are stamped before they are inserted: while a run is
\* queued, no run stamped after it was inserted has been claimed.
NoOvertaking ==
  \A r, q \in Runs :
    q \in before[r] /\ status[r] \notin Unclaimed => status[q] # "queued"

\* No step puts a claimed run back: there is no requeue anywhere, so what is
\* lost with a crashed agent stays lost.  (Part of ImplementsLifecycle below.)
NeverRequeued ==
  [][\A r \in Runs : status[r] \notin Unclaimed
                       => status'[r] \notin Unclaimed]_vars

(***************************************************************************)
(* As long as one agent polls, or nothing at all has gone wrong.           *)
(***************************************************************************)

Alone == \A a, b \in pollers : a = b
Calm == Alone /\ faults = 0

\* claim_next_job "returns the next queued run (job claim for agent)": a run
\* is started by at most one agent, and once.
StartedOnce == \A r \in Runs : starts[r] <= 1

\* This is true of a single agent, whatever is lost, late or crashed.
SoloStartedOnce == Alone => StartedOnce

\* When the workspace is torn down the server knows the result ("the job
\* result has already been reported"), if the queue is calm.
ReportedAtTeardown ==
  Calm => \A a \in Agents : apc[a] = "teardown" => status[job[a]] = verdict[a]

\* What the store promises of a run, and its implementation by the queue.
Lifecycle == INSTANCE RunLifecycle WITH st <- status, calm <- Calm

\* Every statement the server executes is a step in the life of a run: the
\* results of calm times are final, and never does a claimed run come back.
ImplementsLifecycle == Lifecycle!Spec

(***************************************************************************)
(* Liveness, under FairSpec.                                               *)
(***************************************************************************)

\* A queued run gets a result and keeps it.
EveryRunSettles ==
  \A r \in Runs : status[r] = "queued" ~> [](status[r] \in Terminal)
=============================================================================
