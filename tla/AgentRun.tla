------------------------------ MODULE AgentRun ------------------------------
(***************************************************************************)
(* What the agent does with one claimed run once its workspace is there:   *)
(* do_execute and the end of execute_run.  The pipeline is parsed, caches  *)
(* are attached, the secrets of all steps are fetched up front, the steps  *)
(* run in file order, and the verdict goes to the server, to GitHub and to *)
(* the workspace, whose caches are committed or dropped with it.           *)
(*                                                                         *)
(* How a step's process runs and how its output travels is StepOutput; how *)
(* several runs share the server is JobQueue.                              *)
(***************************************************************************)
EXTENDS Naturals, Sequences

CONSTANTS N,          \* steps of the pipeline
          Configs,    \* provider configurations
          NoConf,     \* "no configuration"
          Values,     \* the secrets of each configuration, by name
          MinLen,     \* see SecretMask
          Chars,      \* the characters of secrets and lines
          Texts,      \* what a step may print around a secret
          MaxFaults   \* bound: lost posts and crashed executors

ASSUME NAssumption == N \in Nat \ {0}
ASSUME NoConfAssumption == NoConf \notin Configs
ASSUME ValuesAssumption ==
  /\ Configs \subseteq DOMAIN Values
  /\ \A c \in Configs : Values[c] \in Seq(Seq(Chars))
ASSUME CharsAssumption == "*" \in Chars /\ \A t \in Texts : t \in Seq(Chars)
ASSUME MinLenAssumption == MinLen \in Nat \ {0}
ASSUME MaxFaultsAssumption == MaxFaults \in Nat

Steps == 1..N
MaybeConf == Configs \cup {NoConf}
Verdict == {"success", "failure"}
StepStatus == {"pending", "running", "success", "failure", "skipped"}

VARIABLES
  \* The job: what .flowz.yaml, the branch and the server's config say.
  skipped,   \* steps whose `only.branch` is another branch
  explicit,  \* `secrets:` of each step
  mapped,    \* secrets.configurations[branch]
  token,     \* whether the server handed out a GitHub token
  \* The agent.
  pc, at,    \* where do_execute is, and at which step
  fetched,   \* resolver.cache: the configurations fetched
  masker,    \* resolver.masker: the values it masks, longest first
  overall,   \* overall_success
  ran,       \* what the executor returned for each step
  sent,      \* the step status last posted
  verdicts,  \* the run statuses posted
  caches,    \* what workspace.finish did with the attached caches
  \* What the others have seen.
  runRow,    \* runs.status on the server
  stepRows,  \* steps.status on the server, "absent" when there is no row
  github,    \* the commit status on GitHub
  faults

job == <<skipped, explicit, mapped, token>>
secrets == <<fetched, masker>>
vars == <<job, pc, at, secrets, overall, ran, sent, verdicts, caches,
          runRow, stepRows, github, faults>>

M == INSTANCE SecretMask

AllValues == UNION {{Values[c][k] : k \in DOMAIN Values[c]} : c \in Configs}

\* What is masked is longer than the mask: MinLen is 4 in the code.
ASSUME StarsAssumption ==
  \A v \in AllValues : Len(v) >= MinLen => ~M!Shows(M!Stars, v)

TypeOK ==
  /\ skipped \subseteq Steps
  /\ explicit \in [Steps -> MaybeConf]
  /\ mapped \in MaybeConf
  /\ token \in {"token", "none"}
  /\ pc \in {"parse", "attach", "preflight", "unmet", "step", "exec",
             "conclude", "commit", "error", "finish", "done"}
  /\ at \in 1..(N + 1)
  /\ fetched \subseteq Configs /\ masker \in Seq(AllValues)
  /\ overall \in Verdict
  /\ ran \in [Steps -> {"none", "ok", "bad", "error"}]
  /\ sent \in [Steps -> StepStatus]
  /\ verdicts \in Seq(Verdict)
  /\ caches \in {"none", "attached", "committed", "dropped"}
  /\ runRow \in {"running"} \cup Verdict
  /\ stepRows \in [Steps -> StepStatus \cup {"absent"}]
  /\ github \in {"none"} \cup Verdict
  /\ faults \in 0..MaxFaults

\* The run has been claimed, so its row says "running".  No row of `steps`
\* is ever inserted: nothing calls create_step.
Init ==
  /\ skipped \in SUBSET Steps
  /\ explicit \in [Steps -> MaybeConf]
  /\ mapped \in MaybeConf
  /\ token \in {"token", "none"}
  /\ pc = "parse" /\ at = 1
  /\ fetched = {} /\ masker = <<>>
  /\ overall = "success"
  /\ ran = [s \in Steps |-> "none"]
  /\ sent = [s \in Steps |-> "pending"]
  /\ verdicts = <<>>
  /\ caches = "none"
  /\ runRow = "running"
  /\ stepRows = [s \in Steps |-> "absent"]
  /\ github = "none"
  /\ faults = 0

(***************************************************************************)
(* Posts.  A lost one is logged by the agent and never repeated.           *)
(***************************************************************************)

Fault == faults < MaxFaults /\ faults' = faults + 1

\* post_step_status and its handler: an UPDATE of the step's row, which
\* changes nothing when there is none, and runs.status = 'running'.
post_step_status(s, status) ==
  /\ sent' = [sent EXCEPT ![s] = status]
  /\ \/ /\ stepRows' = [stepRows EXCEPT
                          ![s] = IF @ = "absent" THEN @ ELSE status]
        /\ runRow' = "running"
        /\ UNCHANGED faults
     \/ Fault /\ UNCHANGED <<stepRows, runRow>>

post_run_status(v) ==
  /\ verdicts' = Append(verdicts, v)
  /\ \/ runRow' = v /\ UNCHANGED faults
     \/ Fault /\ UNCHANGED runRow
  /\ UNCHANGED stepRows

noPost == <<sent, verdicts, runRow, stepRows>>

(***************************************************************************)
(* Before the first step.                                                  *)
(***************************************************************************)

\* Read and parse .flowz.yaml; an error of either is an Err.
Parse ==
  /\ pc = "parse"
  /\ pc' \in {"attach", "error"}
  /\ UNCHANGED <<job, at, secrets, overall, ran, noPost, caches, github, faults>>

\* attach_caches, when the pipeline has any and the backend supports them;
\* after an error some may be attached.
AttachCaches ==
  /\ pc = "attach"
  /\ \/ pc' = "preflight" /\ caches' \in {"none", "attached"}
     \/ pc' = "error" /\ caches' \in {"none", "attached"}
  /\ UNCHANGED <<job, at, secrets, overall, ran, noPost, github, faults>>

\* configuration_for: the step's own choice wins over the branch's, and a
\* branch without a mapping gets nothing.
configuration_for(s) == IF explicit[s] # NoConf THEN explicit[s] ELSE mapped

\* The configurations this run needs.
Needed == {configuration_for(s) : s \in Steps \ skipped} \ {NoConf}

\* SecretsResolver::load returns what it has, without asking the provider.
Loaded(s) == configuration_for(s) \in fetched \cup {NoConf}

PreflightEnds ==
  /\ pc = "preflight"
  /\ at = N + 1
  /\ pc' = "step"
  /\ at' = 1
  /\ UNCHANGED <<job, secrets, overall, ran, noPost, caches, github, faults>>

\* A step of the loop that asks the provider for nothing.
PreflightPass ==
  /\ pc = "preflight"
  /\ at \in Steps
  /\ at \in skipped \/ Loaded(at)
  /\ at' = at + 1
  /\ UNCHANGED <<job, pc, secrets, overall, ran, noPost, caches, github, faults>>

\* A fetch makes the values known to the masker, before any is used.
Load(c) ==
  /\ fetched' = fetched \cup {c}
  /\ masker' = M!AddAll(masker, Values[c])

\* Mutant of PreflightFetch: only a configuration the branch maps to is
\* fetched; one a step names itself is left to the step.
PreflightFetchMapped ==
  /\ pc = "preflight"
  /\ at \in Steps \ skipped
  /\ ~Loaded(at)
  /\ at' = at + 1
  /\ IF mapped \in Configs \ fetched THEN Load(mapped) ELSE UNCHANGED secrets
  /\ UNCHANGED <<job, pc, overall, ran, noPost, caches, github, faults>>

PreflightFetch ==
  /\ pc = "preflight"
  /\ at \in Steps \ skipped
  /\ ~Loaded(at)
  /\ at' = at + 1
  /\ Load(configuration_for(at))
  /\ UNCHANGED <<job, pc, overall, ran, noPost, caches, github, faults>>

\* The provider refuses: the step is announced so that the failure has a
\* place in the UI, then failed, and the run with it.
PreflightRefused ==
  /\ pc = "preflight"
  /\ at \in Steps \ skipped
  /\ ~Loaded(at)
  /\ post_step_status(at, "running")
  /\ pc' = "unmet"
  /\ UNCHANGED <<job, at, secrets, overall, ran, verdicts, caches, github>>

StepUnmet ==
  /\ pc = "unmet"
  /\ post_step_status(at, "failure")
  /\ overall' = "failure"
  /\ pc' = "conclude"
  /\ UNCHANGED <<job, at, secrets, ran, verdicts, caches, github>>

(***************************************************************************)
(* The steps, in file order.                                               *)
(***************************************************************************)

StepsEnd ==
  /\ pc = "step"
  /\ at = N + 1
  /\ pc' = "conclude"
  /\ UNCHANGED <<job, at, secrets, overall, ran, noPost, caches, github, faults>>

\* Mutant of SkipStep: the loop moves on twice.
SkipStepTwice ==
  /\ pc = "step"
  /\ at \in skipped
  /\ post_step_status(at, "skipped")
  /\ at' = at + 2
  /\ UNCHANGED <<job, pc, secrets, overall, ran, verdicts, caches, github>>

SkipStep ==
  /\ pc = "step"
  /\ at \in skipped
  /\ post_step_status(at, "skipped")
  /\ at' = at + 1
  /\ UNCHANGED <<job, pc, secrets, overall, ran, verdicts, caches, github>>

\* The step is announced and its environment is put together.  Its load is
\* a fetch if the preflight missed the configuration.
StartStep ==
  /\ pc = "step"
  /\ at \in Steps \ skipped
  /\ post_step_status(at, "running")
  /\ IF Loaded(at) THEN UNCHANGED secrets ELSE Load(configuration_for(at))
  /\ pc' = "exec"
  /\ UNCHANGED <<job, at, overall, ran, verdicts, caches, github>>

StepPasses ==
  /\ pc = "exec"
  /\ ran' = [ran EXCEPT ![at] = "ok"]
  /\ post_step_status(at, "success")
  /\ at' = at + 1
  /\ pc' = "step"
  /\ UNCHANGED <<job, secrets, overall, verdicts, caches, github>>

\* Mutant of StepFails: an executor error does not count as a failure.
StepFailsUnlessError ==
  /\ pc = "exec"
  /\ \E o \in {"bad", "error"} :
       /\ ran' = [ran EXCEPT ![at] = o]
       /\ IF o = "bad"
          THEN overall' = "failure" /\ pc' = "conclude" /\ UNCHANGED at
          ELSE pc' = "step" /\ at' = at + 1 /\ UNCHANGED overall
  /\ post_step_status(at, "failure")
  /\ UNCHANGED <<job, secrets, verdicts, caches, github>>

\* A non-zero exit or an executor error; the remaining steps stay pending.
StepFails ==
  /\ pc = "exec"
  /\ \E o \in {"bad", "error"} : ran' = [ran EXCEPT ![at] = o]
  /\ overall' = "failure"
  /\ post_step_status(at, "failure")
  /\ pc' = "conclude"
  /\ UNCHANGED <<job, at, secrets, verdicts, caches, github>>

\* The blocking task panics (the stderr thread can not be spawned, say):
\* JoinError leaves do_execute as an Err, the step as "running".
StepPanics ==
  /\ pc = "exec"
  /\ Fault
  /\ pc' = "error"
  /\ UNCHANGED <<job, at, secrets, overall, ran, noPost, caches, github>>

(***************************************************************************)
(* The verdict.                                                            *)
(***************************************************************************)

Conclude ==
  /\ pc = "conclude"
  /\ post_run_status(overall)
  /\ pc' = "commit"
  /\ UNCHANGED <<job, at, secrets, overall, ran, sent, caches, github>>

\* post_commit_status and the return of Ok(overall_success); a refused or
\* lost request is logged.
PostCommitStatus ==
  /\ pc = "commit"
  /\ \/ /\ github' = IF token = "token" THEN overall ELSE github
        /\ UNCHANGED faults
     \/ token = "token" /\ Fault /\ UNCHANGED github
  /\ pc' = "finish"
  /\ UNCHANGED <<job, at, secrets, overall, ran, noPost, caches>>

\* execute_run reports an Err of do_execute; result is no Ok(true) then.
ReportError ==
  /\ pc = "error"
  /\ post_run_status("failure")
  /\ overall' = "failure"
  /\ pc' = "finish"
  /\ UNCHANGED <<job, at, secrets, ran, sent, caches, github>>

\* Mutant of Finish: caches are committed after every Ok.
FinishAnyOk ==
  /\ pc = "finish"
  /\ caches' = IF caches = "attached" THEN "committed" ELSE caches
  /\ pc' = "done"
  /\ UNCHANGED <<job, at, secrets, overall, ran, noPost, github, faults>>

\* workspace.finish(id, matches!(result, Ok(true)))
Finish ==
  /\ pc = "finish"
  /\ caches' = IF caches # "attached" THEN caches
               ELSE IF overall = "success" THEN "committed" ELSE "dropped"
  /\ pc' = "done"
  /\ UNCHANGED <<job, at, secrets, overall, ran, noPost, github, faults>>

Next ==
  \/ Parse \/ AttachCaches
  \/ PreflightEnds \/ PreflightPass \/ PreflightFetch \/ PreflightRefused
  \/ StepUnmet
  \/ StepsEnd \/ SkipStep \/ StartStep \/ StepPasses \/ StepFails \/ StepPanics
  \/ Conclude \/ PostCommitStatus \/ ReportError \/ Finish

Spec == Init /\ [][Next]_vars

(***************************************************************************)
(* Properties.                                                             *)
(***************************************************************************)

\* "Resolve every configuration the run will need up front": when a step
\* executes, those of all steps are there.  So no later load asks the
\* provider ("cannot fail here"), and the masker of the first step already
\* knows the secrets of the last.
PreflightComplete == pc = "exec" => Needed \subseteq fetched

Starless(v) == \A k \in DOMAIN v : v[k] # "*"

\* No secret gets out, whatever a step prints around it: in no line is a
\* value left that some step of this run may use, not even a part of it next
\* to a shorter one, unless it is too short to be masked.  (A value with a
\* star can come up again: "a*" printed after an "a" leaves "a***".)
NothingPrinted ==
  pc = "exec" =>
    \A c \in Needed : \A k \in DOMAIN Values[c] :
      LET v == Values[c][k]
      IN Len(v) >= MinLen =>
           /\ M!Mask(masker, v) = M!Stars
           /\ Starless(v) => \A t, u \in Texts : ~M!Shows(M!Mask(masker, t \o v \o u), v)

\* The verdict is earned: a run gets one verdict, however it ends, and it is a
\* success when every step meant for this branch ran and passed, and never
\* otherwise.  (A run without such a step may also fail, on its .flowz.yaml.)
VerdictEarned ==
  LET Meant == Steps \ skipped
      Passed == {s \in Meant : ran[s] = "ok"}
  IN /\ pc = "done" => Len(verdicts) = 1
     /\ \A k \in 1..Len(verdicts) :
          /\ verdicts[k] = "success" => Passed = Meant
          /\ verdicts[k] = "failure" => Passed # Meant \/ Meant = {}

\* Server, GitHub and the caches go by the same verdict: what a commit
\* status says was posted to the server, caches are committed exactly for a
\* run reported a success, and a run that got as far as a step has a commit
\* status if nothing was lost.  (One that ends in an infrastructure error
\* before has none.)
Agreement ==
  pc = "done" =>
    /\ github # "none" => \E k \in 1..Len(verdicts) : verdicts[k] = github
    /\ caches = "committed" => verdicts[Len(verdicts)] = "success"
    /\ caches = "dropped" => verdicts[Len(verdicts)] = "failure"
    /\ caches # "attached"
    /\ token = "token" /\ faults = 0 /\ (\E s \in Steps : ran[s] # "none") =>
         github # "none"

\* "Create the step record first, so the failure is visible in the UI": once
\* the failure of a step's secrets is posted, its row shows it.
FailureShown ==
  \A s \in Steps :
    sent[s] = "failure" /\ faults = 0 => stepRows[s] = "failure"
=============================================================================
