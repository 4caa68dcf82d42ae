# flowz in TLA+

Specifications of flowz, a CI server for FreeBSD: a server with an SQLite
database takes pushes and hands runs to agents; an agent prepares a workspace
on ZFS, runs the steps of `.flowz.yaml` in jails or on the host, streams their
output back and reports a verdict.

The modules are written from the Rust code. TLC checks them on small instances,
and TLAPS proves part of what they say for every value of the constants.
Identifiers follow the source. `PROJECT.json` gives, for every definition that
models code, the lines it models, and lists runs, mutants, findings, hazards
and theorems.

## The system

| Part (source) | State | Operations | What makes it hard | Modules |
|---|---|---|---|---|
| Job queue (`server/mod.rs`, `store/mod.rs`) | `runs.status`, `created_at` | `github_webhook`, `create_run`, `poll_job` / `claim_next_job`, `update_run_status` | claim in two statements, several agents, lost and late posts, crashes | `JobQueue`, `RunLifecycle` |
| Agent (`agent/mod.rs`) | the run at hand, secrets fetched, overall success | `run_loop`, `execute_run`, `do_execute`, the `post_*` functions | error paths that report by themselves or through the caller; three parties must hear the same verdict | `AgentRun` (and `JobQueue`) |
| Step execution and logs (`executor/mod.rs`, `agent/mod.rs`, `server/mod.rs`) | child, pipes, environment file, channel, batch, `log_lines` | `run_step`, the consumer task, `ingest_logs` | six threads and tasks, bounded buffers, early returns, lost batches | `StepOutput` |
| Page of a run (`server/mod.rs`, `templates/run.html`) | rows rendered, rows streamed | `ui_run`, `stream_logs`, the page's event listeners | queries of their own while the log grows and the run ends | `RunPage`, in `StepOutput` |
| Workspaces (`agent/workspace.rs`) | warm dataset, snapshot and clone per run | `prepare`, `finish` | sequences of commands that fail or stop half way; state that stays on the host | `Workspace` |
| Caches (`agent/workspace.rs`) | datasets `<cache>`, `.run-*`, `.old-*`, `@latest` | `attach_caches`, `commit_cache` | the same, with `zfs promote` moving snapshots around | `ZfsCache` |
| Artifacts (`server/mod.rs`, `store/mod.rs`) | directories and rows | `upload_artifact`, `evict_artifacts` | file system and database change in separate awaits of concurrent handlers | `ArtifactStore` |
| Pipeline file (`pipeline/mod.rs`) | none | `validate`, `validate_cache`, `detect_cycle` | paths with many spellings, depth-first search over a HashMap | `PipelineFile`, `CachePaths`, `NeedsCheck` |
| Secrets (`secrets/mod.rs`, `agent/mod.rs`) | configurations fetched, values known to the masker | `load`, `Masker::add`, `mask` | fetched before the first step or not at all; values inside one another | `SecretMask`, in `AgentRun` |
| Sign-in (`server/auth.rs`) | three cookies, the key of the sessions | `require_auth`, `login`, `callback`, `logout` | a protocol over redirects, in tabs that share their cookies | `SignIn` |
| Projects and repositories (`server/mod.rs`, `store/mod.rs`) | `repos`, the list a browser reads | `ui_projects`, `ui_project`, `create_repo`, `delete_repo` | pages put together by several queries, or read one after the other | `ProjectPages` |
| Webhook signature, JSON API, badges, CLI, deployment | | | pure functions, single queries or start-up code | not modelled |

Agents and server share no memory. Agents call the server over HTTP: a long
poll that returns a claimed run, and posts of logs, artifacts and statuses,
which the agent awaits, logs when they fail and never repeats. The server's
handlers share the database; every await between two statements lets another
handler in. An agent works on one run at a time; several agents may run.

What makes each part correct:

* **Job queue**: a run is claimed once, in order, never goes back, and gets the
  verdict its agent reached.
* **Agent**: the verdict is that of the steps, is reported once, and server,
  GitHub and caches hear the same one; no step runs without its secrets.
* **Steps and logs**: output arrives whole, in order and once; a page shows all
  of it in the end; nothing deadlocks; a jail is taken down.
* **Workspaces**: a run builds its commit, and cleans up unless a command fails that
  nobody takes back.
* **Caches**: only successful runs get in; the last one that succeeded is there.
* **Artifacts**: rows and files agree; only runs outside the window are evicted.
* **Validation**: accepted if and only if there is an order to run the steps in;
  caches get places of their own.
* **Secrets**: no line that leaves the agent has a whole value in it.
* **Sign-in**: a tab gets to the page it asked for, and no other, signing in no
  more often than needed.
* **Projects**: whatever changes meanwhile, no project and no run is missed.

## The modules

One module per part. Actions are named after functions, or after the statement
or command of a function when other processes or failures can come between two
of them. Ghost variables, which only properties read, are marked `ghost`.
A definition whose comment begins "Mutant of" is no part of the specification:
it is a plausible bug, used to show that a property notices it.

**RunLifecycle** is the abstract specification of `runs.status`: absent,
queued, running, then a result, which is final as long as the queue is calm.
Once two agents poll or something fails, a claimed run's row may be overwritten
with any status but the queue's. **JobQueue** is the system behind it: the
handlers (`hpc`, one per connection: SELECT, UPDATE, reply, sleep or 204), the
agents (`apc`), and posts an agent gave up on that may still arrive (`strays`).
`update_run_status` is the unconditional UPDATE of the code, after the handler has
taken a word it does not know for "queued" (`Decoded`). Faults are failed
SQL statements, lost requests and responses, agent and server crashes,
`MaxFaults` of them. `pollers` are the agents that have polled; `Calm` is one of
them and no fault. `ImplementsLifecycle` states that JobQueue implements
`RunLifecycle`, with `st` the table and `calm` this `Calm`.

**AgentRun** is one run on one agent, after `prepare`: all pipelines of `N`
steps with any branch filter, explicit or mapped configuration, token or none.
`sent` is what the agent posted, `stepRows` and `runRow` what the server has.
A status post may be lost, and the blocking task may panic. **SecretMask** is
the Masker on sequences of characters: values kept longest first, replaced one
after the other by the stars. `AgentRun` fetches configurations into it as
`SecretsResolver` does.

**StepOutput** is the inside of `StepPasses` and `StepFails`: child process,
two pipes, the thread in `run_step`, the stderr thread, the channel, the
consumer, `do_execute` awaiting them, and `ingest_logs` inserting line by line.
`envFile` is the file that hands a jail its environment: written in full before
the spawn, or cut short by an error on the way. When `run_step` returns, the guards
of file and jail are `Dropped`; either removal may fail, which the code ignores,
and the ghost `stuck` keeps. A line that is not UTF-8 may occur in either output. A
run of one step is modelled: the step's report is the run's. **RunPage** is a browser that
opens the page of the run, `ui_run` query by query, then the stream from the
first row, and the reload at "done"; `StepOutput` has it as `Page`, with its own
`log`.

**Workspace** and **ZfsCache** are sequences of commands the agent spawns. Each
command works if ZFS or git allows it, and fails otherwise, or by a fault; the
agent can crash before each. What a failed command leaves stays: the directory
that `prepare_dir` makes before `git clone` (`Bare`), the dataset that
`ensure_repo_dataset` creates before its own. The ghost `hurt` has the faults each
run met, by command. `ZfsCache` carries a small model of ZFS (clones,
origins, `promote`, `rename`, a snapshot with clones can not be destroyed), and
`Workspace` one of a git remote that is pushed to.

**ArtifactStore** has one step per file-system or SQL operation; the retention
window is `Keep`, 10 in the code. `TimePasses` moves the 30 days cutoff.

**PipelineFile** is `validate`: `validate_head`, the version and the secrets
section, then the caches, then the steps. **CachePaths** has the caches: a path is
a sequence of segments (empty between two slashes), with `normalize_cache_path`,
from the trim of white space to that of the last slashes, the refusals and the place
where `attach_caches` and dail mount it. **NeedsCheck** has the loop over the steps
and the search itself, the call stack of `dfs` as a sequence, with every order
the HashMap may yield. The modelled file is caches and needs. The checks of
anything else (version, secrets section, name of a cache, and of a step its action,
paths and secrets) may each refuse or not, where they stand in the code: verdicts
"head", "name" and "malformed".

**SignIn** is one browser with several tabs. A request and its response are one
step, but the callback awaits the provider between reading the cookies and
setting them. The provider approves or refuses; cookies expire; the server
restarts, and without a configured key forgets the sessions. `SettlesAlone` is
its liveness.

**ProjectPages** is one browser on the overview and on the pages of a project:
each query is a step, with runs created and repositories registered and removed
in between. `got`, `present` and `known` are ghosts: what the reader has seen,
and what was there when he began. **MCWeb** puts SignIn and ProjectPages side by
side; a behaviour is one of either, since they share nothing but the server.

The other `MC*` modules add symmetry sets and the values of constants.

## The runs

Where the system can be set up in different ways, the choice is a variable that
`Init` sets and no step changes, so that one run covers all of them: `executor`
(host or jail) of `StepOutput`, `backend` (ZFS or directory) of `Workspace`, and
`agents` (how many runs may be at work together) of `ArtifactStore`. A property
that the code keeps in some set-ups only names them, and one that it keeps only
while nothing fails says `faults = 0`.

| Run | Bounds | Shows |
|---|---|---|
| JobQueueFaults | 2 agents, 3 connections, 2 runs, 1 fault | `SuccessIsEarned`, `HeldNotQueued`, `NoOvertaking`, `SoloStartedOnce`, `ReportedAtTeardown`, `ImplementsLifecycle`: safe whatever gets lost, and exact as long as the queue is calm |
| JobQueueDuo | 2 agents, 2 runs, no faults, fair | `EveryRunSettles`: even a run claimed twice ends up with a lasting result |
| JobQueueTwoAgents | 2 agents, 1 run, no faults | *violated*: `StartedOnce`; a run is started twice |
| AgentRunAll | 3 steps, 2 configurations of 4 and 3 values, up to 2 characters on either side of a value, 1 fault | `PreflightComplete`, `NothingPrinted`, `VerdictEarned`, `Agreement` |
| AgentRunNoRow | 2 steps, no faults | *violated*: `FailureShown`; no step ever has a row |
| StepOutputAll | host and jail, 2 lines per output, pipes of 1 line, channel of 2, one page, 1 fault, fair | `LogIsOutput`, `NoLineTwice`, `PageIsLog`, `JailTakenDown`, `StepEnds` |
| WorkspaceAll | both backends, 3 runs, 2 branches of 2 commits, 2 faults | `BuildsWhatWasAsked`, `LeftoversHaveCauses` |
| ZfsCacheFaults | 4 runs, 2 caches, 3 faults | `NeverPoisoned`, `TidyRunsLeaveNothing`, `WarmAfterSuccess` |
| ZfsCacheCrash | 3 runs, 1 cache, 1 fault | *violated*: `CommitTakesEffect`; one crash freezes a cache |
| ArtifactStoreAll | 1 or 2 runs at work, 3 runs, 2 paths, 3 inserts, window of 1, 1 fault | `RowsMatchFiles`, `RetentionBounded`, `OnlyStaleEvicted` |
| PipelineFileAll | 2 caches with paths of 3 segments; all graphs of 4 steps and a name that is no step | `MountedApart`, `AcceptsSound`, `RefusesSound` |
| WebAll | 2 tabs, 3 pages, 3 visits, 1 fault, fair; 2 projects, 2 clone URLs of one, 2 branches, 3 runs, 1 row per page | `LandsWhereAsked`, `SignsInOnce`, `SettlesAlone`; `ProjectsListed`, `PagesComplete` |

The passing runs also check the type invariant of each module.

The races of the queue take two agents, two connections and one run; a second
run brings order into play, a third connection a handler that nobody waits for
any more. Buffers are smaller than the outputs, so that they fill up; the window
is smaller than the number of runs, so that there is eviction. Two caches take
the agent through the loops of `attach_caches` and `finish`, one of them in the
workspace and one not. Four steps hold every shape of graph that matters to the
search: a chain, a diamond, a cycle behind a visited part, a cycle beside one.
Three segments hold a leading "./", a repeated or a trailing slash, "..", and
"/workspace" with something below it; white space is a segment of its own, so
" /a" and "a/ " are among the paths. The values of a run contain, extend and
overlap one another, one is too short to be masked and one has a star in it; with
values of 2 characters and more to mask, none occurs in the mask. Two tabs and one fault are the least in which one sign-in
replaces another's cookies between the two halves of its callback. With one row
per page, three runs make three pages, and one that comes in shifts them.

Deadlock is checked for `JobQueue`. The other specifications describe a bounded
amount of work and may stop when it is done; `StepEnds` says of `StepOutput`
that it does not stop before.

Bounds that are in the guards: `MaxReports` (step reports of a run),
`MaxFaults`, `MaxClock` (inserts), `MaxTip` (commits), `MaxLines`, `MaxCaches`
and `MaxLen` (caches and segments of a path), `MaxVisits` (pages asked for),
`MaxRuns` (runs created).

## Fairness

Weak fairness only, and only of what tokio, the operating system or the agent's
own loop runs as long as it can: handlers, agents, threads, tasks, and a script
that writes while it can and exits after its last line. Pushes, faults, posts
the agent gave up on and the passing of time have none.
`PollSleep` and `PollTimeout` are in one fair action, `Handler(c)`: the code's
deadline is not needed for liveness, since each look at the table can claim.
In `SignIn` the server answers and the provider does, by consent or refusal; the
user need not do anything. In `StepOutput` a page need not be opened, but one
that is open is served. `ProjectPages` has safety properties only.

## What is proved

All safety properties of the passing runs, the type invariants, the action
properties and the refinement among them, are theorems. The proofs hold for any
sets of agents, connections, runs, caches and steps and any bounds; they use only
the named assumptions of the modules (the "none" values are none of the real
ones, bounds are natural numbers, and those quoted below).

Recursive definitions are recursive functions, and loops keep data, so several
proofs need induction. They do it with sets: the numbers of which a statement
holds form a set, and `Counting` says that a set that has 0, and each number up to
n if it has the one before, has them all. It follows from the strict subset order of
finite sets being well-founded, a theorem of the library. `Least`, `Greatest` and
`Recursion` (there is a function for a recursive equation) come the same way.

**JobQueueProofs**. `IInv` adds to the three safety invariants what makes them
inductive: rows are stamped before they are inserted, and with times of the past
(`StampInv`); posts under way speak of claimed runs and verdicts reached
(`StrayInv`); and once a handler has selected a row, everything that was there
before it has left the queue (`SelectInv`). The last two carry the argument:
`NoOvertaking` survives the gap between SELECT and UPDATE since nothing comes
back into the queue, and `HeldNotQueued` survives late posts since none of them
says "queued". Theorems: `TypeCorrect`, `ResultsAreEarned`, `HeldRunsLeftQueue`,
`FirstComeFirstServed`, and the action property `ClaimedForGood`.
As long as one agent has polled, a handler that is after a run is that agent's
or nobody's (`OwnerInv`), whence `SoloStartsOnce`, with any faults; if there was none either,
`CalmReportsBeforeTeardown` (`QuietInv`). `QueueImplementsLifecycle` is the
refinement: each step of the queue is one of `RunLifecycle` or leaves its
variables alone, for any agents and faults.

**ZfsCacheProofs**. `CacheNeverPoisoned`: every snapshot, under whatever name it
is after promotes, renames and crashes, holds the data of a successful run
(`GraphInv`), and from the rename on a commit works on a base that holds its own
run's data (`CommitInv`). There is a lemma for each ZFS command on the graph.
`TidyRuns` and `WarmAgain` follow a run that has met no fault through every command
(`Unhurt`, `CommitAt`: what there is of clone, base and snapshots at each), on
top of whatever earlier crashes left, which is under other names (`RunsInv`). Without
any faults the base is a clone of nothing, but for the commands between a promote
and the rename (`Loose`), so the destroy of `@latest` can not be refused.

**PipelineFileProofs**. `AcceptedHasOrder` and `RefusedHasCycle`: the search is
sound in both directions for every finite or infinite set of steps. "No cycle"
is stated on sets of steps, so that no induction over paths is needed: the
visited steps stay well-founded (`Founded`), and a step on the path that is
needed by the last one closes a cycle (`PathCloses`). They are about whole
files, of which the search sees only its own part (the lemma `StepsOnTheirOwn`).
`CachesApart` is about paths of any length. A path that is accepted and plain has
a middle of segments that lead somewhere (`PlainLeads`): the normal form is that
middle, behind a slash if the path had one, and so is the mount point, behind the
workspace if not; two with one mount point have one normal form (`OnePlace`), and
no two accepted ones do (`CachesInv`). What trimming does is left to
`TrimAssumption`: it makes segments of segments.

**WebProofs**. `EachTabItsPage` needs that everything a tab carries through
the provider (what it wants, its goal, the page the callback will send it to) is
the page it was begun on, or Home once another tab or a restart has disturbed it
(`PageInv`). `OnceForEachReason` needs what pays for a sign-in: the last one
is still under way, or its session is there, or there was trouble since
(`OnceInv`). `LinksLeadToAll` is about ranks: a run's rank is the number of newer
ones that match, runs are only added, so ranks only grow, and page k shows the
ranks from (k - 1) * PageSize. The runs of page 1's time that come before the page
have been shown, and a link is given only when there is a run for it (`RowsInv`);
that a page always has something to build is `BuildInv`. `OverviewListsAll`
needs that what has had runs since the first query was found by it (`FoundInv`).
Both assume at least one project and URL, and finitely many URLs
(`TablesAssumption`). `WebTypes` is of the two side by side.

**AgentRunProofs**. `SecretsFirst`: what preflight has fetched grows with its
position in the list of steps, and the steps start behind its end (`FetchInv`).
`VerdictOfSteps`: the steps judged so far are those before the current one, and
one that failed ends the loop (`StepsInv`). `AllAgree`: each of the reports that
follow the loop carries the one result (`ReportInv`). `SecretsMasked` joins two
facts. The masker has what has been fetched and is long enough, each value once
and the longest first (`MaskerInv`, by `Inserted` and `AddAllHolds`). And replacing
a value hides it for good: whatever has no star and is in a line after a
replacement was in it before (`ReplacedHides`, over the rest of the line from each
position, `Kept`), so no later value brings it back (`MaskHides`). A value printed
alone becomes the mask, since what goes before it is not part of it
(`NotWithin`) and nothing that comes after is part of the mask (`MaskWhole`). This last
is `StarsAssumption`: no value that is masked occurs in the mask, which in the code
is shorter than any of them. `RunTypes` is the type invariant.

**WorkspaceProofs**. `RightCommit` follows the commit from the warm dataset's
tree over the snapshot into the clone (`BuildInv`); for a run of the build
button it needs that a run that found a clone never clones again, and that what
is fetched is no older than the run (`WarmInv`). `LeftoversExplained` has three
parts (`TidyInv`): what there can be of a run at each of its commands (`OrderInv`),
that of a run that is over something is there only after a fault of it in one of the
commands nobody takes back, a snapshot being refused only for a clone whose
removal failed (`LeftInv`), and that a dataset without a clone is some run's between
its creation and its `git clone`, or was left there by a fault (`EmptyInv`).

**ArtifactStoreProofs**. With one agent at most one run is under way (`SoloInv`),
so that uploads and evictions never overlap; `FilesInv` adds to `RowsMatchFiles`
the upload that has its file still to list and the eviction that has rows still
to delete. For `EvictsOnlyStale` a run in the list of an eviction stays stale
(`StaleInv`): time only makes it older, and if one that came before it is
deleted then those before that one come before it too (`OthersStayStale`).
`RetentionHolds` is for any number of agents: once no upload is under way and every
query has been made, what is not on the list of some eviction is no more than the
window (`BoundInv`), as the last query saw all rows and chose all that are too many.
The runs are assumed to be finitely many (`RunsAssumption`), as `Cardinality` wants.

**StepOutputProofs**. `EachLineOnce` sees the line's way as one layout of nine
places (pipes, thread, channel, batch, request, abandoned requests, log), in
which nothing is twice (`Once`); every step moves the first line of a place or
all of it to another, loses some, or adds a line that is new (`MoveHead`,
`MoveAll`, `Lose`, `AddFresh`). `JailIsDown` needs that the guards of the jail
are there from the spawn until `run_step` returns, and what is there after a drop
that may have failed (`JailInv`, `DroppedIs`). `LogKeepsOutput`
joins log, request, batch, channel and the line in `run_step`'s hand to one
sequence, in the order of the way (`Sent`). Threads and tasks only move lines
within it; it grows by the next line of the output and is what the script has
written up to a point, with the pipe holding the rest (`SentInv`, `ErrInv` for
stderr). `PageShowsLog` needs that what a page has is a beginning of the log,
and that a page that was served after the end has a log that grows no more
(`PageInv`). `StepTypes` adds the capacities (`PlaceInv`).

Only model-checked: the liveness properties `EveryRunSettles`, `StepEnds` and
`SettlesAlone`, since the prover has no fairness or ENABLED, and the three runs
that end in a counterexample, which are about one instance by nature. No module
uses a RECURSIVE operator.

## Where the code does less than its comments say

Three runs end in a counterexample; `PROJECT.json` has, for each, the line of
code and the sentence it disagrees with.

* JobQueueTwoAgents: the claim is two statements, and two agents get one run.
* ZfsCacheCrash: a crash while a restored cache is mounted leaves a clone of
  `@latest`, which can not be destroyed from then on; later commits are lost.
* AgentRunNoRow: a step's status is an UPDATE of a row that nothing inserts.

These others the model contains as well, and a property leaves them out by its
condition, so that it holds for the rest:

* `ReportedAtTeardown`, `EveryRunSettles` (no faults): a final post that is
  lost, or an agent that crashes, leaves the row 'running' for ever.
* `RowsMatchFiles`, `OnlyStaleEvicted` (one agent): an eviction between
  the write and the INSERT of an upload, an upload between the removal of the
  directory and the DELETE, and an eviction of a run that has become young again
  since the query. With a fault, a directory that can not be removed loses its
  rows all the same.
* `JailTakenDown` (jail): on the host, a stdout line that is not UTF-8 ends
  `run_step` without wait or kill, and the script runs on. (`stuck`): the errors of
  `dail rm` and `remove_file` are dropped, so a jail with its processes or a file
  with the secrets may stay, and nobody is told. (A file cut short): a value with a
  line break ends `EnvFile::write` when the file is there already, with the lines
  before it, and nothing ever removes it.
* `PageIsLog`: while the run is live the page was served with rows that the
  stream sends again, from the first on, so they are shown twice until the page
  loads itself anew. An error of the stream closes it for good.
* `LogIsOutput`, through `Expected`: one such line on stderr costs all of
  stderr.
* `Agreement` (some step ran): an infrastructure failure, such as a cache that
  can not be attached, gives the commit no status.
* `BuildsWhatWasAsked` (ZFS): the dir backend builds the head of the default
  branch. (Repository cloned): the first run of a repository, when it comes from
  the build button, builds the default branch and not its own. `git clone` that
  fails leaves a dataset without a clone, which later runs take for the warm
  one, and fail.
* `LeftoversHaveCauses` (the causes it names): when the clone's mountpoint can not
  be set up, `prepare` leaves clone and snapshot; when the `git clone` of the
  dir backend fails, it leaves the run's directory; a removal that fails is
  logged at most; and the dataset of a first clone that failed stays empty, so that
  later runs of the repository fail. An agent that crashes leaves what its run
  had: such a run never comes to its end.
* `MountedApart` (plain paths): ".//a" loses its first two characters and is
  mounted at "/a", and "a//b" and "a/b" are two caches at one place. (Apart means
  another place): "a" and "a/b" are both accepted, and the one that is mounted
  last may hide the other.
* `NothingPrinted` (whole values, on one line): of two values that overlap in a
  line the rest of one stays, and a value of several lines is never masked. (No
  star in it): "a*" is masked, but behind a masked "a" the mask spells it again.
* `SettlesAlone` (one tab, or a session): an error of the callback leads to "/",
  whose gate begins the next sign-in, so that two tabs can undo each other's for
  ever.
* `ProjectsListed` (one repository of a name): `repos.name` is not unique, so
  the ssh and the https URL of one repository are two rows of the overview. A
  project whose only registration goes while its first run comes in, between
  the two queries, is not listed that time.

## Not modelled

* `Step.timeout`, `triggers` and the cron trigger are parsed and never used, and
  `needs` is checked but steps run in file order: there is nothing to model.
* Wording, the contents of the environment, command lines, HTML, and two
  repositories whose names are sanitized to the same dataset.
* The webhook's signature and JSON: a pure function of the request. A webhook
  that GitHub delivers twice makes two runs that nothing relates.
* cfgy's command line, exit codes and output; JWTs and the provider's messages.
* Listing and download of artifacts, the JSON API and the badges: one query,
  rendered.
* The native stack: `dfs` recurses once per step of a chain of needs.
* Processes a script leaves in the background, which hold stdout open: the step
  then never ends, since `Step.timeout` is never enforced.
* Two agents on one host, with the same datasets.
* Clocks that stand still or go back: runs created in the same tick have no
  defined order.

## Plan

Done: every module, with each safety property that a run shows proved as well.

Next, in this order:

1. An abstract specification of a run as the agent sees it, implemented by
   AgentRun, and AgentRun composed with JobQueue over it.
2. Workspace and caches together: what a crash leaves, and a cache mounted in
   the workspace that is destroyed with it.
