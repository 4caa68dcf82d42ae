----------------------------- MODULE StepOutput -----------------------------
(***************************************************************************)
(* One step's process and the way of its output: the child writes into two *)
(* pipes, run_step (a blocking thread) hands stdout lines over a bounded   *)
(* channel as they come and the stderr lines, which a thread of their own  *)
(* collects, at the end; a consumer task posts what it finds in the        *)
(* channel as one batch; and ingest_logs inserts a batch line by line.  A   *)
(* browser looks on: RunPage.                                              *)
(***************************************************************************)
EXTENDS Naturals, Sequences, SequencesExt

CONSTANTS MaxLines,   \* bound: lines of each output
          PipeCap,    \* capacity of a pipe, in lines
          ChanCap,    \* capacity of the channel, 256 in the code
          MaxFaults   \* bound: lost posts, failed SQL statements

ASSUME BoundsAssumption ==
  /\ MaxLines \in Nat /\ MaxFaults \in Nat
  /\ PipeCap \in Nat \ {0} /\ ChanCap \in Nat \ {0}

Output == {"out", "err"}
Line == Output \X (1..MaxLines)
Mark == <<"mark", 1>>      \* the agent's "exit" or "executor error" line

VARIABLES
  executor, \* "host" (also the stub), or "dail": a step in a jail
  total,    \* how many lines the script writes to each output
  bad,      \* which of them is not UTF-8, 0 for none
  child,    \* the script, with whatever it left running on its output
  written,  \* lines written to each output
  pipe,     \* the pipes
  main,     \* where run_step is
  held,     \* the lines it has read and still has to send
  errs,     \* the stderr thread
  errLines, \* and what it has collected
  chan,     \* the log channel
  cons,     \* the consumer task
  batch,    \* the lines it has received and not posted
  agent,    \* where do_execute is with this step
  req,      \* the lines of the post under way still to be inserted
  stray,    \* those of posts the agent has given up
  log,      \* the rows of log_lines of this run
  envFile,  \* the file dail reads the environment from
  stuck,    \* ghost: what could not be removed, the jail or the file
  page, was, rendered, streamed,   \* the page of the run: see RunPage
  faults

script == <<executor, total, bad>>
childVars == <<child, written, envFile, stuck>>
mainVars == <<main, held>>
errVars == <<errs, errLines>>
consVars == <<cons, batch>>
serverVars == <<req, stray, log>>
viewVars == <<page, was, rendered, streamed>>
vars == <<script, childVars, pipe, mainVars, errVars, chan, consVars, agent,
          serverVars, viewVars, faults>>

Page == INSTANCE RunPage WITH over <- agent = "reported"

TypeOK ==
  /\ executor \in {"host", "dail"}
  /\ total \in [Output -> 0..MaxLines]
  /\ \A o \in Output : bad[o] \in 0..total[o]
  /\ child \in {"none", "running", "exited", "killed"}
  /\ \A o \in Output : written[o] \in 0..total[o] /\ Len(pipe[o]) <= PipeCap
  /\ main \in {"spawn", "stdout", "join", "stderr", "ended"}
  /\ held \in Seq(Line)
  /\ errs \in {"reading", "done", "failed"}
  /\ errLines \in Seq(Line)
  /\ chan \in Seq(Line) /\ Len(chan) <= ChanCap
  /\ cons \in {"recv", "more", "post", "ended"}
  /\ batch \in Seq(Line)
  /\ agent \in {"step", "mark", "reported"}
  /\ {req, stray, log} \subseteq Seq(Line \cup {Mark})
  /\ envFile \in {"none", "cut", "there"} /\ stuck \subseteq {"jail", "file"}
  /\ Page!TypeOK
  /\ faults \in 0..MaxFaults

Init ==
  /\ executor \in {"host", "dail"}
  /\ total \in [Output -> 0..MaxLines]
  /\ bad \in {b \in [Output -> 0..MaxLines] : \A o \in Output : b[o] <= total[o]}
  /\ child = "none"
  /\ written = [o \in Output |-> 0]
  /\ pipe = [o \in Output |-> <<>>]
  /\ main = "spawn" /\ held = <<>>
  /\ errs = "reading" /\ errLines = <<>>
  /\ chan = <<>>
  /\ cons = "recv" /\ batch = <<>>
  /\ agent = "step"
  /\ req = <<>> /\ stray = <<>> /\ log = <<>>
  /\ envFile = "none" /\ stuck = {}
  /\ Page!Init
  /\ faults = 0

Fault == faults < MaxFaults /\ faults' = faults + 1

(***************************************************************************)
(* The child process.                                                      *)
(***************************************************************************)

\* The read end of stdout is gone once run_step has returned, that of stderr
\* once its thread has failed.
Broken(o) == IF o = "out" THEN main = "ended" ELSE errs = "failed"

ChildWrites(o) ==
  /\ child = "running"
  /\ written[o] < total[o]
  /\ ~Broken(o)
  /\ Len(pipe[o]) < PipeCap
  /\ written' = [written EXCEPT ![o] = @ + 1]
  /\ pipe' = [pipe EXCEPT ![o] = Append(@, <<o, written[o] + 1>>)]
  /\ UNCHANGED <<script, child, envFile, stuck, mainVars, errVars, chan,
                 consVars, agent, serverVars, viewVars, faults>>

\* SIGPIPE or EPIPE: the script dies of it or goes on without the line.
ChildWritesBroken(o) ==
  /\ child = "running"
  /\ written[o] < total[o]
  /\ Broken(o)
  /\ \/ child' = "killed" /\ UNCHANGED written
     \/ written' = [written EXCEPT ![o] = @ + 1] /\ UNCHANGED child
  /\ UNCHANGED <<script, envFile, stuck, pipe, mainVars, errVars, chan, consVars,
                 agent, serverVars, viewVars, faults>>

ChildExits ==
  /\ child = "running"
  /\ written = total
  /\ child' = "exited"
  /\ UNCHANGED <<script, written, envFile, stuck, pipe, mainVars, errVars, chan,
                 consVars, agent, serverVars, viewVars, faults>>

Child == ChildExits \/ \E o \in Output : ChildWrites(o) \/ ChildWritesBroken(o)

(***************************************************************************)
(* run_step and its stderr thread.                                         *)
(***************************************************************************)

\* EnvFile and JailGuard are dropped when run_step returns.  The removal of
\* the file, or of the jail with its processes, may fail, which is ignored.
Dropped ==
  \E failed \in SUBSET {"file", "jail"} :
    /\ failed # {} => executor = "dail" /\ Fault
    /\ failed = {} => UNCHANGED faults
    /\ "jail" \in failed => child = "running"
    /\ stuck' = failed
    /\ envFile' = IF "file" \in failed THEN envFile ELSE "none"
    /\ child' = IF executor = "dail" /\ child = "running" /\ "jail" \notin failed
                THEN "killed" ELSE child

Spawn ==
  /\ main = "spawn"
  /\ child' = "running" /\ main' = "stdout"
  /\ envFile' = IF executor = "dail" THEN "there" ELSE "none"
  /\ UNCHANGED <<script, written, stuck, pipe, held, errVars, chan, consVars,
                 agent, serverVars, viewVars, faults>>

\* No process.  In a jail the environment is written first.  EnvFile::write
\* can fail before it has a file, and half way through it: at a value with a
\* line break, or an error of the disk.  A file it did complete is dropped.
SpawnFails ==
  /\ main = "spawn"
  /\ main' = "ended"
  /\ \/ envFile' \in (IF executor = "dail" THEN {"none", "cut"} ELSE {"none"})
        /\ UNCHANGED <<stuck, faults>>
     \/ executor = "dail" /\ Fault /\ envFile' = "there" /\ stuck' = {"file"}
  /\ UNCHANGED <<script, child, written, pipe, held, errVars, chan, consVars,
                 agent, serverVars, viewVars>>

\* Mutant of SendLine: the channel is unbounded.
SendLineAnyway ==
  /\ held # <<>>
  /\ chan' = Append(chan, Head(held))
  /\ held' = Tail(held)
  /\ UNCHANGED <<script, childVars, pipe, main, errVars, consVars, agent,
                 serverVars, viewVars, faults>>

\* on_line: blocking_send waits for room in the channel.
SendLine ==
  /\ held # <<>>
  /\ Len(chan) < ChanCap
  /\ chan' = Append(chan, Head(held))
  /\ held' = Tail(held)
  /\ UNCHANGED <<script, childVars, pipe, main, errVars, consVars, agent,
                 serverVars, viewVars, faults>>

Unreadable(o) == Head(pipe[o])[2] = bad[o]

ReadStdout ==
  /\ main = "stdout" /\ held = <<>>
  /\ pipe["out"] # <<>> /\ ~Unreadable("out")
  /\ held' = <<Head(pipe["out"])>>
  /\ pipe' = [pipe EXCEPT !["out"] = Tail(@)]
  /\ UNCHANGED <<script, childVars, main, errVars, chan, consVars, agent,
                 serverVars, viewVars, faults>>

\* Mutant of StdoutError: the jail is left alone.
StdoutErrorNoGuard ==
  /\ main = "stdout" /\ held = <<>>
  /\ pipe["out"] # <<>> /\ Unreadable("out")
  /\ main' = "ended"
  /\ UNCHANGED <<script, childVars, pipe, held, errVars, chan, consVars,
                 agent, serverVars, viewVars, faults>>

\* `line?` on a line that is not UTF-8: run_step returns with neither wait
\* nor kill.  In a jail, dropping JailGuard removes the jail with its
\* processes.
StdoutError ==
  /\ main = "stdout" /\ held = <<>>
  /\ pipe["out"] # <<>> /\ Unreadable("out")
  /\ main' = "ended"
  /\ Dropped
  /\ UNCHANGED <<script, written, pipe, held, errVars, chan, consVars, agent,
                 serverVars, viewVars>>

\* End of file, and the wait, which returns at once.
StdoutEnds ==
  /\ main = "stdout" /\ held = <<>>
  /\ pipe["out"] = <<>> /\ child # "running"
  /\ main' = "join"
  /\ UNCHANGED <<script, childVars, pipe, held, errVars, chan, consVars,
                 agent, serverVars, viewVars, faults>>

\* Mutant of ReadStderr: no thread of its own; stderr is read after stdout.
ReadStderrLater ==
  /\ errs = "reading" /\ main \in {"join", "ended"}
  /\ pipe["err"] # <<>>
  /\ IF Unreadable("err")
     THEN errs' = "failed" /\ UNCHANGED errLines
     ELSE errLines' = Append(errLines, Head(pipe["err"])) /\ UNCHANGED errs
  /\ pipe' = [pipe EXCEPT !["err"] = Tail(@)]
  /\ UNCHANGED <<script, childVars, mainVars, chan, consVars, agent,
                 serverVars, viewVars, faults>>

\* The collect stops at the first error.
ReadStderr ==
  /\ errs = "reading"
  /\ pipe["err"] # <<>>
  /\ IF Unreadable("err")
     THEN errs' = "failed" /\ UNCHANGED errLines
     ELSE errLines' = Append(errLines, Head(pipe["err"])) /\ UNCHANGED errs
  /\ pipe' = [pipe EXCEPT !["err"] = Tail(@)]
  /\ UNCHANGED <<script, childVars, mainVars, chan, consVars, agent,
                 serverVars, viewVars, faults>>

StderrEnds ==
  /\ errs = "reading"
  /\ pipe["err"] = <<>> /\ child \in {"exited", "killed"}
  /\ errs' = "done"
  /\ UNCHANGED <<script, childVars, pipe, mainVars, errLines, chan, consVars,
                 agent, serverVars, viewVars, faults>>

\* The stderr lines are sent when the thread has collected all of them.
JoinStderr ==
  /\ main = "join"
  /\ errs # "reading"
  /\ held' = IF errs = "done" THEN errLines ELSE <<>>
  /\ main' = "stderr"
  /\ UNCHANGED <<script, childVars, pipe, errVars, chan, consVars, agent,
                 serverVars, viewVars, faults>>

\* run_step returns and drops the sender.
RunStepEnds ==
  /\ main = "stderr" /\ held = <<>>
  /\ main' = "ended"
  /\ Dropped
  /\ UNCHANGED <<script, written, pipe, held, errVars, chan, consVars, agent,
                 serverVars, viewVars>>

run_step ==
  \/ Spawn \/ SpawnFails \/ SendLine \/ ReadStdout \/ StdoutError \/ StdoutEnds
  \/ JoinStderr \/ RunStepEnds

StderrThread == ReadStderr \/ StderrEnds

(***************************************************************************)
(* The consumer task and the agent that awaits both.                       *)
(***************************************************************************)

\* recv for the first line of a batch, try_recv for the others.
Receive ==
  /\ cons \in {"recv", "more"}
  /\ chan # <<>>
  /\ batch' = Append(batch, Head(chan))
  /\ chan' = Tail(chan)
  /\ cons' = "more"
  /\ UNCHANGED <<script, childVars, pipe, mainVars, errVars, agent,
                 serverVars, viewVars, faults>>

PostBatch ==
  /\ cons = "more"
  /\ chan = <<>>
  /\ req' = batch
  /\ cons' = "post"
  /\ UNCHANGED <<script, childVars, pipe, mainVars, errVars, chan, batch,
                 agent, stray, log, viewVars, faults>>

\* The response is there, or none will come; either way the lines are gone.
Posted ==
  /\ cons = "post"
  /\ req = <<>>
  /\ batch' = <<>>
  /\ cons' = "recv"
  /\ UNCHANGED <<script, childVars, pipe, mainVars, errVars, chan, agent,
                 serverVars, viewVars, faults>>

ConsumerEnds ==
  /\ cons = "recv"
  /\ chan = <<>> /\ main = "ended"
  /\ cons' = "ended"
  /\ UNCHANGED <<script, childVars, pipe, mainVars, errVars, chan, batch,
                 agent, serverVars, viewVars, faults>>

Consumer == Receive \/ PostBatch \/ Posted \/ ConsumerEnds

\* Mutant of PostMark: the consumer is not awaited.
PostMarkEarly ==
  /\ agent = "step"
  /\ main = "ended" /\ req = <<>>
  /\ req' = <<Mark>>
  /\ agent' = "mark"
  /\ UNCHANGED <<script, childVars, pipe, mainVars, errVars, chan, consVars,
                 stray, log, viewVars, faults>>

PostMark ==
  /\ agent = "step"
  /\ main = "ended" /\ cons = "ended"
  /\ req' = <<Mark>>
  /\ agent' = "mark"
  /\ UNCHANGED <<script, childVars, pipe, mainVars, errVars, chan, consVars,
                 stray, log, viewVars, faults>>

\* The step is reported, and the run when it was its last.
Report ==
  /\ agent = "mark"
  /\ req = <<>>
  /\ agent' = "reported"
  /\ UNCHANGED <<script, childVars, pipe, mainVars, errVars, chan, consVars,
                 serverVars, viewVars, faults>>

Agent == PostMark \/ Report

(***************************************************************************)
(* The server: ingest_logs.                                                *)
(***************************************************************************)

Insert ==
  /\ req # <<>>
  /\ log' = Append(log, Head(req))
  /\ req' = Tail(req)
  /\ UNCHANGED <<script, childVars, pipe, mainVars, errVars, chan, consVars,
                 agent, stray, viewVars, faults>>

\* An INSERT fails: 500, and the rest of the batch is not inserted.
InsertFails ==
  /\ req # <<>>
  /\ Fault
  /\ req' = <<>>
  /\ UNCHANGED <<script, childVars, pipe, mainVars, errVars, chan, consVars,
                 agent, stray, log, viewVars>>

\* Mutant of LosePost: the batch is posted once more.
LosePostRetry ==
  /\ req # <<>>
  /\ Fault
  /\ stray' = req
  /\ req' = IF cons = "post" THEN batch ELSE <<Mark>>
  /\ UNCHANGED <<script, childVars, pipe, mainVars, errVars, chan, consVars,
                 agent, log, viewVars>>

\* The agent's send fails while the handler may still be at work.
LosePost ==
  /\ req # <<>>
  /\ Fault
  /\ stray' = stray \o req
  /\ req' = <<>>
  /\ UNCHANGED <<script, childVars, pipe, mainVars, errVars, chan, consVars,
                 agent, log, viewVars>>

InsertStray ==
  /\ stray # <<>>
  /\ \/ log' = Append(log, Head(stray)) /\ stray' = Tail(stray)
     \/ stray' = <<>> /\ UNCHANGED log
  /\ UNCHANGED <<script, childVars, pipe, mainVars, errVars, chan, consVars,
                 agent, req, viewVars, faults>>

(***************************************************************************)
(* The browser.                                                            *)
(***************************************************************************)

noView == <<script, childVars, pipe, mainVars, errVars, chan, consVars, agent,
            serverVars>>

OpenPage == Page!Open /\ UNCHANGED <<noView, faults>>
ShowPage == (Page!ui_run \/ Page!stream_logs) /\ UNCHANGED <<noView, faults>>
PageTrouble ==
  /\ Page!StreamReadFails \/ Page!StreamCheckFails \/ Page!Break
  /\ Fault
  /\ UNCHANGED noView

Next ==
  \/ Child \/ run_step \/ StderrThread \/ Consumer \/ Agent
  \/ Insert \/ InsertFails \/ LosePost \/ InsertStray
  \/ OpenPage \/ ShowPage \/ PageTrouble

Spec == Init /\ [][Next]_vars

\* Threads, tasks and handlers are scheduled; the script writes on when it
\* can and exits after its last line.  Nobody need open the page.
FairSpec ==
  /\ Spec
  /\ WF_vars(Child) /\ WF_vars(run_step) /\ WF_vars(StderrThread)
  /\ WF_vars(Consumer) /\ WF_vars(Agent) /\ WF_vars(Insert)
  /\ WF_vars(ShowPage)

(***************************************************************************)
(* Properties.                                                             *)
(***************************************************************************)

Lines(o, n) == [k \in 1..n |-> <<o, k>>]

\* What the log of a step should be: its stdout lines in order up to one
\* that can not be read, then, unless a line could not be read, those of
\* stderr, then the agent's mark.
Expected ==
  LET n == IF child = "killed" THEN written["out"] ELSE total["out"]
      out == IF bad["out"] \in 1..n THEN bad["out"] - 1 ELSE n
      err == IF bad = [o \in Output |-> 0] THEN total["err"] ELSE 0
  IN IF child = "none" THEN <<Mark>>
     ELSE Lines("out", out) \o Lines("err", err) \o <<Mark>>

\* Thread, channel, batches and inserts keep the output whole and in order:
\* if no post or INSERT fails the log is a prefix of what it should be, and
\* all of it when the step is reported.
LogIsOutput == faults = 0 =>
  /\ main # "spawn" => IsPrefix(log, Expected)
  /\ agent = "reported" => log = Expected

\* Lost posts and failed inserts may cost lines and put a late one out of
\* place, but no line is ever logged twice.
NoLineTwice == \A i, j \in 1..Len(log) : log[i] = log[j] => i = j

\* The page shows the log: both the rows it is served with and those it is
\* sent are those of the log in order, none left out, and the stream catches
\* up with what the page began with.  A page that is served after the end
\* shows the whole output.  (Until then a row the page was served with is
\* sent again: the stream starts from the first.)
PageIsLog ==
  /\ IsPrefix(rendered, log) /\ IsPrefix(streamed, log)
  /\ faults = 0 =>
       /\ page = "check" => IsPrefix(rendered, streamed)
       /\ page = "settled" => rendered = Expected

\* A step in a jail leaves to the workspace's teardown and to later runs only
\* what could not be removed, even if its output can not be read or it never
\* started: when it is reported, no process of it is left unless the removal
\* of the jail failed, and no whole environment unless that of the file did.
\* One that was cut short stays for ever, but no script ran on it.  (A process
\* on the host may go on.)
JailTakenDown ==
  agent = "reported" /\ executor = "dail" =>
    /\ child = "running" => "jail" \in stuck
    /\ envFile = "there" => "file" \in stuck
    /\ envFile = "cut" => child = "none"

\* Full pipes and a full channel block no one for ever: a step whose script
\* ends is reported, and a page that is open comes to rest.
StepEnds ==
  /\ <>(agent = "reported")
  /\ page = "run" ~> page \in {"settled", "broken"}
=============================================================================
