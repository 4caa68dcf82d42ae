------------------------------ MODULE RunPage -------------------------------
(***************************************************************************)
(* The page of one run in a browser.  ui_run renders the log as it is; as  *)
(* long as the run is not over the page also opens stream_logs, which      *)
(* sends it the rows of the log from the first one on, and loads itself    *)
(* anew at the end.  The log grows and the run ends elsewhere.             *)
(***************************************************************************)
EXTENDS Naturals, Sequences, SequencesExt

VARIABLES
  log,       \* the rows of log_lines of this run
  over,      \* whether runs.status is a verdict
  page,      \* where the page, or the request it waits for, is
  was,       \* the status ui_run has read
  rendered,  \* the lines in the page as it was served
  streamed   \* the lines stream_logs has added since

pageVars == <<page, was, rendered, streamed>>

TypeOK ==
  /\ page \in {"shut", "run", "logs", "read", "check", "settled", "broken"}
  /\ was \in {"live", "over"}
  /\ rendered \in Seq(Range(log)) /\ streamed \in Seq(Range(log))

Init == page = "shut" /\ was = "live" /\ rendered = <<>> /\ streamed = <<>>

Move(from, to) == page = from /\ page' = to

\* The user opens the page.
Open == Move("shut", "run") /\ UNCHANGED <<was, rendered, streamed>>

\* ui_run: get_run, then list_steps and get_logs, each a query of its own.
GetRun ==
  /\ Move("run", "logs")
  /\ was' = IF over THEN "over" ELSE "live"
  /\ UNCHANGED <<rendered, streamed>>

GetLogs ==
  /\ Move("logs", IF was = "over" THEN "settled" ELSE "read")
  /\ rendered' = log
  /\ UNCHANGED <<was, streamed>>

\* Mutant of StreamRead: `id >= last_id`.
StreamReadFromLast ==
  /\ Move("read", "check")
  /\ streamed' = streamed \o
       SubSeq(log, IF streamed = <<>> THEN 1 ELSE Len(streamed), Len(log))
  /\ UNCHANGED <<was, rendered>>

\* get_logs_from(last_id), where last_id is 0 at first.
StreamRead ==
  /\ Move("read", "check")
  /\ streamed' = streamed \o SubSeq(log, Len(streamed) + 1, Len(log))
  /\ UNCHANGED <<was, rendered>>

\* An error counts as no rows.
StreamReadFails == Move("read", "check") /\ UNCHANGED <<was, rendered, streamed>>

\* "done": the page loads itself anew.
Reload ==
  /\ Move("check", "run")
  /\ rendered' = <<>> /\ streamed' = <<>>
  /\ UNCHANGED was

\* get_run says whether there may be more.
StreamCheck ==
  \/ over /\ Reload
  \/ ~over /\ Move("check", "read") /\ UNCHANGED <<was, rendered, streamed>>

\* An error counts as "done".
StreamCheckFails == Reload

\* ui_run fails, or the stream: its onerror closes it for good.
Break ==
  /\ page \in {"run", "logs", "read", "check"}
  /\ page' = "broken"
  /\ UNCHANGED <<was, rendered, streamed>>

\* What happens by itself once the page is open.
stream_logs == StreamRead \/ StreamCheck
ui_run == GetRun \/ GetLogs
=============================================================================
