---------------------------- MODULE RunLifecycle ----------------------------
(***************************************************************************)
(* What the rest of the system (web pages, badges, log streams) may assume *)
(* about runs.status.  In calm times a run is queued, then running, then   *)
(* has a result, and a result is final.  Once something has disturbed the  *)
(* queue, a second agent or a fault, the row of a claimed run may be       *)
(* overwritten with anything but the queue.  This is the promise, not the  *)
(* code: JobQueue implements it.                                           *)
(***************************************************************************)
CONSTANT Runs
VARIABLES st,   \* the status of every run
          calm  \* nothing has disturbed the queue so far

Claimed == {"running", "success", "failure"}

Init == st = [r \in Runs |-> "absent"] /\ calm = TRUE

\* Move run r along one edge.
Edge(r, from, to) == st[r] = from /\ st' = [st EXCEPT ![r] = to]

Submit(r) == Edge(r, "absent", "queued")
Claim(r) == Edge(r, "queued", "running")
Finish(r) == Edge(r, "running", "success") \/ Edge(r, "running", "failure")

Overwrite(r) ==
  /\ ~calm
  /\ \E from, to \in Claimed : Edge(r, from, to)

Disturb == calm /\ calm' = FALSE /\ UNCHANGED st

Next ==
  \/ Disturb
  \/ /\ UNCHANGED calm
     /\ \E r \in Runs : Submit(r) \/ Claim(r) \/ Finish(r) \/ Overwrite(r)

Spec == Init /\ [][Next]_<<st, calm>>
=============================================================================
