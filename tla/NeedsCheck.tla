----------------------------- MODULE NeedsCheck -----------------------------
(***************************************************************************)
(* The check of `needs:` in a .flowz.yaml: validate refuses names that are *)
(* no step, and detect_cycle searches the rest depth first.  A call of dfs *)
(* is an element of `path`; the HashMap that detect_cycle iterates over    *)
(* gives its keys in any order.                                            *)
(***************************************************************************)
EXTENDS Naturals, Sequences

CONSTANTS Steps,    \* the steps of the file
          Unknown   \* names that are no step

ASSUME UnknownAssumption == Steps \cap Unknown = {}

VARIABLES
  needs,     \* the needs of each step
  toCheck,   \* steps validate has still to look at
  roots,     \* keys detect_cycle has still to start from
  path,      \* the steps of the dfs calls under way, outermost first
  todo,      \* what the call for a step has still to visit
  in_stack,
  visited,
  verdict    \* what validate returns

vars == <<needs, toCheck, roots, path, todo, in_stack, visited, verdict>>

TypeOK ==
  /\ needs \in [Steps -> SUBSET (Steps \cup Unknown)]
  /\ toCheck \subseteq Steps /\ roots \subseteq Steps
  /\ path \in Seq(Steps)
  /\ todo \in [Steps -> SUBSET (Steps \cup Unknown)]
  /\ in_stack \subseteq Steps /\ visited \subseteq Steps
  /\ verdict \in {"none", "ok", "malformed", "unknown", "cycle"}

Init ==
  /\ needs \in [Steps -> SUBSET (Steps \cup Unknown)]
  /\ toCheck = Steps /\ roots = Steps
  /\ path = <<>>
  /\ todo = [s \in Steps |-> {}]
  /\ in_stack = {} /\ visited = {}
  /\ verdict = "none"

\* Mutant of ValidateStep: the names in `needs` are not looked up.
ValidateNothing(s) ==
  /\ verdict = "none"
  /\ s \in toCheck
  /\ \/ verdict' = "malformed" /\ UNCHANGED toCheck
     \/ toCheck' = toCheck \ {s} /\ UNCHANGED verdict
  /\ UNCHANGED <<needs, roots, path, todo, in_stack, visited>>

\* A pass of validate's loop over the steps.  What a step has beside `needs`
\* may be refused first: no action or two, a path of a script or an artifact
\* that leaves the workspace, secrets without a provider.
ValidateStep(s) ==
  /\ verdict = "none"
  /\ s \in toCheck
  /\ \/ verdict' = "malformed" /\ UNCHANGED toCheck
     \/ /\ ~(needs[s] \subseteq Steps)
        /\ verdict' = "unknown" /\ UNCHANGED toCheck
     \/ /\ needs[s] \subseteq Steps
        /\ toCheck' = toCheck \ {s} /\ UNCHANGED verdict
  /\ UNCHANGED <<needs, roots, path, todo, in_stack, visited>>

Searching == verdict = "none" /\ toCheck = {}

\* Mutant of Enter: a step seen before is taken for a cycle.
EnterOnce(s, rest) ==
  /\ IF s \in in_stack \cup visited
     THEN verdict' = "cycle" /\ todo' = rest /\ UNCHANGED <<path, in_stack>>
     ELSE /\ path' = Append(path, s)
          /\ in_stack' = in_stack \cup {s}
          /\ todo' = [rest EXCEPT ![s] = needs[s]]
          /\ UNCHANGED verdict
  /\ UNCHANGED <<needs, visited, toCheck>>

\* Mutant of Enter: a step whose call is under way is passed over.
EnterIgnoresStack(s, rest) ==
  /\ IF s \in in_stack \cup visited
     THEN todo' = rest /\ UNCHANGED <<path, in_stack>>
     ELSE /\ path' = Append(path, s)
          /\ in_stack' = in_stack \cup {s}
          /\ todo' = [rest EXCEPT ![s] = needs[s]]
  /\ UNCHANGED <<needs, visited, toCheck, verdict>>

\* The call of dfs(s): an error, an immediate return, or a new level, while
\* the callers have `rest` left.
Enter(s, rest) ==
  /\ \/ /\ s \in in_stack
        /\ verdict' = "cycle"
        /\ todo' = rest
        /\ UNCHANGED <<path, in_stack>>
     \/ /\ s \in visited \ in_stack
        /\ todo' = rest
        /\ UNCHANGED <<path, in_stack, verdict>>
     \/ /\ s \notin visited \cup in_stack
        /\ path' = Append(path, s)
        /\ in_stack' = in_stack \cup {s}
        /\ todo' = [rest EXCEPT ![s] = needs[s]]
        /\ UNCHANGED verdict
  /\ UNCHANGED <<needs, visited, toCheck>>

\* The next key of the outer loop.
Root(s) ==
  /\ Searching
  /\ path = <<>>
  /\ s \in roots
  /\ roots' = roots \ {s}
  /\ Enter(s, todo)

top == path[Len(path)]

\* The next dependency of the innermost call.
Descend(d) ==
  /\ d \in todo[top]
  /\ Enter(d, [todo EXCEPT ![top] = @ \ {d}])
  /\ UNCHANGED roots

\* The innermost call has visited all it needs.
Return ==
  /\ Searching
  /\ path # <<>>
  /\ todo[top] = {}
  /\ path' = SubSeq(path, 1, Len(path) - 1)
  /\ in_stack' = in_stack \ {top}
  /\ visited' = visited \cup {top}
  /\ UNCHANGED <<needs, toCheck, roots, todo, verdict>>

Accept ==
  /\ Searching
  /\ path = <<>> /\ roots = {}
  /\ verdict' = "ok"
  /\ UNCHANGED <<needs, toCheck, roots, path, todo, in_stack, visited>>

Next ==
  \/ \E s \in Steps : ValidateStep(s) \/ Root(s)
  \/ Searching /\ path # <<>> /\ \E d \in todo[top] : Descend(d)
  \/ Return \/ Accept

Spec == Init /\ [][Next]_vars

(***************************************************************************)
(* Properties.                                                             *)
(***************************************************************************)

\* Some steps all wait for one another: none of them could ever go first.
Cyclic ==
  \E S \in SUBSET Steps : S # {} /\ \A s \in S : needs[s] \cap S # {}

\* A file that is accepted has an order to run its steps in: every name in
\* `needs` is a step, and no steps wait for one another.
AcceptsSound ==
  verdict = "ok" => /\ \A s \in Steps : needs[s] \subseteq Steps
                    /\ ~Cyclic

\* A file that is refused for a cycle has one, in whatever order the search
\* came across its steps.
RefusesSound == verdict = "cycle" => Cyclic
=============================================================================
