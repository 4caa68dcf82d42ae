---------------------------- MODULE ProjectPages ----------------------------
(***************************************************************************)
(* The overview of all projects and the page by page list of the runs of   *)
(* one, as one browser asks for them, while runs come in and repositories  *)
(* are registered and removed.  Each query is a step of its own.           *)
(***************************************************************************)
EXTENDS Naturals, Sequences, FiniteSets

CONSTANTS Projects,  \* names, "owner/repo"
          Urls,      \* clone URLs
          NameOf,    \* repo_from_clone_url: the name of each
          Branches,
          None,      \* no branch, no repository
          PageSize,  \* PROJECT_PAGE_SIZE, 50 in the code
          MaxRuns    \* bound: runs created

VARIABLES
  repos,    \* the table repos: the URLs registered
  runs,     \* the table runs, in the order of created_at
  at,       \* the query the browser waits for, or what it shows
  found,    \* the names list_projects has returned
  listed,   \* how often the overview lists each name
  asked,    \* the project and branch it shows a list of runs of
  page,     \* and the page number
  conf,     \* the registered URL of that project
  build,    \* what the Build button takes its clone_url and branch from
  rows,     \* the runs on the page
  more,     \* whether it has a link to the next one
  got,      \* ghost: the runs shown since page 1
  present,  \* ghost: the runs there when page 1 was asked for
  known     \* ghost: the projects registered, or seen in runs, ever since
            \* the first query

tables == <<repos, runs>>
overviewVars == <<found, listed>>
listVars == <<asked, page, conf, build, rows, more, got, present>>
pageVars == <<tables, at, overviewVars, listVars, known>>

Run == [repo : Projects, branch : Branches]

TypeOK ==
  /\ repos \subseteq Urls
  /\ runs \in Seq(Run) /\ Len(runs) <= MaxRuns
  /\ at \in {"nothing", "repos", "overview", "branches", "latest", "rows",
             "shown", "notfound"}
  /\ found \subseteq Projects /\ listed \in [Projects -> 0..Cardinality(Urls)]
  /\ asked \in [repo : Projects, branch : Branches \cup {None}]
  /\ page \in 1..(MaxRuns + 1)
  /\ conf \in Urls \cup {None} /\ build \in {"nothing", "repo", "run"}
  /\ {rows, got, present} \subseteq SUBSET (1..MaxRuns)
  /\ more \in {"yes", "no"}
  /\ known \subseteq {"repos", "runs"} \X Projects

NoList == [repo |-> CHOOSE n \in Projects : TRUE, branch |-> None]

Init ==
  /\ repos = {} /\ runs = <<>> /\ at = "nothing"
  /\ found = {} /\ listed = [n \in Projects |-> 0]
  /\ asked = NoList /\ page = 1 /\ conf = None /\ build = "nothing"
  /\ rows = {} /\ more = "no" /\ got = {} /\ present = {} /\ known = {}

(***************************************************************************)
(* The tables.                                                             *)
(***************************************************************************)

Registered(n) == {u \in repos : NameOf[u] = n}
RunsOf(n, b) ==
  {i \in DOMAIN runs : runs[i].repo = n /\ (b = None \/ runs[i].branch = b)}

Known == ({"repos"} \X {n \in Projects : Registered(n) # {}})
           \cup ({"runs"} \X {n \in Projects : RunsOf(n, None) # {}})
Still(n) == \E table \in {"repos", "runs"} : <<table, n>> \in known

Write ==
  /\ known' = known \cap Known'
  /\ UNCHANGED <<at, overviewVars, listVars>>

\* clone_url is UNIQUE, the name is not.
create_repo(u) ==
  u \notin repos /\ repos' = repos \cup {u} /\ UNCHANGED runs /\ Write

delete_repo(u) ==
  u \in repos /\ repos' = repos \ {u} /\ UNCHANGED runs /\ Write

create_run(r) ==
  /\ Len(runs) < MaxRuns
  /\ runs' = Append(runs, r)
  /\ UNCHANGED repos
  /\ Write

\* The browser turns to something else.
Leave ==
  /\ at \in {"overview", "shown", "notfound"} /\ at' = "nothing"
  /\ found' = {} /\ listed' = [n \in Projects |-> 0]
  /\ asked' = NoList /\ page' = 1 /\ conf' = None /\ build' = "nothing"
  /\ rows' = {} /\ more' = "no" /\ got' = {} /\ present' = {} /\ known' = {}
  /\ UNCHANGED tables

(***************************************************************************)
(* GET /                                                                   *)
(***************************************************************************)

\* The first query, list_projects: the names seen in runs.
ui_projects ==
  /\ at = "nothing" /\ at' = "repos"
  /\ found' = {n \in Projects : RunsOf(n, None) # {}}
  /\ known' = Known
  /\ UNCHANGED <<tables, listed, listVars>>

\* Mutant of ListRepos: registered repositories stay in the list when they are
\* those of a project with runs.
ListReposAgain ==
  /\ at = "repos" /\ at' = "overview"
  /\ listed' = [n \in Projects |->
       Cardinality(Registered(n)) + (IF n \in found THEN 1 ELSE 0)]
  /\ UNCHANGED <<tables, found, listVars, known>>

\* The second, list_repos.  A project with runs takes the first repository of
\* its name out of the list, and the rest of the list is appended.
ListRepos ==
  /\ at = "repos" /\ at' = "overview"
  /\ listed' = [n \in Projects |->
       IF n \in found /\ Registered(n) = {} THEN 1 ELSE Cardinality(Registered(n))]
  /\ UNCHANGED <<tables, found, listVars, known>>

(***************************************************************************)
(* GET /projects/<repo>?branch=<branch>&page=<page>                        *)
(***************************************************************************)

\* Its first query: the repository registered under the name, if any.
ui_project(n, b, p) ==
  /\ asked' = [repo |-> n, branch |-> b] /\ page' = p
  /\ IF Registered(n) = {} THEN conf' = None ELSE conf' \in Registered(n)
  /\ at' = "branches"
  /\ UNCHANGED <<tables, overviewVars, build, rows, more>>

Open(n, b) ==
  /\ at = "nothing"
  /\ ui_project(n, b, 1)
  /\ got' = {} /\ present' = RunsOf(n, b) /\ known' = Known

Follow ==
  /\ at = "shown" /\ more = "yes"
  /\ ui_project(asked.repo, asked.branch, page + 1)
  /\ UNCHANGED <<got, present, known>>

list_project_branches ==
  /\ at = "branches"
  /\ at' = IF conf # None THEN "rows"
           ELSE IF RunsOf(asked.repo, None) = {} THEN "notfound" ELSE "latest"
  /\ build' = IF conf # None THEN "repo" ELSE "nothing"
  /\ UNCHANGED <<tables, overviewVars, asked, page, conf, rows, more, got,
                 present, known>>

\* Without a repository, the Build button is for the latest run; it is for
\* nothing if there is no run.
LatestRun ==
  /\ at = "latest" /\ at' = "rows"
  /\ build' = IF RunsOf(asked.repo, None) = {} THEN "nothing" ELSE "run"
  /\ UNCHANGED <<tables, overviewVars, asked, page, conf, rows, more, got,
                 present, known>>

Matching == RunsOf(asked.repo, asked.branch)
Newer(i) == Cardinality({j \in Matching : j > i})

\* ... ORDER BY created_at DESC LIMIT n OFFSET m: the runs that match and have
\* m newer ones at least, up to n of them.
Selected(n, m) == {i \in Matching : Newer(i) \in m..(m + n - 1)}

Show(part, next) ==
  /\ at = "rows" /\ at' = "shown"
  /\ more' = IF next THEN "yes" ELSE "no"
  /\ rows' = part /\ got' = got \cup rows'
  /\ UNCHANGED <<tables, overviewVars, asked, page, conf, build, present, known>>

\* Mutant of list_project_runs: no extra row; a full page has a next one.
ListRunsExactly ==
  LET part == Selected(PageSize, (page - 1) * PageSize)
  IN Show(part, Cardinality(part) = PageSize)

\* One row more than the page has room for tells whether there is a next page.
list_project_runs ==
  LET part == Selected(PageSize + 1, (page - 1) * PageSize)
  IN Show({i \in part : Newer(i) < page * PageSize}, Cardinality(part) > PageSize)

Next ==
  \/ \E u \in Urls : create_repo(u) \/ delete_repo(u)
  \/ \E r \in Run : create_run(r)
  \/ Leave
  \/ ui_projects \/ ListRepos
  \/ \E n \in Projects, b \in Branches \cup {None} : Open(n, b)
  \/ Follow \/ list_project_branches \/ LatestRun \/ list_project_runs

Spec == Init /\ [][Next]_pageVars

(***************************************************************************)
(* Properties.                                                             *)
(***************************************************************************)

\* The overview lists every project that has been registered, or has had runs,
\* since its first query, and none twice, as long as a name is registered once.
\* (Two URLs of one repository, ssh and https, make it two projects.)
ProjectsListed ==
  [][ListRepos =>
       \A n \in Projects :
         /\ Still(n) => listed'[n] >= 1
         /\ Cardinality(Registered(n)) <= 1 => listed'[n] <= 1]_pageVars

\* Whoever follows the links from page 1 to the last sees every run that was
\* there when he began, though new ones shift the pages meanwhile, and never
\* an empty page.  A project that is there is found, and a page has something
\* to build, whatever changes between the queries.
PagesComplete ==
  /\ at = "shown" =>
       /\ more = "no" => present \subseteq got
       /\ page > 1 => rows # {}
       /\ build # "nothing"
  /\ at = "notfound" => ~Still(asked.repo)
=============================================================================
