------------------------------- MODULE MCWeb --------------------------------
(* SignIn and ProjectPages for TLC, side by side: a behaviour is one of    *)
(* the one or of the other, which have nothing in common but the server.   *)
EXTENDS SignIn, FiniteSets

CONSTANTS Projects, Urls, NameOf, Branches, PageSize, MaxRuns

ASSUME TablesAssumption ==
  /\ PageSize \in Nat \ {0} /\ MaxRuns \in Nat
  /\ IsFiniteSet(Urls) /\ Urls # {} /\ Projects # {}
  /\ NameOf \in [Urls -> Projects]
  /\ None \notin Urls \cup Branches

VARIABLES repos, runs, at, found, listed, asked_, page, conf, build, rows,
          more, got, present, known

List == INSTANCE ProjectPages WITH asked <- asked_

MCNameOf == [https |-> "p", ssh |-> "p"]

listVars == <<repos, runs, at, found, listed, asked_, page, conf, build, rows,
              more, got, present, known>>

MCInit == Init /\ List!Init
MCNext ==
  \/ Next /\ List!Init /\ UNCHANGED listVars
  \/ List!Next /\ Init /\ UNCHANGED vars

allVars == <<vars, listVars>>
MCSpec == MCInit /\ [][MCNext]_allVars /\ Fairness

\* All variables have their types.
TypesOK == TypeOK /\ List!TypeOK

\* The overview of projects is complete.
ProjectsListed == List!ProjectsListed

\* The pages of a project are complete.
PagesComplete == List!PagesComplete
=============================================================================
