------------------------------- MODULE SignIn -------------------------------
(***************************************************************************)
(* Signing in to the web pages: the gate before every page, the round trip *)
(* to the OIDC provider, and the three cookies in which one browser keeps  *)
(* all there is to know about it.  The server keeps nothing but the key it *)
(* signs sessions with.                                                    *)
(*                                                                         *)
(* The browser has several tabs, which share the cookies.  A request and   *)
(* its response are one step, except for the callback, which waits for the *)
(* provider between reading the cookies and setting them.                  *)
(***************************************************************************)
EXTENDS Naturals

CONSTANTS Tabs,
          Pages,
          Home,      \* "/", also where errors lead
          None,      \* no cookie, no page
          MaxVisits, \* bound: pages the user asks for
          MaxFaults  \* bound: refusals, failures, expiries and restarts

ASSUME HomeAssumption == Home \in Pages
ASSUME NoneAssumption == None \notin Pages \cup Tabs \cup Nat
ASSUME BoundsAssumption == MaxVisits \in Nat /\ MaxFaults \in Nat

VARIABLES
  \* The server.
  keyed,    \* whether jwt_secret is "configured" or "random"
  key,      \* the key at hand
  \* The cookies.
  state,    \* flowz_oidc_state: the tab whose latest sign-in it belongs to
  next,     \* flowz_oidc_next
  session,  \* flowz_session: the key it is signed with
  \* Of each tab.
  pc,       \* the request it makes
  want,     \* the page it is to show
  goal,     \* the page its callback read from the cookie
  shown,    \* the page it shows
  visits, faults,
  asked,    \* ghost: the page the user asked for
  used,     \* ghost: the tabs the user has used
  signins,  \* ghost: sign-ins begun while one tab was used, up to the bound
  trouble   \* ghost: events that cost a sign-in

server == <<keyed, key>>
cookies == <<state, next, session>>
vars == <<server, cookies, pc, want, goal, shown, visits, faults, asked, used,
          signins, trouble>>

TypeOK ==
  /\ keyed \in {"configured", "random"} /\ key \in Nat
  /\ state \in Tabs \cup {None}
  /\ next \in Pages \cup {None} /\ (next = None <=> state = None)
  /\ session \in 0..key \cup {None}
  /\ pc \in [Tabs -> {"rest", "gate", "login", "provider", "refused",
                      "callback", "exchange"}]
  /\ want \in [Tabs -> Pages] /\ goal \in [Tabs -> Pages]
  /\ shown \in [Tabs -> Pages \cup {None}] /\ asked \in [Tabs -> Pages]
  /\ used \subseteq Tabs
  /\ visits \in 0..MaxVisits /\ faults \in 0..MaxFaults
  /\ signins \in Nat /\ trouble \in Nat

Init ==
  /\ keyed \in {"configured", "random"} /\ key = 0
  /\ state = None /\ next = None /\ session = None
  /\ pc = [t \in Tabs |-> "rest"]
  /\ want = [t \in Tabs |-> Home] /\ goal = [t \in Tabs |-> Home]
  /\ shown = [t \in Tabs |-> None] /\ asked = [t \in Tabs |-> Home]
  /\ visits = 0 /\ faults = 0
  /\ used = {} /\ signins = 0 /\ trouble = 0

Solo == \A s, t \in used : s = t

Move(t, from, to) == pc[t] = from /\ pc' = [pc EXCEPT ![t] = to]
Cost(c) == trouble' = IF c THEN trouble + 1 ELSE trouble
Fault == faults < MaxFaults /\ faults' = faults + 1
NoFault == UNCHANGED <<faults, trouble>>

\* The tab is sent to page p; the handler that sends it has ended.
Redirect(t, from, p) ==
  /\ Move(t, from, "gate")
  /\ want' = [want EXCEPT ![t] = p]
  /\ goal' = [goal EXCEPT ![t] = Home]

Ask(t, from, p) ==
  /\ visits < MaxVisits /\ visits' = visits + 1
  /\ Redirect(t, from, p)
  /\ asked' = [asked EXCEPT ![t] = p]
  /\ shown' = [shown EXCEPT ![t] = None]
  /\ used' = used \cup {t}
  /\ UNCHANGED <<server, state, next, faults, signins>>

\* The user opens a page, perhaps instead of signing in.
Visit(t, p) ==
  \E from \in {"rest", "provider"} :
    Ask(t, from, p) /\ Cost(from = "provider") /\ UNCHANGED session

\* The session cookie is cleared, and the tab goes to "/".
logout(t) == Ask(t, "rest", Home) /\ Cost(TRUE) /\ session' = None

userVars == <<visits, asked, used>>

\* A session cookie opens the page if its signature can be verified.
Admitted == session = key

require_auth(t) ==
  /\ \/ /\ Admitted /\ Move(t, "gate", "rest")
        /\ shown' = [shown EXCEPT ![t] = want[t]]
     \/ ~Admitted /\ Move(t, "gate", "login") /\ UNCHANGED shown
  /\ NoFault
  /\ UNCHANGED <<server, cookies, want, goal, userVars, signins>>

\* A fresh state, and the page to come back to, go into cookies.
login(t) ==
  /\ Move(t, "login", "provider")
  /\ state' = t /\ next' = want[t]
  /\ signins' = IF Solo /\ signins <= 1 + trouble THEN signins + 1 ELSE signins
  /\ NoFault
  /\ UNCHANGED <<server, session, want, goal, shown, userVars>>

\* The provider sends the browser back with a code.
Approve(t) ==
  /\ Move(t, "provider", "callback")
  /\ NoFault
  /\ UNCHANGED <<server, cookies, want, goal, shown, userVars, signins>>

\* Or with an error.
Refuse(t) ==
  /\ Fault /\ Cost(TRUE)
  /\ Move(t, "provider", "refused")
  /\ UNCHANGED <<server, cookies, want, goal, shown, userVars, signins>>

\* Mutant of error_redirect: only the state cookie is cleared.
ErrorKeepsNext(t, from) ==
  /\ Redirect(t, from, Home)
  /\ state' = None
  /\ UNCHANGED <<server, next, session, shown, userVars, signins>>

\* "/?auth_error=...": the cookies of the sign-in are cleared.
error_redirect(t, from) ==
  /\ Redirect(t, from, Home)
  /\ state' = None /\ next' = None
  /\ UNCHANGED <<server, session, shown, userVars, signins>>

\* The provider's error is passed on.
CallbackRefused(t) == error_redirect(t, "refused") /\ NoFault

\* The state cookie is gone, or that of a later sign-in.
CallbackStale(t) == state # t /\ error_redirect(t, "callback") /\ NoFault

\* Mutant of CallbackMatch: any state cookie will do.
CallbackAnyState(t) ==
  /\ state # None
  /\ Move(t, "callback", "exchange")
  /\ goal' = [goal EXCEPT ![t] = next]
  /\ NoFault
  /\ UNCHANGED <<server, cookies, want, shown, userVars, signins>>

\* The state is that of the cookie; the page is read from the other one, and
\* the code goes to the provider.
CallbackMatch(t) ==
  /\ state = t
  /\ Move(t, "callback", "exchange")
  /\ goal' = [goal EXCEPT ![t] = next]
  /\ NoFault
  /\ UNCHANGED <<server, cookies, want, shown, userVars, signins>>

\* Mutant of ExchangeOk: the session cookie is not among the headers.
ExchangeWithoutSession(t) ==
  /\ Redirect(t, "exchange", goal[t])
  /\ state' = None /\ next' = None
  /\ NoFault
  /\ UNCHANGED <<server, session, shown, userVars, signins>>

\* The provider names the user: a session, and on to the page.  Whatever
\* sign-in the state cookie belongs to by now, it is cleared.
ExchangeOk(t) ==
  /\ Redirect(t, "exchange", goal[t])
  /\ session' = key
  /\ state' = None /\ next' = None
  /\ NoFault
  /\ UNCHANGED <<server, shown, userVars, signins>>

\* The provider rejects the code, can not be reached or names no user.
ExchangeFails(t) == Fault /\ Cost(TRUE) /\ error_redirect(t, "exchange")

callback(t) ==
  \/ CallbackRefused(t) \/ CallbackStale(t) \/ CallbackMatch(t)
  \/ ExchangeOk(t) \/ ExchangeFails(t)

\* Max-Age of the sign-in's cookies, 300s, or of the session, 24h, is over.
ExpireLogin ==
  /\ Fault /\ Cost(TRUE)
  /\ state # None /\ state' = None /\ next' = None
  /\ UNCHANGED <<server, session, pc, want, goal, shown, userVars, signins>>

ExpireSession ==
  /\ Fault /\ Cost(TRUE)
  /\ session # None /\ session' = None
  /\ UNCHANGED <<server, state, next, pc, want, goal, shown, userVars, signins>>

\* The server's requests die with it; a browser shows an error then.
Dies(t) == pc[t] = "exchange"
KeyLost == keyed = "random"

\* Mutant of Restart: sign-ins are kept in the server's memory.
RestartForgetsLogins ==
  /\ Fault
  /\ key' = IF KeyLost THEN key + 1 ELSE key
  /\ pc' = [t \in Tabs |-> IF Dies(t) THEN "rest" ELSE pc[t]]
  /\ Cost((KeyLost /\ session # None) \/ \E t \in Tabs : Dies(t))
  /\ state' = None /\ next' = None
  /\ UNCHANGED <<keyed, session, want, goal, shown, userVars, signins>>

\* Without a configured key there is a new one, and no session is valid.
Restart ==
  /\ Fault
  /\ key' = IF KeyLost THEN key + 1 ELSE key
  /\ pc' = [t \in Tabs |-> IF Dies(t) THEN "rest" ELSE pc[t]]
  /\ Cost((KeyLost /\ session # None) \/ \E t \in Tabs : Dies(t))
  /\ UNCHANGED <<keyed, cookies, want, goal, shown, userVars, signins>>

User == \E t \in Tabs : logout(t) \/ \E p \in Pages : Visit(t, p)
Serve(t) == require_auth(t) \/ login(t) \/ callback(t)
Answer(t) == Approve(t) \/ Refuse(t)

Next ==
  \/ User
  \/ \E t \in Tabs : Serve(t) \/ Answer(t)
  \/ ExpireLogin \/ ExpireSession \/ Restart

Spec == Init /\ [][Next]_vars

\* The server answers its requests, and the provider those of the server and
\* of the browser; nothing limits how long either may take.  The user need do
\* nothing.
Fairness == \A t \in Tabs : WF_vars(Serve(t)) /\ WF_vars(Answer(t))

FairSpec == Spec /\ Fairness

(***************************************************************************)
(* Properties.                                                             *)
(***************************************************************************)

\* Whatever the tabs do to each other's cookies, none ever shows the page of
\* another: it shows the page asked for, or home after a sign-in that failed,
\* which takes two tabs or a fault.
LandsWhereAsked ==
  \A t \in Tabs :
    \/ shown[t] \in {None, asked[t]}
    \/ shown[t] = Home /\ ~(Solo /\ faults = 0)

\* One tab signs in once, and again only for a reason: a refusal, an expiry,
\* a logout, a key that was lost with a session, a server that died between
\* code and session.  A restart while the user is at the provider is none.
SignsInOnce == Solo => signins <= 1 + trouble

\* A tab that asks for a page gets one as long as no other tab signs in too,
\* or the browser has a session.  (Two tabs that sign in at once can undo each
\* other's sign-in for ever.)
SettlesAlone ==
  \A t \in Tabs :
    LET Undisturbed == Solo \/ Admitted
    IN pc[t] # "rest" /\ Undisturbed ~> pc[t] = "rest" \/ ~Undisturbed
=============================================================================
