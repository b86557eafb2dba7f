------------------------------ MODULE WebClient ------------------------------
(***************************************************************************)
(* The client of the researcher's pages and the session it keeps alive:    *)
(* apiFetch() and tryRefresh() of client.ts, useAuth.ts with the Guard of  *)
(* App.tsx, the pages that sign in and out, the list of surveys and the    *)
(* plan of the settings, over a network that answers late and may lose a   *)
(* call, with the refresh tokens of either backend behind it.              *)
(*                                                                         *)
(* One researcher with one tab.  Sign-ins and refreshes are numbered: the  *)
(* n-th gives out access token n and refresh token n.  A call the page     *)
(* waits for is a slot; it may go to the server, be refused, ask for a     *)
(* refresh and go again.  A reload leaves what it has sent to the server   *)
(* and forgets the rest.                                                   *)
(***************************************************************************)
EXTENDS Naturals, FiniteSets

CONSTANTS
    Slots,      \* calls under way together
    MaxIssued,  \* bound: tokens given out
    MaxSent,    \* bound: calls the researcher makes
    MaxTurns,   \* bound: pages opened or gone back to, calls and answers lost,
                \* passwords reset, sessions that expire, statements that fail
    Nothing

ASSUME ClientAssumption ==
    /\ IsFiniteSet(Slots)
    /\ MaxIssued \in Nat \ {0} /\ MaxSent \in Nat /\ MaxTurns \in Nat
    /\ Nothing \notin Slots

VARIABLES
    tokens,     \* rows of refresh_tokens that have not expired; one that has is to
                \* every statement as if it were not there
    issued,     \* how many there have been
    fresh,      \* access tokens that have not expired
    plan,       \* of the organization
    surveyRow,  \* whether the survey is in the database
    token,      \* vf_token in localStorage, 0 when there is none
    cookie,     \* vf_refresh, 0 when there is none
    path,       \* "login", or "app" behind the Guard
    globalUser, \* the user, for which the plan stands
    guard,      \* the user the Guard and its pages show
    loader,     \* the call the Guard waits for with its loader
    planner,    \* the call the settings wait for, planLoading
    leaving,    \* location.href = '/login' has been set
    listed,     \* whether the list of surveys shows the survey
    calls,
    sent, turns,
    signedIn,   \* history: a sign-in has been answered and no sign-out
                \* asked for since
    signedOut,  \* history: the last was a sign-out
    mishaps     \* history: what has come between

backendVars == <<tokens, issued, fresh, plan, surveyRow>>
storageVars == <<token, cookie>>
userVars == <<path, globalUser, guard, loader, planner, leaving>>
boundVars == <<sent, turns>>
clientHistory == <<signedIn, signedOut, mishaps>>
clientVars == <<backendVars, storageVars, userVars, listed, calls, boundVars,
                clientHistory>>

Tokens == 1..MaxIssued
Plans == {"FREE", "PRO"}
Kinds == {"me", "list", "delete", "login", "logout", "plan", "user",
          "old"}    \* a list that has been asked for again
CallPhases == {"sent", "ok", "refused", "error", "refresh", "read", "deleted", "granted",
           "denied"}
Call == [kind : Kinds, at : CallPhases, auth : 0..MaxIssued, cookie : 0..MaxIssued,
         new : 0..MaxIssued, says : Plans \cup {"there", "gone", Nothing}, again : BOOLEAN,
         heard : BOOLEAN]

\* What may come between a researcher and what the pages promise.
Mishaps == {"together", "late", "lost", "reset", "expired", "failed", "left", "moved",
            "unsaid", "away", "elsewhere", "crossed"}
\* Of these, what only lists and plans suffer from.
OfPages == {"moved", "unsaid", "elsewhere", "crossed"}

ASSUME NothingAssumption == Nothing \notin Call \cup Plans \cup {"there", "gone"}

\* Every variable has its type; nobody waits for a call that does not exist.
ClientTypeOK ==
    /\ tokens \subseteq Tokens /\ issued \in 0..MaxIssued /\ fresh \subseteq Tokens
    /\ plan \in Plans /\ surveyRow \in {"there", "gone"}
    /\ token \in 0..MaxIssued /\ cookie \in 0..MaxIssued
    /\ path \in {"login", "app"}
    /\ globalUser \in Plans \cup {Nothing} /\ guard \in Plans \cup {Nothing}
    /\ calls \in [Slots -> Call \cup {Nothing}]
    /\ loader \in Slots \cup {Nothing} /\ planner \in Slots \cup {Nothing}
    /\ loader # Nothing => calls[loader] # Nothing /\ calls[loader].kind = "me"
    /\ planner # Nothing => calls[planner] # Nothing
                         /\ calls[planner].kind \in {"plan", "user"}
    /\ leaving \in BOOLEAN /\ listed \in {"there", "gone"}
    /\ signedIn \in BOOLEAN /\ signedOut \in BOOLEAN
    /\ mishaps \subseteq Mishaps

\* Nobody has signed in, or somebody has and looks at the list.
ClientInit ==
    /\ \E n \in {0, 1} :
          /\ tokens = 1..n /\ issued = n /\ fresh = 1..n
          /\ token = n /\ cookie = n
          /\ path = IF n = 0 THEN "login" ELSE "app"
          /\ globalUser = IF n = 0 THEN Nothing ELSE "FREE"
          /\ guard = globalUser /\ signedIn = (n = 1)
          /\ listed = (IF n = 0 THEN "gone" ELSE "there") /\ sent = n
    /\ plan = "FREE" /\ surveyRow = "there"
    /\ loader = Nothing /\ planner = Nothing /\ leaving = FALSE
    /\ calls = [c \in Slots |-> Nothing]
    /\ turns = 0
    /\ signedOut = FALSE /\ mishaps = {}

-----------------------------------------------------------------------------
(* Calls.                                                                  *)

\* apiFetch(): the token that localStorage holds goes with the call; with a plan
\* the one that is not shown.
Request(kind, auth) ==
    [kind |-> kind, at |-> "sent", auth |-> auth, cookie |-> cookie, new |-> 0,
     says |-> IF kind # "plan" THEN Nothing ELSE IF guard = "PRO" THEN "FREE" ELSE "PRO",
     again |-> FALSE, heard |-> TRUE]

Under(c, phases) == calls[c] # Nothing /\ calls[c].at \in phases
Heard(c, phases) == Under(c, phases) /\ calls[c].heard
Waiting(kind) == {c \in Slots : calls[c] # Nothing /\ calls[c].heard
                                /\ calls[c].kind = kind}
Refreshing ==
    {c \in Slots : Under(c, {"refresh", "read", "deleted", "granted", "denied"})}
\* The slot of the next call; which one makes no difference.
Free(c) == calls[c] = Nothing /\ c = CHOOSE d \in Slots : calls[d] = Nothing

Others(c) == {d \in Slots \ {c} : calls[d] # Nothing}

Turn == turns < MaxTurns /\ turns' = turns + 1

\* The next sign-in or refresh, _issue_tokens().
Issue == issued + 1
Issued == issued < MaxIssued /\ issued' = Issue /\ fresh' = fresh \cup {Issue}

\* Its INSERT, whose error the Go backend ignores.
StoreToken ==
    \/ tokens' = tokens \cup {Issue} /\ UNCHANGED <<mishaps, turns>>
    \/ Turn /\ tokens' = tokens /\ mishaps' = mishaps \cup {"failed"}

To(c, phase) == calls' = [calls EXCEPT ![c].at = phase]
Answer(c, says) == calls' = [calls EXCEPT ![c].at = "ok", ![c].says = says]

\* Answers on their way that tell another plan than the one there is from now on.
TellOther(p) == {c \in Slots : /\ Heard(c, {"ok"}) /\ calls[c].says # p
                               /\ calls[c].kind \in {"me", "user", "login"}}

\* The server serves a call with a token, or refuses one that has expired.
Serve(c) ==
    /\ Under(c, {"sent"}) /\ calls[c].kind \notin {"login", "logout"}
    /\ IF calls[c].auth \notin fresh
          THEN To(c, "refused") /\ UNCHANGED <<plan, surveyRow, mishaps>>
          ELSE \/ /\ calls[c].kind \in {"me", "user"}
                  /\ Answer(c, plan) /\ UNCHANGED <<plan, surveyRow, mishaps>>
               \/ /\ calls[c].kind \in {"list", "old"}
                  /\ Answer(c, surveyRow) /\ UNCHANGED <<plan, surveyRow, mishaps>>
               \/ /\ calls[c].kind = "delete"
                  /\ To(c, IF surveyRow = "there" THEN "ok" ELSE "error")
                  /\ surveyRow' = "gone" /\ UNCHANGED <<plan, mishaps>>
               \/ /\ calls[c].kind = "plan"
                  /\ plan' = calls[c].says
                  /\ To(c, "ok") /\ UNCHANGED surveyRow
                  /\ mishaps' = mishaps \cup (IF TellOther(plan') # {} THEN {"crossed"} ELSE {})
    /\ UNCHANGED <<tokens, issued, fresh, storageVars, userVars, listed, boundVars,
                   signedIn, signedOut>>

\* Login, or register; the password may be wrong.
ServeLogin(c) ==
    /\ Under(c, {"sent"}) /\ calls[c].kind = "login"
    /\ \/ /\ Issued
          /\ StoreToken
          /\ calls' = [calls EXCEPT ![c].at = "ok", ![c].new = Issue, ![c].says = plan]
       \/ /\ To(c, "refused")
          /\ UNCHANGED <<issued, fresh, tokens, mishaps, turns>>
    /\ UNCHANGED <<plan, surveyRow, storageVars, userVars, listed, sent, signedIn,
                   signedOut>>

\* A DELETE; in the Go backend one that fails is not noticed.
DeleteToken(n) ==
    \/ tokens' = tokens \ {n} /\ UNCHANGED turns
    \/ Turn /\ tokens' = tokens

ServeLogout(c) ==
    /\ Under(c, {"sent"}) /\ calls[c].kind = "logout"
    /\ DeleteToken(calls[c].cookie)
    /\ To(c, "ok")
    /\ UNCHANGED <<issued, fresh, plan, surveyRow, storageVars, userVars, listed, sent,
                   clientHistory>>

\* Refresh: SELECT, of a row that has not expired ...
RefreshRead(c) ==
    /\ Under(c, {"refresh"})
    /\ To(c, IF calls[c].cookie \in tokens THEN "read" ELSE "denied")
    /\ UNCHANGED <<backendVars, storageVars, userVars, listed, boundVars, clientHistory>>

\* ... DELETE ...
RefreshDelete(c) ==
    /\ Under(c, {"read"})
    /\ DeleteToken(calls[c].cookie)
    /\ To(c, "deleted")
    /\ UNCHANGED <<issued, fresh, plan, surveyRow, storageVars, userVars, listed, sent,
                   clientHistory>>

\* ... INSERT.
RefreshIssue(c) ==
    /\ Under(c, {"deleted"})
    /\ Issued
    /\ StoreToken
    /\ calls' = [calls EXCEPT ![c].at = "granted", ![c].new = Issue]
    /\ UNCHANGED <<plan, surveyRow, storageVars, userVars, listed, sent, signedIn,
                   signedOut>>

\* A statement fails and the backend notices: Go the SELECTs of the token and of the
\* user, FastAPI each of them.  Or there is no such user.  What was done stays done.
\* It fails too when the bound of the tokens is reached, whatever the turns.
RefreshFails(c) ==
    /\ Under(c, {"refresh", "read", "deleted"})
    /\ Turn \/ (issued = MaxIssued /\ calls[c].at = "deleted" /\ UNCHANGED turns)
    /\ To(c, "denied")
    /\ mishaps' = mishaps \cup {"failed"}
    /\ UNCHANGED <<backendVars, storageVars, userVars, listed, sent, signedIn,
                   signedOut>>

Expire ==
    /\ \E n \in fresh : fresh' = fresh \ {n}
    /\ UNCHANGED <<tokens, issued, plan, surveyRow, storageVars, userVars, listed, calls,
                   boundVars, clientHistory>>

\* The password is reset with a link: no refresh token is left.
ResetPassword ==
    /\ Turn
    /\ tokens # {} /\ tokens' = {}
    /\ mishaps' = mishaps \cup {"reset"}
    /\ UNCHANGED <<issued, fresh, plan, surveyRow, storageVars, userVars, listed, calls,
                   sent, signedIn, signedOut>>

\* The session is old, JWT_REFRESH_TTL; the browser, which was given the same limit,
\* drops the cookie a little earlier or later.
SessionExpires ==
    /\ Turn
    /\ \E n \in tokens :
          /\ tokens' = tokens \ {n}
          /\ cookie' \in {cookie, IF cookie = n THEN 0 ELSE cookie}
    /\ mishaps' = mishaps \cup {"expired"}
    /\ UNCHANGED <<issued, fresh, plan, surveyRow, token, userVars, listed, calls, sent,
                   signedIn, signedOut>>

\* The call is not sent, is answered with 500 and changes nothing, or its answer does
\* not come.
Lose(c) ==
    /\ Turn
    /\ Under(c, {"sent", "ok", "refused", "refresh", "granted"})
    /\ To(c, IF calls[c].at \in {"refresh", "granted"} THEN "denied" ELSE "error")
    /\ mishaps' = mishaps \cup {"lost"}
    /\ UNCHANGED <<backendVars, storageVars, userVars, listed, sent, signedIn,
                   signedOut>>

-----------------------------------------------------------------------------
(* The pages.  Each ends with where the page is, who it shows, what it      *)
(* waits for, and the calls.                                                *)

\* useAuth() on a page that appears: without a user and with a token it asks who
\* it is; `on` is the slot it may use.
Asks(user, t) == user = Nothing /\ t # 0

\* The sign-in page.
AtLogin(user, t, on, left) ==
    /\ path' = "login" /\ guard' = Nothing /\ loader' = Nothing /\ planner' = Nothing
    /\ globalUser' = user
    /\ calls' = [left EXCEPT ![on] = IF Asks(user, t) THEN Request("me", t) ELSE @]

\* The Guard: its pages, its loader, or back to the sign-in page.
AtGuard(user, t, on, left) ==
    IF user # Nothing
       THEN /\ path' = "app" /\ guard' = user /\ loader' = Nothing /\ planner' = Nothing
            /\ globalUser' = user /\ calls' = left
       ELSE IF t # 0
       THEN /\ path' = "app" /\ guard' = Nothing /\ loader' = on /\ planner' = Nothing
            /\ globalUser' = user
            /\ calls' = [left EXCEPT ![on] = Request("me", t)]
       ELSE AtLogin(user, t, on, left)

At(p, user, t, on, left) ==
    IF p = "app" THEN AtGuard(user, t, on, left) ELSE AtLogin(user, t, on, left)

\* A reload leaves the calls to the server.
Unheard(left) == [c \in Slots |-> IF left[c] = Nothing THEN Nothing
                                  ELSE [left[c] EXCEPT !.heard = FALSE]]

\* What a reload breaks off: a session being given out or taken back, or a change.
Parting ==
    (IF Refreshing \cup Waiting("login") \cup Waiting("logout") # {} THEN {"left"} ELSE {})
    \cup (IF Waiting("delete") \cup Waiting("plan") # {} THEN {"moved"} ELSE {})

\* The address is typed, or the page is reloaded.
Open ==
    /\ Turn
    /\ \E p \in {"login", "app"}, c \in Slots :
          /\ Free(c)
          /\ At(p, Nothing, token, c, Unheard(calls))
    /\ leaving' = FALSE /\ listed' = "gone"
    /\ mishaps' = mishaps \cup Parting
    /\ UNCHANGED <<backendVars, storageVars, sent, signedIn, signedOut>>

\* location.href takes effect.
Depart ==
    /\ leaving /\ leaving' = FALSE
    /\ \E c \in Slots : Free(c) /\ AtLogin(Nothing, token, c, Unheard(calls))
    /\ listed' = "gone"
    /\ mishaps' = mishaps \cup Parting
    /\ UNCHANGED <<backendVars, storageVars, boundVars, signedIn, signedOut>>

\* The back button, within the application.
GoBack ==
    /\ ~leaving /\ Turn
    /\ \E p \in {"login", "app"} \ {path}, c \in Slots :
          /\ Asks(globalUser, token) => Free(c)
          /\ At(p, globalUser, token, c, calls)
    /\ UNCHANGED <<backendVars, storageVars, leaving, listed, sent, clientHistory>>

Make(c, kind) ==
    /\ Free(c) /\ ~leaving
    /\ sent < MaxSent /\ sent' = sent + 1
    /\ calls' = [calls EXCEPT ![c] = Request(kind, token)]
    /\ UNCHANGED <<backendVars, storageVars, path, globalUser, guard, loader, leaving,
                   listed, turns, signedOut>>
    /\ mishaps' = mishaps \cup (IF kind = "login" /\ Others(c) # {} THEN {"late"} ELSE {})

InApp == path = "app" /\ guard # Nothing /\ loader = Nothing

\* The form, whose button is disabled while it waits.
Login(c) ==
    /\ path = "login" /\ Waiting("login") = {}
    /\ Make(c, "login") /\ UNCHANGED <<planner, signedIn>>

Logout(c) == InApp /\ Make(c, "logout") /\ signedIn' = FALSE /\ UNCHANGED planner

\* The list appears, or the window gets the focus when it is old.
List(c) ==
    /\ InApp /\ Waiting("list") = {}
    /\ Make(c, "list") /\ UNCHANGED <<planner, signedIn>>

DeleteSurvey(c) ==
    /\ InApp /\ listed = "there"
    /\ Make(c, "delete") /\ UNCHANGED <<planner, signedIn>>

SwitchPlan(c) ==
    /\ InApp /\ planner = Nothing /\ planner' = c
    /\ Make(c, "plan") /\ UNCHANGED signedIn

-----------------------------------------------------------------------------
(* Answers.                                                                *)

Gone(c) == [calls EXCEPT ![c] = Nothing]

\* A 401 of a call sent with a token: tryRefresh().
Refuse(c) ==
    /\ Heard(c, {"refused"}) /\ calls[c].auth # 0 /\ ~calls[c].again
    /\ calls' = [calls EXCEPT ![c].at = "refresh", ![c].cookie = cookie]
    /\ mishaps' = mishaps \cup (IF Refreshing # {} THEN {"together"} ELSE {})
    /\ UNCHANGED <<backendVars, storageVars, userVars, listed, boundVars, signedIn,
                   signedOut>>

\* The tokens are stored and the call goes again.
Refreshed(c) ==
    /\ Heard(c, {"granted"})
    /\ token' = calls[c].new /\ cookie' = calls[c].new
    /\ calls' = [calls EXCEPT ![c].at = "sent", ![c].auth = calls[c].new,
                              ![c].new = 0, ![c].again = TRUE]
    /\ UNCHANGED <<backendVars, userVars, listed, boundVars, clientHistory>>

\* Mutant: an answer to an earlier list is let in.
AgainJoined(c) == [Gone(c) EXCEPT ![c] = Request("list", token)]

\* invalidateQueries(['surveys']): asked again, and what is on its way dropped;
\* on another page, once the list appears.
Again(c) ==
    [d \in Slots |-> IF d = c THEN Request("list", token)
                     ELSE IF d \in Waiting("list") THEN [calls[d] EXCEPT !.kind = "old"]
                     ELSE calls[d]]

\* switchPlan() goes on with refreshUser().
Planned(c) ==
    /\ calls' = [calls EXCEPT ![c] = Request("user", token)]
    /\ UNCHANGED planner

\* What a call that has succeeded does.  A DELETE sent again is answered with 204
\* as well, from which apiFetch() tries to read JSON.
Succeed(c) ==
    /\ Heard(c, {"ok"}) /\ calls[c].kind \notin {"login", "logout"}
    /\ ~(calls[c].kind = "delete" /\ calls[c].again)
    /\ CASE calls[c].kind = "me" ->
              /\ globalUser' = calls[c].says
              /\ guard' = IF loader = c THEN calls[c].says ELSE guard
              /\ loader' = IF loader = c THEN Nothing ELSE loader
              /\ calls' = Gone(c)
              /\ UNCHANGED <<listed, planner, mishaps>>
         [] calls[c].kind = "list" ->
              /\ listed' = calls[c].says
              /\ calls' = Gone(c)
              /\ UNCHANGED <<globalUser, guard, loader, planner, mishaps>>
         [] calls[c].kind = "delete" ->
              /\ calls' = IF InApp THEN Again(c) ELSE Gone(c)
              /\ listed' = IF InApp THEN listed ELSE "gone"
              /\ mishaps' = mishaps \cup (IF ~InApp /\ Waiting("list") # {}
                                             THEN {"elsewhere"} ELSE {})
              /\ UNCHANGED <<globalUser, guard, loader, planner>>
         [] calls[c].kind = "plan" ->
              Planned(c) /\ UNCHANGED <<globalUser, guard, loader, listed, mishaps>>
         [] calls[c].kind = "user" ->
              /\ globalUser' = calls[c].says
              /\ guard' = IF path = "app" THEN calls[c].says ELSE Nothing
              /\ planner' = IF planner = c THEN Nothing ELSE planner
              /\ calls' = Gone(c)
              /\ UNCHANGED <<loader, listed, mishaps>>
         [] calls[c].kind = "old" ->
              /\ calls' = Gone(c)
              /\ UNCHANGED <<globalUser, guard, loader, planner, listed, mishaps>>
    /\ UNCHANGED <<backendVars, storageVars, path, leaving, boundVars, signedIn, signedOut>>

\* login(), then to the dashboard.
LoggedIn(c) ==
    /\ Heard(c, {"ok"}) /\ calls[c].kind = "login"
    /\ token' = calls[c].new /\ cookie' = calls[c].new
    /\ AtGuard(calls[c].says, calls[c].new, c, Gone(c))
    /\ signedIn' = TRUE /\ signedOut' = FALSE
    /\ mishaps' = mishaps \cup (IF Others(c) # {} THEN {"late"} ELSE {})
    /\ UNCHANGED <<backendVars, leaving, listed, boundVars>>

\* Mutant: the token is cleared once the server has answered.
LoggedOutIfReached(c) ==
    /\ Heard(c, {"ok", "error"}) /\ calls[c].kind = "logout"
    /\ token' = IF calls[c].at = "ok" THEN 0 ELSE token
    /\ cookie' = IF calls[c].at = "ok" THEN 0 ELSE cookie
    /\ AtLogin(Nothing, 0, c, Gone(c))
    /\ signedIn' = FALSE /\ signedOut' = TRUE
    /\ mishaps' = mishaps \cup (IF Others(c) # {} THEN {"late"} ELSE {})
    /\ UNCHANGED <<backendVars, leaving, listed, boundVars>>

\* logout(), whether or not the server has been reached.
LoggedOut(c) ==
    /\ Heard(c, {"ok", "error"}) /\ calls[c].kind = "logout"
    /\ token' = 0
    /\ cookie' = IF calls[c].at = "ok" THEN 0 ELSE cookie
    /\ AtLogin(Nothing, 0, c, Gone(c))
    /\ signedIn' = FALSE /\ signedOut' = TRUE
    /\ mishaps' = mishaps \cup (IF Others(c) # {} THEN {"late"} ELSE {})
    /\ UNCHANGED <<backendVars, leaving, listed, boundVars>>

\* What a call that has failed does; only useAuth() and the settings mind.
Fail(c, t) ==
    IF calls[c].kind = "me" /\ loader = c
       THEN AtLogin(Nothing, t, c, Gone(c))
       ELSE /\ globalUser' = IF calls[c].kind = "me" THEN Nothing ELSE globalUser
            /\ planner' = IF planner = c THEN Nothing ELSE planner
            /\ calls' = Gone(c)
            /\ UNCHANGED <<path, guard, loader>>

Failed(c) ==
    /\ calls[c] # Nothing /\ calls[c].kind # "logout"
    /\ \/ Heard(c, {"error"})
       \/ Heard(c, {"refused"}) /\ (calls[c].auth = 0 \/ calls[c].again)
       \/ Heard(c, {"ok"}) /\ calls[c].kind = "delete" /\ calls[c].again
    /\ Fail(c, token)
    /\ mishaps' = mishaps \cup (IF calls[c].again THEN {"unsaid"} ELSE {})
    /\ UNCHANGED <<backendVars, storageVars, leaving, listed, boundVars, signedIn,
                   signedOut>>

\* The refresh has failed, for whatever reason: the token is cleared, whichever
\* it is by now, and the page goes to the sign-in page.
RefreshDenied(c) ==
    /\ Heard(c, {"denied"})
    /\ token' = 0
    /\ leaving' = (leaving \/ path = "app")
    /\ Fail(c, 0)
    /\ mishaps' = mishaps \cup (IF path = "login" THEN {"away"} ELSE {})
    /\ UNCHANGED <<backendVars, cookie, listed, boundVars, signedIn, signedOut>>

\* An answer nobody waits for; its cookie may still be stored.
Unanswered(c) ==
    /\ Under(c, {"ok", "refused", "error", "granted", "denied"}) /\ ~calls[c].heard
    /\ calls' = Gone(c)
    /\ cookie' \in {cookie} \cup (IF calls[c].new # 0 THEN {calls[c].new} ELSE {})
                   \cup (IF calls[c].kind = "logout" /\ calls[c].at = "ok" THEN {0} ELSE {})
    /\ UNCHANGED <<backendVars, token, userVars, listed, boundVars, clientHistory>>

-----------------------------------------------------------------------------

Server(c) ==
    \/ Serve(c) \/ ServeLogin(c) \/ ServeLogout(c)
    \/ RefreshRead(c) \/ RefreshDelete(c) \/ RefreshIssue(c) \/ RefreshFails(c)

Answers(c) ==
    \/ Refuse(c) \/ Refreshed(c) \/ Succeed(c) \/ LoggedIn(c) \/ LoggedOut(c)
    \/ Failed(c) \/ RefreshDenied(c) \/ Unanswered(c)

ClientNext ==
    \/ \E c \in Slots :
          \/ Server(c) \/ Answers(c) \/ Lose(c)
          \/ Login(c) \/ Logout(c) \/ List(c) \/ DeleteSurvey(c) \/ SwitchPlan(c)
    \/ Expire \/ SessionExpires \/ ResetPassword \/ Open \/ Depart \/ GoBack

\* Calls are served and answered, or fail when the browser gives them up.
ClientFairness == \A c \in Slots : WF_clientVars(Server(c) \/ Answers(c))

ClientSpec == ClientInit /\ [][ClientNext]_clientVars /\ ClientFairness

-----------------------------------------------------------------------------

Settled == ~leaving /\ \A c \in Slots : calls[c] = Nothing

\* Who has signed in stays so however often the token expires, unless two
\* refreshes were under way together, of which one may find its token used; or
\* a call from before the sign-in ended after it; or an answer was lost, the
\* password reset, the page left during a refresh; or the session was old; or a
\* statement of the backend failed, after which Go may have given out a token that
\* it has not stored.
SessionKept == signedIn /\ token = 0 => mishaps \ OfPages # {}

\* After a sign-out nothing is left of the session in the browser, unless other
\* calls were still under way; but for the cookie, when the answer was lost or a
\* page left with a call that brings one.
SignedOutIsGone ==
    signedOut /\ Settled /\ "late" \notin mishaps =>
        /\ token = 0 /\ globalUser = Nothing
        /\ cookie = 0 \/ mishaps \cap {"lost", "left"} # {}

\* The pages behind the Guard have a token to send, or are about to be left:
\* without one every call is refused and nothing leads back to the sign-in page.
AppHasToken == InApp /\ token = 0 => leaving \/ mishaps \cap {"late", "away"} # {}

\* The session of a researcher: kept, ended, and never half there.
SessionHolds == SessionKept /\ SignedOutIsGone /\ AppHasToken

\* A survey that has been deleted is not listed once nothing is under way,
\* unless the answer was lost, the page left -- or the call had to be sent again
\* after a refresh, whose 204 is taken for a failure; or the answer came on
\* another page, after which an earlier list may still be taken for a new one.
DeletedIsNotListed ==
    Settled /\ InApp /\ listed = "there" /\ surveyRow = "gone" =>
        mishaps # {}

\* The plan shown is the one stored once nothing is under way, with the same
\* exceptions, that of a refresh denied between the two calls, and that of an
\* answer with the earlier plan which was on its way when the plan changed.
PlanIsShown == Settled /\ InApp /\ guard # plan => mishaps # {}

\* The pages show what is stored.
PagesCurrent == DeletedIsNotListed /\ PlanIsShown

\* The loader of the Guard and the buttons of the settings are released.
LoaderEnds == loader # Nothing ~> loader = Nothing
PlannerEnds == planner # Nothing ~> planner = Nothing
=============================================================================
