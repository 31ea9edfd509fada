---------------------------- MODULE ConsoleSession ----------------------------
(***************************************************************************)
(* The session of the web console: apiFetch (console/src/lib/api.ts), the  *)
(* AuthGuard around every page, the login, setup and callback pages, the   *)
(* sidebar's sign-out and the impersonation of the user page.              *)
(*                                                                         *)
(* Tabs of one browser share localStorage (store); each tab runs its own   *)
(* page.  JavaScript runs to the next await: an action is the code between *)
(* two awaits, everything it does to the storage included, and whatever    *)
(* other calls and other tabs do happens between two actions.  A client-   *)
(* side navigation takes effect at once, a page load when it commits.      *)
(*                                                                         *)
(* An answer is only told apart as far as the code tells it apart: 401,    *)
(* another failure (a status or a rejected fetch), success.  Any request   *)
(* may be answered 401: access tokens expire at any time.                  *)
(***************************************************************************)
EXTENDS TokenEndpoint

CONSTANTS
  Bare,      \* an access token that came without a refresh token
  MaxChecks  \* bound: AuthGuard verifications of one tab under way

VARIABLES
  store,    \* ggid_access_token and ggid_refresh_token
  page,     \* the path of each tab
  leaving,  \* where window.location sends a tab next, or "stay"
  checked,  \* tabs whose AuthGuard decided once
  authed,   \* tabs whose AuthGuard holds isAuthenticated
  status,   \* tabs whose AuthGuard waits for /system/status
  verify,   \* verifications (/users/me) each tab waits for, those that a
            \* public page started and the others
  login,    \* the sign-in under way in each tab
  job       \* the apiFetch call of each caller

consoleVars == <<store, page, leaving, checked, authed, status, verify, login, job>>

Pages == {"app", "login", "setup", "callback"}
Public == {"login", "setup"}  \* PUBLIC_PATHS: the callback page is not one of them
Jobs == {"idle", "request", "refresh", "retry"}
Logins == {"none", "sent", "boot", "flow", "social", "exchange"}

NoChecks == [pub \in BOOLEAN |-> 0]
Empty == [access |-> NoToken, refresh |-> NoToken]
Pair(t) == [access |-> t, refresh |-> t]

ConsoleTypeOK ==
  /\ store \in [access: Token \cup {NoToken, Bare}, refresh: Token \cup {NoToken}]
  /\ page \in [Tabs -> Pages]
  /\ leaving \in [Tabs -> Pages \cup {"stay"}]
  /\ checked \subseteq Tabs /\ authed \subseteq Tabs /\ status \subseteq Tabs
  /\ verify \in [Tabs -> [BOOLEAN -> 0..MaxChecks]]
  /\ login \in [Tabs -> Logins]
  /\ job \in [Callers -> Jobs]
  /\ \A c \in Callers : job[c] = "refresh" <=> exch[c] # NoExchange

ConsoleInit ==
  /\ store = Empty
  /\ page = [t \in Tabs |-> "login"]
  /\ leaving = [t \in Tabs |-> "stay"]
  /\ checked = Tabs /\ authed = {} /\ status = {}
  /\ verify = [t \in Tabs |-> NoChecks]
  /\ login = [t \in Tabs |-> "none"]
  /\ job = [c \in Callers |-> "idle"]

\* The page's own components are mounted.
Shown(t) == t \in checked /\ (page[t] \in Public \/ t \in authed)

Calls(t) == {c \in Callers : TabOf[c] = t}

Stay(t) == leaving[t] = "stay"
Finish(c) == job' = [job EXCEPT ![c] = "idle"]

-----------------------------------------------------------------------------
(* AuthGuard. *)

\* The effect that runs when the path of tab t becomes p, with the storage s
\* it finds.  The cause is a client-side "route" change, one made by the
\* "status" answer, or the "load" of a page, which starts over.  A token is
\* verified on every page but the setup wizard, which clears the storage;
\* without a token a page that is not public waits for the system status.
Effect(t, p, s, cause) ==
  LET some    == s.access # NoToken
      starts  == some /\ p # "setup"
      waits   == ~some /\ p \notin Public
      decided == cause = "status" \/ p = "setup" \/ (p \in Public /\ ~some)
      before  == IF cause = "load" THEN NoChecks ELSE verify[t]
  IN /\ page' = [page EXCEPT ![t] = p]
     /\ store' = IF p = "setup" THEN Empty ELSE s
     /\ status' = (IF cause = "route" THEN status ELSE status \ {t})
                    \cup (IF waits THEN {t} ELSE {})
     /\ starts => before[TRUE] + before[FALSE] < MaxChecks
     /\ verify' = [verify EXCEPT ![t] =
                     IF starts THEN [before EXCEPT ![p \in Public] = @ + 1] ELSE before]
     /\ checked' = IF decided THEN checked \cup {t}
                   ELSE IF cause = "load" THEN checked \ {t} ELSE checked
     /\ authed' = IF cause = "load" \/ (p = "login" /\ ~some) THEN authed \ {t} ELSE authed

\* The links a user follows without loading a page: between the pages behind
\* the guard, from the wizard's last step to the dashboard, and from a callback
\* page whose effect has failed back to the login page.
Links == {<<"app", "app">>, <<"setup", "app">>, <<"callback", "login">>}

Navigate(t, p) ==
  /\ Stay(t) /\ Shown(t)
  /\ <<page[t], p>> \in Links /\ (page[t] = "callback" => login[t] = "none")
  /\ Effect(t, p, store, "route")
  /\ UNCHANGED <<endpointVars, leaving, login, job>>

\* Page p is loaded in tab t: the requests of the old page are gone, and the code
\* or the token in its URL unless it is the callback page that is loaded with
\* it; the guard starts over.
Load(t, p) ==
  /\ Drop(Calls(t))
  /\ job' = [c \in Callers |-> IF c \in Calls(t) THEN "idle" ELSE job[c]]
  /\ login' = [login EXCEPT ![t] = IF p = "callback" THEN @ ELSE "none"]
  /\ leaving' = [leaving EXCEPT ![t] = "stay"]
  /\ Effect(t, p, store, "load")

\* The user loads a page anew, or the navigation the code asked for commits.
Reload(t, p) == Stay(t) /\ Load(t, p)
Unload(t) == ~Stay(t) /\ Load(t, leaving[t])

\* No token was found: the answer of /system/status sends the tab to the
\* login page, without another look at the storage, or to the setup wizard
\* of an installation where nobody ever signed in.
StatusReply(t, p) ==
  /\ t \in status
  /\ \/ p = "login"
     \/ p = "setup" /\ issued = {}
  /\ IF page[t] = p
       THEN /\ status' = status \ {t} /\ checked' = checked \cup {t}
            /\ UNCHANGED <<store, page, authed, verify>>
       ELSE Effect(t, p, store, "status")
  /\ UNCHANGED <<endpointVars, leaving, login, job>>

\* Faulty variant: the refresh token survives the clearing.
VerifyRejected_KeepsRefresh(t, pub) ==
  /\ verify[t][pub] > 0
  /\ store' = [store EXCEPT !.access = NoToken]
  /\ verify' = [verify EXCEPT ![t][pub] = @ - 1]
  /\ authed' = authed \ {t} /\ checked' = checked \cup {t}
  /\ page' = IF pub THEN page ELSE [page EXCEPT ![t] = "login"]
  /\ UNCHANGED <<endpointVars, leaving, status, login, job>>

\* 401 for the token the effect read: the storage is cleared, whatever token
\* is in it by now.  The tab is sent to the login page, whose own effect finds
\* no token, unless the check was started on a public page.
VerifyRejected(t, pub) ==
  /\ verify[t][pub] > 0
  /\ store' = Empty
  /\ verify' = [verify EXCEPT ![t][pub] = @ - 1]
  /\ authed' = authed \ {t} /\ checked' = checked \cup {t}
  /\ page' = IF pub THEN page ELSE [page EXCEPT ![t] = "login"]
  /\ UNCHANGED <<endpointVars, leaving, status, login, job>>

\* Any other answer, and a network error, let the page be rendered.
VerifyAccepted(t, pub) ==
  /\ verify[t][pub] > 0
  /\ verify' = [verify EXCEPT ![t][pub] = @ - 1]
  /\ authed' = authed \cup {t} /\ checked' = checked \cup {t}
  /\ UNCHANGED <<endpointVars, store, page, leaving, status, login, job>>

\* handleUnauthorized, run by the event that apiFetch dispatches in tab t.
Unauthorized(t) ==
  IF page[t] \in Public
    THEN UNCHANGED <<store, authed, leaving>>
    ELSE /\ store' = Empty
         /\ authed' = authed \ {t}
         /\ leaving' = [leaving EXCEPT ![t] = "login"]

\* The sidebar's sign-out button: nothing is revoked on the server.
SignOut(t) ==
  /\ page[t] = "app" /\ Shown(t) /\ Stay(t)
  /\ store' = Empty
  /\ leaving' = [leaving EXCEPT ![t] = "login"]
  /\ UNCHANGED <<endpointVars, page, checked, authed, status, verify, login, job>>

-----------------------------------------------------------------------------
(* apiFetch, one call of a page's components. *)

Request(c) ==
  LET t == TabOf[c]
  IN /\ job[c] = "idle"
     /\ page[t] = "app" /\ Shown(t) /\ Stay(t)
     /\ job' = [job EXCEPT ![c] = "request"]
     /\ UNCHANGED <<endpointVars, store, page, leaving, checked, authed, status, verify, login>>

\* The call returns or throws without touching the session: success, a
\* failure other than 401, a 401 of a path with /auth/ in it.
Answered(c) ==
  /\ job[c] = "request"
  /\ Finish(c)
  /\ UNCHANGED <<endpointVars, store, page, leaving, checked, authed, status, verify, login>>

\* 401: the refresh token is read now, not when the request was sent.
Rejected(c) ==
  /\ job[c] = "request"
  /\ store.refresh # NoToken
  /\ Ask(c, store.refresh)
  /\ job' = [job EXCEPT ![c] = "refresh"]
  /\ UNCHANGED <<store, page, leaving, checked, authed, status, verify, login>>

\* 401 and no refresh token: the session is given up.
RejectedForGood(c) ==
  /\ job[c] = "request"
  /\ store.refresh = NoToken
  /\ Unauthorized(TabOf[c]) /\ Finish(c)
  /\ UNCHANGED <<endpointVars, page, checked, status, verify, login>>

\* Faulty variant: the rotated refresh token is not stored.
Refreshed_AccessOnly(c) ==
  /\ Take(c)
  /\ store' = [store EXCEPT !.access = Succ(exch[c].tok)]
  /\ job' = [job EXCEPT ![c] = "retry"]
  /\ UNCHANGED <<page, leaving, checked, authed, status, verify, login>>

\* Both tokens are stored, whatever the storage holds by now, and the request
\* is sent again.
Refreshed(c) ==
  /\ Take(c)
  /\ store' = Pair(Succ(exch[c].tok))
  /\ job' = [job EXCEPT ![c] = "retry"]
  /\ UNCHANGED <<page, leaving, checked, authed, status, verify, login>>

\* Faulty variant: the failure is swallowed and the call never settles.
RefreshFailed_Hangs(c) ==
  /\ job[c] = "refresh"
  /\ Drop({c})
  /\ Unauthorized(TabOf[c])
  /\ UNCHANGED <<page, checked, status, verify, login, job>>

\* The refresh is refused, or its fetch rejects at any point.
RefreshFailed(c) ==
  /\ job[c] = "refresh"
  /\ Drop({c})
  /\ Unauthorized(TabOf[c]) /\ Finish(c)
  /\ UNCHANGED <<page, checked, status, verify, login>>

RetryAnswered(c) ==
  /\ job[c] = "retry"
  /\ Finish(c)
  /\ UNCHANGED <<endpointVars, store, page, leaving, checked, authed, status, verify, login>>

\* Any failure of the second attempt, 401 or not, is thrown inside the try
\* block of the refresh and ends like a failed refresh.
RetryFailed(c) ==
  /\ job[c] = "retry"
  /\ Unauthorized(TabOf[c]) /\ Finish(c)
  /\ UNCHANGED <<endpointVars, page, checked, status, verify, login>>

\* The call was the one of handleImpersonate: it stores the access token it
\* is given, and only that.
Impersonated(c) ==
  /\ job[c] \in {"request", "retry"}
  /\ store' = [store EXCEPT !.access = Bare]
  /\ leaving' = [leaving EXCEPT ![TabOf[c]] = "app"]
  /\ Finish(c)
  /\ UNCHANGED <<endpointVars, page, checked, authed, status, verify, login>>

-----------------------------------------------------------------------------
(* Signing in: the login page and the setup wizard. *)

\* The credentials, the second factor or the wizard's form are submitted.
\* What an earlier redirect left behind does not matter.
Submit(t) ==
  /\ page[t] \in Public /\ Shown(t) /\ Stay(t)
  /\ login[t] \in {"none", "flow", "social"}
  /\ login' = [login EXCEPT ![t] = IF page[t] = "setup" THEN "boot" ELSE "sent"]
  /\ UNCHANGED <<endpointVars, store, page, leaving, checked, authed, status, verify, job>>

\* The answer leaves the storage as s; the login and callback pages move on, the
\* wizard stays.
SignsIn(t, s) ==
  /\ login[t] \in {"sent", "boot", "exchange"}
  /\ login' = [login EXCEPT ![t] = "none"]
  /\ IF login[t] = "boot"
       THEN store' = s /\ UNCHANGED <<page, status, verify, checked, authed>>
       ELSE Effect(t, "app", s, "route")
  /\ UNCHANGED <<leaving, job>>

\* Both tokens are stored, or the only one the answer has: the refresh token of
\* an earlier login then stays.
SignedIn(t, f) == Grant(f) /\ SignsIn(t, Pair(First(f)))
SignedInBare(t) == SignsIn(t, [store EXCEPT !.access = Bare]) /\ UNCHANGED endpointVars

\* The server refuses, or asks for the second factor: the form is back.
SignInFails(t) ==
  /\ login[t] \in {"sent", "boot", "exchange"}
  /\ login' = [login EXCEPT ![t] = "none"]
  /\ UNCHANGED <<endpointVars, store, page, leaving, checked, authed, status, verify, job>>

\* exchangeTicketForToken and handleSocialLogin leave for the authorization
\* server, which sends the browser to the callback page.
Redirect(t, how) ==
  /\ page[t] = "login" /\ Shown(t) /\ Stay(t)
  /\ login[t] \in {"none", "flow", "social"}
  /\ how \in {"flow", "social"}
  /\ login' = [login EXCEPT ![t] = how]
  /\ leaving' = [leaving EXCEPT ![t] = "callback"]
  /\ UNCHANGED <<endpointVars, store, page, checked, authed, status, verify, job>>

\* The callback page, once the guard lets it be mounted: the code is exchanged
\* with the stored flow, unless its state does not match.
Callback(t) ==
  /\ page[t] = "callback" /\ Shown(t) /\ Stay(t)
  /\ login[t] = "flow"
  /\ login' \in {[login EXCEPT ![t] = "exchange"], [login EXCEPT ![t] = "none"]}
  /\ UNCHANGED <<endpointVars, store, page, leaving, checked, authed, status, verify, job>>

\* Social login: the access token is in the URL, without a refresh token.
SocialCallback(t) ==
  /\ page[t] = "callback" /\ Shown(t) /\ Stay(t)
  /\ login[t] = "social"
  /\ login' = [login EXCEPT ![t] = "none"]
  /\ Effect(t, "app", [store EXCEPT !.access = Bare], "route")
  /\ UNCHANGED <<endpointVars, leaving, job>>

-----------------------------------------------------------------------------
RefreshReply(c) == Refreshed(c) \/ RefreshFailed(c)

GuardReply(t) ==
  \/ \E p \in Public : StatusReply(t, p)
  \/ \E pub \in BOOLEAN : VerifyRejected(t, pub) \/ VerifyAccepted(t, pub)
  \/ Unload(t)

ConsoleStep ==
  \/ \E t \in Tabs :
       \/ GuardReply(t) \/ SignOut(t) \/ Submit(t) \/ SignInFails(t)
       \/ Callback(t) \/ SocialCallback(t) \/ SignedInBare(t)
       \/ \E p \in {"app", "login"} : Navigate(t, p)
       \/ \E p \in {"app", "login", "setup"} : Reload(t, p)
       \/ \E how \in {"flow", "social"} : Redirect(t, how)
       \/ \E f \in Families : SignedIn(t, f)
  \/ \E c \in Callers :
       \/ Request(c) \/ Answered(c) \/ Rejected(c) \/ RejectedForGood(c)
       \/ RefreshReply(c) \/ RetryAnswered(c) \/ RetryFailed(c)
       \/ Impersonated(c)

-----------------------------------------------------------------------------
\* No refresh token is left behind for the next session: wherever the storage
\* holds a refresh token it holds an access token, and that is the one issued
\* with it unless it came without a refresh token of its own.
PairTogether ==
  store.refresh # NoToken =>
    /\ store.access # NoToken
    /\ store.access \in {store.refresh, Bare}

\* A browser that comes back from the authorization server is not taken off the
\* callback page before that page has run: it stays until the code is exchanged,
\* the token in the URL stored or the flow given up, or the user loads another
\* page.  Does not hold: the page is behind the guard, which finds no session yet.
CallbackNotSkipped ==
  [][\A t \in Tabs :
       /\ page[t] = "callback" /\ login[t] \in {"flow", "social"}
       /\ page'[t] # "callback"
       => login'[t] \notin {"flow", "social"}]_consoleVars
=============================================================================
