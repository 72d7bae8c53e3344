--------------------------- MODULE BrowserSession ---------------------------
(***************************************************************************)
(* The signed-in session as the web applications keep it                   *)
(* (apps/backoffice and apps/portal: api/client.ts, auth/AuthContext.tsx,   *)
(* auth/tokenStore.ts).                                                    *)
(*                                                                         *)
(* The access token is in the memory of each tab, the refresh token in the *)
(* localStorage that the tabs share. A refresh token works once: the       *)
(* server answers a used one by ending every session of the user           *)
(* (AuthSessions has the server in detail). The client therefore must      *)
(* never send one twice, although API calls run concurrently, meet an      *)
(* expired access token together, and race with reload and logout.            *)
(*                                                                         *)
(* Between two awaits a tab runs alone, so the code from one await to the  *)
(* next is one step. GET /auth/me after a refresh is part of that refresh. *)
(***************************************************************************)
EXTENDS Naturals, FiniteSets

CONSTANTS Tabs,             \* tabs of one browser
          Calls,            \* API calls a tab has in flight at the same time
          MaxRefreshTokens, \* bound: refresh tokens issued
          MaxAnswersLost,   \* bound: answers of /auth/refresh that never arrive
          MaxRaces,         \* bound: logouts while a refresh is in flight
          NoToken           \* no token

RefreshTokens == 1..MaxRefreshTokens

\* What is assumed of the constants; asserted where they get their values.
BrowserAssumption ==
  /\ {MaxRefreshTokens, MaxAnswersLost, MaxRaces} \subseteq Nat
  /\ NoToken \notin RefreshTokens

VARIABLES
  issued,     \* server: number of refresh tokens issued
  used,       \* server: those with used_at set
  alarms,     \* server: a used token was presented, all sessions were ended
  store,      \* localStorage: the refresh token
  access,     \* access token of each tab
  status,     \* AuthContext's status of each tab
  calls,      \* state of the API calls of each tab
  refreshing, \* requests to /auth/refresh: in flight to or from the server
  loggedOut,  \* the user's last act was to log out
  answersLost, races

browserVars == <<issued, used, alarms, store, access, status, calls, refreshing, loggedOut,
                 answersLost, races>>

server == <<issued, used, alarms>>

-----------------------------------------------------------------------------
\* A request to /auth/refresh. "load" is AuthContext's own at page load, whose
\* answer sets the session up; "shared" is client.ts's refreshPromise.
RefreshRequest(t, kind, by, token) ==
  [tab |-> t, kind |-> kind, by |-> by, token |-> token, answer |-> "pending", next |-> NoToken]

\* The answer reaches the page that asked, if it is still there.
Reply(m, answer, next) ==
  (refreshing \ {m}) \cup
  (IF m.kind = "orphan" THEN {} ELSE {[m EXCEPT !.answer = answer, !.next = next]})

OfTab(t, kind) == {m \in refreshing : m.tab = t /\ m.kind = kind}

LiveToken(token) == token # NoToken /\ token <= issued /\ token \notin used

BrowserInit ==
  /\ issued = 0
  /\ used = {}
  /\ alarms = 0
  /\ store = NoToken
  /\ access = [t \in Tabs |-> "none"]
  /\ status = [t \in Tabs |-> "unauthenticated"]
  /\ calls = [t \in Tabs |-> [c \in Calls |-> "idle"]]
  /\ refreshing = {}
  /\ loggedOut = FALSE
  /\ answersLost = 0
  /\ races = 0

-----------------------------------------------------------------------------
\* The server.

\* POST /auth/refresh rotates a live token; a used one ends all sessions.
serverRotates(m) ==
  /\ m.answer = "pending"
  /\ LiveToken(m.token)
  /\ issued < MaxRefreshTokens
  /\ issued' = issued + 1
  /\ used' = used \cup {m.token}
  /\ refreshing' = Reply(m, "ok", issued + 1)
  /\ UNCHANGED <<alarms, store, access, status, calls, loggedOut, answersLost, races>>

serverRefuses(m) ==
  /\ m.answer = "pending"
  /\ m.token \in used
  /\ used' = 1..issued
  /\ alarms' = IF alarms < 2 THEN alarms + 1 ELSE alarms
  /\ refreshing' = Reply(m, "401", NoToken)
  /\ UNCHANGED <<issued, store, access, status, calls, loggedOut, answersLost, races>>

\* expires_at has passed: refused, and no session is ended. Only at the bound
\* of issued tokens, where it keeps a request from staying unanswered.
serverExpired(m) ==
  /\ m.answer = "pending"
  /\ LiveToken(m.token)
  /\ issued = MaxRefreshTokens
  /\ refreshing' = Reply(m, "401", NoToken)
  /\ UNCHANGED <<server, store, access, status, calls, loggedOut, answersLost, races>>

-----------------------------------------------------------------------------
\* AuthContext.

\* login (and the portal's BankID login and change of company): a new pair.
login(t) ==
  /\ status[t] = "unauthenticated"
  /\ issued < MaxRefreshTokens
  /\ issued' = issued + 1
  /\ store' = issued + 1
  /\ access' = [access EXCEPT ![t] = "valid"]
  /\ status' = [status EXCEPT ![t] = "authenticated"]
  /\ loggedOut' = FALSE
  /\ UNCHANGED <<used, alarms, calls, refreshing, answersLost, races>>

LoadRequest(t) == IF store = NoToken THEN {} ELSE {RefreshRequest(t, "load", "page", store)}

\* A reload, or a new tab: memory is empty and the stored token is refreshed.
\* Nothing of the tab may be in flight, unless the bound of faults allows the
\* answer to be lost with the page.
loadPage(t) ==
  LET cut == {m \in refreshing : m.tab = t}
  IN /\ cut = {} \/ answersLost < MaxAnswersLost
     /\ answersLost' = IF cut = {} THEN answersLost ELSE answersLost + 1
     /\ access' = [access EXCEPT ![t] = "none"]
     /\ calls' = [calls EXCEPT ![t] = [c \in Calls |-> "idle"]]
     /\ status' = [status EXCEPT ![t] = IF store = NoToken THEN "unauthenticated" ELSE "loading"]
     /\ refreshing' = (refreshing \ cut)
          \cup {[m EXCEPT !.kind = "orphan"] : m \in {c \in cut : c.answer = "pending"}}
          \cup LoadRequest(t)
     /\ UNCHANGED <<server, store, loggedOut, races>>

\* Both kinds of answer store the new pair.
\* Mutant of StoredAfter: setRefreshToken is forgotten.
NotStored(m) == store

StoredAfter(m) == m.next

loadAnswered(m) ==
  /\ m.kind = "load" /\ m.answer = "ok"
  /\ store' = StoredAfter(m)
  /\ access' = [access EXCEPT ![m.tab] = "valid"]
  /\ status' = [status EXCEPT ![m.tab] = "authenticated"]
  /\ refreshing' = refreshing \ {m}
  /\ UNCHANGED <<server, calls, loggedOut, answersLost, races>>

\* authApi.refresh goes through apiRequest, so its 401 first tries a refresh of
\* its own with whatever token is stored, and then repeats the request.
loadRefused(m) ==
  /\ m.kind = "load" /\ m.answer = "401"
  /\ store # NoToken
  /\ refreshing' = (refreshing \ {m})
       \cup {[m EXCEPT !.answer = "retrying"], RefreshRequest(m.tab, "shared", "page", store)}
  /\ UNCHANGED <<server, store, access, status, calls, loggedOut, answersLost, races>>

loadGivesUp(m) ==
  /\ m.kind = "load" /\ m.answer = "401"
  /\ store = NoToken
  /\ status' = [status EXCEPT ![m.tab] = "unauthenticated"]
  /\ access' = [access EXCEPT ![m.tab] = "none"]
  /\ refreshing' = refreshing \ {m}
  /\ UNCHANGED <<server, store, calls, loggedOut, answersLost, races>>

\* Tokens are cleared first; /auth/logout marks the token used at the server.
logoutTab(t) ==
  /\ status[t] = "authenticated"
  /\ refreshing = {} \/ races < MaxRaces
  /\ races' = IF refreshing = {} THEN races ELSE races + 1
  /\ used' = IF store = NoToken THEN used ELSE used \cup {store}
  /\ store' = NoToken
  /\ access' = [access EXCEPT ![t] = "none"]
  /\ status' = [status EXCEPT ![t] = "unauthenticated"]
  /\ loggedOut' = TRUE
  /\ UNCHANGED <<issued, alarms, calls, refreshing, answersLost>>

-----------------------------------------------------------------------------
\* apiRequest.

accessExpires(t) ==
  /\ access[t] = "valid"
  /\ access' = [access EXCEPT ![t] = "expired"]
  /\ UNCHANGED <<server, store, status, calls, refreshing, loggedOut, answersLost, races>>

\* rawRequest carries the token of this moment; the answer comes later.
sendCall(t, c) ==
  /\ status[t] = "authenticated"
  /\ calls[t][c] = "idle"
  /\ calls' = [calls EXCEPT ![t][c] = IF access[t] = "valid" THEN "accepted" ELSE "denied"]
  /\ UNCHANGED <<server, store, access, status, refreshing, loggedOut, answersLost, races>>

callDone(t, c) ==
  /\ calls[t][c] = "accepted"
  /\ calls' = [calls EXCEPT ![t][c] = "idle"]
  /\ UNCHANGED <<server, store, access, status, refreshing, loggedOut, answersLost, races>>

\* tryRefresh: the first 401 of a tab starts the refresh, the others await it.
\* Mutant of Joins: every 401 starts a refresh of its own.
NeverJoins(t) == FALSE

Joins(t) == OfTab(t, "shared") # {}

tryRefresh(t, c) ==
  /\ calls[t][c] = "denied"
  /\ store # NoToken
  /\ calls' = [calls EXCEPT ![t][c] = "awaiting"]
  /\ refreshing' =
       refreshing \cup (IF Joins(t) THEN {} ELSE {RefreshRequest(t, "shared", c, store)})
  /\ UNCHANGED <<server, store, access, status, loggedOut, answersLost, races>>

\* clearTokens and notifySessionExpired.
sessionExpired(t, cs) ==
  /\ store' = NoToken
  /\ access' = [access EXCEPT ![t] = "none"]
  /\ status' = [status EXCEPT ![t] = "unauthenticated"]
  /\ calls' = [calls EXCEPT ![t] = [c \in Calls |-> IF c \in cs THEN "idle" ELSE @[c]]]

callExpires(t, c) ==
  /\ calls[t][c] = "denied"
  /\ store = NoToken
  /\ sessionExpired(t, {c})
  /\ UNCHANGED <<server, refreshing, loggedOut, answersLost, races>>

Waiting(t) == {c \in Calls : calls[t][c] = "awaiting"}

\* doRefresh got a new pair: calls that awaited it are repeated with the new
\* access token, and so is the refresh of a page load, with its old token.
refreshAnswered(m) ==
  LET t == m.tab
  IN /\ m.kind = "shared" /\ m.answer = "ok"
     /\ store' = StoredAfter(m)
     /\ access' = [access EXCEPT ![t] = "valid"]
     /\ calls' = [calls EXCEPT ![t] = [c \in Calls |-> IF c \in Waiting(t) THEN "accepted" ELSE @[c]]]
     /\ refreshing' = (refreshing \ ({m} \cup OfTab(t, "load")))
          \cup {[l EXCEPT !.answer = "pending"] : l \in OfTab(t, "load")}
     /\ UNCHANGED <<server, status, loggedOut, answersLost, races>>

\* Mutant of refreshRefused: the page load behind it is never told.
RefusedSilently(m) ==
  LET t == m.tab
  IN /\ m.kind = "shared" /\ m.answer = "401"
     /\ store' = NoToken
     /\ access' = [access EXCEPT ![t] = "none"]
     /\ refreshing' = refreshing \ ({m} \cup OfTab(t, "load"))
     /\ UNCHANGED <<server, status, calls, loggedOut, answersLost, races>>

refreshRefused(m) ==
  LET t == m.tab
  IN /\ m.kind = "shared" /\ m.answer = "401"
     /\ sessionExpired(t, Waiting(t))
     /\ refreshing' = refreshing \ ({m} \cup OfTab(t, "load"))
     /\ UNCHANGED <<server, loggedOut, answersLost, races>>

\* The connection breaks after the server has rotated: fetch rejects, the
\* awaiting calls fail with an error that is not a 401, and nothing is cleared.
answerLost(m) ==
  /\ m.kind = "shared" /\ m.answer = "ok" /\ m.by \in Calls
  /\ answersLost < MaxAnswersLost
  /\ answersLost' = answersLost + 1
  /\ calls' = [calls EXCEPT ![m.tab] = [c \in Calls |-> IF c \in Waiting(m.tab) THEN "idle" ELSE @[c]]]
  /\ refreshing' = refreshing \ {m}
  /\ UNCHANGED <<server, store, access, status, loggedOut, races>>

\* The same at page load is caught by AuthContext, which clears the tokens.
loadLost(m) ==
  /\ m.kind = "load" /\ m.answer = "ok"
  /\ answersLost < MaxAnswersLost
  /\ answersLost' = answersLost + 1
  /\ store' = NoToken
  /\ access' = [access EXCEPT ![m.tab] = "none"]
  /\ status' = [status EXCEPT ![m.tab] = "unauthenticated"]
  /\ refreshing' = refreshing \ {m}
  /\ UNCHANGED <<server, calls, loggedOut, races>>

-----------------------------------------------------------------------------
AnswerStep(m) ==
  \/ serverRotates(m) \/ serverRefuses(m) \/ serverExpired(m)
  \/ loadAnswered(m) \/ loadRefused(m) \/ loadGivesUp(m)
  \/ refreshAnswered(m) \/ refreshRefused(m)

BrowserNext ==
  \/ \E m \in refreshing : AnswerStep(m) \/ answerLost(m) \/ loadLost(m)
  \/ \E t \in Tabs :
       \/ login(t) \/ loadPage(t) \/ logoutTab(t) \/ accessExpires(t)
       \/ \E c \in Calls : sendCall(t, c) \/ callDone(t, c) \/ tryRefresh(t, c) \/ callExpires(t, c)

BrowserSpec == BrowserInit /\ [][BrowserNext]_browserVars

\* Requests are answered and their answers handled; nobody has to log in,
\* reload or click.
BrowserFairSpec ==
  BrowserSpec /\ \A t \in Tabs : WF_browserVars(\E m \in refreshing : m.tab = t /\ AnswerStep(m))

-----------------------------------------------------------------------------
\* Properties.

BrowserTypeOK ==
  /\ issued \in 0..MaxRefreshTokens
  /\ used \subseteq 1..issued
  /\ alarms \in 0..2
  /\ store \in (1..issued) \cup {NoToken}
  /\ access \in [Tabs -> {"none", "valid", "expired"}]
  /\ status \in [Tabs -> {"loading", "authenticated", "unauthenticated"}]
  /\ calls \in [Tabs -> [Calls -> {"idle", "accepted", "denied", "awaiting"}]]
  /\ \A m \in refreshing :
       /\ m.tab \in Tabs /\ m.kind \in {"load", "shared", "orphan"} /\ m.token \in 1..issued
       /\ m.next \in (1..issued) \cup {NoToken}
       /\ m.answer \in {"pending", "ok", "401", "retrying"}
  /\ loggedOut \in BOOLEAN
  /\ answersLost \in 0..MaxAnswersLost /\ races \in 0..MaxRaces

\* The server never meets a used refresh token, so the user's sessions are
\* never ended as stolen (client.ts:66-71: only ONE call ever sends a given
\* refresh token).
NeverReused == alarms = 0

\* A signed-in tab with no refresh under way can always renew its session: the
\* stored token is live (doRefresh and AuthContext store what they receive).
CanRenew ==
  \A t \in Tabs :
    (status[t] = "authenticated" /\ refreshing = {}) => LiveToken(store)

\* One tab never presents a used refresh token, so its sessions are not ended as
\* stolen; signed in and with no refresh under way it holds a live one
\* (api/client.ts, AuthContext.tsx).
SessionKept == NeverReused /\ CanRenew

\* A page never stays at its loading screen, whatever other tabs do and
\* whichever answers are lost (AuthContext's effect: every path sets a status).
PageSettles == \A t \in Tabs : (status[t] = "loading") ~> (status[t] # "loading")

-----------------------------------------------------------------------------
(* What the code does not keep, though its documents say so: see the README. *)

\* After a logout no live token is left in the browser until the next login
\* (AuthContext.tsx logout: logged out locally whatever the server call does).
LogoutIsFinal == loggedOut => ~LiveToken(store)
=============================================================================
