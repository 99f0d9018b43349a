--------------------------- MODULE ConsoleSession ---------------------------
(***************************************************************************)
(* The console in one browser.  Its tabs share the session's cookies: a    *)
(* short-lived access token and the refresh token of RefreshTokens.  A     *)
(* fetch that is answered 401 shares its document's refresh in flight or   *)
(* starts one, and is sent again afterwards (lib/client/session-fetch.ts); *)
(* a page load without an access cookie is sent through session-renew by   *)
(* the middleware.  Every exchange is a request of RefreshTokens: those of *)
(* fetches are named by the fetch, those of page loads, logins, resets of  *)
(* the password and logouts by the tab.                                    *)
(***************************************************************************)
EXTENDS RefreshTokens

CONSTANTS
    Tabs,     \* tabs of the browser
    Fetches,  \* fetches the documents in them may have open together
    TabOf,    \* the tab each fetch belongs to
    NoFetch   \* no refresh in flight

ASSUME ConsoleAssumption ==
    /\ Requests = Tabs \cup Fetches
    /\ Tabs \cap Fetches = {}
    /\ TabOf \in [Fetches -> Tabs]
    /\ NoFetch \notin Fetches
    /\ Service = "console"

VARIABLES
    cookie,    \* the refresh cookie
    access,    \* the access cookie is there, and valid
    page,      \* what each tab shows
    fetch,     \* what each fetch waits for
    inFlight,  \* refreshInFlight of the document in each tab
    dropped    \* history: tokens whose exchange was not answered

browser == <<cookie, access, page, fetch, inFlight, dropped>>
consoleVars == <<tokenVars, browser>>

-----------------------------------------------------------------------------
Page == {"login", "loading", "app"}

\* A stranded fetch is sent again too: its refresh failed without an answer.
FetchState == {"idle", "sent", "waiting", "retry", "stranded"}

\* What a fetch waits for is going on, in its own document.
WaitersHaveRefresh ==
    /\ \A f \in Fetches : fetch[f] = "waiting" => inFlight[TabOf[f]] # NoFetch
    /\ \A tab \in Tabs, f \in Fetches : inFlight[tab] = f =>
         TabOf[f] = tab /\ fetch[f] = "waiting" /\ pc[f] # "idle"

ConsoleTypeOK ==
    /\ TokensTypeOK
    /\ cookie \in Tokens \cup {NoToken}
    /\ access \in BOOLEAN
    /\ page \in [Tabs -> Page]
    /\ fetch \in [Fetches -> FetchState]
    /\ inFlight \in [Tabs -> Fetches \cup {NoFetch}]
    /\ dropped \subseteq Tokens
    /\ WaitersHaveRefresh

ConsoleInit ==
    /\ TokensInit
    /\ cookie = NoToken
    /\ access = FALSE
    /\ page = [tab \in Tabs |-> "login"]
    /\ fetch = [f \in Fetches |-> "idle"]
    /\ inFlight = [tab \in Tabs |-> NoFetch]
    /\ dropped = {}

\* r has spent t and its answer, with t's successor, is still to come.
Exchanging(r, t) ==
    /\ presented[r] = t
    /\ pc[r] = "create" \/ (pc[r] = "answer" /\ issued[r] # NoToken)

-----------------------------------------------------------------------------
(* Documents and cookies.                                                  *)

\* A tab that leaves its document leaves the fetches and the refresh in it.
Leave(tab, to) ==
    /\ page' = [page EXCEPT ![tab] = to]
    /\ fetch' = [f \in Fetches |-> IF TabOf[f] = tab THEN "idle" ELSE fetch[f]]
    /\ inFlight' = [inFlight EXCEPT ![tab] = NoFetch]

\* Mutated: a refresh renews the access cookie only.
SetSessionCookiesHalf(r) ==
    /\ access' = (access \/ issued[r] # NoToken)
    /\ cookie' = IF cookie = NoToken THEN issued[r] ELSE cookie

\* An error answer leaves the cookies as they are.
SetSessionCookies(r) ==
    IF issued[r] # NoToken
    THEN cookie' = issued[r] /\ access' = TRUE
    ELSE UNCHANGED <<cookie, access>>

\* Mutated: only the fetch that started the refresh goes on.
WakeStarter(f, as) ==
    IF inFlight[TabOf[f]] = f
    THEN /\ inFlight' = [inFlight EXCEPT ![TabOf[f]] = NoFetch]
         /\ fetch' = [fetch EXCEPT ![f] = as]
    ELSE UNCHANGED <<inFlight, fetch>>

\* Fetches of f's document that wait for f's refresh go on as told.
Wake(f, as) ==
    IF inFlight[TabOf[f]] = f
    THEN /\ inFlight' = [inFlight EXCEPT ![TabOf[f]] = NoFetch]
         /\ fetch' = [g \in Fetches |->
                        IF TabOf[g] = TabOf[f] /\ fetch[g] = "waiting"
                        THEN as ELSE fetch[g]]
    ELSE UNCHANGED <<inFlight, fetch>>

-----------------------------------------------------------------------------
(* A fetch in a document.                                                  *)

\* A fetch sent with an access cookie changes nothing here.
SendFetch(f) ==
    /\ page[TabOf[f]] = "app"
    /\ fetch[f] = "idle"
    /\ pc[f] = "idle"
    /\ ~access
    /\ fetch' = [fetch EXCEPT ![f] = "sent"]
    /\ UNCHANGED <<tokenVars, cookie, access, page, inFlight, dropped>>

\* Mutated: every 401 starts a refresh of its own.
StartRefreshAlways(f) ==
    /\ fetch[f] = "sent"
    /\ Begin(f, "check", cookie)
    /\ inFlight' = [inFlight EXCEPT ![TabOf[f]] = f]
    /\ fetch' = [fetch EXCEPT ![f] = "waiting"]
    /\ UNCHANGED <<cookie, access, page, dropped>>

\* The 401 arrives.  The cookies may have been renewed in the meantime.
StartRefresh(f) ==
    /\ fetch[f] = "sent"
    /\ inFlight[TabOf[f]] = NoFetch
    /\ Begin(f, "check", cookie)
    /\ inFlight' = [inFlight EXCEPT ![TabOf[f]] = f]
    /\ fetch' = [fetch EXCEPT ![f] = "waiting"]
    /\ UNCHANGED <<cookie, access, page, dropped>>

JoinRefresh(f) ==
    /\ fetch[f] = "sent"
    /\ inFlight[TabOf[f]] # NoFetch
    /\ fetch' = [fetch EXCEPT ![f] = "waiting"]
    /\ UNCHANGED <<tokenVars, cookie, access, page, inFlight, dropped>>

RefreshAnswered(f) ==
    /\ Answered(f)
    /\ SetSessionCookies(f)
    /\ Wake(f, "retry")
    /\ UNCHANGED <<page, dropped>>

\* .catch(() => false)
RefreshAborted(f) ==
    /\ Abort(f)
    /\ dropped' = dropped \cup {t \in Tokens : Exchanging(f, t)}
    /\ Wake(f, "stranded")
    /\ UNCHANGED <<cookie, access, page>>

\* The retry goes out with the cookies of now.
RetryAuthorized(f) ==
    /\ fetch[f] \in {"retry", "stranded"}
    /\ access
    /\ fetch' = [fetch EXCEPT ![f] = "idle"]
    /\ UNCHANGED <<tokenVars, cookie, access, page, inFlight, dropped>>

RetryUnauthorized(f) ==
    /\ fetch[f] \in {"retry", "stranded"}
    /\ ~access
    /\ Leave(TabOf[f], "login")
    /\ UNCHANGED <<tokenVars, cookie, access, dropped>>

-----------------------------------------------------------------------------
(* A tab: page loads, logins and logouts.                                  *)

\* The middleware lets the page load through, or sends it to the login page.
OpenPage(tab) ==
    /\ pc[tab] = "idle"
    /\ access \/ cookie = NoToken
    /\ Leave(tab, IF access THEN "app" ELSE "login")
    /\ UNCHANGED <<tokenVars, cookie, access, dropped>>

RenewPage(tab) ==
    /\ ~access
    /\ cookie # NoToken
    /\ Begin(tab, "check", cookie)
    /\ Leave(tab, "loading")
    /\ UNCHANGED <<cookie, access, dropped>>

SignIn(tab) ==
    /\ page[tab] = "login"
    /\ Begin(tab, "compare", NoToken)
    /\ UNCHANGED browser

ResetPassword(tab) ==
    /\ page[tab] = "login"
    /\ Begin(tab, "verify", NoToken)
    /\ UNCHANGED browser

SignOut(tab) ==
    /\ page[tab] = "app"
    /\ Begin(tab, "logout", cookie)
    /\ UNCHANGED browser

PageAnswered(tab) ==
    /\ pc[tab] = "answer"
    /\ Answered(tab)
    /\ SetSessionCookies(tab)
    /\ page' = [page EXCEPT ![tab] = IF issued[tab] # NoToken THEN "app" ELSE "login"]
    /\ UNCHANGED <<fetch, inFlight, dropped>>

SignedOut(tab) ==
    /\ pc[tab] = "farewell"
    /\ Answered(tab)
    /\ cookie' = NoToken
    /\ access' = FALSE
    /\ Leave(tab, "login")
    /\ UNCHANGED dropped

PageAborted(tab) ==
    /\ Abort(tab)
    /\ dropped' = dropped \cup {t \in Tokens : Exchanging(tab, t)}
    /\ page' = [page EXCEPT ![tab] = IF @ = "loading" THEN "login" ELSE @]
    /\ UNCHANGED <<cookie, access, fetch, inFlight>>

-----------------------------------------------------------------------------
(* Time, and the server.                                                   *)

\* Fifteen minutes outlast any exchange and the retries that follow it.
Quiet ==
    /\ \A r \in Requests : pc[r] = "idle"
    /\ \A f \in Fetches : fetch[f] \in {"idle", "sent"}

AccessExpires ==
    /\ access
    /\ Quiet
    /\ access' = FALSE
    /\ UNCHANGED <<tokenVars, cookie, page, fetch, inFlight, dropped>>

\* The cookie expires together with its token, long after the access cookie.
RefreshExpires(t) ==
    /\ Quiet
    /\ ~access
    /\ TokenExpires(t)
    /\ cookie' = IF cookie = t THEN NoToken ELSE cookie
    /\ UNCHANGED <<access, page, fetch, inFlight, dropped>>

Serves(r) == Serve(r) /\ UNCHANGED browser

FetchNext(f) ==
    \/ SendFetch(f) \/ StartRefresh(f) \/ JoinRefresh(f)
    \/ RefreshAnswered(f) \/ RefreshAborted(f)
    \/ RetryAuthorized(f) \/ RetryUnauthorized(f)

TabNext(tab) ==
    \/ OpenPage(tab) \/ RenewPage(tab)
    \/ SignIn(tab) \/ ResetPassword(tab) \/ SignOut(tab)
    \/ PageAnswered(tab) \/ SignedOut(tab) \/ PageAborted(tab)

ConsoleNext ==
    \/ \E f \in Fetches : FetchNext(f)
    \/ \E tab \in Tabs : TabNext(tab)
    \/ \E r \in Requests : Serves(r)
    \/ \E t \in Tokens : RefreshExpires(t)
    \/ AccessExpires

ConsoleSpec == ConsoleInit /\ [][ConsoleNext]_consoleVars

-----------------------------------------------------------------------------
(* Safety.                                                                 *)

\* A browser whose refresh cookie has been exchanged is about to receive its
\* successor: whatever the tabs' refreshes and page loads do together, only an
\* exchange that went unanswered leaves it with a spent token.
SpentCookieHasSuccessor ==
    cookie # NoToken /\ token[cookie] = "exchanged" =>
      \/ cookie \in dropped
      \/ \E r \in Requests : Exchanging(r, cookie)

\* A document goes to the login page only when the session is not in reach: its
\* refresh cookie is of no use, and none of its own fetches is fetching the
\* successor.  Its fetches do not refresh against one another, and a refresh
\* refused because another tab has renewed the session is made good by the retry.
GivesUpOnlyWithoutToken ==
    [][\A tab \in Tabs :
         /\ page[tab] = "app" /\ page'[tab] = "login"
         /\ pc' = pc
         /\ \A f \in Fetches : TabOf[f] = tab => fetch[f] # "stranded"
         => /\ cookie \notin Live
            /\ \A f \in Fetches :
                 TabOf[f] = tab /\ fetch[f] # "idle" => ~Exchanging(f, cookie)]_consoleVars
=============================================================================
