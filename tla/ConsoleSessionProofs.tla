------------------------ MODULE ConsoleSessionProofs ------------------------
(***************************************************************************)
(* Proofs about ConsoleSession, for any number of tabs, fetches and        *)
(* tokens.  Every step of the browser is a step of RefreshTokens or leaves *)
(* its tokens alone, so that what is proved there holds here, too; the     *)
(* cookie needs an invariant of its own about tokens on their way.         *)
(***************************************************************************)
EXTENDS ConsoleSession, RefreshTokensProofs

USE ConsoleAssumption

\* The browser's share of the type invariant.
BrowserTypeOK ==
    /\ cookie \in Tokens \cup {NoToken}
    /\ access \in BOOLEAN
    /\ page \in [Tabs -> Page]
    /\ fetch \in [Fetches -> FetchState]
    /\ inFlight \in [Tabs -> Fetches \cup {NoFetch}]
    /\ dropped \subseteq Tokens

\* A token on its way to the browser is held by the request that issued it
\* alone: nobody has presented it, and it has not been exchanged.
IssuedIsFresh ==
    \A r \in Requests : issued[r] # NoToken =>
      /\ pc[r] = "answer"
      /\ token[issued[r]] \notin {"none", "exchanged"}
      /\ cookie # issued[r]
      /\ \A q \in Requests : /\ presented[q] # issued[r]
                             /\ q # r => issued[q] # issued[r]

\* What the browser holds and what is presented was issued.
HeldIsIssued ==
    /\ cookie # NoToken => token[cookie] # "none"
    /\ \A r \in Requests : presented[r] # NoToken => token[presented[r]] # "none"

CookieInv == IssuedIsFresh /\ HeldIsIssued /\ SpentCookieHasSuccessor

ConsoleInv == TokensInv /\ BrowserTypeOK /\ WaitersHaveRefresh /\ CookieInv

-----------------------------------------------------------------------------
\* The initial state satisfies the inductive invariant.
LEMMA ConsoleInitInv == ConsoleInit => ConsoleInv
<1> SUFFICES ASSUME ConsoleInit PROVE ConsoleInv
  OBVIOUS
<1>1. TokensInv
  BY TokensInitInv DEF ConsoleInit
<1>2. BrowserTypeOK /\ WaitersHaveRefresh
  BY DEF ConsoleInit, BrowserTypeOK, WaitersHaveRefresh, Page, FetchState
<1>3. CookieInv
  BY DEF ConsoleInit, TokensInit, CookieInv, IssuedIsFresh, HeldIsIssued,
         SpentCookieHasSuccessor
<1> QED BY <1>1, <1>2, <1>3 DEF ConsoleInv

\* A cookie can be presented to RefreshTokens.
LEMMA CookiePresentable ==
  ASSUME BrowserTypeOK, HeldIsIssued
  PROVE  cookie \in Presentable
  BY DEF BrowserTypeOK, HeldIsIssued, Presentable

\* Every step of the browser is a step of RefreshTokens, or leaves it alone.
LEMMA ConsoleStepRefines ==
  ASSUME ConsoleInv, [ConsoleNext]_consoleVars
  PROVE  [TokensNext]_tokenVars
<1>1. cookie \in Presentable /\ NoToken \in Presentable
  BY CookiePresentable DEF ConsoleInv, CookieInv, Presentable
<1>2. ASSUME NEW r \in Requests, NEW label \in Entry, NEW t \in Presentable,
             Begin(r, label, t)
      PROVE  TokensNext
  BY <1>2 DEF TokensNext
<1>3. ASSUME NEW r \in Requests, Serve(r) \/ Answered(r) \/ Abort(r)
      PROVE  TokensNext
  BY <1>3 DEF TokensNext
<1>4. {"check", "compare", "logout", "verify"} = Entry
  BY DEF Entry
<1>5. ASSUME NEW f \in Fetches, FetchNext(f) PROVE [TokensNext]_tokenVars
  <2>1. f \in Requests
    OBVIOUS
  <2>2. CASE StartRefresh(f)
    BY <1>1, <1>2, <1>4, <2>1, <2>2 DEF StartRefresh
  <2>3. CASE RefreshAnswered(f) \/ RefreshAborted(f)
    BY <1>3, <2>1, <2>3 DEF RefreshAnswered, RefreshAborted
  <2>4. CASE \/ SendFetch(f) \/ JoinRefresh(f)
             \/ RetryAuthorized(f) \/ RetryUnauthorized(f)
    BY <2>4 DEF SendFetch, JoinRefresh, RetryAuthorized, RetryUnauthorized
  <2> QED BY <1>5, <2>2, <2>3, <2>4 DEF FetchNext
<1>6. ASSUME NEW tab \in Tabs, TabNext(tab) PROVE [TokensNext]_tokenVars
  <2>1. tab \in Requests
    OBVIOUS
  <2>2. CASE RenewPage(tab)
    BY <1>1, <1>2, <1>4, <2>1, <2>2 DEF RenewPage
  <2>3. CASE SignIn(tab) \/ ResetPassword(tab) \/ SignOut(tab)
    BY <1>1, <1>2, <1>4, <2>1, <2>3 DEF SignIn, ResetPassword, SignOut
  <2>4. CASE PageAnswered(tab) \/ SignedOut(tab) \/ PageAborted(tab)
    BY <1>3, <2>1, <2>4 DEF PageAnswered, SignedOut, PageAborted
  <2>5. CASE OpenPage(tab)
    BY <2>5 DEF OpenPage
  <2> QED BY <1>6, <2>2, <2>3, <2>4, <2>5 DEF TabNext
<1>7. ASSUME NEW r \in Requests, Serves(r) PROVE [TokensNext]_tokenVars
  BY <1>3, <1>7 DEF Serves
<1>8. ASSUME NEW t \in Tokens, RefreshExpires(t) PROVE [TokensNext]_tokenVars
  BY <1>8 DEF RefreshExpires, TokensNext
<1>9. ASSUME AccessExpires PROVE [TokensNext]_tokenVars
  BY <1>9 DEF AccessExpires
<1>10. CASE UNCHANGED consoleVars
  BY <1>10 DEF consoleVars
<1> QED BY <1>5, <1>6, <1>7, <1>8, <1>9, <1>10 DEF ConsoleNext

-----------------------------------------------------------------------------
(* What each kind of step of RefreshTokens does to the cookie's invariant. *)

\* A request that carries the cookie, or nothing, sets out.
LEMMA BeginCookie ==
  ASSUME TokensTypeOK, BrowserTypeOK, CookieInv,
         NEW r \in Requests, NEW label \in Entry, NEW t \in {NoToken, cookie},
         Begin(r, label, t), UNCHANGED <<cookie, dropped>>
  PROVE  CookieInv'
<1>1. /\ pc' \in [Requests -> Pc]
      /\ \A q \in Requests : pc'[q] = IF q = r THEN label ELSE pc[q]
  BY GotoType DEF Begin, Pc
<1>2. /\ pc[r] = "idle"
      /\ UNCHANGED <<token, issued>>
      /\ \A q \in Requests : presented'[q] = IF q = r THEN t ELSE presented[q]
  BY DEF Begin, TokensTypeOK
<1>3. IssuedIsFresh'
  BY <1>1, <1>2 DEF CookieInv, IssuedIsFresh
<1>4. HeldIsIssued'
  BY <1>1, <1>2 DEF CookieInv, HeldIsIssued
<1>5. SpentCookieHasSuccessor'
  BY <1>1, <1>2 DEF CookieInv, SpentCookieHasSuccessor, Exchanging
<1> QED BY <1>3, <1>4, <1>5 DEF CookieInv

\* An answer brings the token it issued, or changes nothing; a farewell takes
\* the cookie away.
LEMMA AnsweredCookie ==
  ASSUME TokensTypeOK, BrowserTypeOK, CookieInv, NEW r \in Requests, Answered(r),
         \/ issued[r] # NoToken /\ cookie' = issued[r]
         \/ issued[r] = NoToken /\ cookie' = cookie
         \/ cookie' = NoToken,
         UNCHANGED dropped
  PROVE  CookieInv'
<1>1. /\ pc' \in [Requests -> Pc]
      /\ \A q \in Requests : pc'[q] = IF q = r THEN "idle" ELSE pc[q]
  BY GotoType DEF Answered, Forget, Pc
<1>2. /\ pc[r] \in {"answer", "farewell"}
      /\ UNCHANGED token
      /\ \A q \in Requests : presented'[q] = IF q = r THEN NoToken ELSE presented[q]
      /\ \A q \in Requests : issued'[q] = IF q = r THEN NoToken ELSE issued[q]
  BY DEF Answered, Forget, TokensTypeOK
<1>3. IssuedIsFresh'
  BY <1>1, <1>2 DEF CookieInv, IssuedIsFresh
<1>4. HeldIsIssued'
  BY <1>1, <1>2 DEF CookieInv, HeldIsIssued, IssuedIsFresh
<1>5. SpentCookieHasSuccessor'
  <2>1. CASE cookie' = cookie /\ issued[r] = NoToken
    BY <1>1, <1>2, <2>1 DEF CookieInv, SpentCookieHasSuccessor, Exchanging
  <2>2. CASE issued[r] # NoToken /\ cookie' = issued[r]
    BY <1>2, <2>2 DEF CookieInv, IssuedIsFresh, SpentCookieHasSuccessor
  <2>3. CASE cookie' = NoToken
    BY <2>3 DEF SpentCookieHasSuccessor
  <2> QED BY <2>1, <2>2, <2>3
<1> QED BY <1>3, <1>4, <1>5 DEF CookieInv

\* A request that dies leaves what it exchanged among the dropped tokens.
LEMMA AbortCookie ==
  ASSUME TokensTypeOK, BrowserTypeOK, CookieInv, NEW r \in Requests, Abort(r),
         dropped' = dropped \cup {t \in Tokens : Exchanging(r, t)},
         UNCHANGED cookie
  PROVE  CookieInv'
<1>1. /\ pc' \in [Requests -> Pc]
      /\ \A q \in Requests : pc'[q] = IF q = r THEN "idle" ELSE pc[q]
  BY GotoType DEF Abort, Forget, Pc
<1>2. /\ UNCHANGED token
      /\ \A q \in Requests : presented'[q] = IF q = r THEN NoToken ELSE presented[q]
      /\ \A q \in Requests : issued'[q] = IF q = r THEN NoToken ELSE issued[q]
  BY DEF Abort, Forget, TokensTypeOK
<1>3. IssuedIsFresh'
  BY <1>1, <1>2 DEF CookieInv, IssuedIsFresh
<1>4. HeldIsIssued'
  BY <1>1, <1>2 DEF CookieInv, HeldIsIssued
<1>5. SpentCookieHasSuccessor'
  BY <1>1, <1>2 DEF CookieInv, BrowserTypeOK, SpentCookieHasSuccessor, Exchanging
<1> QED BY <1>3, <1>4, <1>5 DEF CookieInv

\* Statements that issue and exchange no token.
LEMMA PlainCookie ==
  ASSUME TokensTypeOK, BrowserTypeOK, CookieInv, NEW r \in Requests,
         \/ CheckToken(r) \/ ComparePassword(r) \/ Logout(r) \/ ChangePassword(r),
         UNCHANGED <<cookie, dropped>>
  PROVE  CookieInv'
<1>1. PICK label \in Pc : Goto(r, label)
  BY DEF CheckToken, ComparePassword, Logout, ChangePassword, Verify,
         UpdatePassword, SweepTokens, Pc, Entry
<1>2. \A q \in Requests : pc'[q] = IF q = r THEN label ELSE pc[q]
  BY <1>1, GotoType
<1>3. /\ pc[r] \in Entry \cup {"update", "sweep"}
      /\ UNCHANGED <<presented, issued>>
  BY DEF CheckToken, ComparePassword, Logout, ChangePassword, Verify,
         UpdatePassword, SweepTokens, Entry
<1>4. \A t \in Tokens : \/ token'[t] = token[t]
                        \/ token[t] = "live" /\ token'[t] = "revoked"
  BY DEF CheckToken, ComparePassword, Logout, ChangePassword, Verify,
         UpdatePassword, SweepTokens, Live, TokensTypeOK
<1>5. IssuedIsFresh'
  BY <1>2, <1>3, <1>4 DEF CookieInv, IssuedIsFresh, TokensTypeOK, Entry
<1>6. HeldIsIssued'
  BY <1>3, <1>4 DEF CookieInv, HeldIsIssued, TokensTypeOK, BrowserTypeOK
<1>7. SpentCookieHasSuccessor'
  BY <1>2, <1>3, <1>4
     DEF CookieInv, SpentCookieHasSuccessor, Exchanging, BrowserTypeOK, Entry
<1> QED BY <1>5, <1>6, <1>7 DEF CookieInv

\* The presented token is exchanged: its successor is on its way.
LEMMA RevokeCookie ==
  ASSUME TokensTypeOK, BrowserTypeOK, CookieInv, NEW r \in Requests,
         RevokePresented(r), UNCHANGED <<cookie, dropped>>
  PROVE  CookieInv'
<1>1. \A q \in Requests : pc'[q] = IF q = r THEN "create" ELSE pc[q]
  BY GotoType DEF RevokePresented, Pc
<1>2. pc[r] = "revoke" /\ UNCHANGED <<presented, issued>>
  BY DEF RevokePresented
<1>3. \A t \in Tokens : \/ token'[t] = token[t]
                        \/ t = presented[r] /\ token[t] = "live" /\ token'[t] = "exchanged"
  BY DEF RevokePresented, TokensTypeOK
<1>4. IssuedIsFresh'
  BY <1>1, <1>2, <1>3 DEF CookieInv, IssuedIsFresh, TokensTypeOK
<1>5. HeldIsIssued'
  BY <1>2, <1>3 DEF CookieInv, HeldIsIssued, TokensTypeOK, BrowserTypeOK
<1>6. SpentCookieHasSuccessor'
  BY <1>1, <1>2, <1>3
     DEF CookieInv, SpentCookieHasSuccessor, Exchanging, BrowserTypeOK
<1> QED BY <1>4, <1>5, <1>6 DEF CookieInv

\* The successor is a token nobody has.
LEMMA CreateCookie ==
  ASSUME TokensTypeOK, BrowserTypeOK, CookieInv, NEW r \in Requests,
         CreateSession(r), UNCHANGED <<cookie, dropped>>
  PROVE  CookieInv'
<1>1. \A q \in Requests : pc'[q] = IF q = r THEN "answer" ELSE pc[q]
  BY GotoType DEF CreateSession, Pc
<1>2. pc[r] = "create" /\ UNCHANGED presented
  BY DEF CreateSession
<1>3. PICK t \in Tokens :
        /\ token[t] = "none"
        /\ \A u \in Tokens : token'[u] = IF u = t THEN "live" ELSE token[u]
        /\ \A q \in Requests : issued'[q] = IF q = r THEN t ELSE issued[q]
  BY DEF CreateSession, TokensTypeOK
<1>4. /\ t # cookie
      /\ \A q \in Requests : presented[q] # t /\ issued[q] # t
  BY <1>3, TokensAssumption DEF CookieInv, HeldIsIssued, IssuedIsFresh
<1>5. IssuedIsFresh'
  BY <1>1, <1>2, <1>3, <1>4 DEF CookieInv, IssuedIsFresh, TokensTypeOK
<1>6. HeldIsIssued'
  BY <1>2, <1>3, <1>4 DEF CookieInv, HeldIsIssued, TokensTypeOK, BrowserTypeOK
<1>7. SpentCookieHasSuccessor'
  <2>1. \A q \in Requests : Exchanging(q, cookie) => Exchanging(q, cookie)'
    BY <1>1, <1>2, <1>3, TokensAssumption DEF Exchanging, TokensTypeOK
  <2> QED BY <1>3, <1>4, <2>1
          DEF CookieInv, SpentCookieHasSuccessor, BrowserTypeOK
<1> QED BY <1>5, <1>6, <1>7 DEF CookieInv

\* Every statement of the server.
LEMMA ServeCookie ==
  ASSUME TokensTypeOK, BrowserTypeOK, CookieInv, NEW r \in Requests, Serve(r),
         UNCHANGED <<cookie, dropped>>
  PROVE  CookieInv'
  BY PlainCookie, RevokeCookie, CreateCookie DEF Serve, Refresh

\* A token expires, and the cookie with it.
LEMMA ExpireCookie ==
  ASSUME TokensTypeOK, BrowserTypeOK, CookieInv, NEW t \in Tokens, TokenExpires(t),
         cookie' = IF cookie = t THEN NoToken ELSE cookie, UNCHANGED dropped
  PROVE  CookieInv'
<1>1. /\ UNCHANGED <<pc, presented, issued>>
      /\ \A u \in Tokens : token'[u] = IF u = t THEN "expired" ELSE token[u]
  BY DEF TokenExpires, TokensTypeOK
<1>2. IssuedIsFresh'
  BY <1>1 DEF CookieInv, IssuedIsFresh, TokensTypeOK
<1>3. HeldIsIssued'
  BY <1>1 DEF CookieInv, HeldIsIssued, TokensTypeOK, BrowserTypeOK
<1>4. SpentCookieHasSuccessor'
  BY <1>1 DEF CookieInv, SpentCookieHasSuccessor, Exchanging, BrowserTypeOK
<1> QED BY <1>2, <1>3, <1>4 DEF CookieInv

\* Steps that touch neither the tokens nor the cookie.
LEMMA SameCookie ==
  ASSUME CookieInv, UNCHANGED <<tokenVars, cookie, dropped>>
  PROVE  CookieInv'
  BY DEF CookieInv, IssuedIsFresh, HeldIsIssued, SpentCookieHasSuccessor,
         Exchanging, tokenVars

\* The cookie's invariant is kept by every step.
LEMMA CookieStep ==
  ASSUME ConsoleInv, [ConsoleNext]_consoleVars
  PROVE  CookieInv'
<1>1. TokensTypeOK /\ BrowserTypeOK /\ CookieInv
  BY DEF ConsoleInv, TokensInv
<1>2. "check" \in Entry /\ "compare" \in Entry /\ "verify" \in Entry /\ "logout" \in Entry
  BY DEF Entry
<1>3. ASSUME NEW f \in Fetches, FetchNext(f) PROVE CookieInv'
  <2>1. f \in Requests
    OBVIOUS
  <2>2. CASE StartRefresh(f)
    BY <1>1, <1>2, <2>1, <2>2, BeginCookie DEF StartRefresh
  <2>3. CASE RefreshAnswered(f)
    BY <1>1, <2>1, <2>3, AnsweredCookie DEF RefreshAnswered, SetSessionCookies
  <2>4. CASE RefreshAborted(f)
    BY <1>1, <2>1, <2>4, AbortCookie DEF RefreshAborted
  <2>5. CASE \/ SendFetch(f) \/ JoinRefresh(f)
             \/ RetryAuthorized(f) \/ RetryUnauthorized(f)
    BY <1>1, <2>5, SameCookie
       DEF SendFetch, JoinRefresh, RetryAuthorized, RetryUnauthorized
  <2> QED BY <1>3, <2>2, <2>3, <2>4, <2>5 DEF FetchNext
<1>4. ASSUME NEW tab \in Tabs, TabNext(tab) PROVE CookieInv'
  <2>1. tab \in Requests
    OBVIOUS
  <2>2. CASE RenewPage(tab)
    BY <1>1, <1>2, <2>1, <2>2, BeginCookie DEF RenewPage
  <2>3. CASE SignIn(tab) \/ ResetPassword(tab) \/ SignOut(tab)
    BY <1>1, <1>2, <2>1, <2>3, BeginCookie
       DEF SignIn, ResetPassword, SignOut, browser
  <2>4. CASE PageAnswered(tab)
    BY <1>1, <2>1, <2>4, AnsweredCookie DEF PageAnswered, SetSessionCookies
  <2>5. CASE SignedOut(tab)
    BY <1>1, <2>1, <2>5, AnsweredCookie DEF SignedOut
  <2>6. CASE PageAborted(tab)
    BY <1>1, <2>1, <2>6, AbortCookie DEF PageAborted
  <2>7. CASE OpenPage(tab)
    BY <1>1, <2>7, SameCookie DEF OpenPage
  <2> QED BY <1>4, <2>2, <2>3, <2>4, <2>5, <2>6, <2>7 DEF TabNext
<1>5. ASSUME NEW r \in Requests, Serves(r) PROVE CookieInv'
  BY <1>1, <1>5, ServeCookie DEF Serves, browser
<1>6. ASSUME NEW t \in Tokens, RefreshExpires(t) PROVE CookieInv'
  BY <1>1, <1>6, ExpireCookie DEF RefreshExpires
<1>7. CASE AccessExpires
  BY <1>1, <1>7, SameCookie DEF AccessExpires
<1>8. CASE UNCHANGED consoleVars
  BY <1>1, <1>8, SameCookie DEF consoleVars, browser
<1> QED BY <1>3, <1>4, <1>5, <1>6, <1>7, <1>8 DEF ConsoleNext

-----------------------------------------------------------------------------
(* The rest of the browser.                                                *)

\* Leaving a document leaves no refresh of its fetches in flight.
LEMMA LeaveBrowser ==
  ASSUME BrowserTypeOK, NEW tab \in Tabs, NEW to \in Page, Leave(tab, to)
  PROVE  /\ page' \in [Tabs -> Page]
         /\ fetch' \in [Fetches -> FetchState]
         /\ inFlight' \in [Tabs -> Fetches \cup {NoFetch}]
         /\ \A f \in Fetches : fetch'[f] = IF TabOf[f] = tab THEN "idle" ELSE fetch[f]
         /\ \A s \in Tabs : inFlight'[s] = IF s = tab THEN NoFetch ELSE inFlight[s]
  BY DEF BrowserTypeOK, Leave, FetchState

\* Nobody is left waiting in a document that was left.
LEMMA LeaveWaiters ==
  ASSUME BrowserTypeOK, WaitersHaveRefresh, NEW tab \in Tabs, NEW to \in Page,
         Leave(tab, to),
         \A f \in Fetches : pc'[f] = pc[f]
  PROVE  WaitersHaveRefresh'
  BY LeaveBrowser DEF WaitersHaveRefresh, BrowserTypeOK

\* The fetches that waited for a refresh go on when it is over.
LEMMA WakeWaiters ==
  ASSUME BrowserTypeOK, WaitersHaveRefresh, NEW f \in Fetches,
         NEW as \in {"retry", "stranded"}, Wake(f, as),
         \A g \in Fetches : g # f => pc'[g] = pc[g]
  PROVE  /\ fetch' \in [Fetches -> FetchState]
         /\ inFlight' \in [Tabs -> Fetches \cup {NoFetch}]
         /\ WaitersHaveRefresh'
<1>1. CASE inFlight[TabOf[f]] = f
  <2>1. /\ inFlight' = [inFlight EXCEPT ![TabOf[f]] = NoFetch]
        /\ fetch' = [g \in Fetches |->
                       IF TabOf[g] = TabOf[f] /\ fetch[g] = "waiting"
                       THEN as ELSE fetch[g]]
    BY <1>1 DEF Wake
  <2>2. /\ fetch' \in [Fetches -> FetchState]
        /\ inFlight' \in [Tabs -> Fetches \cup {NoFetch}]
    BY <2>1 DEF BrowserTypeOK, FetchState
  <2>3. WaitersHaveRefresh'
    <3>1. ASSUME NEW g \in Fetches, fetch'[g] = "waiting"
          PROVE  inFlight'[TabOf[g]] # NoFetch
      BY <2>1, <3>1 DEF BrowserTypeOK, WaitersHaveRefresh
    <3>2. ASSUME NEW s \in Tabs, NEW g \in Fetches, inFlight'[s] = g
          PROVE  TabOf[g] = s /\ fetch'[g] = "waiting" /\ pc'[g] # "idle"
      <4>1. s # TabOf[f] /\ inFlight[s] = g
        BY <2>1, <3>2 DEF BrowserTypeOK
      <4>2. TabOf[g] = s /\ fetch[g] = "waiting" /\ pc[g] # "idle" /\ g # f
        BY <4>1 DEF WaitersHaveRefresh
      <4> QED BY <2>1, <4>1, <4>2
    <3> QED BY <3>1, <3>2 DEF WaitersHaveRefresh
  <2> QED BY <2>2, <2>3
<1>2. CASE inFlight[TabOf[f]] # f
  <2>1. UNCHANGED <<inFlight, fetch>>
    BY <1>2 DEF Wake
  <2>2. \A tab \in Tabs : inFlight[tab] # f
    BY <1>2 DEF WaitersHaveRefresh
  <2> QED BY <2>1, <2>2 DEF BrowserTypeOK, WaitersHaveRefresh
<1> QED BY <1>1, <1>2

\* The steps of a fetch keep the browser's invariant.
LEMMA FetchBrowser ==
  ASSUME ConsoleInv, NEW f \in Fetches, FetchNext(f)
  PROVE  BrowserTypeOK' /\ WaitersHaveRefresh'
<1>1. TokensTypeOK /\ BrowserTypeOK /\ WaitersHaveRefresh
  BY DEF ConsoleInv, TokensInv
<1>2. f \in Requests /\ TabOf[f] \in Tabs /\ "login" \in Page
  BY DEF Page
<1>3. CASE SendFetch(f)
  BY <1>1, <1>3 DEF SendFetch, BrowserTypeOK, WaitersHaveRefresh, FetchState, tokenVars
<1>4. CASE StartRefresh(f)
  <2>1. /\ fetch[f] = "sent"
        /\ inFlight[TabOf[f]] = NoFetch
        /\ fetch' = [fetch EXCEPT ![f] = "waiting"]
        /\ inFlight' = [inFlight EXCEPT ![TabOf[f]] = f]
        /\ UNCHANGED <<cookie, access, page, dropped>>
    BY <1>4 DEF StartRefresh
  <2>2. \A q \in Requests : pc'[q] = IF q = f THEN "check" ELSE pc[q]
    BY <1>1, <1>2, <1>4, GotoType DEF StartRefresh, Begin, Pc, Entry
  <2>3. BrowserTypeOK'
    BY <1>1, <1>2, <2>1 DEF BrowserTypeOK, FetchState
  <2>4. WaitersHaveRefresh'
    BY <1>1, <1>2, <2>1, <2>2 DEF BrowserTypeOK, WaitersHaveRefresh
  <2> QED BY <2>3, <2>4
<1>5. CASE JoinRefresh(f)
  BY <1>1, <1>2, <1>5
     DEF JoinRefresh, BrowserTypeOK, WaitersHaveRefresh, FetchState, tokenVars
<1>6. CASE RefreshAnswered(f)
  <2>1. \A g \in Fetches : g # f => pc'[g] = pc[g]
    BY <1>1, <1>2, <1>6, GotoType DEF RefreshAnswered, Answered, Forget, Pc
  <2>2. Wake(f, "retry") /\ SetSessionCookies(f) /\ UNCHANGED <<page, dropped>>
    BY <1>6 DEF RefreshAnswered
  <2>3. cookie' \in Tokens \cup {NoToken} /\ access' \in BOOLEAN
    BY <1>1, <1>2, <2>2 DEF SetSessionCookies, TokensTypeOK, BrowserTypeOK
  <2> QED BY <1>1, <2>1, <2>2, <2>3, WakeWaiters DEF BrowserTypeOK
<1>7. CASE RefreshAborted(f)
  <2>1. \A g \in Fetches : g # f => pc'[g] = pc[g]
    BY <1>1, <1>2, <1>7, GotoType DEF RefreshAborted, Abort, Forget, Pc
  <2>2. /\ Wake(f, "stranded")
        /\ dropped' = dropped \cup {t \in Tokens : Exchanging(f, t)}
        /\ UNCHANGED <<cookie, access, page>>
    BY <1>7 DEF RefreshAborted
  <2> QED BY <1>1, <2>1, <2>2, WakeWaiters DEF BrowserTypeOK
<1>8. CASE RetryAuthorized(f)
  BY <1>1, <1>8 DEF RetryAuthorized, BrowserTypeOK, WaitersHaveRefresh, FetchState, tokenVars
<1>9. CASE RetryUnauthorized(f)
  <2>1. /\ Leave(TabOf[f], "login")
        /\ UNCHANGED <<pc, cookie, access, dropped>>
    BY <1>9 DEF RetryUnauthorized, tokenVars
  <2>2. BrowserTypeOK'
    BY <1>1, <1>2, <2>1, LeaveBrowser DEF BrowserTypeOK
  <2>3. WaitersHaveRefresh'
    BY <1>1, <1>2, <2>1, LeaveWaiters
  <2> QED BY <2>2, <2>3
<1> QED BY <1>3, <1>4, <1>5, <1>6, <1>7, <1>8, <1>9 DEF FetchNext

\* The steps of a tab keep the browser's invariant.
LEMMA TabBrowser ==
  ASSUME ConsoleInv, NEW tab \in Tabs, TabNext(tab)
  PROVE  BrowserTypeOK' /\ WaitersHaveRefresh'
<1>1. TokensTypeOK /\ BrowserTypeOK /\ WaitersHaveRefresh
  BY DEF ConsoleInv, TokensInv
<1>2. tab \in Requests /\ tab \notin Fetches /\ Page = {"login", "loading", "app"}
  BY DEF Page
<1>3. ASSUME NEW label \in Pc, Goto(tab, label)
      PROVE  \A f \in Fetches : pc'[f] = pc[f]
  BY <1>1, <1>2, <1>3, GotoType
<1>4. {"idle", "check", "compare", "verify", "logout"} \subseteq Pc
  BY DEF Pc, Entry
<1>5. CASE OpenPage(tab)
  <2>1. PICK to \in Page : Leave(tab, to)
    BY <1>2, <1>5 DEF OpenPage
  <2>2. UNCHANGED <<pc, cookie, access, dropped>>
    BY <1>5 DEF OpenPage, tokenVars
  <2> QED BY <1>1, <2>1, <2>2, LeaveBrowser, LeaveWaiters DEF BrowserTypeOK
<1>6. CASE RenewPage(tab)
  <2>1. /\ Leave(tab, "loading")
        /\ Goto(tab, "check")
        /\ UNCHANGED <<cookie, access, dropped>>
    BY <1>6 DEF RenewPage, Begin
  <2>2. \A f \in Fetches : pc'[f] = pc[f]
    BY <1>3, <1>4, <2>1
  <2> QED BY <1>1, <1>2, <2>1, <2>2, LeaveBrowser, LeaveWaiters DEF BrowserTypeOK
<1>7. CASE SignIn(tab) \/ ResetPassword(tab) \/ SignOut(tab)
  <2>1. \A f \in Fetches : pc'[f] = pc[f]
    BY <1>3, <1>4, <1>7 DEF SignIn, ResetPassword, SignOut, Begin
  <2>2. UNCHANGED browser
    BY <1>7 DEF SignIn, ResetPassword, SignOut
  <2> QED BY <1>1, <2>1, <2>2 DEF browser, BrowserTypeOK, WaitersHaveRefresh
<1>8. CASE PageAnswered(tab)
  <2>1. \A f \in Fetches : pc'[f] = pc[f]
    BY <1>3, <1>4, <1>8 DEF PageAnswered, Answered, Forget
  <2>2. /\ page' \in [Tabs -> Page]
        /\ UNCHANGED <<fetch, inFlight, dropped>>
    BY <1>1, <1>2, <1>8 DEF PageAnswered, BrowserTypeOK
  <2>3. cookie' \in Tokens \cup {NoToken} /\ access' \in BOOLEAN
    BY <1>1, <1>2, <1>8 DEF PageAnswered, SetSessionCookies, TokensTypeOK, BrowserTypeOK
  <2> QED BY <1>1, <2>1, <2>2, <2>3 DEF BrowserTypeOK, WaitersHaveRefresh
<1>9. CASE SignedOut(tab)
  <2>1. /\ Leave(tab, "login")
        /\ Goto(tab, "idle")
        /\ cookie' = NoToken /\ access' = FALSE
        /\ UNCHANGED dropped
    BY <1>9 DEF SignedOut, Answered, Forget
  <2>2. \A f \in Fetches : pc'[f] = pc[f]
    BY <1>3, <1>4, <2>1
  <2> QED BY <1>1, <1>2, <2>1, <2>2, LeaveBrowser, LeaveWaiters DEF BrowserTypeOK
<1>10. CASE PageAborted(tab)
  <2>1. \A f \in Fetches : pc'[f] = pc[f]
    BY <1>3, <1>4, <1>10 DEF PageAborted, Abort, Forget
  <2>2. /\ page' \in [Tabs -> Page]
        /\ dropped' = dropped \cup {t \in Tokens : Exchanging(tab, t)}
        /\ UNCHANGED <<cookie, access, fetch, inFlight>>
    BY <1>1, <1>2, <1>10 DEF PageAborted, BrowserTypeOK
  <2> QED BY <1>1, <2>1, <2>2 DEF BrowserTypeOK, WaitersHaveRefresh
<1> QED BY <1>5, <1>6, <1>7, <1>8, <1>9, <1>10 DEF TabNext

\* The browser's invariant is kept by every step.
LEMMA BrowserStep ==
  ASSUME ConsoleInv, [ConsoleNext]_consoleVars
  PROVE  BrowserTypeOK' /\ WaitersHaveRefresh'
<1>1. TokensTypeOK /\ BrowserTypeOK /\ WaitersHaveRefresh
  BY DEF ConsoleInv, TokensInv
<1>2. ASSUME NEW r \in Requests, Serves(r) PROVE BrowserTypeOK' /\ WaitersHaveRefresh'
  <2>1. PICK label \in Pc \ {"idle"} : Goto(r, label)
    BY <1>2 DEF Serves, Serve, Refresh, CheckToken, RevokePresented, CreateSession,
                ComparePassword, Logout, ChangePassword, Verify, UpdatePassword,
                SweepTokens, Pc, Entry
  <2>2. \A f \in Fetches : pc'[f] = IF f = r THEN label ELSE pc[f]
    BY <1>1, <2>1, GotoType
  <2> QED BY <1>1, <1>2, <2>2 DEF Serves, browser, BrowserTypeOK, WaitersHaveRefresh
<1>3. ASSUME NEW t \in Tokens, RefreshExpires(t)
      PROVE  BrowserTypeOK' /\ WaitersHaveRefresh'
  BY <1>1, <1>3 DEF RefreshExpires, TokenExpires, BrowserTypeOK, WaitersHaveRefresh
<1>4. CASE AccessExpires
  BY <1>1, <1>4 DEF AccessExpires, BrowserTypeOK, WaitersHaveRefresh, tokenVars
<1>5. CASE UNCHANGED consoleVars
  BY <1>1, <1>5
     DEF consoleVars, tokenVars, browser, BrowserTypeOK, WaitersHaveRefresh
<1> QED BY <1>2, <1>3, <1>4, <1>5, FetchBrowser, TabBrowser DEF ConsoleNext

-----------------------------------------------------------------------------
\* The inductive invariant holds in every reachable state.
THEOREM ConsoleInvariant == ConsoleSpec => []ConsoleInv
<1>1. ConsoleInit => ConsoleInv
  BY ConsoleInitInv
<1>2. ASSUME ConsoleInv, [ConsoleNext]_consoleVars PROVE ConsoleInv'
  <2>1. TokensInv'
    BY <1>2, ConsoleStepRefines, TokensStep DEF ConsoleInv
  <2>2. CookieInv'
    BY <1>2, CookieStep
  <2>3. BrowserTypeOK' /\ WaitersHaveRefresh'
    BY <1>2, BrowserStep
  <2> QED BY <2>1, <2>2, <2>3 DEF ConsoleInv
<1> QED BY <1>1, <1>2, PTL DEF ConsoleSpec

\* The types hold, and what a fetch waits for is going on in its own document.
THEOREM ConsoleTypes == ConsoleSpec => []ConsoleTypeOK
<1>1. ConsoleInv => ConsoleTypeOK
  BY DEF ConsoleInv, TokensInv, BrowserTypeOK, ConsoleTypeOK
<1> QED BY <1>1, ConsoleInvariant, PTL

\* The browser sends the service nothing RefreshTokens does not know, so that
\* every theorem about the tokens is one about the console's sessions.
THEOREM ConsoleRefines == ConsoleSpec => TokensSpec
<1>1. ConsoleInit => TokensInit
  BY DEF ConsoleInit
<1>2. ConsoleInv /\ [ConsoleNext]_consoleVars => [TokensNext]_tokenVars
  BY ConsoleStepRefines
<1> QED BY <1>1, <1>2, ConsoleInvariant, PTL DEF ConsoleSpec, TokensSpec

\* A change of the password ends the console's earlier sessions, those of
\* requests let in before the tokens were revoked excepted.
THEOREM ConsoleOldSessionsEnd == ConsoleSpec => []OldSessionsOnlyCrossed
  BY ConsoleRefines, OldSessionsEnd, PTL

\* Of the console's sessions of before a change, fewer stay open than requests
\* are served together.
THEOREM ConsoleFewOldSessions == ConsoleSpec => []OldSessionsBounded
  BY ConsoleRefines, FewOldSessions, PTL

\* Whatever tabs and fetches do together, the browser has a spent cookie only
\* while its successor is on its way, or when that answer was lost.
THEOREM SpentCookieReplaced == ConsoleSpec => []SpentCookieHasSuccessor
<1>1. ConsoleInv => SpentCookieHasSuccessor
  BY DEF ConsoleInv, CookieInv
<1> QED BY <1>1, ConsoleInvariant, PTL

-----------------------------------------------------------------------------
(* When a document gives up.                                               *)

\* There is nothing to renew: an access cookie is there, or the refresh cookie
\* is of no use.
Settled == access \/ cookie \notin Live

\* f's refresh has found its token live, or was answered with another.
Spends(f) == pc[f] \in {"revoke", "create"} \/ issued[f] # NoToken

\* Fetches send nothing but refreshes.
FetchesRefresh ==
    \A f \in Fetches : /\ pc[f] \in {"idle", "check", "revoke", "create", "answer"}
                       /\ Spends(f) => presented[f] # NoToken

\* A refresh presents the cookie of now, or is refused when it is too late to
\* matter; and no fetch goes on before all is settled.
RefusedWhenSettled ==
    \A f \in Fetches :
      /\ pc[f] = "check" => presented[f] = cookie \/ Settled
      /\ pc[f] = "answer" /\ issued[f] = NoToken => Settled
      /\ fetch[f] = "retry" => Settled

\* A fetch of the present document has no refresh but the one in flight.
OwnRefreshInFlight ==
    \A f \in Fetches : fetch[f] # "idle" /\ pc[f] # "idle" => inFlight[TabOf[f]] = f

\* While a fetch is about to be sent again, a later refresh of its document
\* spends the cookie only if the access cookie is there.
NoSecondRefresh ==
    \A f \in Fetches, g \in Fetches :
      /\ fetch[f] = "retry"
      /\ inFlight[TabOf[f]] = g
      /\ Spends(g)
      /\ presented[g] = cookie
      => access

GiveUpInv ==
    FetchesRefresh /\ RefusedWhenSettled /\ OwnRefreshInFlight /\ NoSecondRefresh

-----------------------------------------------------------------------------
\* Only a token nobody had becomes live.
LEMMA NewLiveWasNone ==
  ASSUME TokensTypeOK, [TokensNext]_tokenVars, NEW t \in Tokens, token'[t] = "live"
  PROVE  token[t] \in {"none", "live"}
<1>1. ASSUME NEW r \in Requests, Serve(r) PROVE token[t] \in {"none", "live"}
  BY <1>1
     DEF Serve, Refresh, CheckToken, RevokePresented, CreateSession, ComparePassword,
         Logout, ChangePassword, Verify, UpdatePassword, SweepTokens, TokensTypeOK, Live
<1>2. ASSUME NEW u \in Tokens, TokenExpires(u) PROVE token[t] \in {"none", "live"}
  BY <1>2 DEF TokenExpires, TokensTypeOK
<1>3. CASE UNCHANGED token
  BY <1>3
<1> QED BY <1>1, <1>2, <1>3 DEF TokensNext, tokenVars, Begin, Answered, Abort

\* How the cookies change.
LEMMA CookieMoves ==
  ASSUME [ConsoleNext]_consoleVars
  PROVE  \/ AccessExpires
         \/ /\ cookie' \in {cookie, NoToken} \/ access'
            /\ access => access' \/ cookie' = NoToken
<1>1. ASSUME NEW f \in Fetches, FetchNext(f)
      PROVE  UNCHANGED <<cookie, access>> \/ access'
  BY <1>1
     DEF FetchNext, SendFetch, StartRefresh, JoinRefresh, RefreshAnswered,
         RefreshAborted, RetryAuthorized, RetryUnauthorized, SetSessionCookies
<1>2. ASSUME NEW tab \in Tabs, TabNext(tab)
      PROVE  UNCHANGED <<cookie, access>> \/ access' \/ cookie' = NoToken
  BY <1>2
     DEF TabNext, OpenPage, RenewPage, SignIn, ResetPassword, SignOut, PageAnswered,
         SignedOut, PageAborted, SetSessionCookies, browser
<1>3. ASSUME NEW t \in Tokens, RefreshExpires(t)
      PROVE  cookie' \in {cookie, NoToken} /\ access' = access
  BY <1>3 DEF RefreshExpires
<1> QED BY <1>1, <1>2, <1>3 DEF ConsoleNext, Serves, consoleVars, browser

\* What is settled stays so until the access cookie expires.
LEMMA SettledStays ==
  ASSUME ConsoleInv, [ConsoleNext]_consoleVars, ~AccessExpires, Settled
  PROVE  Settled'
<1>1. TokensTypeOK /\ HeldIsIssued /\ BrowserTypeOK
  BY DEF ConsoleInv, TokensInv, CookieInv
<1>2. CASE access' \/ cookie' = NoToken
  BY <1>2, TokensAssumption DEF Settled, Live
<1>3. CASE cookie' = cookie /\ cookie \in Tokens /\ cookie \notin Live
  <2>1. token[cookie] \notin {"none", "live"}
    BY <1>1, <1>3, TokensAssumption DEF HeldIsIssued, Live
  <2>2. token'[cookie] # "live"
    BY <1>1, <1>3, <2>1, NewLiveWasNone, ConsoleStepRefines
  <2> QED BY <1>3, <2>2 DEF Settled, Live
<1> QED BY <1>1, <1>2, <1>3, CookieMoves DEF Settled, BrowserTypeOK

\* How the request of a fetch moves.
LEMMA RequestMoves ==
  ASSUME ConsoleInv, FetchesRefresh, [ConsoleNext]_consoleVars, NEW f \in Fetches
  PROVE  \/ pc'[f] = pc[f] /\ presented'[f] = presented[f] /\ issued'[f] = issued[f]
         \/ pc'[f] = "idle" /\ issued'[f] = NoToken
         \/ /\ StartRefresh(f)
            /\ pc'[f] = "check" /\ presented'[f] = cookie /\ issued'[f] = NoToken
         \/ /\ UNCHANGED <<browser, token>>
            /\ pc[f] = "check"
            /\ pc'[f] = IF presented[f] \in Live THEN "revoke" ELSE "answer"
            /\ presented'[f] = presented[f] /\ issued'[f] = issued[f]
         \/ /\ UNCHANGED browser
            /\ pc[f] = "revoke" /\ pc'[f] = "create"
            /\ presented'[f] = presented[f] /\ issued'[f] = issued[f]
         \/ /\ UNCHANGED browser
            /\ pc[f] = "create" /\ pc'[f] = "answer"
            /\ presented'[f] = presented[f] /\ issued'[f] # NoToken
<1> DEFINE Same == /\ pc'[f] = pc[f]
                   /\ presented'[f] = presented[f]
                   /\ issued'[f] = issued[f]
<1>1. TokensTypeOK /\ IssuedIsFresh /\ f \in Requests
  BY DEF ConsoleInv, TokensInv, CookieInv
<1>2. ASSUME NEW r \in Requests \ {f},
             \/ \E label \in Entry, t \in Tokens \cup {NoToken} : Begin(r, label, t)
             \/ Serve(r) \/ Answered(r) \/ Abort(r)
      PROVE  Same
  <2>1. CASE \/ \E label \in Entry, t \in Tokens \cup {NoToken} : Begin(r, label, t)
             \/ Answered(r) \/ Abort(r)
    BY <1>1, <1>2, <2>1 DEF Begin, Answered, Abort, Forget, Goto, TokensTypeOK
  <2>2. CASE Serve(r)
    BY <1>1, <1>2, <2>2
       DEF Serve, Refresh, CheckToken, RevokePresented, CreateSession, ComparePassword,
           Logout, ChangePassword, Verify, UpdatePassword, SweepTokens, Goto,
           TokensTypeOK
  <2> QED BY <1>2, <2>1, <2>2
<1>3. {"check", "compare", "verify", "logout"} \subseteq Entry
  BY DEF Entry
<1>4. cookie \in Tokens \cup {NoToken} /\ NoToken \in Tokens \cup {NoToken}
  BY DEF ConsoleInv, BrowserTypeOK
<1>5. ASSUME NEW g \in Fetches, FetchNext(g), g # f PROVE Same
  <2>1. g \in Requests \ {f}
    BY <1>5
  <2>2. CASE StartRefresh(g) \/ RefreshAnswered(g) \/ RefreshAborted(g)
    BY <1>2, <1>3, <1>4, <2>1, <2>2 DEF StartRefresh, RefreshAnswered, RefreshAborted
  <2> QED BY <1>5, <2>2 DEF FetchNext, SendFetch, JoinRefresh, RetryAuthorized,
                             RetryUnauthorized, tokenVars
<1>6. ASSUME NEW tab \in Tabs, TabNext(tab) PROVE Same
  <2>1. tab \in Requests \ {f}
    OBVIOUS
  <2> QED BY <1>2, <1>3, <1>4, <1>6, <2>1
          DEF TabNext, OpenPage, RenewPage, SignIn, ResetPassword, SignOut,
              PageAnswered, SignedOut, PageAborted, tokenVars
<1>7. CASE StartRefresh(f)
  <2>1. pc'[f] = "check" /\ presented'[f] = cookie
    BY <1>1, <1>7 DEF StartRefresh, Begin, Goto, TokensTypeOK
  <2>2. issued'[f] = NoToken
    BY <1>1, <1>7 DEF StartRefresh, Begin, IssuedIsFresh
  <2> QED BY <1>7, <2>1, <2>2
<1>8. CASE RefreshAnswered(f) \/ RefreshAborted(f)
  BY <1>1, <1>8 DEF RefreshAnswered, RefreshAborted, Answered, Abort, Forget, Goto,
                    TokensTypeOK
<1>9. CASE SendFetch(f) \/ JoinRefresh(f) \/ RetryAuthorized(f) \/ RetryUnauthorized(f)
  BY <1>9 DEF SendFetch, JoinRefresh, RetryAuthorized, RetryUnauthorized, tokenVars
<1>10. CASE Serves(f)
  <2>1. Refresh(f) /\ UNCHANGED browser
    BY <1>10 DEF Serves, Serve, ComparePassword, Logout, ChangePassword, Verify,
                 UpdatePassword, SweepTokens, FetchesRefresh
  <2>2. CASE CheckToken(f)
    BY <1>1, <2>1, <2>2 DEF CheckToken, Goto, TokensTypeOK
  <2>3. CASE RevokePresented(f)
    BY <1>1, <2>1, <2>3 DEF RevokePresented, Goto, TokensTypeOK
  <2>4. CASE CreateSession(f)
    BY <1>1, <2>1, <2>4, TokensAssumption DEF CreateSession, Goto, TokensTypeOK
  <2> QED BY <2>1, <2>2, <2>3, <2>4 DEF Refresh
<1>11. ASSUME NEW r \in Requests \ {f}, Serves(r) PROVE Same
  BY <1>2, <1>11 DEF Serves
<1>12. ASSUME NEW t \in Tokens, RefreshExpires(t) PROVE Same
  BY <1>12 DEF RefreshExpires, TokenExpires
<1>13. CASE AccessExpires \/ UNCHANGED consoleVars
  BY <1>13 DEF AccessExpires, consoleVars, tokenVars
<1> QED
  BY <1>5, <1>6, <1>7, <1>8, <1>9, <1>10, <1>11, <1>12, <1>13 DEF ConsoleNext, FetchNext

\* How what the fetches of a document wait for moves.
LEMMA DocumentMoves ==
  ASSUME ConsoleInv, GiveUpInv, [ConsoleNext]_consoleVars, NEW f \in Fetches
  PROVE  \/ fetch'[f] = "idle"
         \/ /\ fetch'[f] = fetch[f] \/ fetch'[f] \in {"sent", "waiting"}
            /\ fetch[f] = "idle" => pc'[f] = "idle"
            /\ inFlight'[TabOf[f]] = inFlight[TabOf[f]]
         \/ \E g \in Fetches :
              /\ StartRefresh(g) /\ TabOf[g] = TabOf[f]
              /\ fetch'[f] = fetch[f] \/ (f = g /\ fetch'[f] = "waiting")
              /\ inFlight[TabOf[f]] = NoFetch /\ inFlight'[TabOf[f]] = g
         \/ \E g \in Fetches :
              /\ inFlight[TabOf[f]] = g /\ pc'[g] = "idle"
              /\ inFlight'[TabOf[f]] = NoFetch
              /\ \/ fetch'[f] = fetch[f]
                 \/ /\ fetch[f] = "waiting"
                    /\ fetch'[f] = "stranded" \/ (fetch'[f] = "retry" /\ Settled')
<1> DEFINE Still == fetch'[f] = fetch[f] /\ inFlight'[TabOf[f]] = inFlight[TabOf[f]]
           Woken(g) == /\ inFlight[TabOf[f]] = g /\ pc'[g] = "idle"
                       /\ inFlight'[TabOf[f]] = NoFetch
                       /\ \/ fetch'[f] = fetch[f]
                          \/ /\ fetch[f] = "waiting"
                             /\ \/ fetch'[f] = "stranded"
                                \/ fetch'[f] = "retry" /\ Settled'
<1>1. TokensTypeOK /\ BrowserTypeOK /\ f \in Requests /\ TabOf[f] \in Tabs
  BY DEF ConsoleInv, TokensInv
<1>2. ASSUME NEW tab \in Tabs, NEW to \in Page, Leave(tab, to)
      PROVE  fetch'[f] = "idle" \/ Still
  BY <1>1, <1>2, LeaveBrowser
<1>3. ASSUME NEW g \in Fetches, FetchNext(g)
      PROVE  \/ fetch'[f] = "idle" \/ Still \/ Woken(g)
             \/ /\ fetch'[f] \in {"sent", "waiting"}
                /\ fetch[f] = "idle" => pc'[f] = "idle"
                /\ inFlight'[TabOf[f]] = inFlight[TabOf[f]]
             \/ /\ StartRefresh(g) /\ TabOf[g] = TabOf[f]
                /\ fetch'[f] = fetch[f] \/ (f = g /\ fetch'[f] = "waiting")
                /\ inFlight[TabOf[f]] = NoFetch /\ inFlight'[TabOf[f]] = g
  <2>1. CASE SendFetch(g)
    BY <1>1, <2>1 DEF SendFetch, BrowserTypeOK, tokenVars
  <2>2. CASE JoinRefresh(g)
    BY <1>1, <2>2 DEF JoinRefresh, BrowserTypeOK
  <2>3. CASE StartRefresh(g)
    <3>1. /\ fetch' = [fetch EXCEPT ![g] = "waiting"]
          /\ inFlight' = [inFlight EXCEPT ![TabOf[g]] = g]
          /\ inFlight[TabOf[g]] = NoFetch
      BY <2>3 DEF StartRefresh
    <3>2. CASE TabOf[g] = TabOf[f]
      <4>1. inFlight'[TabOf[f]] = g /\ inFlight[TabOf[f]] = NoFetch
        BY <1>1, <3>1, <3>2 DEF BrowserTypeOK
      <4>2. fetch'[f] = fetch[f] \/ (f = g /\ fetch'[f] = "waiting")
        BY <1>1, <3>1 DEF BrowserTypeOK
      <4> QED BY <2>3, <3>2, <4>1, <4>2
    <3>3. CASE TabOf[g] # TabOf[f]
      <4>1. g # f /\ TabOf[f] \in Tabs /\ TabOf[g] \in Tabs
        BY <3>3
      <4>2. Still
        BY <1>1, <3>1, <3>3, <4>1 DEF BrowserTypeOK
      <4> QED BY <4>2
    <3> QED BY <3>2, <3>3
  <2>4. ASSUME NEW as \in {"retry", "stranded"}, Wake(g, as), Goto(g, "idle"),
               as = "retry" => Settled'
        PROVE  Still \/ Woken(g)
    <3>1. pc'[g] = "idle"
      BY <1>1, <2>4 DEF Goto, TokensTypeOK
    <3>2. CASE inFlight[TabOf[g]] = g /\ TabOf[g] = TabOf[f]
      <4>1. /\ inFlight'[TabOf[f]] = NoFetch
            /\ fetch'[f] = fetch[f] \/ (fetch[f] = "waiting" /\ fetch'[f] = as)
        <5>1. /\ inFlight' = [inFlight EXCEPT ![TabOf[g]] = NoFetch]
              /\ fetch' = [h \in Fetches |->
                             IF TabOf[h] = TabOf[g] /\ fetch[h] = "waiting"
                             THEN as ELSE fetch[h]]
          BY <2>4, <3>2 DEF Wake
        <5> QED BY <1>1, <3>2, <5>1 DEF BrowserTypeOK
      <4>2. inFlight[TabOf[f]] = g
        BY <3>2
      <4>3. as = "stranded" \/ (as = "retry" /\ Settled')
        BY <2>4
      <4> QED BY <3>1, <4>1, <4>2, <4>3
    <3>3. CASE inFlight[TabOf[g]] # g \/ TabOf[g] # TabOf[f]
      BY <1>1, <2>4, <3>3 DEF Wake, BrowserTypeOK
    <3> QED BY <3>2, <3>3
  <2>5. CASE RefreshAnswered(g)
    <3>1. Settled'
      <4>1. pc[g] = "answer" /\ UNCHANGED token
        BY <2>5 DEF RefreshAnswered, Answered, GiveUpInv, FetchesRefresh
      <4>2. CASE issued[g] # NoToken
        BY <2>5, <4>2 DEF RefreshAnswered, SetSessionCookies, Settled
      <4>3. CASE issued[g] = NoToken
        <5>1. Settled /\ UNCHANGED <<cookie, access>>
          BY <2>5, <4>1, <4>3
             DEF RefreshAnswered, SetSessionCookies, GiveUpInv, RefusedWhenSettled
        <5> QED BY <4>1, <5>1 DEF Settled, Live
      <4> QED BY <4>2, <4>3
    <3> QED BY <2>4, <2>5, <3>1 DEF RefreshAnswered, Answered, Forget
  <2>6. CASE RefreshAborted(g)
    BY <2>4, <2>6 DEF RefreshAborted, Abort, Forget
  <2>7. CASE RetryAuthorized(g)
    BY <1>1, <2>7 DEF RetryAuthorized, BrowserTypeOK
  <2>8. CASE RetryUnauthorized(g)
    BY <1>2, <2>8 DEF RetryUnauthorized, Page
  <2> QED BY <1>3, <2>1, <2>2, <2>3, <2>5, <2>6, <2>7, <2>8 DEF FetchNext
<1>4. ASSUME NEW tab \in Tabs, TabNext(tab) PROVE fetch'[f] = "idle" \/ Still
  <2>1. CASE OpenPage(tab)
    BY <1>2, <2>1 DEF OpenPage, Page
  <2>2. CASE RenewPage(tab) \/ SignedOut(tab)
    BY <1>2, <2>2 DEF RenewPage, SignedOut, Page
  <2> QED BY <1>4, <2>1, <2>2
          DEF TabNext, SignIn, ResetPassword, SignOut, PageAnswered, PageAborted,
              browser
<1>5. ASSUME Still, fetch'[f] # "idle"
      PROVE  /\ fetch'[f] = fetch[f] /\ fetch[f] # "idle"
             /\ inFlight'[TabOf[f]] = inFlight[TabOf[f]]
  BY <1>5
<1>6. ASSUME NEW r \in Requests, Serves(r) PROVE Still
  BY <1>6 DEF Serves, browser
<1>7. ASSUME \/ \E t \in Tokens : RefreshExpires(t)
             \/ AccessExpires
             \/ UNCHANGED consoleVars
      PROVE  Still
  BY <1>7 DEF RefreshExpires, AccessExpires, consoleVars, browser
<1> QED
  <2>1. \/ Still \/ fetch'[f] = "idle"
        \/ \E g \in Fetches : FetchNext(g)
    BY <1>4, <1>6, <1>7 DEF ConsoleNext
  <2> QED BY <1>3, <1>5, <2>1

\* No fetch is about when the access cookie expires.
LEMMA ExpiryGiveUp ==
  ASSUME ConsoleInv, GiveUpInv, AccessExpires
  PROVE  GiveUpInv'
<1>1. \A r \in Requests : pc[r] = "idle" /\ issued[r] = NoToken
  BY DEF AccessExpires, Quiet, ConsoleInv, CookieInv, IssuedIsFresh
<1>2. \A f \in Fetches : fetch[f] # "retry" /\ f \in Requests
  BY DEF AccessExpires, Quiet
<1>3. UNCHANGED <<tokenVars, cookie, fetch, inFlight>>
  BY DEF AccessExpires
<1> QED BY <1>1, <1>2, <1>3
        DEF tokenVars, GiveUpInv, FetchesRefresh, RefusedWhenSettled,
            OwnRefreshInFlight, NoSecondRefresh, Spends

\* The invariant is kept by every step.
LEMMA GiveUpStep ==
  ASSUME ConsoleInv, GiveUpInv, [ConsoleNext]_consoleVars
  PROVE  GiveUpInv'
<1> SUFFICES ASSUME ~AccessExpires PROVE GiveUpInv'
  BY ExpiryGiveUp
<1>1. Settled => Settled'
  BY SettledStays
<1>2. FetchesRefresh'
  <2> SUFFICES ASSUME NEW f \in Fetches
               PROVE  /\ pc'[f] \in {"idle", "check", "revoke", "create", "answer"}
                      /\ (pc'[f] \in {"revoke", "create"} \/ issued'[f] # NoToken)
                           => presented'[f] # NoToken
    BY DEF FetchesRefresh, Spends
  <2>1. FetchesRefresh /\ NoToken \notin Live
    BY TokensAssumption DEF GiveUpInv, Live
  <2> QED BY <2>1, RequestMoves DEF FetchesRefresh, Spends
<1>3. RefusedWhenSettled'
  <2> SUFFICES ASSUME NEW f \in Fetches
               PROVE  /\ pc'[f] = "check" => presented'[f] = cookie' \/ Settled'
                      /\ pc'[f] = "answer" /\ issued'[f] = NoToken => Settled'
                      /\ fetch'[f] = "retry" => Settled'
    BY DEF RefusedWhenSettled
  <2>1. cookie' = cookie \/ Settled'
    BY CookieMoves, TokensAssumption DEF Settled, Live
  <2>2. pc'[f] = "check" => presented'[f] = cookie' \/ Settled'
    BY <1>1, <2>1, RequestMoves DEF GiveUpInv, RefusedWhenSettled
  <2>3. pc'[f] = "answer" /\ issued'[f] = NoToken => Settled'
    BY <1>1, RequestMoves DEF GiveUpInv, RefusedWhenSettled, Settled
  <2>4. fetch'[f] = "retry" => Settled'
    BY <1>1, DocumentMoves DEF GiveUpInv, RefusedWhenSettled
  <2> QED BY <2>2, <2>3, <2>4
<1>4. OwnRefreshInFlight'
  <2> SUFFICES ASSUME NEW f \in Fetches, fetch'[f] # "idle", pc'[f] # "idle"
               PROVE  inFlight'[TabOf[f]] = f
    BY DEF OwnRefreshInFlight
  <2>1. pc[f] # "idle" \/ StartRefresh(f)
    BY RequestMoves DEF GiveUpInv
  <2>2. CASE StartRefresh(f)
    BY <2>2 DEF StartRefresh, ConsoleInv, BrowserTypeOK
  <2>3. CASE pc[f] # "idle" /\ ~StartRefresh(f)
    BY <2>3, DocumentMoves DEF GiveUpInv, OwnRefreshInFlight
  <2> QED BY <2>1, <2>2, <2>3
<1>5. NoSecondRefresh'
  <2> SUFFICES ASSUME NEW f \in Fetches, NEW g \in Fetches,
                      fetch'[f] = "retry", inFlight'[TabOf[f]] = g,
                      Spends(g)', presented'[g] = cookie', ~access'
               PROVE  FALSE
    BY DEF NoSecondRefresh
  <2>1. cookie' = cookie /\ ~access
    BY <1>2, CookieMoves DEF FetchesRefresh
  <2>2. fetch[f] = "retry" /\ (inFlight[TabOf[f]] = g \/ StartRefresh(g))
    BY DocumentMoves
  <2>3. ~StartRefresh(g)
    <3> SUFFICES ASSUME StartRefresh(g) PROVE FALSE
      OBVIOUS
    <3>1. pc'[g] = "check" /\ issued'[g] = issued[g] /\ pc[g] = "idle"
      BY DEF StartRefresh, Begin, Goto, ConsoleInv, TokensInv, TokensTypeOK
    <3>2. issued[g] = NoToken
      BY <3>1 DEF ConsoleInv, CookieInv, IssuedIsFresh
    <3> QED BY <3>1, <3>2 DEF Spends
  <2> QED BY <2>1, <2>2, <2>3, RequestMoves
          DEF GiveUpInv, NoSecondRefresh, Spends, RefusedWhenSettled, Settled
<1> QED BY <1>2, <1>3, <1>4, <1>5 DEF GiveUpInv

\* The initial state satisfies it.
LEMMA GiveUpInit == ConsoleInit => GiveUpInv
  BY DEF ConsoleInit, TokensInit, GiveUpInv, FetchesRefresh, RefusedWhenSettled,
         OwnRefreshInFlight, NoSecondRefresh, Spends

\* Fetches of one document and the other tabs share the cookies without refusing
\* one another for good: what a refused refresh leaves behind is settled.
THEOREM GiveUpInvariant == ConsoleSpec => []GiveUpInv
BY GiveUpInit, GiveUpStep, ConsoleInvariant, PTL DEF ConsoleSpec

\* No document goes to the login page while its session is within reach: for any
\* number of tabs and fetches, and whatever aborts.
THEOREM GivesUpWithoutToken == ConsoleSpec => GivesUpOnlyWithoutToken
<1> DEFINE GivesUp(tab) == /\ page[tab] = "app" /\ page'[tab] = "login"
                           /\ pc' = pc
                           /\ \A f \in Fetches : TabOf[f] = tab => fetch[f] # "stranded"
           OutOfReach(tab) == /\ cookie \notin Live
                              /\ \A f \in Fetches : TabOf[f] = tab /\ fetch[f] # "idle"
                                                     => ~Exchanging(f, cookie)
           Rightly == \A tab \in Tabs : GivesUp(tab) => OutOfReach(tab)
<1>1. ConsoleInv /\ GiveUpInv /\ [ConsoleNext]_consoleVars => [Rightly]_consoleVars
  <2> SUFFICES ASSUME ConsoleInv, GiveUpInv, ConsoleNext, NEW tab \in Tabs, GivesUp(tab)
               PROVE  OutOfReach(tab)
    OBVIOUS
  <2>1. TokensTypeOK /\ BrowserTypeOK /\ NoToken \notin Live
    BY TokensAssumption DEF ConsoleInv, TokensInv, Live
  <2>2. ASSUME cookie = NoToken PROVE OutOfReach(tab)
    <3>1. \A f \in Fetches : ~Exchanging(f, cookie)
      BY <2>2 DEF GiveUpInv, FetchesRefresh, Spends, Exchanging
    <3> QED BY <2>1, <2>2, <3>1
  <2>3. ASSUME NEW f \in Fetches, RetryUnauthorized(f) PROVE OutOfReach(tab)
    <3>1. TabOf[f] = tab /\ fetch[f] = "retry" /\ ~access
      BY <2>1, <2>3 DEF RetryUnauthorized, Leave, BrowserTypeOK
    <3>2. cookie \notin Live
      BY <3>1 DEF GiveUpInv, RefusedWhenSettled, Settled
    <3>3. ASSUME NEW g \in Fetches, TabOf[g] = tab, fetch[g] # "idle",
                 Exchanging(g, cookie)
          PROVE  FALSE
      <4>1. pc[g] # "idle" /\ Spends(g) /\ presented[g] = cookie
        BY <3>3 DEF Exchanging, Spends
      <4>2. inFlight[tab] = g
        BY <3>3, <4>1 DEF GiveUpInv, OwnRefreshInFlight
      <4> QED BY <3>1, <4>1, <4>2 DEF GiveUpInv, NoSecondRefresh
    <3> QED BY <3>2, <3>3
  <2>4. ASSUME NEW s \in Tabs, OpenPage(s) PROVE OutOfReach(tab)
    BY <2>1, <2>2, <2>4 DEF OpenPage, Leave, BrowserTypeOK
  <2>5. ASSUME NEW s \in Tabs, RenewPage(s) PROVE FALSE
    BY <2>1, <2>5 DEF RenewPage, Leave, BrowserTypeOK
  <2>6. ASSUME NEW r \in Requests, Answered(r) \/ Abort(r) PROVE FALSE
    BY <2>1, <2>6 DEF Answered, Abort, Forget, Goto, TokensTypeOK
  <2>7. UNCHANGED page => FALSE
    OBVIOUS
  <2>8. ASSUME NEW f \in Fetches, FetchNext(f) PROVE OutOfReach(tab)
    <3>1. f \in Requests
      OBVIOUS
    <3> QED BY <2>3, <2>6, <2>7, <2>8, <3>1
            DEF FetchNext, SendFetch, StartRefresh, JoinRefresh, RefreshAnswered,
                RefreshAborted, RetryAuthorized
  <2>9. ASSUME NEW s \in Tabs, TabNext(s) PROVE OutOfReach(tab)
    <3>1. s \in Requests
      OBVIOUS
    <3> QED BY <2>4, <2>5, <2>6, <2>7, <2>9, <3>1
            DEF TabNext, SignIn, ResetPassword, SignOut, PageAnswered, SignedOut,
                PageAborted, browser
  <2> QED BY <2>7, <2>8, <2>9
          DEF ConsoleNext, Serves, RefreshExpires, AccessExpires, browser
<1> QED BY <1>1, ConsoleInvariant, GiveUpInvariant, PTL
        DEF ConsoleSpec, GivesUpOnlyWithoutToken
=============================================================================
