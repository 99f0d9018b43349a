--------------------------- MODULE RefreshTokens ---------------------------
(***************************************************************************)
(* The refresh tokens of one user: lib/identity/auth-service.ts for the    *)
(* console and app-auth-service.ts for the app.  Both sign a user in,      *)
(* exchange a refresh token for a new one, revoke one at logout and all of *)
(* them when the password changes, each in several statements without a    *)
(* transaction.  The password is the number of times it was changed.       *)
(***************************************************************************)
EXTENDS Naturals, FiniteSets

CONSTANTS
    Requests,     \* requests that may be served together
    Tokens,       \* rows of refresh_tokens (app_refresh_tokens)
    NoToken,      \* no token: none presented, or none issued
    MaxPassword,  \* bound on the password changes
    Service       \* "console" or "app"

ASSUME TokensAssumption ==
    /\ IsFiniteSet(Requests)
    /\ IsFiniteSet(Tokens)
    /\ NoToken \notin Tokens
    /\ MaxPassword \in Nat
    /\ Service \in {"console", "app"}

VARIABLES
    token,      \* what has become of each token
    password,   \* the user's current password
    pc,         \* next statement of each request
    presented,  \* the refresh token each request carries
    issued,     \* the token each request answers with
    knew,       \* the password each request was let in by
    swept,      \* history: the password whose change last revoked all tokens
    crossed,    \* history: requests let in before that, still to sign in
    born,       \* history: the password each token was issued under
    late        \* history: tokens issued to crossed requests

tokenVars == <<token, password, pc, presented, issued, knew,
               swept, crossed, born, late>>
history == <<swept, crossed, born, late>>

-----------------------------------------------------------------------------
\* An exchanged and a revoked token have the same revoked_at in the row; the
\* model remembers which of the two came first.
TokenStatus == {"none", "live", "exchanged", "revoked", "expired"}

Entry == {"check", "compare", "logout", "verify"}
Pc == Entry \cup {"idle", "revoke", "create", "update", "sweep",
                  "answer", "farewell"}

\* Let in, and not yet signed in.
LetIn == {"revoke", "create", "sweep"}

Live == {t \in Tokens : token[t] = "live"}

TokensTypeOK ==
    /\ token \in [Tokens -> TokenStatus]
    /\ password \in 0 .. MaxPassword
    /\ pc \in [Requests -> Pc]
    /\ presented \in [Requests -> Tokens \cup {NoToken}]
    /\ issued \in [Requests -> Tokens \cup {NoToken}]
    /\ knew \in [Requests -> 0 .. MaxPassword]
    /\ swept \in 0 .. MaxPassword
    /\ crossed \subseteq Requests
    /\ born \in [Tokens -> 0 .. MaxPassword]
    /\ late \subseteq Tokens

TokensInit ==
    /\ token = [t \in Tokens |-> "none"]
    /\ password = 0
    /\ pc = [r \in Requests |-> "idle"]
    /\ presented = [r \in Requests |-> NoToken]
    /\ issued = [r \in Requests |-> NoToken]
    /\ knew = [r \in Requests |-> 0]
    /\ swept = 0
    /\ crossed = {}
    /\ born = [t \in Tokens |-> 0]
    /\ late = {}

Goto(r, label) == pc' = [pc EXCEPT ![r] = label]

-----------------------------------------------------------------------------
(* The client's side of a request.                                         *)

Begin(r, label, t) ==
    /\ pc[r] = "idle"
    /\ Goto(r, label)
    /\ presented' = [presented EXCEPT ![r] = t]
    /\ UNCHANGED <<token, password, issued, knew, history>>

\* What a request holds is gone with it.
Forget(r) ==
    /\ Goto(r, "idle")
    /\ presented' = [presented EXCEPT ![r] = NoToken]
    /\ issued' = [issued EXCEPT ![r] = NoToken]
    /\ knew' = [knew EXCEPT ![r] = 0]

Answered(r) ==
    /\ pc[r] \in {"answer", "farewell"}
    /\ Forget(r)
    /\ UNCHANGED <<token, password, history>>

\* A statement throws, the web process dies or the answer is lost.
Abort(r) ==
    /\ pc[r] # "idle"
    /\ Forget(r)
    /\ crossed' = crossed \ {r}
    /\ UNCHANGED <<token, password, swept, born, late>>

-----------------------------------------------------------------------------
(* Refresh: read and check the token, revoke it, issue another.            *)

CheckToken(r) ==
    /\ pc[r] = "check"
    /\ IF presented[r] \in Live
       THEN Goto(r, "revoke") /\ knew' = [knew EXCEPT ![r] = password]
       ELSE Goto(r, "answer") /\ knew' = knew
    /\ UNCHANGED <<token, password, presented, issued, history>>

\* update by id: the token may have been revoked since it was checked.
RevokePresented(r) ==
    /\ pc[r] = "revoke"
    /\ token' = [token EXCEPT ![presented[r]] = IF @ = "live" THEN "exchanged" ELSE @]
    /\ Goto(r, "create")
    /\ UNCHANGED <<password, presented, issued, knew, history>>

\* createSession, the last statement of a refresh, a login and a change.
CreateSession(r) ==
    /\ pc[r] = "create"
    /\ \E t \in Tokens :
         /\ token[t] = "none"
         /\ token' = [token EXCEPT ![t] = "live"]
         /\ issued' = [issued EXCEPT ![r] = t]
         /\ born' = [born EXCEPT ![t] = knew[r]]
         /\ late' = IF r \in crossed THEN late \cup {t} ELSE late
    /\ crossed' = crossed \ {r}
    /\ Goto(r, "answer")
    /\ UNCHANGED <<password, presented, knew, swept>>

-----------------------------------------------------------------------------
(* Login, logout and the change of the password.                           *)

\* The password typed in matches the row, or it does not.
ComparePassword(r) ==
    /\ pc[r] = "compare"
    /\ \/ Goto(r, "create") /\ knew' = [knew EXCEPT ![r] = password]
       \/ Goto(r, "answer") /\ knew' = knew
    /\ UNCHANGED <<token, password, presented, issued, history>>

Logout(r) ==
    /\ pc[r] = "logout"
    /\ token' = [t \in Tokens |-> IF t = presented[r] /\ t \in Live
                                  THEN "revoked" ELSE token[t]]
    /\ Goto(r, "farewell")
    /\ UNCHANGED <<password, presented, issued, knew, history>>

\* The app asks for the old password, the console for the invitation code.
Verify(r) ==
    /\ pc[r] = "verify"
    /\ Goto(r, "update") \/ Goto(r, "answer")
    /\ UNCHANGED <<token, password, presented, issued, knew, history>>

UpdatePassword(r) ==
    /\ pc[r] = "update"
    /\ password < MaxPassword
    /\ password' = password + 1
    /\ knew' = [knew EXCEPT ![r] = password + 1]
    /\ Goto(r, "sweep")
    /\ UNCHANGED <<token, presented, issued, history>>

\* Requests let in that a sweep by r leaves to sign in.
LetInBeside(r) == {q \in Requests \ {r} : pc[q] \in LetIn}

\* Mutated: only the presented token is revoked.
SweepTokensOne(r) ==
    /\ pc[r] = "sweep"
    /\ token' = [t \in Tokens |-> IF t \in Live /\ t = presented[r]
                                  THEN "revoked" ELSE token[t]]
    /\ swept' = IF knew[r] > swept THEN knew[r] ELSE swept
    /\ IF Service = "app"
       THEN Goto(r, "create") /\ crossed' = crossed \cup LetInBeside(r)
       ELSE Goto(r, "answer") /\ crossed' = (crossed \cup LetInBeside(r)) \ {r}
    /\ UNCHANGED <<password, presented, issued, knew, born, late>>

\* Every token is revoked.  The app goes on to sign the changing device in, for
\* the console this is the last statement.
SweepTokens(r) ==
    /\ pc[r] = "sweep"
    /\ token' = [t \in Tokens |-> IF t \in Live THEN "revoked" ELSE token[t]]
    /\ swept' = IF knew[r] > swept THEN knew[r] ELSE swept
    /\ IF Service = "app"
       THEN Goto(r, "create") /\ crossed' = crossed \cup LetInBeside(r)
       ELSE Goto(r, "answer") /\ crossed' = (crossed \cup LetInBeside(r)) \ {r}
    /\ UNCHANGED <<password, presented, issued, knew, born, late>>

-----------------------------------------------------------------------------
\* Thirty days after it was issued.
TokenExpires(t) ==
    /\ token[t] = "live"
    /\ token' = [token EXCEPT ![t] = "expired"]
    /\ UNCHANGED <<password, pc, presented, issued, knew, history>>

Refresh(r) == CheckToken(r) \/ RevokePresented(r) \/ CreateSession(r)
ChangePassword(r) == Verify(r) \/ UpdatePassword(r) \/ SweepTokens(r)
Serve(r) == Refresh(r) \/ ComparePassword(r) \/ Logout(r) \/ ChangePassword(r)

\* Clients present tokens that were issued at some time, or none.
Presentable == {t \in Tokens : token[t] # "none"} \cup {NoToken}

TokensNext ==
    \/ \E r \in Requests : \/ \E label \in Entry, t \in Presentable :
                                 Begin(r, label, t)
                           \/ Serve(r)
                           \/ Answered(r)
                           \/ Abort(r)
    \/ \E t \in Tokens : TokenExpires(t)

TokensSpec == TokensInit /\ [][TokensNext]_tokenVars

-----------------------------------------------------------------------------
(* Safety.                                                                 *)

\* Changing the password ends the sessions of before: a live token that was
\* issued under an outdated password belongs to a request that had been let in
\* when the tokens were revoked and signed in afterwards.
OldSessionsOnlyCrossed ==
    \A t \in Live : born[t] < swept => t \in late
=============================================================================
