------------------------- MODULE RefreshTokensProofs -------------------------
(***************************************************************************)
(* Proofs about RefreshTokens, for any number of requests, tokens and      *)
(* password changes, and for both services.  The inductive invariant       *)
(* behind OldSessionsOnlyCrossed says where an outdated password may still *)
(* be at work: only in requests that were let in before the last change    *)
(* revoked the tokens.                                                     *)
(***************************************************************************)
EXTENDS RefreshTokens, FiniteSetTheorems, TLAPS

USE TokensAssumption

\* A request never knows, and no change has swept, a password yet to be set.
PasswordsKnown ==
    /\ swept <= password
    /\ \A r \in Requests : knew[r] <= password

\* Who is let in by an outdated password was so before it was outdated.
OutdatedAreCrossed ==
    \A r \in Requests : pc[r] \in LetIn /\ knew[r] < swept => r \in crossed

\* Crossed requests have yet to sign in.
CrossedAreLetIn == \A r \in crossed : pc[r] \in LetIn

TokensInv ==
    /\ TokensTypeOK
    /\ PasswordsKnown
    /\ CrossedAreLetIn
    /\ OutdatedAreCrossed
    /\ OldSessionsOnlyCrossed

-----------------------------------------------------------------------------
\* The initial state satisfies the inductive invariant.
LEMMA TokensInitInv == TokensInit => TokensInv
  BY DEF TokensInit, TokensInv, TokensTypeOK, TokenStatus, Pc, Entry, LetIn,
         PasswordsKnown, CrossedAreLetIn, OutdatedAreCrossed,
         OldSessionsOnlyCrossed, Live

\* Moving a request on keeps the program counters in range.
LEMMA GotoType ==
  ASSUME TokensTypeOK, NEW r \in Requests, NEW label \in Pc, Goto(r, label)
  PROVE  /\ pc' \in [Requests -> Pc]
         /\ \A q \in Requests : pc'[q] = IF q = r THEN label ELSE pc[q]
  BY DEF TokensTypeOK, Goto

\* Forgetting a request keeps its locals in range.
LEMMA ForgetType ==
  ASSUME TokensTypeOK, NEW r \in Requests, Forget(r)
  PROVE  /\ presented' \in [Requests -> Tokens \cup {NoToken}]
         /\ issued' \in [Requests -> Tokens \cup {NoToken}]
         /\ knew' \in [Requests -> 0 .. MaxPassword]
<1>1. 0 \in 0 .. MaxPassword
  OBVIOUS
<1>2. knew' \in [Requests -> 0 .. MaxPassword]
  BY <1>1 DEF TokensTypeOK, Forget
<1> QED BY <1>2 DEF TokensTypeOK, Forget

\* A request that moves on stays among the crossed only while it is let in.
LEMMA CrossedMove ==
  ASSUME TokensInv, NEW r \in Requests, NEW label,
         \A q \in Requests : pc'[q] = IF q = r THEN label ELSE pc[q],
         \/ crossed' = crossed \ {r}
         \/ crossed' = crossed /\ (pc[r] \in LetIn => label \in LetIn)
  PROVE  CrossedAreLetIn'
<1>1. crossed \subseteq Requests /\ CrossedAreLetIn
  BY DEF TokensInv, TokensTypeOK
<1>2. ASSUME NEW q \in crossed' PROVE pc'[q] \in LetIn
  <2>1. q \in crossed /\ q \in Requests /\ pc[q] \in LetIn
    BY <1>1, <1>2 DEF CrossedAreLetIn
  <2>2. CASE q = r
    BY <2>1, <2>2, <1>2
  <2>3. CASE q # r
    BY <2>1, <2>3
  <2> QED BY <2>2, <2>3
<1>3. LetIn' = LetIn
  BY DEF LetIn
<1> QED BY <1>2, <1>3 DEF CrossedAreLetIn

\* The inductive invariant is kept by the client's steps.
LEMMA ClientStep ==
  ASSUME TokensInv, NEW r \in Requests,
         \/ \E label \in Entry, t \in Presentable : Begin(r, label, t)
         \/ Answered(r)
         \/ Abort(r)
  PROVE  TokensInv'
<1> USE DEF TokensInv
<1>1. CASE \E label \in Entry, t \in Presentable : Begin(r, label, t)
  <2>1. PICK label \in Entry, t \in Presentable : Begin(r, label, t)
    BY <1>1
  <2>2. /\ pc' \in [Requests -> Pc]
        /\ \A q \in Requests : pc'[q] = IF q = r THEN label ELSE pc[q]
    BY <2>1, GotoType DEF Begin, Pc
  <2>3. TokensTypeOK'
    BY <2>1, <2>2 DEF Begin, TokensTypeOK, history, Presentable
  <2>4. PasswordsKnown' /\ OldSessionsOnlyCrossed'
    BY <2>1 DEF Begin, history, PasswordsKnown, OldSessionsOnlyCrossed, Live
  <2>5. CrossedAreLetIn' /\ OutdatedAreCrossed'
    <3>1. crossed' = crossed /\ pc[r] \notin LetIn /\ label \notin LetIn
      BY <2>1 DEF Begin, history, LetIn, Entry
    <3>2. CrossedAreLetIn'
      BY <2>2, <3>1, CrossedMove
    <3> QED BY <2>1, <2>2, <3>1, <3>2
            DEF Begin, history, OutdatedAreCrossed, LetIn
  <2> QED BY <2>3, <2>4, <2>5
<1>2. CASE Answered(r) \/ Abort(r)
  <2>1. /\ Forget(r)
        /\ UNCHANGED <<token, password, swept, born, late>>
        /\ crossed' = crossed \/ crossed' = crossed \ {r}
    BY <1>2 DEF Answered, Abort, history
  <2>2. /\ pc' \in [Requests -> Pc]
        /\ \A q \in Requests : pc'[q] = IF q = r THEN "idle" ELSE pc[q]
    BY <2>1, GotoType DEF Forget, Pc
  <2>3. TokensTypeOK'
    BY <2>1, <2>2, ForgetType DEF TokensTypeOK
  <2>4. PasswordsKnown' /\ OldSessionsOnlyCrossed'
    BY <2>1 DEF Forget, TokensTypeOK, PasswordsKnown, OldSessionsOnlyCrossed, Live
  <2>5. CrossedAreLetIn' /\ OutdatedAreCrossed'
    <3>1. crossed' = crossed \/ crossed' = crossed \ {r}
      BY <2>1
    <3>2. crossed' = crossed => pc[r] \notin LetIn \/ r \notin crossed
      BY <1>2 DEF Answered, Abort, LetIn
    <3>3. crossed' = crossed \ {r} \/ (crossed' = crossed /\ pc[r] \notin LetIn)
      BY <3>1, <3>2
    <3>4. CrossedAreLetIn'
      BY <2>2, <3>3, CrossedMove
    <3> QED BY <2>1, <2>2, <3>1, <3>4
            DEF Forget, TokensTypeOK, OutdatedAreCrossed, LetIn
  <2> QED BY <2>3, <2>4, <2>5
<1> QED BY <1>1, <1>2

\* The inductive invariant is kept by an exchange of a token.
LEMMA RefreshStep ==
  ASSUME TokensInv, NEW r \in Requests, Refresh(r)
  PROVE  TokensInv'
<1> USE DEF TokensInv
<1>1. CASE CheckToken(r)
  <2>1. PICK label \in {"revoke", "answer"} :
          /\ Goto(r, label)
          /\ \/ label = "answer" /\ knew' = knew
             \/ knew' = [knew EXCEPT ![r] = password]
          /\ UNCHANGED <<token, password, presented, issued, history>>
    BY <1>1 DEF CheckToken
  <2>2. /\ pc' \in [Requests -> Pc]
        /\ \A q \in Requests : pc'[q] = IF q = r THEN label ELSE pc[q]
    BY <2>1, GotoType DEF Pc
  <2>3. TokensTypeOK'
    BY <2>1, <2>2 DEF TokensTypeOK, history
  <2>4. PasswordsKnown' /\ OldSessionsOnlyCrossed'
    BY <2>1 DEF TokensTypeOK, history, PasswordsKnown, OldSessionsOnlyCrossed, Live
  <2>5. CrossedAreLetIn' /\ OutdatedAreCrossed'
    <3>1. crossed' = crossed /\ pc[r] \notin LetIn
      BY <1>1 DEF CheckToken, history, LetIn
    <3>2. CrossedAreLetIn'
      BY <2>2, <3>1, CrossedMove
    <3> QED BY <2>1, <2>2, <3>1, <3>2
            DEF TokensTypeOK, history, OutdatedAreCrossed, LetIn, PasswordsKnown
  <2> QED BY <2>3, <2>4, <2>5
<1>2. CASE RevokePresented(r)
  <2>1. /\ pc[r] = "revoke"
        /\ Goto(r, "create")
        /\ UNCHANGED <<password, presented, issued, knew, history>>
    BY <1>2 DEF RevokePresented
  <2>2. /\ pc' \in [Requests -> Pc]
        /\ \A q \in Requests : pc'[q] = IF q = r THEN "create" ELSE pc[q]
    BY <2>1, GotoType DEF Pc
  <2>3. /\ token' \in [Tokens -> TokenStatus]
        /\ \A t \in Tokens : token'[t] = "live" => token[t] = "live"
    BY <1>2 DEF RevokePresented, TokensTypeOK, TokenStatus
  <2>4. TokensTypeOK'
    BY <2>1, <2>2, <2>3 DEF TokensTypeOK, history
  <2>5. PasswordsKnown' /\ OldSessionsOnlyCrossed'
    BY <2>1, <2>3 DEF history, PasswordsKnown, OldSessionsOnlyCrossed, Live
  <2>6. CrossedAreLetIn' /\ OutdatedAreCrossed'
    <3>1. crossed' = crossed /\ pc[r] \in LetIn /\ "create" \in LetIn
      BY <2>1 DEF history, LetIn
    <3>2. CrossedAreLetIn'
      BY <2>2, <3>1, CrossedMove
    <3> QED BY <2>1, <2>2, <3>1, <3>2 DEF history, OutdatedAreCrossed, LetIn
  <2> QED BY <2>4, <2>5, <2>6
<1>3. CASE CreateSession(r)
  <2>1. /\ pc[r] = "create"
        /\ crossed' = crossed \ {r}
        /\ Goto(r, "answer")
        /\ UNCHANGED <<password, presented, knew, swept>>
    BY <1>3 DEF CreateSession
  <2>2. PICK t \in Tokens :
          /\ token' = [token EXCEPT ![t] = "live"]
          /\ issued' = [issued EXCEPT ![r] = t]
          /\ born' = [born EXCEPT ![t] = knew[r]]
          /\ late' = IF r \in crossed THEN late \cup {t} ELSE late
    BY <1>3 DEF CreateSession
  <2>3. /\ pc' \in [Requests -> Pc]
        /\ \A q \in Requests : pc'[q] = IF q = r THEN "answer" ELSE pc[q]
    BY <2>1, GotoType DEF Pc
  <2>4. TokensTypeOK'
    BY <2>1, <2>2, <2>3 DEF TokensTypeOK, TokenStatus
  <2>5. PasswordsKnown'
    BY <2>1 DEF PasswordsKnown
  <2>6. CrossedAreLetIn' /\ OutdatedAreCrossed'
    <3>1. CrossedAreLetIn'
      BY <2>1, <2>3, CrossedMove
    <3> QED BY <2>1, <2>3, <3>1 DEF OutdatedAreCrossed, LetIn
  <2>7. OldSessionsOnlyCrossed'
    <3>1. pc[r] \in LetIn
      BY <2>1 DEF LetIn
    <3> QED BY <2>1, <2>2, <3>1
            DEF TokensTypeOK, OutdatedAreCrossed, OldSessionsOnlyCrossed, Live
  <2> QED BY <2>4, <2>5, <2>6, <2>7
<1> QED BY <1>1, <1>2, <1>3 DEF Refresh

\* The inductive invariant is kept by a change of the password.
LEMMA ChangeStep ==
  ASSUME TokensInv, NEW r \in Requests, ChangePassword(r)
  PROVE  TokensInv'
<1> USE DEF TokensInv
<1>1. CASE Verify(r)
  <2>1. PICK label \in {"update", "answer"} : Goto(r, label)
    BY <1>1 DEF Verify
  <2>2. /\ pc' \in [Requests -> Pc]
        /\ \A q \in Requests : pc'[q] = IF q = r THEN label ELSE pc[q]
    BY <2>1, GotoType DEF Pc
  <2>3. UNCHANGED <<token, password, presented, issued, knew, history>>
    BY <1>1 DEF Verify
  <2>4. TokensTypeOK'
    BY <2>2, <2>3 DEF TokensTypeOK, history
  <2>5. PasswordsKnown' /\ OldSessionsOnlyCrossed'
    BY <2>3 DEF history, PasswordsKnown, OldSessionsOnlyCrossed, Live
  <2>6. CrossedAreLetIn' /\ OutdatedAreCrossed'
    <3>1. crossed' = crossed /\ pc[r] \notin LetIn /\ label \notin LetIn
      BY <1>1, <2>3 DEF Verify, history, LetIn
    <3>2. CrossedAreLetIn'
      BY <2>2, <3>1, CrossedMove
    <3> QED BY <2>2, <2>3, <3>1, <3>2 DEF history, OutdatedAreCrossed, LetIn
  <2> QED BY <2>4, <2>5, <2>6
<1>2. CASE UpdatePassword(r)
  <2>1. /\ password < MaxPassword
        /\ password' = password + 1
        /\ knew' = [knew EXCEPT ![r] = password + 1]
        /\ Goto(r, "sweep")
        /\ UNCHANGED <<token, presented, issued, history>>
    BY <1>2 DEF UpdatePassword
  <2>2. /\ pc' \in [Requests -> Pc]
        /\ \A q \in Requests : pc'[q] = IF q = r THEN "sweep" ELSE pc[q]
    BY <2>1, GotoType DEF Pc
  <2>3. TokensTypeOK'
    <3>1. password + 1 \in 0 .. MaxPassword
      BY <2>1 DEF TokensTypeOK
    <3>2. knew' \in [Requests -> 0 .. MaxPassword]
      BY <2>1, <3>1 DEF TokensTypeOK
    <3> QED BY <2>1, <2>2, <3>1, <3>2 DEF TokensTypeOK, history
  <2>4. PasswordsKnown' /\ OldSessionsOnlyCrossed'
    BY <2>1 DEF TokensTypeOK, history, PasswordsKnown, OldSessionsOnlyCrossed, Live
  <2>5. CrossedAreLetIn' /\ OutdatedAreCrossed'
    <3>1. crossed' = crossed /\ pc[r] \notin LetIn
      BY <1>2 DEF UpdatePassword, history, LetIn
    <3>2. CrossedAreLetIn'
      BY <2>2, <3>1, CrossedMove
    <3> QED BY <2>1, <2>2, <3>1, <3>2
            DEF TokensTypeOK, history, OutdatedAreCrossed, LetIn, PasswordsKnown
  <2> QED BY <2>3, <2>4, <2>5
<1>3. CASE SweepTokens(r)
  <2>1. /\ pc[r] = "sweep"
        /\ swept' = IF knew[r] > swept THEN knew[r] ELSE swept
        /\ UNCHANGED <<password, presented, issued, knew, born, late>>
    BY <1>3 DEF SweepTokens
  <2>2. PICK label \in {"create", "answer"} :
          /\ Goto(r, label)
          /\ \/ label = "create" /\ crossed' = crossed \cup LetInBeside(r)
             \/ label = "answer" /\ crossed' = (crossed \cup LetInBeside(r)) \ {r}
    BY <1>3 DEF SweepTokens
  <2>3. /\ pc' \in [Requests -> Pc]
        /\ \A q \in Requests : pc'[q] = IF q = r THEN label ELSE pc[q]
    BY <2>2, GotoType DEF Pc
  <2>4. token' = [t \in Tokens |-> IF t \in Live THEN "revoked" ELSE token[t]]
    BY <1>3 DEF SweepTokens
  <2>5. /\ token' \in [Tokens -> TokenStatus]
        /\ \A t \in Tokens : token'[t] # "live"
    BY <2>4 DEF TokensTypeOK, TokenStatus, Live
  <2>6. TokensTypeOK'
    BY <2>1, <2>2, <2>3, <2>5 DEF TokensTypeOK, LetInBeside
  <2>7. PasswordsKnown'
    BY <2>1 DEF TokensTypeOK, PasswordsKnown
  <2>8. OldSessionsOnlyCrossed'
    BY <2>5 DEF OldSessionsOnlyCrossed, Live
  <2>9. CrossedAreLetIn' /\ OutdatedAreCrossed'
    BY <2>1, <2>2, <2>3
       DEF TokensTypeOK, CrossedAreLetIn, OutdatedAreCrossed, LetIn, LetInBeside
  <2> QED BY <2>6, <2>7, <2>8, <2>9
<1> QED BY <1>1, <1>2, <1>3 DEF ChangePassword

\* The inductive invariant is kept by logins and logouts.
LEMMA LoginStep ==
  ASSUME TokensInv, NEW r \in Requests, ComparePassword(r) \/ Logout(r)
  PROVE  TokensInv'
<1> USE DEF TokensInv
<1>1. CASE ComparePassword(r)
  <2>1. PICK label \in {"create", "answer"} :
          /\ Goto(r, label)
          /\ \/ label = "answer" /\ knew' = knew
             \/ knew' = [knew EXCEPT ![r] = password]
          /\ UNCHANGED <<token, password, presented, issued, history>>
    BY <1>1 DEF ComparePassword
  <2>2. /\ pc' \in [Requests -> Pc]
        /\ \A q \in Requests : pc'[q] = IF q = r THEN label ELSE pc[q]
    BY <2>1, GotoType DEF Pc
  <2>3. TokensTypeOK'
    BY <2>1, <2>2 DEF TokensTypeOK, history
  <2>4. PasswordsKnown' /\ OldSessionsOnlyCrossed'
    BY <2>1 DEF TokensTypeOK, history, PasswordsKnown, OldSessionsOnlyCrossed, Live
  <2>5. CrossedAreLetIn' /\ OutdatedAreCrossed'
    <3>1. crossed' = crossed /\ pc[r] \notin LetIn
      BY <1>1 DEF ComparePassword, history, LetIn
    <3>2. CrossedAreLetIn'
      BY <2>2, <3>1, CrossedMove
    <3> QED BY <2>1, <2>2, <3>1, <3>2
            DEF TokensTypeOK, history, OutdatedAreCrossed, LetIn, PasswordsKnown
  <2> QED BY <2>3, <2>4, <2>5
<1>2. CASE Logout(r)
  <2>1. /\ Goto(r, "farewell")
        /\ UNCHANGED <<password, presented, issued, knew, history>>
    BY <1>2 DEF Logout
  <2>2. /\ pc' \in [Requests -> Pc]
        /\ \A q \in Requests : pc'[q] = IF q = r THEN "farewell" ELSE pc[q]
    BY <2>1, GotoType DEF Pc
  <2>3. token' = [u \in Tokens |-> IF u = presented[r] /\ u \in Live
                                   THEN "revoked" ELSE token[u]]
    BY <1>2 DEF Logout
  <2>4. /\ token' \in [Tokens -> TokenStatus]
        /\ \A u \in Tokens : token'[u] = "live" => token[u] = "live"
    BY <2>3 DEF TokensTypeOK, TokenStatus
  <2>5. TokensTypeOK'
    BY <2>1, <2>2, <2>4 DEF TokensTypeOK, history
  <2>6. PasswordsKnown' /\ OldSessionsOnlyCrossed'
    BY <2>1, <2>4 DEF history, PasswordsKnown, OldSessionsOnlyCrossed, Live
  <2>7. CrossedAreLetIn' /\ OutdatedAreCrossed'
    <3>1. crossed' = crossed /\ pc[r] \notin LetIn
      BY <1>2 DEF Logout, history, LetIn
    <3>2. CrossedAreLetIn'
      BY <2>2, <3>1, CrossedMove
    <3> QED BY <2>1, <2>2, <3>1, <3>2 DEF history, OutdatedAreCrossed, LetIn
  <2> QED BY <2>5, <2>6, <2>7
<1> QED BY <1>1, <1>2

\* The inductive invariant is kept by every step.
LEMMA TokensStep ==
  ASSUME TokensInv, [TokensNext]_tokenVars
  PROVE  TokensInv'
<1>1. CASE UNCHANGED tokenVars
  BY <1>1 DEF tokenVars, TokensInv, TokensTypeOK, PasswordsKnown,
              CrossedAreLetIn, OutdatedAreCrossed, OldSessionsOnlyCrossed, Live, LetIn
<1>2. ASSUME NEW t \in Tokens, TokenExpires(t) PROVE TokensInv'
  BY <1>2 DEF TokenExpires, history, TokensInv, TokensTypeOK, TokenStatus,
              PasswordsKnown, CrossedAreLetIn, OutdatedAreCrossed,
              OldSessionsOnlyCrossed, Live, LetIn
<1>3. ASSUME NEW r \in Requests,
             \/ \E label \in Entry, t \in Presentable : Begin(r, label, t)
             \/ Answered(r)
             \/ Abort(r)
      PROVE  TokensInv'
  BY <1>3, ClientStep
<1>4. ASSUME NEW r \in Requests, Serve(r) PROVE TokensInv'
  <2>1. CASE Refresh(r)
    BY <2>1, RefreshStep
  <2>2. CASE ChangePassword(r)
    BY <2>2, ChangeStep
  <2>3. CASE ComparePassword(r) \/ Logout(r)
    BY <2>3, LoginStep
  <2> QED BY <1>4, <2>1, <2>2, <2>3 DEF Serve
<1> QED BY <1>1, <1>2, <1>3, <1>4 DEF TokensNext

-----------------------------------------------------------------------------
\* The inductive invariant holds in every reachable state.
THEOREM TokensInvariant == TokensSpec => []TokensInv
<1>1. TokensInit => TokensInv
  BY TokensInitInv
<1>2. TokensInv /\ [TokensNext]_tokenVars => TokensInv'
  BY TokensStep
<1> QED BY <1>1, <1>2, PTL DEF TokensSpec

\* Whatever logins, exchanges and changes of the password run together, in the
\* console or in the app, the only sessions that outlive a change are those of
\* requests let in before the tokens were revoked.
THEOREM OldSessionsEnd == TokensSpec => []OldSessionsOnlyCrossed
<1>1. TokensInv => OldSessionsOnlyCrossed
  BY DEF TokensInv
<1> QED BY <1>1, TokensInvariant, PTL

-----------------------------------------------------------------------------
(* How many sessions of before can outlive a change.                       *)

\* Sessions of before the last change that revoked the tokens, still open.
OldSessions == {t \in Live : born[t] < swept}

\* Requests let in by an outdated password that may still open one.
Outdated == {r \in Requests : pc[r] \in LetIn /\ knew[r] < swept}

\* The request that revoked the tokens is none of them and opens no old session.
OldAreFew ==
    swept = 0 \/ Cardinality(OldSessions) + Cardinality(Outdated)
                   < Cardinality(Requests)

\* What OldAreFew means for the user who changes the password.
OldSessionsBounded ==
    OldSessions = {} \/ Cardinality(OldSessions) < Cardinality(Requests)

\* Old sessions and outdated requests are finitely many.
LEMMA OldFinite ==
  /\ IsFiniteSet(OldSessions) /\ Cardinality(OldSessions) \in Nat
  /\ IsFiniteSet(Outdated) /\ Cardinality(Outdated) \in Nat
  /\ Cardinality(Requests) \in Nat
<1>1. OldSessions \subseteq Tokens /\ Outdated \subseteq Requests
  BY DEF OldSessions, Live, Outdated
<1>2. IsFiniteSet(OldSessions) /\ IsFiniteSet(Outdated)
  BY <1>1, FS_Subset, TokensAssumption
<1> QED BY <1>2, FS_CardinalityType, TokensAssumption

\* A step that opens no old session and lets nobody become outdated keeps the
\* bound.
LEMMA FewerKeepsFew ==
  ASSUME OldAreFew, swept' = swept,
         OldSessions' \subseteq OldSessions, Outdated' \subseteq Outdated
  PROVE  OldAreFew'
<1>1. /\ Cardinality(OldSessions') <= Cardinality(OldSessions)
      /\ Cardinality(OldSessions') \in Nat
  BY OldFinite, FS_Subset, FS_CardinalityType
<1>2. /\ Cardinality(Outdated') <= Cardinality(Outdated)
      /\ Cardinality(Outdated') \in Nat
  BY OldFinite, FS_Subset, FS_CardinalityType
<1> QED BY <1>1, <1>2, OldFinite DEF OldAreFew

\* Signing in turns an outdated request into at most one old session.
LEMMA SignInKeepsFew ==
  ASSUME TokensInv, OldAreFew, NEW r \in Requests, CreateSession(r)
  PROVE  OldAreFew'
<1>1. /\ TokensTypeOK /\ pc[r] = "create" /\ swept' = swept /\ knew' = knew
      /\ pc' = [pc EXCEPT ![r] = "answer"]
  BY DEF CreateSession, Goto, TokensInv
<1>2. PICK t \in Tokens : /\ token[t] = "none"
                          /\ token' = [token EXCEPT ![t] = "live"]
                          /\ born' = [born EXCEPT ![t] = knew[r]]
  BY DEF CreateSession
<1>3. Outdated' = Outdated \ {r}
  BY <1>1 DEF Outdated, LetIn, TokensTypeOK
<1>4. OldSessions' = IF knew[r] < swept THEN OldSessions \cup {t} ELSE OldSessions
  BY <1>1, <1>2 DEF OldSessions, Live, TokensTypeOK
<1>5. CASE knew[r] < swept
  <2>1. r \in Outdated
    BY <1>1, <1>5 DEF Outdated, LetIn
  <2>2. Cardinality(Outdated') = Cardinality(Outdated) - 1
    BY <2>1, <1>3, OldFinite, FS_RemoveElement
  <2>3. t \notin OldSessions
    BY <1>2 DEF OldSessions, Live
  <2>4. Cardinality(OldSessions') = Cardinality(OldSessions) + 1
    BY <2>3, <1>4, <1>5, OldFinite, FS_AddElement
  <2> QED BY <2>2, <2>4, <1>1, OldFinite DEF OldAreFew
<1>6. CASE ~ knew[r] < swept
  BY <1>1, <1>3, <1>4, <1>6, FewerKeepsFew
<1> QED BY <1>5, <1>6

\* Revoking every token leaves the requests beside it, or those of an earlier
\* change when it comes too late to be the last.
LEMMA SweepKeepsFew ==
  ASSUME TokensInv, OldAreFew, NEW r \in Requests, SweepTokens(r)
  PROVE  OldAreFew'
<1>1. /\ TokensTypeOK /\ pc[r] = "sweep" /\ knew' = knew
      /\ swept' = IF knew[r] > swept THEN knew[r] ELSE swept
      /\ \A q \in Requests \ {r} : pc'[q] = pc[q]
  BY DEF SweepTokens, Goto, TokensInv, TokensTypeOK
<1>2. OldSessions' = {}
  BY DEF SweepTokens, OldSessions, Live
<1>3. Cardinality(OldSessions') = 0
  BY <1>2, FS_EmptySet
<1>4. CASE knew[r] < swept
  <2>1. swept' = swept
    BY <1>1, <1>4 DEF TokensTypeOK
  <2>2. r \in Outdated
    BY <1>1, <1>4 DEF Outdated, LetIn
  <2>3. Outdated' \subseteq Outdated
    BY <1>1, <2>1, <2>2 DEF Outdated, LetIn
  <2> QED BY <1>2, <2>1, <2>3, FewerKeepsFew
<1>5. CASE ~ knew[r] < swept
  <2>1. ~ knew'[r] < swept'
    BY <1>1, <1>5 DEF TokensTypeOK
  <2>2. Outdated' \subseteq Requests \ {r}
    BY <2>1 DEF Outdated
  <2>3. /\ IsFiniteSet(Requests \ {r})
        /\ Cardinality(Requests \ {r}) = Cardinality(Requests) - 1
    BY FS_RemoveElement, TokensAssumption
  <2>4. /\ Cardinality(Outdated') <= Cardinality(Requests) - 1
        /\ Cardinality(Outdated') \in Nat
    BY <2>2, <2>3, FS_Subset, FS_CardinalityType
  <2> QED BY <1>3, <2>4, OldFinite DEF OldAreFew
<1> QED BY <1>4, <1>5

\* Every other step only takes away from both.
LEMMA OthersKeepFew ==
  ASSUME TokensInv, OldAreFew, NEW r \in Requests,
         \/ \E label \in Entry, t \in Presentable : Begin(r, label, t)
         \/ Answered(r) \/ Abort(r)
         \/ CheckToken(r) \/ RevokePresented(r)
         \/ ComparePassword(r) \/ Logout(r)
         \/ Verify(r) \/ UpdatePassword(r)
  PROVE  OldAreFew'
<1>1. /\ TokensTypeOK /\ swept <= password
      /\ swept' = swept /\ born' = born
      /\ swept \in Nat /\ password \in Nat
  BY DEF TokensInv, TokensTypeOK, PasswordsKnown, Begin, Answered, Abort, CheckToken,
         RevokePresented, ComparePassword, Logout, Verify, UpdatePassword, history
<1>2. \A t \in Tokens : token'[t] = "live" => token[t] = "live"
  BY <1>1 DEF TokensTypeOK, TokenStatus, Begin, Answered, Abort, CheckToken,
              RevokePresented, ComparePassword, Logout, Verify, UpdatePassword
<1>3. OldSessions' \subseteq OldSessions
  BY <1>1, <1>2 DEF OldSessions, Live
<1>4. \A q \in Requests \ {r} : pc'[q] = pc[q] /\ knew'[q] = knew[q]
  BY <1>1 DEF TokensTypeOK, Begin, Answered, Abort, Forget, Goto, CheckToken,
              RevokePresented, ComparePassword, Logout, Verify, UpdatePassword
<1>5. \/ pc'[r] \notin LetIn
      \/ ~ knew'[r] < swept
      \/ pc[r] \in LetIn /\ knew'[r] = knew[r]
  <2>1. CASE \/ \E label \in Entry, t \in Presentable : Begin(r, label, t)
             \/ Answered(r) \/ Abort(r) \/ Logout(r) \/ Verify(r)
    BY <1>1, <2>1 DEF TokensTypeOK, Begin, Answered, Abort, Forget, Goto, Logout,
                      Verify, LetIn, Entry
  <2>2. CASE CheckToken(r) \/ ComparePassword(r) \/ UpdatePassword(r)
    BY <1>1, <2>2 DEF TokensTypeOK, Goto, CheckToken, ComparePassword,
                      UpdatePassword, LetIn
  <2>3. CASE RevokePresented(r)
    BY <1>1, <2>3 DEF RevokePresented, LetIn
  <2> QED BY <2>1, <2>2, <2>3
<1>6. Outdated' \subseteq Outdated
  BY <1>1, <1>4, <1>5 DEF Outdated, LetIn
<1> QED BY <1>1, <1>3, <1>6, FewerKeepsFew

\* Every step keeps the bound.
LEMMA FewStep ==
  ASSUME TokensInv, OldAreFew, [TokensNext]_tokenVars
  PROVE  OldAreFew'
<1>1. CASE UNCHANGED tokenVars
  BY <1>1, FewerKeepsFew DEF tokenVars, OldSessions, Live, Outdated, LetIn
<1>2. ASSUME NEW t \in Tokens, TokenExpires(t) PROVE OldAreFew'
  <2>1. /\ token' = [token EXCEPT ![t] = "expired"]
        /\ UNCHANGED <<pc, knew, swept, born>>
    BY <1>2 DEF TokenExpires, history
  <2>2. OldSessions' \subseteq OldSessions
    BY <2>1 DEF OldSessions, Live, TokensInv, TokensTypeOK
  <2>3. Outdated' \subseteq Outdated
    BY <2>1 DEF Outdated, LetIn
  <2> QED BY <2>1, <2>2, <2>3, FewerKeepsFew
<1>3. ASSUME NEW r \in Requests,
             \/ \E label \in Entry, t \in Presentable : Begin(r, label, t)
             \/ Answered(r) \/ Abort(r) \/ Serve(r)
      PROVE  OldAreFew'
  BY <1>3, SignInKeepsFew, SweepKeepsFew, OthersKeepFew
     DEF Serve, Refresh, ChangePassword
<1> QED BY <1>1, <1>2, <1>3 DEF TokensNext

\* Nobody has changed the password at first.
LEMMA FewInit == TokensInit => OldAreFew
  BY DEF TokensInit, OldAreFew

\* Old sessions and the requests that may still open one are together fewer than
\* the requests served together.
THEOREM OldFewInvariant == TokensSpec => []OldAreFew
<1>1. TokensInv /\ OldAreFew /\ [TokensNext]_tokenVars => OldAreFew'
  BY FewStep
<1> QED BY <1>1, FewInit, TokensInvariant, PTL DEF TokensSpec

\* However often the password changes and whatever runs beside the changes, fewer
\* sessions of before stay open than requests are served together: none at all
\* when the requests of a user are served one at a time.
THEOREM FewOldSessions == TokensSpec => []OldSessionsBounded
<1>1. TokensInv /\ OldAreFew => OldSessionsBounded
  <2>1. TokensInv /\ swept = 0 => OldSessions = {}
    BY DEF TokensInv, TokensTypeOK, OldSessions, Live
  <2> QED BY <2>1, OldFinite DEF OldAreFew, OldSessionsBounded
<1> QED BY <1>1, TokensInvariant, OldFewInvariant, PTL
=============================================================================
