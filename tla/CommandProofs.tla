--------------------------- MODULE CommandProofs ---------------------------
(* Theorems about Command, for any set of commands, webhook requests,      *)
(* broker restarts and faults.                                             *)
EXTENDS Command, FiniteSetTheorems, TLAPS

\* Requests that may still have an attempt to make have not used all of them.
AttemptsLeft ==
    \A c \in Commands :
      pc[c] \in {"idle", "token", "login", "publish"} => attempts[c] < MaxAttempts

\* A request past the publish loop, a reply on its way and a recorded success
\* each stem from a message the broker accepted.
DeliveryPrecedes ==
    /\ \A c \in Commands : pc[c] \in {"confirm", "desired"} => c \in delivered
    /\ \A r \in Repliers : reply[r] # NoCommand => reply[r].cmd \in delivered
    /\ NothingClaimedUndelivered

\* A command's row is there exactly when its request has begun.
RowPrecedes ==
    \A c \in Commands : /\ cmd[c] = "none" <=> pc[c] = "idle"
                        /\ c \in delivered => cmd[c] # "none"

\* Only a property_set goes on to write the shadow.
DesiredOfPropertySets ==
    \A c \in Commands : pc[c] = "desired" => c \in PropertySets

IInv == TypeOK /\ DesiredOfPropertySets /\ AttemptsLeft /\ DeliveryPrecedes /\ RowPrecedes

-----------------------------------------------------------------------------
\* Moving a request on keeps the program counters in range.
LEMMA GotoType ==
    ASSUME TypeOK, NEW c \in Commands, NEW l \in Pc, Goto(c, l)
    PROVE  /\ pc' \in [Commands -> Pc]
           /\ pc'[c] = l
           /\ \A d \in Commands \ {c} : pc'[d] = pc[d]
  BY DEF TypeOK, Goto

\* The initial state satisfies the inductive invariant.
LEMMA InitInv == Init => IInv
  BY CommandAssumption
  DEF Init, IInv, TypeOK, DesiredOfPropertySets, AttemptsLeft, DeliveryPrecedes, RowPrecedes,
      NothingClaimedUndelivered, CommandStatus, Pc, NoToken, MaxAttempts

\* Every step keeps the types; AttemptsLeft bounds the counter of attempts.
LEMMA TypeStep == IInv /\ [Next]_vars => TypeOK'
<1> SUFFICES ASSUME IInv, [Next]_vars PROVE TypeOK'
  OBVIOUS
<1> USE CommandAssumption DEF IInv
<1>1. ASSUME NEW c \in Commands, CreateCommand(c) PROVE TypeOK'
  BY <1>1, GotoType DEF CreateCommand, TypeOK, CommandStatus, Open, Pc
<1>2. ASSUME NEW c \in Commands, Publish(c) PROVE TypeOK'
  <2>1. ASSUME NextAttempt(c), pc[c] = "publish"
        PROVE  attempts' \in [Commands -> 0 .. MaxAttempts] /\ pc' \in [Commands -> Pc]
    <3>1. attempts[c] \in 0 .. 2
      BY <2>1 DEF AttemptsLeft, TypeOK, MaxAttempts
    <3>2. attempts' \in [Commands -> 0 .. MaxAttempts]
      BY <2>1, <3>1 DEF NextAttempt, TypeOK, MaxAttempts
    <3>3. pc' \in [Commands -> Pc]
      BY <2>1 DEF NextAttempt, Goto, TypeOK, Pc
    <3> QED BY <3>2, <3>3
  <2>2. CASE UseCachedToken(c)
    BY <2>2, GotoType DEF UseCachedToken, TypeOK, Pc
  <2>3. CASE Login(c)
    BY <2>3, GotoType DEF Login, TypeOK, Pc
  <2>4. CASE CacheToken(c)
    BY <2>4, GotoType DEF CacheToken, TypeOK, Pc
  <2>5. CASE LoginFails(c)
    BY <2>5, GotoType DEF LoginFails, TypeOK, Pc
  <2>6. CASE PublishAccepted(c)
    BY <2>6, GotoType DEF PublishAccepted, TypeOK, Pc
  <2>7. CASE PublishUnauthorized(c)
    BY <2>1, <2>7 DEF PublishUnauthorized, TypeOK, NoToken
  <2>8. CASE PublishRefused(c)
    BY <2>1, <2>8 DEF PublishRefused, TypeOK
  <2>9. CASE PublishThrows(c)
    BY <2>9, GotoType DEF PublishThrows, TypeOK, Pc
  <2> QED
    BY <1>2, <2>2, <2>3, <2>4, <2>5, <2>6, <2>7, <2>8, <2>9 DEF Publish
<1>3. ASSUME NEW c \in Commands, Conclude(c) PROVE TypeOK'
  <2>1. CASE MarkFailed(c)
    BY <2>1, GotoType DEF MarkFailed, TypeOK, Pc, CommandStatus, Final
  <2>2. CASE Confirm(c)
    <3>1. cmd' \in [Commands -> CommandStatus \cup {"none"}]
      BY <2>2 DEF Confirm, TypeOK, CommandStatus, Final
    <3> QED BY <2>2, <3>1 DEF Confirm, Goto, TypeOK, Pc
  <2>3. CASE WriteDesired(c)
    BY <2>3, GotoType DEF WriteDesired, TypeOK, Pc, DesiredOfPropertySets
  <2> QED BY <1>3, <2>1, <2>2, <2>3 DEF Conclude
<1>4. ASSUME NEW c \in Commands, TimeoutPasses(c) PROVE TypeOK'
  BY <1>4 DEF TimeoutPasses, TypeOK, request
<1>5. ASSUME NEW r \in Repliers, ReplyRead(r) PROVE TypeOK'
  BY <1>5 DEF ReplyRead, TypeOK, request
<1>6. ASSUME NEW r \in Repliers, ReplyWrite(r) PROVE TypeOK'
  <2>1. cmd' \in [Commands -> CommandStatus \cup {"none"}]
    BY <1>6 DEF ReplyWrite, TypeOK, CommandStatus, Final
  <2> QED BY <1>6, <2>1 DEF ReplyWrite, TypeOK, request
<1>7. CASE ExpireTimedOut
  <2>1. cmd' \in [Commands -> CommandStatus \cup {"none"}]
    BY <1>7 DEF ExpireTimedOut, TypeOK, CommandStatus, Final
  <2> QED BY <1>7, <2>1 DEF ExpireTimedOut, TypeOK, request
<1>8. CASE BrokerRestarts
  BY <1>8 DEF BrokerRestarts, TypeOK, request
<1>9. CASE TokenExpires
  BY <1>9 DEF TokenExpires, TypeOK, request, NoToken
<1>10. CASE CrashWeb
  BY <1>10 DEF CrashWeb, TypeOK, Pc, NoToken
<1>11. CASE UNCHANGED vars
  BY <1>11 DEF vars, TypeOK
<1> QED
  BY <1>1, <1>2, <1>3, <1>4, <1>5, <1>6, <1>7, <1>8, <1>9, <1>10, <1>11
  DEF Next, AtRest

-----------------------------------------------------------------------------
\* A step of one request: what the others' parts of the invariant need.
LEMMA RequestStep ==
    ASSUME IInv, NEW c \in Commands, NEW l \in Pc, Goto(c, l),
           NEW s \in CommandStatus, cmd' = [cmd EXCEPT ![c] = s],
           reply' = reply, desired' = desired, attempts' = attempts,
           delivered' \in {delivered, delivered \cup {c}},
           l # "idle",
           l \in {"token", "login", "publish"} => attempts[c] < MaxAttempts,
           l \in {"confirm", "desired"} \/ s = "success" => c \in delivered',
           l = "desired" => c \in PropertySets
    PROVE  /\ DesiredOfPropertySets' /\ AttemptsLeft'
           /\ DeliveryPrecedes' /\ RowPrecedes'
<1>1. pc'[c] = l /\ \A d \in Commands \ {c} : pc'[d] = pc[d]
  BY GotoType DEF IInv
<1>2. cmd'[c] = s /\ \A d \in Commands \ {c} : cmd'[d] = cmd[d]
  BY DEF IInv, TypeOK
<1>3. s # "none"
  BY DEF CommandStatus, Open, Final
<1>4. DesiredOfPropertySets' /\ AttemptsLeft'
  BY <1>1 DEF IInv, DesiredOfPropertySets, AttemptsLeft
<1>5. DeliveryPrecedes'
  BY <1>1, <1>2 DEF IInv, DeliveryPrecedes, NothingClaimedUndelivered
<1>6. RowPrecedes'
  BY <1>1, <1>2, <1>3 DEF IInv, RowPrecedes
<1> QED BY <1>4, <1>5, <1>6

\* Every step keeps the inductive invariant.
LEMMA InvStep == IInv /\ [Next]_vars => IInv'
<1> SUFFICES ASSUME IInv, [Next]_vars
             PROVE  /\ DesiredOfPropertySets' /\ AttemptsLeft'
                    /\ DeliveryPrecedes' /\ RowPrecedes'
  BY TypeStep DEF IInv
<1> DEFINE Rest == /\ DesiredOfPropertySets' /\ AttemptsLeft'
                   /\ DeliveryPrecedes' /\ RowPrecedes'
<1> USE CommandAssumption
<1>0. ASSUME NEW c \in Commands, pc[c] # "idle"
      PROVE  cmd[c] \in CommandStatus /\ cmd = [cmd EXCEPT ![c] = cmd[c]]
  BY <1>0 DEF IInv, TypeOK, RowPrecedes
<1>1. ASSUME NEW c \in Commands, CreateCommand(c) PROVE Rest
  BY <1>1, RequestStep
  DEF CreateCommand, IInv, AttemptsLeft, CommandStatus, Open, Pc
<1>2. ASSUME NEW c \in Commands, Publish(c) PROVE Rest
  <2>1. ASSUME NextAttempt(c), pc[c] = "publish", cmd' = cmd, reply' = reply,
               delivered' = delivered, desired' = desired
        PROVE  Rest
    <3>1. attempts[c] \in 0 .. 2
      BY <2>1 DEF IInv, AttemptsLeft, TypeOK, MaxAttempts
    <3>2. \A d \in Commands \ {c} : pc'[d] = pc[d] /\ attempts'[d] = attempts[d]
      BY <2>1 DEF NextAttempt, Goto, IInv, TypeOK
    <3>3. \/ pc'[c] = "failed"
          \/ pc'[c] = "token" /\ attempts'[c] < MaxAttempts
      BY <2>1, <3>1 DEF NextAttempt, Goto, IInv, TypeOK, MaxAttempts
    <3>4. DesiredOfPropertySets' /\ AttemptsLeft'
      BY <3>2, <3>3 DEF IInv, DesiredOfPropertySets, AttemptsLeft
    <3>5. DeliveryPrecedes'
      BY <2>1, <3>2, <3>3 DEF IInv, DeliveryPrecedes, NothingClaimedUndelivered
    <3>6. RowPrecedes'
      BY <2>1, <3>2, <3>3 DEF IInv, RowPrecedes
    <3> QED BY <3>4, <3>5, <3>6
  <2>2. CASE UseCachedToken(c)
    BY <2>2, <1>0, RequestStep
    DEF UseCachedToken, IInv, AttemptsLeft, DeliveryPrecedes, NothingClaimedUndelivered, Pc
  <2>3. CASE Login(c)
    BY <2>3, <1>0, RequestStep
    DEF Login, IInv, AttemptsLeft, DeliveryPrecedes, NothingClaimedUndelivered, Pc
  <2>4. CASE CacheToken(c)
    BY <2>4, <1>0, RequestStep
    DEF CacheToken, IInv, AttemptsLeft, DeliveryPrecedes, NothingClaimedUndelivered, Pc
  <2>5. CASE LoginFails(c)
    BY <2>5, <1>0, RequestStep
    DEF LoginFails, IInv, DeliveryPrecedes, NothingClaimedUndelivered, Pc
  <2>6. CASE PublishAccepted(c)
    BY <2>6, <1>0, RequestStep DEF PublishAccepted, Pc
  <2>7. CASE PublishUnauthorized(c)
    BY <2>1, <2>7 DEF PublishUnauthorized
  <2>8. CASE PublishRefused(c)
    BY <2>1, <2>8 DEF PublishRefused
  <2>9. CASE PublishThrows(c)
    BY <2>9, <1>0, RequestStep
    DEF PublishThrows, IInv, DeliveryPrecedes, NothingClaimedUndelivered, Pc
  <2> QED
    BY <1>2, <2>2, <2>3, <2>4, <2>5, <2>6, <2>7, <2>8, <2>9 DEF Publish
<1>3. ASSUME NEW c \in Commands, Conclude(c) PROVE Rest
  <2>1. CASE MarkFailed(c)
    BY <2>1, RequestStep DEF MarkFailed, CommandStatus, Final, Pc
  <2>2. CASE Confirm(c)
    <3>1. c \in delivered /\ cmd[c] \in CommandStatus
      BY <2>2, <1>0 DEF Confirm, IInv, DeliveryPrecedes
    <3>2. PICK s \in CommandStatus : cmd' = [cmd EXCEPT ![c] = s]
      BY <2>2, <3>1 DEF Confirm, CommandStatus, Final
    <3>3. PICK l \in {"desired", "done"} :
             Goto(c, l) /\ (l = "desired" => c \in PropertySets)
      BY <2>2 DEF Confirm
    <3> QED BY <2>2, <3>1, <3>2, <3>3, RequestStep DEF Confirm, Pc
  <2>3. CASE WriteDesired(c)
    <3>1. \A d \in Commands \ {c} : pc'[d] = pc[d]
      BY <2>3, GotoType DEF WriteDesired, Pc, IInv
    <3>2. pc'[c] = "done"
      BY <2>3, GotoType DEF WriteDesired, Pc, IInv
    <3>3. DeliveryPrecedes'
      BY <2>3, <3>1, <3>2
      DEF WriteDesired, IInv, DeliveryPrecedes, NothingClaimedUndelivered
    <3> QED
      BY <2>3, <3>1, <3>2, <3>3
      DEF WriteDesired, IInv, DesiredOfPropertySets, AttemptsLeft, RowPrecedes
  <2> QED BY <1>3, <2>1, <2>2, <2>3 DEF Conclude
<1>4. ASSUME UNCHANGED <<cmd, delivered, desired, request, reply>> PROVE Rest
  BY <1>4 DEF request, IInv, DesiredOfPropertySets, AttemptsLeft,
              DeliveryPrecedes, NothingClaimedUndelivered, RowPrecedes
<1>5. ASSUME NEW r \in Repliers, ReplyRead(r) PROVE Rest
  BY <1>5 DEF ReplyRead, request, IInv, TypeOK, DesiredOfPropertySets, AttemptsLeft,
              DeliveryPrecedes, NothingClaimedUndelivered, RowPrecedes
<1>6. ASSUME NEW r \in Repliers, ReplyWrite(r) PROVE Rest
  <2>1. PICK c \in Commands : c = reply[r].cmd
    BY <1>6 DEF ReplyWrite, IInv, TypeOK, Reply
  <2>2. c \in delivered /\ cmd[c] # "none"
    BY <1>6, <2>1 DEF ReplyWrite, IInv, DeliveryPrecedes, RowPrecedes
  <2>3. cmd'[c] # "none" /\ \A d \in Commands \ {c} : cmd'[d] = cmd[d]
    BY <1>6, <2>1 DEF ReplyWrite, IInv, TypeOK
  <2>4. \A q \in Repliers : reply'[q] # NoCommand => reply'[q].cmd \in delivered
    BY <1>6 DEF ReplyWrite, IInv, TypeOK, DeliveryPrecedes
  <2>5. DeliveryPrecedes'
    BY <1>6, <2>2, <2>3, <2>4
    DEF ReplyWrite, request, IInv, DeliveryPrecedes, NothingClaimedUndelivered
  <2> QED
    BY <1>6, <2>2, <2>3, <2>5
    DEF ReplyWrite, request, IInv, DesiredOfPropertySets, AttemptsLeft, RowPrecedes
<1>7. CASE ExpireTimedOut
  <2>1. \A c \in Commands :
          /\ cmd'[c] = "none" <=> cmd[c] = "none"
          /\ cmd'[c] = "success" => cmd[c] = "success"
    BY <1>7 DEF ExpireTimedOut, Overdue, Open
  <2> QED
    BY <1>7, <2>1
    DEF ExpireTimedOut, request, IInv, DesiredOfPropertySets, AttemptsLeft,
        DeliveryPrecedes, NothingClaimedUndelivered, RowPrecedes
<1>8. CASE CrashWeb
  BY <1>8 DEF CrashWeb, Running, IInv, TypeOK, DesiredOfPropertySets, AttemptsLeft,
              DeliveryPrecedes, NothingClaimedUndelivered, RowPrecedes
<1> QED
  BY <1>1, <1>2, <1>3, <1>4, <1>5, <1>6, <1>7, <1>8
  DEF Next, AtRest, vars, request, TimeoutPasses, BrokerRestarts, TokenExpires

\* Whatever the broker, the device and the faults do, every variable keeps its
\* type; the publish loop in particular makes at most MaxAttempts attempts.
THEOREM TypeCorrect == Spec => []TypeOK
BY InitInv, InvStep, PTL DEF Spec, IInv

\* No interleaving of requests, replies, expiry, retries and crashes records a
\* success or a desired state the broker never accepted.
THEOREM ClaimsAreDelivered == Spec => []NothingClaimedUndelivered
<1>1. IInv => NothingClaimedUndelivered
  BY DEF IInv, DeliveryPrecedes
<1> QED BY InitInv, InvStep, <1>1, PTL DEF Spec

-----------------------------------------------------------------------------
\* Expiry and confirmation never overwrite a final status, however they
\* interleave with the replies and the failing publications that may.
THEOREM FinalOverwrites == Spec => FinalOverwrittenOnlyBy
<1> DEFINE Kept == \A c \in Commands :
                     cmd[c] \in Final /\ cmd'[c] # cmd[c] =>
                       \/ pc[c] = "failed" /\ pc'[c] = "done"
                       \/ \E r \in Repliers : reply[r] # NoCommand /\ reply[r].cmd = c
                                              /\ reply'[r] = NoCommand
<1>1. IInv /\ [Next]_vars => [Kept]_vars
  <2> SUFFICES ASSUME IInv, Next, NEW c \in Commands,
                      cmd[c] \in Final, cmd'[c] # cmd[c]
               PROVE  \/ pc[c] = "failed" /\ pc'[c] = "done"
                      \/ \E r \in Repliers : reply[r] # NoCommand /\ reply[r].cmd = c
                                             /\ reply'[r] = NoCommand
    OBVIOUS
  <2>0. cmd[c] # "none" /\ cmd[c] \notin Open
    BY DEF Final, Open
  <2>1. ASSUME NEW d \in Commands, CreateCommand(d) PROVE FALSE
    BY <2>0, <2>1 DEF CreateCommand, IInv, TypeOK, RowPrecedes
  <2>2. ASSUME NEW d \in Commands, Publish(d) PROVE FALSE
    BY <2>2
    DEF Publish, UseCachedToken, Login, CacheToken, LoginFails, PublishAccepted,
        PublishUnauthorized, PublishRefused, PublishThrows
  <2>3. ASSUME NEW d \in Commands, Conclude(d)
        PROVE  pc[c] = "failed" /\ pc'[c] = "done"
    <3>1. CASE MarkFailed(d)
      BY <3>1 DEF MarkFailed, Goto, IInv, TypeOK
    <3>2. CASE Confirm(d)
      BY <3>2, <2>0 DEF Confirm, IInv, TypeOK, Open
    <3>3. CASE WriteDesired(d)
      BY <3>3 DEF WriteDesired
    <3> QED BY <2>3, <3>1, <3>2, <3>3 DEF Conclude
  <2>4. ASSUME NEW r \in Repliers, ReplyWrite(r)
        PROVE  reply[r] # NoCommand /\ reply[r].cmd = c /\ reply'[r] = NoCommand
    BY <2>4 DEF ReplyWrite, IInv, TypeOK
  <2>5. CASE ExpireTimedOut
    BY <2>5, <2>0 DEF ExpireTimedOut, Overdue
  <2> QED
    BY <2>1, <2>2, <2>3, <2>4, <2>5
    DEF Next, TimeoutPasses, ReplyRead, BrokerRestarts, TokenExpires, CrashWeb,
        AtRest, vars
<1> QED BY InitInv, InvStep, <1>1, PTL DEF Spec, FinalOverwrittenOnlyBy

-----------------------------------------------------------------------------
(* Stale tokens.  What a restart can still cost a request is bounded by    *)
(* the requests that carry a stale token towards it: the others with a     *)
(* login on its way to the cache, and itself when it holds one or is about *)
(* to take one from the cache.                                             *)

Stale(t) == t # epoch

StaleLogins == {d \in Commands : pc[d] = "login" /\ Stale(held[d])}

MeetsStale(c) ==
    \/ pc[c] \in {"login", "publish"} /\ Stale(held[c])
    \/ cache # NoToken /\ Stale(cache)

StaleCarriers(c) ==
    (StaleLogins \ {c}) \cup {d \in {c} : MeetsStale(c)}

StaleLosses(c) == attempts[c] + Cardinality(StaleCarriers(c))

\* A restart costs each request at most one attempt per request there is.
LossesBounded ==
    "refuse" \notin Faults =>
      \A c \in Commands : StaleLosses(c) <= (epoch - 1) * Cardinality(Commands)

-----------------------------------------------------------------------------
\* Who carries a stale token.
LEMMA CarrierMembers ==
    ASSUME NEW c \in Commands
    PROVE  /\ \A d : d \in StaleCarriers(c) <=>
                 \/ /\ d \in Commands \ {c}
                    /\ pc[d] = "login"
                    /\ held[d] # epoch
                 \/ /\ d = c
                    /\ MeetsStale(c)
           /\ StaleCarriers(c) \in SUBSET Commands
  BY DEF StaleCarriers, StaleLogins, Stale

\* Commands can be counted, and some of them are no more than all.
LEMMA SubsetCount ==
    ASSUME NEW S \in SUBSET Commands
    PROVE  /\ IsFiniteSet(S)
           /\ Cardinality(S) \in Nat
           /\ Cardinality(Commands) \in Nat
           /\ Cardinality(S) <= Cardinality(Commands)
  BY CommandAssumption, FS_Subset, FS_CardinalityType

\* So can the carriers of stale tokens.
LEMMA CarrierCount ==
    ASSUME NEW c \in Commands
    PROVE  /\ IsFiniteSet(StaleCarriers(c))
           /\ Cardinality(StaleCarriers(c)) \in Nat
           /\ Cardinality(Commands) \in Nat
           /\ Cardinality(StaleCarriers(c)) <= Cardinality(Commands)
  BY CarrierMembers, SubsetCount

\* A request that loses no attempt gains no carrier, except for one that moves
\* from its login into the cache.
LEMMA CarriersKept ==
    ASSUME IInv, NEW c \in Commands, attempts'[c] = attempts[c],
           \/ StaleCarriers(c)' \subseteq StaleCarriers(c)
           \/ \E d \in StaleCarriers(c) :
                StaleCarriers(c)' \subseteq (StaleCarriers(c) \ {d}) \cup {c}
    PROVE  StaleLosses(c)' <= StaleLosses(c)
<1> DEFINE S == StaleCarriers(c)
           T == StaleCarriers(c)'
<1>1. IsFiniteSet(S) /\ Cardinality(S) \in Nat
  BY CarrierCount
<1>2. attempts[c] \in Nat
  BY DEF IInv, TypeOK, MaxAttempts
<1>3. CASE T \subseteq S
  <2>1. IsFiniteSet(T) /\ Cardinality(T) \in Nat /\ Cardinality(T) <= Cardinality(S)
    BY <1>1, <1>3, FS_Subset, FS_CardinalityType
  <2> QED BY <1>1, <1>2, <2>1 DEF StaleLosses
<1>4. ASSUME NEW d \in S, T \subseteq (S \ {d}) \cup {c}
      PROVE  StaleLosses(c)' <= StaleLosses(c)
  <2> DEFINE Q == S \ {d}
             R == Q \cup {c}
  <2> HIDE DEF S, T
  <2>1. IsFiniteSet(Q) /\ Cardinality(Q) = Cardinality(S) - 1
    BY <1>1, <1>4, FS_RemoveElement
  <2> HIDE DEF Q
  <2>2. IsFiniteSet(R) /\ Cardinality(R) <= Cardinality(S)
    <3>1. /\ IsFiniteSet(R)
          /\ Cardinality(R) = IF c \in Q THEN Cardinality(Q) ELSE Cardinality(Q) + 1
      BY <2>1, FS_AddElement
    <3> QED BY <1>1, <2>1, <3>1
  <2> USE DEF Q
  <2>3. IsFiniteSet(T) /\ Cardinality(T) <= Cardinality(R)
    BY <1>4, <2>2, FS_Subset
  <2>4. Cardinality(T) \in Nat /\ Cardinality(R) \in Nat
    BY <2>2, <2>3, FS_CardinalityType
  <2> QED BY <1>1, <1>2, <2>2, <2>3, <2>4 DEF StaleLosses, S, T
<1> QED BY <1>3, <1>4

\* An attempt is paid for by a carrier.
LEMMA CarrierSpent ==
    ASSUME IInv, NEW c \in Commands, attempts'[c] = attempts[c] + 1,
           c \in StaleCarriers(c),
           StaleCarriers(c)' \subseteq StaleCarriers(c) \ {c}
    PROVE  StaleLosses(c)' <= StaleLosses(c)
<1> DEFINE S == StaleCarriers(c)
           T == StaleCarriers(c)'
<1>1. IsFiniteSet(S) /\ Cardinality(S) \in Nat
  BY CarrierCount
<1>2. attempts[c] \in Nat
  BY DEF IInv, TypeOK, MaxAttempts
<1> HIDE DEF S, T
<1>3. IsFiniteSet(S \ {c}) /\ Cardinality(S \ {c}) = Cardinality(S) - 1
  BY <1>1, FS_RemoveElement DEF S
<1>4. IsFiniteSet(T) /\ Cardinality(T) <= Cardinality(S \ {c})
  BY <1>3, FS_Subset DEF S, T
<1>5. Cardinality(T) \in Nat
  BY <1>4, FS_CardinalityType
<1> QED BY <1>1, <1>2, <1>3, <1>4, <1>5 DEF StaleLosses, S, T

\* Between two restarts of the broker no step costs a request more than the
\* carriers it has.
LEMMA LossesStep ==
    ASSUME IInv, [Next]_vars, "refuse" \notin Faults, epoch' = epoch, NEW c \in Commands
    PROVE  StaleLosses(c)' <= StaleLosses(c)
<1>0. /\ \A d : d \in StaleCarriers(c) <=>
              \/ d \in Commands \ {c} /\ pc[d] = "login" /\ held[d] # epoch
              \/ d = c /\ MeetsStale(c)
      /\ \A d : d \in StaleCarriers(c)' <=>
              \/ d \in Commands \ {c} /\ pc'[d] = "login" /\ held'[d] # epoch
              \/ d = c /\ MeetsStale(c)'
  BY CarrierMembers DEF StaleCarriers, StaleLogins, Stale
<1>1. ASSUME UNCHANGED <<request, cache>> PROVE StaleLosses(c)' <= StaleLosses(c)
  BY <1>0, <1>1, CarriersKept DEF request, MeetsStale, Stale
<1>2. ASSUME NEW b \in Commands, NEW l \in Pc \ {"login", "publish"}, Goto(b, l),
             UNCHANGED <<attempts, held, cache>>
      PROVE  StaleLosses(c)' <= StaleLosses(c)
  <2>1. pc'[b] = l /\ \A d \in Commands \ {b} : pc'[d] = pc[d]
    BY <1>2, GotoType DEF IInv
  <2> QED BY <1>0, <1>2, <2>1, CarriersKept DEF MeetsStale, Stale
<1>3. ASSUME NEW b \in Commands, CreateCommand(b) \/ Conclude(b)
      PROVE  StaleLosses(c)' <= StaleLosses(c)
  <2>1. PICK l \in {"token", "desired", "done"} : Goto(b, l)
    BY <1>3 DEF CreateCommand, Conclude, MarkFailed, Confirm, WriteDesired
  <2>2. UNCHANGED <<attempts, held, cache>>
    BY <1>3 DEF CreateCommand, Conclude, MarkFailed, Confirm, WriteDesired
  <2> QED BY <1>2, <2>1, <2>2 DEF Pc
<1>4. ASSUME NEW b \in Commands, Publish(b) PROVE StaleLosses(c)' <= StaleLosses(c)
  <2>1. CASE UseCachedToken(b)
    <3>1. pc'[b] = "publish" /\ \A d \in Commands \ {b} : pc'[d] = pc[d]
      BY <2>1, GotoType DEF UseCachedToken, IInv, Pc
    <3>2. held'[b] = cache /\ \A d \in Commands \ {b} : held'[d] = held[d]
      BY <2>1 DEF UseCachedToken, IInv, TypeOK
    <3>3. cache # NoToken /\ UNCHANGED <<cache, attempts>>
      BY <2>1 DEF UseCachedToken
    <3> QED BY <1>0, <3>1, <3>2, <3>3, CarriersKept DEF MeetsStale, Stale
  <2>2. CASE Login(b)
    <3>1. pc'[b] = "login" /\ \A d \in Commands \ {b} : pc'[d] = pc[d]
      BY <2>2, GotoType DEF Login, IInv, Pc
    <3>2. held'[b] = epoch /\ \A d \in Commands \ {b} : held'[d] = held[d]
      BY <2>2 DEF Login, IInv, TypeOK
    <3>3. UNCHANGED <<cache, attempts>>
      BY <2>2 DEF Login
    <3> QED BY <1>0, <3>1, <3>2, <3>3, CarriersKept DEF MeetsStale, Stale
  <2>3. CASE CacheToken(b)
    <3>1. pc'[b] = "publish" /\ \A d \in Commands \ {b} : pc'[d] = pc[d]
      BY <2>3, GotoType DEF CacheToken, IInv, Pc
    <3>2. pc[b] = "login" /\ cache' = held[b] /\ UNCHANGED <<held, attempts>>
      BY <2>3 DEF CacheToken
    <3>3. CASE held[b] = epoch
      <4>1. StaleCarriers(c)' \subseteq StaleCarriers(c)
        BY <1>0, <3>1, <3>2, <3>3 DEF MeetsStale, Stale
      <4> QED BY <3>2, <4>1, CarriersKept
    <3>4. CASE held[b] # epoch
      <4>1. b \in StaleCarriers(c)
        BY <1>0, <3>2, <3>4 DEF MeetsStale, Stale
      <4>2. StaleCarriers(c)' \subseteq (StaleCarriers(c) \ {b}) \cup {c}
        BY <1>0, <3>1, <3>2
      <4> QED BY <3>2, <4>1, <4>2, CarriersKept
    <3> QED BY <3>3, <3>4
  <2>4. CASE LoginFails(b)
    BY <1>2, <2>4 DEF LoginFails, Pc
  <2>5. CASE PublishAccepted(b)
    BY <1>2, <2>5 DEF PublishAccepted, Pc
  <2>6. CASE PublishUnauthorized(b)
    <3>1. pc[b] = "publish" /\ held[b] # epoch /\ cache' = NoToken /\ held' = held
      BY <2>6 DEF PublishUnauthorized
    <3>2. /\ attempts'[b] = attempts[b] + 1
          /\ \A d \in Commands \ {b} : attempts'[d] = attempts[d]
      BY <2>6 DEF PublishUnauthorized, NextAttempt, IInv, TypeOK
    <3>3. /\ pc'[b] \in {"failed", "token"}
          /\ \A d \in Commands \ {b} : pc'[d] = pc[d]
      BY <2>6 DEF PublishUnauthorized, NextAttempt, Goto, IInv, TypeOK
    <3>4. CASE b = c
      <4>1. c \in StaleCarriers(c)
        BY <1>0, <3>1, <3>4 DEF MeetsStale, Stale
      <4>2. StaleCarriers(c)' \subseteq StaleCarriers(c) \ {c}
        BY <1>0, <3>1, <3>3, <3>4 DEF MeetsStale
      <4> QED BY <3>2, <3>4, <4>1, <4>2, CarrierSpent
    <3>5. CASE b # c
      <4>1. StaleCarriers(c)' \subseteq StaleCarriers(c)
        BY <1>0, <3>1, <3>3, <3>5 DEF MeetsStale, Stale
      <4> QED BY <3>2, <3>5, <4>1, CarriersKept
    <3> QED BY <3>4, <3>5
  <2>7. CASE PublishThrows(b)
    BY <1>2, <2>7 DEF PublishThrows, Pc
  <2> QED
    BY <1>4, <2>1, <2>2, <2>3, <2>4, <2>5, <2>6, <2>7 DEF Publish, PublishRefused
<1>5. CASE TokenExpires
  BY <1>0, <1>5, CarriersKept DEF TokenExpires, request, MeetsStale, Stale
<1>6. CASE CrashWeb
  <2>1. \A d \in Commands : pc'[d] \in {"login", "publish"} => pc'[d] = pc[d]
    BY <1>6 DEF CrashWeb, Running
  <2> QED BY <1>0, <1>6, <2>1, CarriersKept DEF CrashWeb, MeetsStale, Stale
<1>7. ~BrokerRestarts
  BY DEF BrokerRestarts, IInv, TypeOK
<1> QED
  BY <1>1, <1>3, <1>4, <1>5, <1>6, <1>7
  DEF Next, TimeoutPasses, ReplyRead, ReplyWrite, ExpireTimedOut, AtRest, vars, request

\* The bound is inductive: a restart adds as many carriers as there are
\* requests at most, and nothing else adds any.
LEMMA LossesInvStep == IInv /\ LossesBounded /\ [Next]_vars => LossesBounded'
<1> SUFFICES ASSUME IInv, LossesBounded, [Next]_vars, "refuse" \notin Faults,
                    NEW c \in Commands
             PROVE  StaleLosses(c)' <= (epoch' - 1) * Cardinality(Commands)
  BY DEF LossesBounded
<1> DEFINE N == Cardinality(Commands)
<1>1. StaleLosses(c) <= (epoch - 1) * N
  BY DEF LossesBounded
<1>2. attempts[c] \in Nat /\ epoch \in Nat /\ epoch >= 1
  BY CommandAssumption DEF IInv, TypeOK, MaxAttempts
<1>3. N \in Nat /\ Cardinality(StaleCarriers(c)) \in Nat
  BY CarrierCount
<1>4. CASE epoch' = epoch
  <2>1. StaleLosses(c)' <= StaleLosses(c)
    BY <1>4, LossesStep
  <2>2. IInv'
    BY InvStep
  <2>3. StaleLosses(c) \in Nat
    BY <1>2, <1>3 DEF StaleLosses
  <2>4. StaleLosses(c)' \in Nat
    <3>1. attempts'[c] \in Nat
      BY <2>2 DEF IInv, TypeOK, MaxAttempts
    <3>2. StaleCarriers(c)' \in SUBSET Commands
      BY DEF StaleCarriers, StaleLogins
    <3>3. Cardinality(StaleCarriers(c)') \in Nat
      BY <3>2, SubsetCount
    <3> QED BY <3>1, <3>3 DEF StaleLosses
  <2>5. (epoch - 1) * N \in Nat
    BY <1>2, <1>3
  <2> QED BY <1>1, <1>4, <2>1, <2>3, <2>4, <2>5
<1>5. CASE BrokerRestarts
  <2>1. epoch' = epoch + 1 /\ attempts' = attempts
    BY <1>5 DEF BrokerRestarts, request
  <2>2. /\ Cardinality(StaleCarriers(c))' \in Nat
        /\ Cardinality(StaleCarriers(c))' <= N
    <3>1. StaleCarriers(c)' \in SUBSET Commands
      BY DEF StaleCarriers, StaleLogins
    <3> QED BY <3>1, SubsetCount
  <2>3. attempts[c] <= (epoch - 1) * N
    BY <1>1, <1>2, <1>3 DEF StaleLosses
  <2>4. StaleLosses(c)' <= (epoch - 1) * N + N
    BY <1>2, <1>3, <2>1, <2>2, <2>3 DEF StaleLosses
  <2>5. (epoch' - 1) * N = (epoch - 1) * N + N
    BY <1>2, <1>3, <2>1
  <2> QED BY <2>4, <2>5
<1> QED
  BY <1>4, <1>5
  DEF Next, CreateCommand, Publish, UseCachedToken, Login, CacheToken, LoginFails,
      PublishAccepted, PublishUnauthorized, PublishRefused, PublishThrows, Conclude,
      MarkFailed, Confirm, WriteDesired, TimeoutPasses, ReplyRead, ReplyWrite,
      ExpireTimedOut, TokenExpires, CrashWeb, AtRest, vars

\* The first requests find a broker that has not restarted and an empty cache.
LEMMA LossesInit == Init => LossesBounded
<1> SUFFICES ASSUME Init, NEW c \in Commands
             PROVE  StaleLosses(c) <= (epoch - 1) * Cardinality(Commands)
  BY DEF LossesBounded
<1>1. StaleCarriers(c) = {}
  BY DEF Init, StaleCarriers, StaleLogins, MeetsStale
<1>2. StaleLosses(c) = 0
  BY <1>1, FS_EmptySet DEF StaleLosses, Init
<1>3. (epoch - 1) * Cardinality(Commands) = 0
  BY CarrierCount DEF Init
<1> QED BY <1>2, <1>3

\* Whatever requests share the cache and however logins, refusals, crashes and
\* restarts interleave, a restart costs a request an attempt at most once for
\* every request there is, and never more than the stale tokens still about.
THEOREM LossesInvariant == Spec => []LossesBounded
BY InitInv, InvStep, LossesInit, LossesInvStep, PTL DEF Spec

\* A stale token is replaced: the loop does not spend its attempts on it.
THEOREM StaleTokenReplaced == Spec => []StaleTokenIsReplaced
<1>1. IInv /\ LossesBounded => StaleTokenIsReplaced
  <2> SUFFICES ASSUME IInv, LossesBounded, "refuse" \notin Faults, NEW c \in Commands
               PROVE  attempts[c] <= (epoch - 1) * Cardinality(Commands)
    BY DEF StaleTokenIsReplaced
  <2>1. attempts[c] \in Nat /\ epoch \in Nat /\ epoch >= 1
    BY CommandAssumption DEF IInv, TypeOK, MaxAttempts
  <2>2. attempts[c] + Cardinality(StaleCarriers(c))
          <= (epoch - 1) * Cardinality(Commands)
    BY DEF LossesBounded, StaleLosses
  <2>3. (epoch - 1) * Cardinality(Commands) \in Nat
    BY <2>1, CarrierCount
  <2> QED BY <2>1, <2>2, <2>3, CarrierCount
<1> QED BY InitInv, InvStep, LossesInvariant, <1>1, PTL DEF Spec

\* Between restarts no step takes more attempts from a request than stale
\* tokens from its way, for any number of requests.
THEOREM StaleLossesShrink ==
    Spec => [][ "refuse" \notin Faults =>
                  \A c \in Commands :
                    epoch' = epoch => StaleLosses(c)' <= StaleLosses(c)]_vars
<1>1. IInv /\ [Next]_vars =>
        [ "refuse" \notin Faults =>
            \A c \in Commands :
              epoch' = epoch => StaleLosses(c)' <= StaleLosses(c)]_vars
  BY LossesStep
<1> QED BY InitInv, InvStep, <1>1, PTL DEF Spec

-----------------------------------------------------------------------------
\* A step that gives the commands of S final statuses, and no others new ones,
\* closes them in the contract.
LEMMA ClosesInContract ==
    ASSUME IInv, IInv', NEW S \in SUBSET Commands, delivered' = delivered,
           \A c \in S : cmd[c] # "none" /\ cmd'[c] \in Final,
           \A c \in Commands \ S : cmd'[c] = cmd[c]
    PROVE  Contract!Close(S)
<1>1. \A c \in Commands : /\ cmd[c] \in CommandStatus <=> cmd[c] # "none"
                          /\ cmd'[c] \in CommandStatus <=> cmd'[c] # "none"
  BY DEF IInv, TypeOK, CommandStatus, Open, Final
<1>2. S \subseteq RowsWith(CommandStatus)
  BY <1>1 DEF RowsWith
<1>3. RowsWith(CommandStatus)' = RowsWith(CommandStatus)
  BY <1>1 DEF RowsWith, Final
<1>4. RowsWith(Final)' = RowsWith(Final) \cup S
  BY DEF RowsWith
<1>5. RowsWith({"success"})' \subseteq delivered
  BY DEF RowsWith, IInv, DeliveryPrecedes, NothingClaimedUndelivered
<1>6. \A c \in Commands \ S :
        c \in RowsWith({"success"})' <=> c \in RowsWith({"success"})
  BY DEF RowsWith
<1> QED BY <1>2, <1>3, <1>4, <1>5, <1>6 DEF Contract!Close

\* At first nothing is submitted, accepted or closed.
LEMMA InitRefines == Init => Contract!Init
  BY DEF Init, Contract!Init, RowsWith, CommandStatus, Open, Final

\* Every step of the control service is one of the contract, or none.
LEMMA StepRefines ==
    IInv /\ IInv' /\ [Next]_vars => [Contract!Next]_(Contract!vars)
<1> SUFFICES ASSUME IInv, IInv', [Next]_vars
             PROVE  Contract!Next \/ UNCHANGED Contract!vars
  OBVIOUS
<1>1. ASSUME UNCHANGED <<cmd, delivered>> PROVE UNCHANGED Contract!vars
  BY <1>1 DEF Contract!vars, RowsWith
<1>2. ASSUME NEW S \in SUBSET Commands, Contract!Close(S) PROVE Contract!Next
  BY <1>2 DEF Contract!Next
<1>3. ASSUME NEW c \in Commands, CreateCommand(c) PROVE Contract!Next
  <2>1. c \notin RowsWith(CommandStatus)
    BY <1>3 DEF CreateCommand, IInv, RowPrecedes, RowsWith, CommandStatus, Open, Final
  <2>2. cmd' = [cmd EXCEPT ![c] = "pending"] /\ delivered' = delivered
    BY <1>3 DEF CreateCommand
  <2>3. RowsWith(CommandStatus)' = RowsWith(CommandStatus) \cup {c}
    BY <2>2 DEF RowsWith, IInv, TypeOK, CommandStatus, Open
  <2>4. /\ RowsWith(Final)' = RowsWith(Final)
        /\ RowsWith({"success"})' = RowsWith({"success"})
    BY <2>1, <2>2 DEF RowsWith, IInv, TypeOK, CommandStatus, Final
  <2> QED BY <2>1, <2>2, <2>3, <2>4 DEF Contract!Next, Contract!Submit
<1>4. ASSUME NEW c \in Commands, Publish(c)
      PROVE  Contract!Next \/ UNCHANGED Contract!vars
  <2>1. ASSUME pc[c] = "publish", cmd' = cmd, delivered' = delivered \cup {c}
        PROVE  Contract!Next
    <3>1. c \in RowsWith(CommandStatus)
      BY <2>1 DEF IInv, TypeOK, RowPrecedes, RowsWith
    <3> QED BY <2>1, <3>1 DEF Contract!Next, Contract!Accept, RowsWith
  <2> QED
    BY <1>1, <1>4, <2>1
    DEF Publish, UseCachedToken, Login, CacheToken, LoginFails, PublishAccepted,
        PublishUnauthorized, PublishRefused, PublishThrows
<1>5. ASSUME NEW c \in Commands, Conclude(c)
      PROVE  Contract!Next \/ UNCHANGED Contract!vars
  <2>1. CASE MarkFailed(c)
    <3>1. cmd[c] # "none"
      BY <2>1 DEF MarkFailed, IInv, RowPrecedes
    <3> QED
      BY <2>1, <3>1, <1>2, ClosesInContract, {c} \in SUBSET Commands
      DEF MarkFailed, IInv, TypeOK, Final
  <2>2. CASE Confirm(c)
    <3>1. CASE cmd[c] = "pending"
      <4>1. cmd' = [cmd EXCEPT ![c] = "success"] /\ delivered' = delivered
        BY <2>2, <3>1 DEF Confirm
      <4>2. cmd'[c] \in Final /\ \A d \in Commands \ {c} : cmd'[d] = cmd[d]
        BY <4>1 DEF IInv, TypeOK, Final
      <4> QED
        BY <3>1, <4>1, <4>2, <1>2, ClosesInContract, {c} \in SUBSET Commands
    <3>2. CASE cmd[c] # "pending"
      BY <2>2, <3>2, <1>1 DEF Confirm, IInv, TypeOK
    <3> QED BY <3>1, <3>2
  <2>3. CASE WriteDesired(c)
    BY <2>3, <1>1 DEF WriteDesired
  <2> QED BY <1>5, <2>1, <2>2, <2>3 DEF Conclude
<1>6. ASSUME NEW r \in Repliers, ReplyWrite(r) PROVE Contract!Next
  <2>1. reply[r].cmd \in Commands /\ cmd[reply[r].cmd] # "none"
    BY <1>6 DEF ReplyWrite, IInv, TypeOK, Reply, DeliveryPrecedes, RowPrecedes
  <2> DEFINE c == reply[r].cmd
  <2>2. cmd'[c] \in Final /\ \A d \in Commands \ {c} : cmd'[d] = cmd[d]
    BY <1>6, <2>1 DEF ReplyWrite, IInv, TypeOK, Final
  <2> HIDE DEF c
  <2> QED
    BY <1>6, <2>1, <2>2, <1>2, ClosesInContract, {c} \in SUBSET Commands
    DEF ReplyWrite, c
<1>7. CASE ExpireTimedOut
  BY <1>7, <1>2, ClosesInContract, Overdue \in SUBSET Commands
  DEF ExpireTimedOut, Overdue, Open, Final, IInv, TypeOK
<1> QED
  BY <1>1, <1>3, <1>4, <1>5, <1>6, <1>7
  DEF Next, TimeoutPasses, ReplyRead, BrokerRestarts, TokenExpires, CrashWeb,
      AtRest, vars

\* The control service implements its contract: no step of it opens a command
\* again, submits one twice or lets one succeed that was not accepted.
THEOREM Implements == Spec => ImplementsContract
BY InitInv, InvStep, InitRefines, StepRefines, PTL
DEF Spec, ImplementsContract, Contract!Spec
=============================================================================
