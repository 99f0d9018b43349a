------------------------------ MODULE Command ------------------------------
(***************************************************************************)
(* Device commands of apps/web/features/control/control-service.ts: the    *)
(* request that creates a command row, publishes it through EMQX's HTTP    *)
(* API with a cached token and up to three attempts, confirms it and       *)
(* writes the shadow's desired state; the expiry of overdue commands; and  *)
(* the device's replies.  Every command is the work of one request, so     *)
(* requests are named by their commands.                                   *)
(***************************************************************************)
EXTENDS Naturals, FiniteSets

CONSTANTS
    Commands,      \* commands sent to one device
    PropertySets,  \* those of kind property_set; the others invoke a service
    Repliers,      \* webhook requests that may handle replies together
    NoCommand,     \* desired before any property_set
    MaxEpoch,      \* bound on the broker's restarts
    Faults         \* which disturbances may happen

Reply == [cmd: Commands, ok: BOOLEAN]

ASSUME CommandAssumption ==
    /\ IsFiniteSet(Commands)
    /\ PropertySets \subseteq Commands
    /\ NoCommand \notin Commands
    /\ NoCommand \notin Reply
    /\ MaxEpoch \in Nat \ {0}
    /\ Faults \subseteq {"login", "refuse", "throw", "crash"}

VARIABLES
    cmd,        \* status of each device_commands row
    due,        \* commands whose timeout_at has passed
    delivered,  \* commands the broker has accepted, and so the device may see
    desired,    \* the command whose params the shadow's desired holds
    pc,         \* next statement of each command's request
    attempts,   \* failed attempts of the publish loop
    held,       \* epoch of the broker token the request holds
    cache,      \* epoch of cachedEmqxToken, 0 when there is none
    epoch,      \* the broker accepts only tokens it issued in this epoch
    reply       \* the reply each webhook request is about to write

request == <<pc, attempts, held>>
vars == <<cmd, due, delivered, desired, pc, attempts, held, cache, epoch, reply>>

-----------------------------------------------------------------------------
Open == {"pending", "sent", "delivered"}
Final == {"success", "failed", "timeout", "cancelled"}
CommandStatus == Open \cup Final

Pc == {"idle", "token", "login", "publish", "failed", "confirm", "desired",
       "done", "dead"}

NoToken == 0
MaxAttempts == 3

TypeOK ==
    /\ cmd \in [Commands -> CommandStatus \cup {"none"}]
    /\ due \subseteq Commands
    /\ delivered \subseteq Commands
    /\ desired \in PropertySets \cup {NoCommand}
    /\ pc \in [Commands -> Pc]
    /\ attempts \in [Commands -> 0 .. MaxAttempts]
    /\ held \in [Commands -> 0 .. MaxEpoch]
    /\ cache \in 0 .. MaxEpoch
    /\ epoch \in 1 .. MaxEpoch
    /\ reply \in [Repliers -> Reply \cup {NoCommand}]

Init ==
    /\ cmd = [c \in Commands |-> "none"]
    /\ due = {}
    /\ delivered = {}
    /\ desired = NoCommand
    /\ pc = [c \in Commands |-> "idle"]
    /\ attempts = [c \in Commands |-> 0]
    /\ held = [c \in Commands |-> NoToken]
    /\ cache = NoToken
    /\ epoch = 1
    /\ reply = [r \in Repliers |-> NoCommand]

Goto(c, label) == pc' = [pc EXCEPT ![c] = label]

-----------------------------------------------------------------------------
(* The request: create, publish, confirm, write desired.                   *)

CreateCommand(c) ==
    /\ pc[c] = "idle"
    /\ cmd' = [cmd EXCEPT ![c] = "pending"]
    /\ Goto(c, "token")
    /\ UNCHANGED <<due, delivered, desired, attempts, held, cache, epoch, reply>>

UseCachedToken(c) ==
    /\ pc[c] = "token"
    /\ cache # NoToken
    /\ held' = [held EXCEPT ![c] = cache]
    /\ Goto(c, "publish")
    /\ UNCHANGED <<cmd, due, delivered, desired, attempts, cache, epoch, reply>>

\* The broker issues a token; the answer is still on its way.
Login(c) ==
    /\ pc[c] = "token"
    /\ cache = NoToken
    /\ held' = [held EXCEPT ![c] = epoch]
    /\ Goto(c, "login")
    /\ UNCHANGED <<cmd, due, delivered, desired, attempts, cache, epoch, reply>>

CacheToken(c) ==
    /\ pc[c] = "login"
    /\ cache' = held[c]
    /\ Goto(c, "publish")
    /\ UNCHANGED <<cmd, due, delivered, desired, attempts, held, epoch, reply>>

\* emqxToken throws out of publishMqtt, whatever attempts are left.
LoginFails(c) ==
    /\ "login" \in Faults
    /\ pc[c] = "token"
    /\ cache = NoToken
    /\ Goto(c, "failed")
    /\ UNCHANGED <<cmd, due, delivered, desired, attempts, held, cache, epoch, reply>>

PublishAccepted(c) ==
    /\ pc[c] = "publish"
    /\ held[c] = epoch
    /\ delivered' = delivered \cup {c}
    /\ Goto(c, "confirm")
    /\ UNCHANGED <<cmd, due, desired, attempts, held, cache, epoch, reply>>

\* Mutated: one attempt too many.
NextAttemptLate(c) ==
    /\ attempts' = [attempts EXCEPT ![c] = @ + 1]
    /\ Goto(c, IF attempts[c] = MaxAttempts THEN "failed" ELSE "token")

NextAttempt(c) ==
    /\ attempts' = [attempts EXCEPT ![c] = @ + 1]
    /\ Goto(c, IF attempts[c] + 1 = MaxAttempts THEN "failed" ELSE "token")

\* Mutated: a refused token stays cached.
PublishUnauthorizedKeep(c) ==
    /\ pc[c] = "publish"
    /\ held[c] # epoch
    /\ NextAttempt(c)
    /\ UNCHANGED <<cmd, due, delivered, desired, held, cache, epoch, reply>>

\* 401 or 403 drops whatever token is cached by now, and the loop goes on.
PublishUnauthorized(c) ==
    /\ pc[c] = "publish"
    /\ held[c] # epoch
    /\ cache' = NoToken
    /\ NextAttempt(c)
    /\ UNCHANGED <<cmd, due, delivered, desired, held, epoch, reply>>

PublishRefused(c) ==
    /\ "refuse" \in Faults
    /\ pc[c] = "publish"
    /\ NextAttempt(c)
    /\ UNCHANGED <<cmd, due, delivered, desired, held, cache, epoch, reply>>

\* Mutated: a rejected fetch passes for a publication.
PublishThrowsOn(c) ==
    /\ "throw" \in Faults
    /\ pc[c] = "publish"
    /\ Goto(c, "confirm")
    /\ UNCHANGED <<cmd, due, delivered, desired, attempts, held, cache, epoch, reply>>

\* fetch itself rejects: the broker may have accepted the message all the same.
PublishThrows(c) ==
    /\ "throw" \in Faults
    /\ pc[c] = "publish"
    /\ \/ delivered' = delivered
       \/ held[c] = epoch /\ delivered' = delivered \cup {c}
    /\ Goto(c, "failed")
    /\ UNCHANGED <<cmd, due, desired, attempts, held, cache, epoch, reply>>

\* update, not updateMany: the status found there is overwritten.
MarkFailed(c) ==
    /\ pc[c] = "failed"
    /\ cmd' = [cmd EXCEPT ![c] = "failed"]
    /\ Goto(c, "done")
    /\ UNCHANGED <<due, delivered, desired, attempts, held, cache, epoch, reply>>

\* Mutated: the confirmation does not look at the status.
ConfirmAlways(c) ==
    /\ pc[c] = "confirm"
    /\ cmd' = [cmd EXCEPT ![c] = "success"]
    /\ Goto(c, IF c \in PropertySets THEN "desired" ELSE "done")
    /\ UNCHANGED <<due, delivered, desired, attempts, held, cache, epoch, reply>>

\* Mutated: the command is marked sent, to await the device's reply.
ConfirmSent(c) ==
    /\ pc[c] = "confirm"
    /\ cmd' = [cmd EXCEPT ![c] = "sent"]
    /\ Goto(c, IF c \in PropertySets THEN "desired" ELSE "done")
    /\ UNCHANGED <<due, delivered, desired, attempts, held, cache, epoch, reply>>

Confirm(c) ==
    /\ pc[c] = "confirm"
    /\ cmd' = [cmd EXCEPT ![c] = IF @ = "pending" THEN "success" ELSE @]
    /\ Goto(c, IF c \in PropertySets THEN "desired" ELSE "done")
    /\ UNCHANGED <<due, delivered, desired, attempts, held, cache, epoch, reply>>

WriteDesired(c) ==
    /\ pc[c] = "desired"
    /\ desired' = c
    /\ Goto(c, "done")
    /\ UNCHANGED <<cmd, due, delivered, attempts, held, cache, epoch, reply>>

-----------------------------------------------------------------------------
(* Expiry: the worker every five seconds, and each listing or reading of   *)
(* commands before it reads.                                               *)

\* Mutated: only commands that were sent are expired.
OverdueSent == {c \in due : cmd[c] \in Open \ {"pending"}}

Overdue == {c \in due : cmd[c] \in Open}

ExpireTimedOut ==
    /\ Overdue # {}
    /\ cmd' = [c \in Commands |-> IF c \in Overdue THEN "timeout" ELSE cmd[c]]
    /\ UNCHANGED <<due, delivered, desired, request, cache, epoch, reply>>

TimeoutPasses(c) ==
    /\ cmd[c] # "none"
    /\ c \notin due
    /\ due' = due \cup {c}
    /\ UNCHANGED <<cmd, delivered, desired, request, cache, epoch, reply>>

-----------------------------------------------------------------------------
(* Replies: read the row, and unless its status is final, write it.        *)

ReplyRead(r) ==
    /\ reply[r] = NoCommand
    /\ \E m \in Reply :
         /\ m.cmd \in delivered
         /\ cmd[m.cmd] \notin Final
         /\ reply' = [reply EXCEPT ![r] = m]
    /\ UNCHANGED <<cmd, due, delivered, desired, request, cache, epoch>>

ReplyWrite(r) ==
    /\ reply[r] # NoCommand
    /\ cmd' = [cmd EXCEPT ![reply[r].cmd] =
                 IF reply[r].ok THEN "success" ELSE "failed"]
    /\ reply' = [reply EXCEPT ![r] = NoCommand]
    /\ UNCHANGED <<due, delivered, desired, request, cache, epoch>>

-----------------------------------------------------------------------------
(* The broker and the web process.                                         *)

BrokerRestarts ==
    /\ epoch < MaxEpoch
    /\ epoch' = epoch + 1
    /\ UNCHANGED <<cmd, due, delivered, desired, request, cache, reply>>

\* Ten minutes after the login the cached token is not used any more.
TokenExpires ==
    /\ cache # NoToken
    /\ cache' = NoToken
    /\ UNCHANGED <<cmd, due, delivered, desired, request, epoch, reply>>

Running(c) == pc[c] \notin {"idle", "done", "dead"}

\* All requests and the token cache live in the one web process.
CrashWeb ==
    /\ "crash" \in Faults
    /\ (\E c \in Commands : Running(c)) \/ (\E r \in Repliers : reply[r] # NoCommand)
    /\ pc' = [c \in Commands |-> IF Running(c) THEN "dead" ELSE pc[c]]
    /\ reply' = [r \in Repliers |-> NoCommand]
    /\ cache' = NoToken
    /\ UNCHANGED <<cmd, due, delivered, desired, attempts, held, epoch>>

\* Every request has ended and every command has a final status.
AtRest ==
    /\ \A c \in Commands : pc[c] \in {"done", "dead"} /\ cmd[c] \in Final
    /\ \A r \in Repliers : reply[r] = NoCommand
    /\ UNCHANGED vars

-----------------------------------------------------------------------------
Publish(c) ==
    \/ UseCachedToken(c) \/ Login(c) \/ CacheToken(c) \/ LoginFails(c)
    \/ PublishAccepted(c) \/ PublishUnauthorized(c)
    \/ PublishRefused(c) \/ PublishThrows(c)
Conclude(c) == MarkFailed(c) \/ Confirm(c) \/ WriteDesired(c)

Next ==
    \/ \E c \in Commands : \/ CreateCommand(c)
                           \/ Publish(c)
                           \/ Conclude(c)
                           \/ TimeoutPasses(c)
    \/ \E r \in Repliers : ReplyRead(r) \/ ReplyWrite(r)
    \/ ExpireTimedOut
    \/ BrokerRestarts
    \/ TokenExpires
    \/ CrashWeb
    \/ AtRest

Spec == Init /\ [][Next]_vars

\* Deadlines pass and the worker's timer keeps firing.  Nothing is assumed of
\* the requests, the broker and the device.
FairSpec ==
    /\ Spec
    /\ WF_vars(ExpireTimedOut)
    /\ \A c \in Commands : WF_vars(TimeoutPasses(c))

-----------------------------------------------------------------------------
(* Safety.                                                                 *)

\* Neither a success nor a desired state is recorded for a command the broker
\* did not accept: not by the confirmation, nor by a reply, nor after retries.
NothingClaimedUndelivered ==
    /\ \A c \in Commands : cmd[c] = "success" => c \in delivered
    /\ desired # NoCommand => desired \in delivered

\* The confirmation and the expiry respect a final status; only a reply that
\* read the command before, or its own failed publication, overwrites one.
FinalOverwrittenOnlyBy ==
    [][\A c \in Commands :
         cmd[c] \in Final /\ cmd'[c] # cmd[c] =>
           \/ pc[c] = "failed" /\ pc'[c] = "done"
           \/ \E r \in Repliers : reply[r] # NoCommand /\ reply[r].cmd = c
                                  /\ reply'[r] = NoCommand]_vars

\* A stale token is dropped and the loop logs in anew: unless the broker refuses
\* publications for other reasons, an attempt is lost at most once per restart and
\* request whose token the restart made stale, so that three attempts outlast one
\* restart when two requests share the cache.
StaleTokenIsReplaced ==
    "refuse" \notin Faults =>
      \A c \in Commands : attempts[c] <= (epoch - 1) * Cardinality(Commands)

-----------------------------------------------------------------------------
(* What the control service promises, implemented.                         *)

RowsWith(S) == {c \in Commands : cmd[c] \in S}

Contract == INSTANCE CommandContract
              WITH submitted <- RowsWith(CommandStatus),
                   closed <- RowsWith(Final),
                   succeeded <- RowsWith({"success"}),
                   accepted <- delivered

\* Every step of the control service is a step of the contract.
ImplementsContract == Contract!Spec

\* Every command gets a final status, even if its web process dies.
EveryCommandCloses == Contract!EveryCommandCloses
=============================================================================
