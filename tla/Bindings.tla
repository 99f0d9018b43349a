------------------------------ MODULE Bindings ------------------------------
(***************************************************************************)
(* Binding codes of devices and the bindings of app users to them:         *)
(* features/devices/binding-service.ts, the route that binds with the      *)
(* limiter of lib/rate-limit.ts in front, and the check that admits the    *)
(* commands of an app.  A code is generated at its first view; a label     *)
(* with it is printed and scanned by any number of users until the code is *)
(* rotated.                                                                *)
(***************************************************************************)
EXTENDS Naturals

CONSTANTS
    Users,     \* app users
    Devices,
    Codes,     \* codes that may be generated
    NoCode,    \* of a device whose code nobody has viewed, or a request
    Requests,  \* requests that may be served together
    NoOne,     \* no user, no device
    Limit      \* bindings a user may try in a window

ASSUME BindingsAssumption ==
    /\ NoCode \notin Codes
    /\ NoOne \notin Users \cup Devices
    /\ Limit \in Nat \ {0}

VARIABLES
    status, code,   \* of each device
    bound,          \* active bindings
    count,          \* the limiter's counter of each user
    expiring,       \* users whose counter has an expiry
    pc,             \* next statement of each request
    user, dev,      \* whom and what each request is about
    scanned,        \* the code each request carries
    shown,          \* history: codes that have been answered to the console
    retired,        \* history: codes that were rotated away
    lost,           \* history: codes that a crossed first view replaced
    crossed,        \* history: requests overtaken by a change of what they read
    jammed          \* history: users whose counter missed its expiry

deviceVars == <<status, code, bound>>
limiter == <<count, expiring>>
request == <<pc, user, dev, scanned>>
codeHistory == <<shown, retired, lost>>
bindingVars == <<deviceVars, limiter, request, codeHistory, crossed, jammed>>

-----------------------------------------------------------------------------
Status == {"active", "disabled", "deleted"}

ConsolePc == {"view", "generate", "findDevice", "rotate"}
ScanPc == {"incr", "expire", "findCode", "upsert"}
AppPc == {"findBinding", "unbind", "findForCommand", "command"}

BindingsTypeOK ==
    /\ status \in [Devices -> Status]
    /\ code \in [Devices -> Codes \cup {NoCode}]
    /\ bound \subseteq Users \X Devices
    /\ count \in [Users -> 0 .. Limit + 1]
    /\ expiring \subseteq Users
    /\ pc \in [Requests -> ConsolePc \cup ScanPc \cup AppPc \cup {"idle"}]
    /\ user \in [Requests -> Users \cup {NoOne}]
    /\ dev \in [Requests -> Devices \cup {NoOne}]
    /\ scanned \in [Requests -> Codes \cup {NoCode}]
    /\ \A r \in Requests : /\ pc[r] \in ScanPc \cup AppPc => user[r] \in Users
                           /\ pc[r] \in ConsolePc \cup AppPc \cup {"upsert"}
                                => dev[r] \in Devices
                           /\ pc[r] \in {"idle"} \cup ConsolePc => user[r] = NoOne
                           /\ pc[r] = "idle" => dev[r] = NoOne /\ scanned[r] = NoCode
    /\ shown \subseteq Codes /\ retired \subseteq Codes /\ lost \subseteq Codes
    /\ crossed \subseteq Requests
    /\ jammed \subseteq Users

BindingsInit ==
    /\ status = [d \in Devices |-> "active"]
    /\ code = [d \in Devices |-> NoCode]
    /\ bound = {}
    /\ count = [u \in Users |-> 0]
    /\ expiring = {}
    /\ pc = [r \in Requests |-> "idle"]
    /\ user = [r \in Requests |-> NoOne]
    /\ dev = [r \in Requests |-> NoOne]
    /\ scanned = [r \in Requests |-> NoCode]
    /\ shown = {} /\ retired = {} /\ lost = {}
    /\ crossed = {}
    /\ jammed = {}

-----------------------------------------------------------------------------
(* A request's course.                                                     *)

Begin(r, label, u, d, c) ==
    /\ pc[r] = "idle"
    /\ pc' = [pc EXCEPT ![r] = label]
    /\ user' = [user EXCEPT ![r] = u]
    /\ dev' = [dev EXCEPT ![r] = d]
    /\ scanned' = [scanned EXCEPT ![r] = c]
    /\ UNCHANGED <<deviceVars, limiter, codeHistory, crossed, jammed>>

BeginConsole(r) ==
    \E label \in {"view", "findDevice"}, d \in Devices :
      Begin(r, label, NoOne, d, NoCode)

BeginScan(r) == \E u \in Users, c \in shown : Begin(r, "incr", u, NoOne, c)

BeginApp(r) ==
    \E label \in {"findBinding", "findForCommand"}, u \in Users, d \in Devices :
      Begin(r, label, u, d, NoCode)

Goto(r, label) ==
    /\ pc' = [pc EXCEPT ![r] = label]
    /\ UNCHANGED <<user, dev, scanned>>

\* Mutated: a request that has ended is still about its device.
EndHolding(r) ==
    /\ pc' = [pc EXCEPT ![r] = "idle"]
    /\ user' = [user EXCEPT ![r] = NoOne]
    /\ scanned' = [scanned EXCEPT ![r] = NoCode]
    /\ dev' = dev

End(r) ==
    /\ pc' = [pc EXCEPT ![r] = "idle"]
    /\ user' = [user EXCEPT ![r] = NoOne]
    /\ dev' = [dev EXCEPT ![r] = NoOne]
    /\ scanned' = [scanned EXCEPT ![r] = NoCode]

\* A statement throws, or the process dies.
Abort(r) ==
    /\ pc[r] # "idle"
    /\ End(r)
    /\ crossed' = crossed \ {r}
    /\ jammed' = IF pc[r] = "expire" THEN jammed \cup {user[r]} ELSE jammed
    /\ UNCHANGED <<deviceVars, limiter, codeHistory>>

\* The requests, but r, that have read what a change of d makes out of date.
Overtaken(r, d) ==
    {q \in Requests \ {r} : pc[q] \in {"generate", "upsert"} /\ dev[q] = d}

-----------------------------------------------------------------------------
(* The console: getDeviceBindingCode and rotateDeviceBindingCode.          *)

\* Mutated: every view generates a code.
ViewCodeAnew(r) ==
    /\ pc[r] = "view"
    /\ IF status[dev[r]] = "deleted" THEN End(r) ELSE Goto(r, "generate")
    /\ UNCHANGED <<deviceVars, limiter, codeHistory, crossed, jammed>>

ViewCode(r) ==
    /\ pc[r] = "view"
    /\ \/ status[dev[r]] = "deleted" /\ End(r) /\ UNCHANGED shown
       \/ /\ status[dev[r]] # "deleted" /\ code[dev[r]] # NoCode
          /\ shown' = shown \cup {code[dev[r]]}
          /\ End(r)
       \/ /\ status[dev[r]] # "deleted" /\ code[dev[r]] = NoCode
          /\ Goto(r, "generate")
          /\ UNCHANGED shown
    /\ UNCHANGED <<deviceVars, limiter, retired, lost, crossed, jammed>>

Unused(c) == c \notin shown \cup retired \cup lost /\ \A d \in Devices : code[d] # c

NewCode(r) ==
    /\ \E c \in Codes : /\ Unused(c)
                        /\ code' = [code EXCEPT ![dev[r]] = c]
                        /\ shown' = shown \cup {c}
    /\ crossed' = (crossed \cup Overtaken(r, dev[r])) \ {r}
    /\ End(r)
    /\ UNCHANGED <<status, bound, limiter, jammed>>

\* The update does not check that there still is no code.
GenerateCode(r) ==
    /\ pc[r] = "generate"
    /\ lost' = IF r \in crossed THEN lost \cup ({code[dev[r]]} \ {NoCode}) ELSE lost
    /\ NewCode(r)
    /\ UNCHANGED retired

FindDevice(r) ==
    /\ pc[r] = "findDevice"
    /\ IF status[dev[r]] = "deleted" THEN End(r) ELSE Goto(r, "rotate")
    /\ UNCHANGED <<deviceVars, limiter, codeHistory, crossed, jammed>>

RotateCode(r) ==
    /\ pc[r] = "rotate"
    /\ retired' = retired \cup ({code[dev[r]]} \ {NoCode})
    /\ NewCode(r)
    /\ UNCHANGED lost

-----------------------------------------------------------------------------
(* The app: the limiter, and bindDeviceByCode.                             *)

\* Refused above the limit.  Counts beyond make no difference.
CountRequest(r) ==
    /\ pc[r] = "incr"
    /\ count' = [count EXCEPT ![user[r]] = IF @ > Limit THEN @ ELSE @ + 1]
    /\ \/ count[user[r]] = 0 /\ Goto(r, "expire")
       \/ count[user[r]] \in 1 .. Limit - 1 /\ Goto(r, "findCode")
       \/ count[user[r]] >= Limit /\ End(r)
    /\ UNCHANGED <<deviceVars, expiring, codeHistory, crossed, jammed>>

\* Mutated: the expiry is forgotten.
SetExpiryNever(r) ==
    /\ pc[r] = "expire"
    /\ Goto(r, "findCode")
    /\ UNCHANGED <<deviceVars, limiter, codeHistory, crossed, jammed>>

SetExpiry(r) ==
    /\ pc[r] = "expire"
    /\ expiring' = expiring \cup {user[r]}
    /\ Goto(r, "findCode")
    /\ UNCHANGED <<deviceVars, count, codeHistory, crossed, jammed>>

\* Without Redis everyone is let through.  A command that seems to fail may
\* have been executed.
LimiterFails(r) ==
    /\ \/ pc[r] = "incr" /\ UNCHANGED <<limiter, jammed>>
       \/ /\ pc[r] = "incr"
          /\ count' = [count EXCEPT ![user[r]] = IF @ > Limit THEN @ ELSE @ + 1]
          /\ jammed' = IF count[user[r]] = 0 THEN jammed \cup {user[r]} ELSE jammed
          /\ UNCHANGED expiring
       \/ /\ pc[r] = "expire"
          /\ expiring' \in {expiring, expiring \cup {user[r]}}
          /\ jammed' = jammed \cup {user[r]}
          /\ UNCHANGED count
    /\ Goto(r, "findCode")
    /\ UNCHANGED <<deviceVars, codeHistory, crossed>>

WindowEnds(u) ==
    /\ u \in expiring
    /\ count' = [count EXCEPT ![u] = 0]
    /\ expiring' = expiring \ {u}
    /\ UNCHANGED <<deviceVars, request, codeHistory, crossed, jammed>>

\* Mutated: disabled devices may be bound, too.
FindCodeAny(r) ==
    /\ pc[r] = "findCode"
    /\ \/ \E d \in Devices : /\ code[d] = scanned[r] /\ status[d] # "deleted"
                             /\ pc' = [pc EXCEPT ![r] = "upsert"]
                             /\ dev' = [dev EXCEPT ![r] = d]
                             /\ UNCHANGED <<user, scanned>>
       \/ (\A d \in Devices : code[d] # scanned[r] \/ status[d] = "deleted") /\ End(r)
    /\ UNCHANGED <<deviceVars, limiter, codeHistory, crossed, jammed>>

FindCode(r) ==
    /\ pc[r] = "findCode"
    /\ \/ \E d \in Devices : /\ code[d] = scanned[r] /\ status[d] = "active"
                             /\ pc' = [pc EXCEPT ![r] = "upsert"]
                             /\ dev' = [dev EXCEPT ![r] = d]
                             /\ UNCHANGED <<user, scanned>>
       \/ (\A d \in Devices : code[d] # scanned[r] \/ status[d] # "active") /\ End(r)
    /\ UNCHANGED <<deviceVars, limiter, codeHistory, crossed, jammed>>

UpsertBinding(r) ==
    /\ pc[r] = "upsert"
    /\ bound' = bound \cup {<<user[r], dev[r]>>}
    /\ crossed' = crossed \ {r}
    /\ End(r)
    /\ UNCHANGED <<status, code, limiter, codeHistory, jammed>>

-----------------------------------------------------------------------------
(* The app: getActiveBinding, unbindAppDevice and the command route.       *)

Bound(r) == <<user[r], dev[r]>> \in bound /\ status[dev[r]] # "deleted"

\* Mutated: a command needs no binding.
FindBindingOnlyToUnbind(r) ==
    /\ \/ pc[r] = "findBinding" /\ IF Bound(r) THEN Goto(r, "unbind") ELSE End(r)
       \/ pc[r] = "findForCommand" /\ Goto(r, "command")
    /\ UNCHANGED <<deviceVars, limiter, codeHistory, crossed, jammed>>

FindBinding(r) ==
    /\ \/ pc[r] = "findBinding" /\ IF Bound(r) THEN Goto(r, "unbind") ELSE End(r)
       \/ pc[r] = "findForCommand" /\ IF Bound(r) THEN Goto(r, "command") ELSE End(r)
    /\ UNCHANGED <<deviceVars, limiter, codeHistory, crossed, jammed>>

Unbind(r) ==
    /\ pc[r] = "unbind"
    /\ bound' = bound \ {<<user[r], dev[r]>>}
    /\ crossed' = crossed \cup {q \in Requests : /\ pc[q] = "command"
                                                 /\ user[q] = user[r] /\ dev[q] = dev[r]}
    /\ End(r)
    /\ UNCHANGED <<status, code, limiter, codeHistory, jammed>>

\* createDeviceCommand finds the device again and publishes; see Command.
SendCommand(r) ==
    /\ pc[r] = "command"
    /\ status[dev[r]] # "deleted"
    /\ crossed' = crossed \ {r}
    /\ End(r)
    /\ UNCHANGED <<deviceVars, limiter, codeHistory, jammed>>

-----------------------------------------------------------------------------
\* updateDevice and deleteDevice, of which Catalog has the rest.
ChangeStatus(d) ==
    /\ status[d] # "deleted"
    /\ \E s \in Status \ {status[d]} : status' = [status EXCEPT ![d] = s]
    /\ crossed' = crossed \cup {q \in Requests : pc[q] = "upsert" /\ dev[q] = d}
    /\ UNCHANGED <<code, bound, limiter, request, codeHistory, jammed>>

ServeConsole(r) == ViewCode(r) \/ GenerateCode(r) \/ FindDevice(r) \/ RotateCode(r)
ServeScan(r) == \/ CountRequest(r) \/ SetExpiry(r) \/ LimiterFails(r)
                \/ FindCode(r) \/ UpsertBinding(r)
ServeApp(r) == FindBinding(r) \/ Unbind(r) \/ SendCommand(r)

BindingsNext ==
    \/ \E r \in Requests : \/ BeginConsole(r) \/ BeginScan(r) \/ BeginApp(r)
                           \/ ServeConsole(r) \/ ServeScan(r) \/ ServeApp(r)
                           \/ Abort(r)
    \/ \E u \in Users : WindowEnds(u)
    \/ \E d \in Devices : ChangeStatus(d)

BindingsSpec == BindingsInit /\ [][BindingsNext]_bindingVars

-----------------------------------------------------------------------------
(* Safety.                                                                 *)

\* A code that has been shown can be printed: it stays the code of its device
\* until it is rotated away, unless a view that had found no code replaced it.
ShownCodesHold ==
    \A c \in shown : c \in retired \/ c \in lost \/ \E d \in Devices : code[d] = c

\* A user comes to be bound by the current code of an enabled device, or by a
\* request that had found the device before the code or the status changed.
BoundByCurrentCode ==
    [][\A u \in Users, d \in Devices :
         <<u, d>> \in bound' \ bound =>
           \E r \in Requests :
             /\ pc[r] = "upsert" /\ user[r] = u /\ dev[r] = d
             /\ r \in crossed \/ (code[d] = scanned[r] /\ status[d] = "active")]_bindingVars

\* A command is sent for a user who is bound to the device, or whose binding
\* ended after the request had found it.
CommandsComeFromBound ==
    [][\A r \in Requests :
         SendCommand(r) => r \in crossed \/ <<user[r], dev[r]>> \in bound]_bindingVars

\* A counter goes back to zero, unless its first request failed or died before
\* the expiry was set: nobody else is refused for good.
CountersExpire ==
    \A u \in Users : count[u] > 0 =>
      \/ u \in expiring \/ u \in jammed
      \/ \E r \in Requests : pc[r] = "expire" /\ user[r] = u
=============================================================================
