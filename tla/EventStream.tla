---------------------------- MODULE EventStream ----------------------------
(***************************************************************************)
(* The event streams of the app, app/api/v1/app/events/stream/route.ts on  *)
(* lib/events/device-events.ts, over the bindings of Bindings: a stream    *)
(* passes on the events of the devices its user was bound to when the      *)
(* bindings were last loaded, at the start and every minute after.         *)
(***************************************************************************)
EXTENDS Bindings

CONSTANTS
    Streams,  \* connections
    UserOf    \* the user of each

ASSUME StreamsAssumption == UserOf \in [Streams -> Users]

VARIABLES
    phase,      \* of each connection
    wire,       \* connections whose client is there
    aborted,    \* connections whose request has been aborted
    closed,     \* `closed`
    listening,  \* streams on the event bus
    timers,     \* streams whose two intervals run
    filter,     \* deviceIds
    load,       \* what each load of the bindings has come to
    leaked      \* history: streams that lost their clean-up

streamVars == <<phase, wire, aborted, closed, listening, timers, filter, load, leaked>>
eventVars == <<bindingVars, streamVars>>

-----------------------------------------------------------------------------
\* The first load, and a reload.  Bound: a stream has one reload at a time.
Kind == {"first", "reload"}

\* Nothing asked, asked, or read: the devices, still to be taken over.
Idle == [state |-> "idle", devices |-> {}]
Asked == [state |-> "asked", devices |-> {}]
Read(devices) == [state |-> "read", devices |-> devices]

StreamsTypeOK ==
    /\ BindingsTypeOK
    /\ phase \in [Streams -> {"none", "checking", "open"}]
    /\ wire \subseteq Streams /\ aborted \subseteq Streams
    /\ closed \subseteq Streams /\ listening \subseteq Streams
    /\ timers \subseteq Streams
    /\ filter \in [Streams -> SUBSET Devices]
    /\ load \in [Streams -> [Kind -> [state : {"idle", "asked", "read"},
                                      devices : SUBSET Devices]]]
    /\ leaked \subseteq Streams
    /\ listening = timers
    /\ closed \cup timers \subseteq {s \in Streams : phase[s] = "open"}

StreamsInit ==
    /\ BindingsInit
    /\ phase = [s \in Streams |-> "none"]
    /\ wire = {} /\ aborted = {} /\ closed = {} /\ listening = {} /\ timers = {}
    /\ filter = [s \in Streams |-> {}]
    /\ load = [s \in Streams |-> [k \in Kind |-> Idle]]
    /\ leaked = {}

BoundTo(s) == {d \in Devices : <<UserOf[s], d>> \in bound}

-----------------------------------------------------------------------------
(* A connection's beginning and end.                                       *)

Connect(s) ==
    /\ phase[s] = "none"
    /\ phase' = [phase EXCEPT ![s] = "checking"]
    /\ wire' = wire \cup {s}
    /\ UNCHANGED <<bindingVars, aborted, closed, listening, timers, filter, load, leaked>>

\* start(controller).  The abort of a request is announced once: a client that
\* has gone while getAppUser was awaited is not cleaned up after.
StartStream(s) ==
    /\ phase[s] = "checking"
    /\ phase' = [phase EXCEPT ![s] = "open"]
    /\ listening' = listening \cup {s}
    /\ timers' = timers \cup {s}
    /\ load' = [load EXCEPT ![s]["first"] = Asked]
    /\ leaked' = IF s \in aborted THEN leaked \cup {s} ELSE leaked
    /\ UNCHANGED <<bindingVars, wire, aborted, closed, filter>>

\* The client leaves; from here on enqueue throws.
Hangup(s) ==
    /\ s \in wire
    /\ wire' = wire \ {s}
    /\ UNCHANGED <<bindingVars, phase, aborted, closed, listening, timers,
                   filter, load, leaked>>

\* Mutated: the listener stays on the bus.
CleanUpHalf(s) ==
    IF phase[s] # "open" \/ s \in closed
    THEN UNCHANGED <<closed, timers, listening>>
    ELSE /\ closed' = closed \cup {s}
         /\ timers' = timers \ {s}
         /\ listening' = listening

CleanUp(s) ==
    IF phase[s] # "open" \/ s \in closed
    THEN UNCHANGED <<closed, timers, listening>>
    ELSE /\ closed' = closed \cup {s}
         /\ timers' = timers \ {s}
         /\ listening' = listening \ {s}

AbortRequest(s) ==
    /\ phase[s] # "none"
    /\ s \notin wire \cup aborted
    /\ aborted' = aborted \cup {s}
    /\ CleanUp(s)
    /\ UNCHANGED <<bindingVars, phase, wire, filter, load, leaked>>

-----------------------------------------------------------------------------
(* Writing.                                                                *)

\* A write that fails closes the stream, and the clean-up does nothing then.
Write(s) ==
    IF s \in closed \/ s \in wire
    THEN UNCHANGED <<closed, leaked>>
    ELSE closed' = closed \cup {s} /\ leaked' = leaked \cup {s}

Heartbeat(s) ==
    /\ s \in timers
    /\ Write(s)
    /\ UNCHANGED <<bindingVars, phase, wire, aborted, listening, timers, filter, load>>

PassOn(s, d) ==
    /\ s \in listening
    /\ d \in filter[s]
    /\ Write(s)
    /\ UNCHANGED <<bindingVars, phase, wire, aborted, listening, timers, filter, load>>

-----------------------------------------------------------------------------
(* Loading the bindings.                                                   *)

ReloadTick(s) ==
    /\ s \in timers
    /\ load[s]["reload"] = Idle
    /\ load' = [load EXCEPT ![s]["reload"] = Asked]
    /\ UNCHANGED <<bindingVars, phase, wire, aborted, closed, listening, timers,
                   filter, leaked>>

ReadBindings(s, k) ==
    /\ load[s][k] = Asked
    /\ load' = [load EXCEPT ![s][k] = Read(BoundTo(s))]
    /\ UNCHANGED <<bindingVars, phase, wire, aborted, closed, listening, timers,
                   filter, leaked>>

\* Mutated: a reload only adds devices.
TakeOverAdding(s, k) ==
    /\ load[s][k].state = "read"
    /\ filter' = [filter EXCEPT ![s] = @ \cup load[s][k].devices]
    /\ load' = [load EXCEPT ![s][k] = Idle]
    /\ IF k = "first" THEN Write(s) ELSE UNCHANGED <<closed, leaked>>
    /\ UNCHANGED <<bindingVars, phase, wire, aborted, listening, timers>>

\* The first load writes "ready".
TakeOver(s, k) ==
    /\ load[s][k].state = "read"
    /\ filter' = [filter EXCEPT ![s] = load[s][k].devices]
    /\ load' = [load EXCEPT ![s][k] = Idle]
    /\ IF k = "first" THEN Write(s) ELSE UNCHANGED <<closed, leaked>>
    /\ UNCHANGED <<bindingVars, phase, wire, aborted, listening, timers>>

\* The first load writes "error".
LoadFails(s, k) ==
    /\ load[s][k] = Asked
    /\ load' = [load EXCEPT ![s][k] = Idle]
    /\ IF k = "first" THEN Write(s) ELSE UNCHANGED <<closed, leaked>>
    /\ UNCHANGED <<bindingVars, phase, wire, aborted, listening, timers, filter>>

-----------------------------------------------------------------------------
StreamNext(s) ==
    \/ Connect(s) \/ StartStream(s) \/ Hangup(s) \/ AbortRequest(s)
    \/ Heartbeat(s) \/ ReloadTick(s)
    \/ \E d \in Devices : PassOn(s, d)
    \/ \E k \in Kind : ReadBindings(s, k) \/ TakeOver(s, k) \/ LoadFails(s, k)

EventNext ==
    \/ BindingsNext /\ UNCHANGED streamVars
    \/ \E s \in Streams : StreamNext(s)

\* The interval ticks, the database answers, and not only with errors.
StreamFairness ==
    \A s \in Streams :
      /\ WF_eventVars(ReloadTick(s))
      /\ \A k \in Kind : /\ WF_eventVars(ReadBindings(s, k) \/ LoadFails(s, k))
                         /\ SF_eventVars(ReadBindings(s, k))
                         /\ WF_eventVars(TakeOver(s, k))

EventSpec == StreamsInit /\ [][EventNext]_eventVars /\ StreamFairness

-----------------------------------------------------------------------------
(* Safety and liveness.                                                    *)

\* Once its request was aborted, a stream is off the event bus and its timers
\* are stopped, unless a write had failed before, or the abort came before the
\* stream was started.
EndedStreamsLetGo ==
    \A s \in aborted \ leaked : s \notin listening \cup timers

\* Bindings that stay as they are reach the filter of an open stream, whatever
\* older answer was still on its way.
FilterCatchesUp ==
    \A s \in Streams : \A devices \in SUBSET Devices :
      <>[](s \in timers /\ BoundTo(s) = devices) => <>[](filter[s] = devices)
=============================================================================
