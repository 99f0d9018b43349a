--------------------------- MODULE DeviceIngress ---------------------------
(***************************************************************************)
(* What one device's connections and reports make of its row and shadow:   *)
(* the EMQX webhook (app/api/internal/emqx/webhook/route.ts), the BullMQ   *)
(* queue it puts reports on, the workers that take them off, and the       *)
(* direct path when the queue fails (features/ingress/mqtt and             *)
(* worker/src/telemetry).                                                  *)
(*                                                                         *)
(* A handler reads the device row, reads and writes the shadow, writes the *)
(* device row, and publishes events in between, with an await at each; no  *)
(* statement looks whether the row changed since it was read.              *)
(***************************************************************************)
EXTENDS Naturals, FiniteSets, Sequences

CONSTANTS
    Keys,         \* properties of the device
    Reports,      \* property, event and log posts that may arrive
    Lifecycle,    \* webhook requests that handle connection events together
    Direct,       \* webhook requests that handle a report themselves
    Workers,      \* TELEMETRY_WORKER_CONCURRENCY jobs run together
    Nothing,      \* neither a report nor a notice
    MaxSessions,  \* bound on the device's connections
    MaxDesired,   \* bound on the writes of desired
    JobAttempts,  \* attempts a job is given
    Faults        \* which disturbances may happen

Requests == Lifecycle \cup Direct
Processes == Requests \cup Workers

\* The connection webhooks EMQX sends, by the status they bring.
Notice == [status: {"online", "offline"}, session: 1 .. MaxSessions]

ASSUME IngressAssumption ==
    /\ Lifecycle \cap Direct = {} /\ Requests \cap Workers = {}
    /\ Nothing \notin Reports \cup Notice
    /\ Reports \cap Notice = {}
    /\ MaxSessions \in Nat \ {0} /\ MaxDesired \in Nat /\ JobAttempts \in Nat \ {0}
    /\ Faults \subseteq {"redis", "job", "request", "notice"}

VARIABLES
    connected,  \* the device has an MQTT session
    sessions,   \* sessions it has had
    notices,    \* connection webhooks the broker has still to send
    online,     \* devices.online_status
    pushed,     \* status the last device.status.changed event told
    reported,   \* the report each key of the shadow's reported stems from
    desired,    \* number of the write the shadow's desired stems from
    version,    \* version of the shadow
    shown,      \* what the last device.shadow.updated event told
    patch,      \* keys each report carries: none for an event or a log
    arrived,    \* reports the webhook has received
    queue,      \* jobs waiting
    delayed,    \* jobs that wait for their backoff
    tries,      \* failed attempts of each report's job
    applied,    \* reports a handler has worked off
    dropped,    \* reports given up
    pc,         \* next statement of each process
    work,       \* the report or notice it handles
    status,     \* online_status it has read
    seen        \* shadow it has read, later the row its update returned

session == <<connected, sessions, notices>>
shadow == <<reported, desired, version>>
events == <<pushed, shown>>
jobs == <<queue, delayed, tries>>
fate == <<patch, arrived, applied, dropped>>
local == <<pc, work, status, seen>>
vars == <<session, online, shadow, events, jobs, fate, local>>

-----------------------------------------------------------------------------
OnlineStatus == {"unknown", "online", "offline"}

PcNotice == {"session_write", "session_event"}
PcReport == {"read", "shadow_read", "shadow_write", "shadow_event",
             "device_write", "status_event"}
Pc == {"idle", "log"} \cup PcNotice \cup PcReport

Shadow == [reported: [Keys -> Reports \cup {Nothing}], desired: Nat, version: Nat]
EmptyShadow == [reported |-> [k \in Keys |-> Nothing], desired |-> 0, version |-> 0]

TypeOK ==
    /\ connected \in BOOLEAN
    /\ sessions \in 0 .. MaxSessions
    /\ notices \in Seq(Notice)
    /\ online \in OnlineStatus
    /\ pushed \in OnlineStatus
    /\ reported \in [Keys -> Reports \cup {Nothing}]
    /\ desired \in 0 .. MaxDesired
    /\ version \in Nat
    /\ shown \in [reported: [Keys -> Reports \cup {Nothing}], version: Nat]
    /\ patch \in [Reports -> SUBSET Keys]
    /\ arrived \subseteq Reports
    /\ queue \in Seq(Reports)
    /\ delayed \subseteq Reports
    /\ tries \in [Reports -> 0 .. JobAttempts]
    /\ applied \subseteq Reports
    /\ dropped \subseteq Reports
    /\ pc \in [Processes -> Pc]
    /\ work \in [Processes -> Reports \cup Notice \cup {Nothing}]
    /\ status \in [Processes -> OnlineStatus]
    /\ seen \in [Processes -> Shadow]

Init ==
    /\ connected = FALSE /\ sessions = 0 /\ notices = <<>>
    /\ online = "unknown" /\ pushed = "unknown"
    /\ reported = EmptyShadow.reported /\ desired = 0 /\ version = 0
    /\ shown = [reported |-> reported, version |-> 0]
    /\ patch = [n \in Reports |-> {}]
    /\ arrived = {} /\ applied = {} /\ dropped = {}
    /\ queue = <<>> /\ delayed = {} /\ tries = [n \in Reports |-> 0]
    /\ pc = [p \in Processes |-> "idle"]
    /\ work = [p \in Processes |-> Nothing]
    /\ status = [p \in Processes |-> "unknown"]
    /\ seen = [p \in Processes |-> EmptyShadow]

Goto(p, label) == pc' = [pc EXCEPT ![p] = label]

\* Begin work, and end it: nothing read is kept.
Take(p, w, label) ==
    /\ pc[p] = "idle"
    /\ work' = [work EXCEPT ![p] = w]
    /\ Goto(p, label)
    /\ UNCHANGED <<status, seen>>

End(p) ==
    /\ Goto(p, "idle")
    /\ work' = [work EXCEPT ![p] = Nothing]
    /\ status' = [status EXCEPT ![p] = "unknown"]
    /\ seen' = [seen EXCEPT ![p] = EmptyShadow]

\* publishDeviceEvent swallows the error of a Redis that is away.
Push(tell, keep) == tell \/ ("redis" \in Faults /\ keep)

-----------------------------------------------------------------------------
(* The device and the broker.                                              *)

Started == [status |-> "online", session |-> sessions + 1]
Ended == [status |-> "offline", session |-> sessions]

Connect ==
    /\ ~connected
    /\ sessions < MaxSessions
    /\ connected' = TRUE
    /\ sessions' = sessions + 1
    /\ notices' = Append(notices, Started)
    /\ UNCHANGED <<online, shadow, events, jobs, fate, local>>

\* Also the end of the keepalive of a device that fell silent.
Disconnect ==
    /\ connected
    /\ connected' = FALSE
    /\ notices' = Append(notices, Ended)
    /\ UNCHANGED <<sessions, online, shadow, events, jobs, fate, local>>

\* A device that lost its connection unnoticed connects anew: two connection
\* processes of the broker send the end of the one session and the start of
\* the other, in either order.
Takeover ==
    /\ connected
    /\ sessions < MaxSessions
    /\ sessions' = sessions + 1
    /\ notices' \in {notices \o <<Ended, Started>>, notices \o <<Started, Ended>>}
    /\ UNCHANGED <<connected, online, shadow, events, jobs, fate, local>>

\* The web process is down when the webhook comes.
LoseNotice ==
    /\ "notice" \in Faults
    /\ notices # <<>>
    /\ notices' = Tail(notices)
    /\ UNCHANGED <<connected, sessions, online, shadow, events, jobs, fate, local>>

-----------------------------------------------------------------------------
(* recordMqttWebhookEvent.                                                 *)

NoticeRead(r) ==
    /\ notices # <<>>
    /\ notices' = Tail(notices)
    /\ pc[r] = "idle"
    /\ work' = [work EXCEPT ![r] = Head(notices)]
    /\ status' = [status EXCEPT ![r] = online]
    /\ Goto(r, "session_write")
    /\ UNCHANGED <<connected, sessions, online, shadow, events, jobs, fate, seen>>

SessionWrite(r) ==
    /\ pc[r] = "session_write"
    /\ online' = work[r].status
    /\ Goto(r, IF status[r] # work[r].status THEN "session_event" ELSE "log")
    /\ UNCHANGED <<session, shadow, events, jobs, fate, work, status, seen>>

SessionEvent(r) ==
    /\ pc[r] = "session_event"
    /\ Push(pushed' = work[r].status, UNCHANGED pushed)
    /\ Goto(r, "log")
    /\ UNCHANGED <<session, online, shadow, shown, jobs, fate, work, status, seen>>

-----------------------------------------------------------------------------
(* A report reaches the webhook, any time after the device published it.   *)

Arrive(n) ==
    /\ n \notin arrived
    /\ sessions > 0
    /\ arrived' = arrived \cup {n}
    /\ \E K \in SUBSET Keys : patch' = [patch EXCEPT ![n] = K]
    /\ UNCHANGED <<session, online, shadow, events, applied, dropped>>

Enqueue(n) ==
    /\ Arrive(n)
    /\ queue' = Append(queue, n)
    /\ UNCHANGED <<delayed, tries, local>>

\* Mutated: the request takes the report for queued.
EnqueueFailsQuiet(r, n) ==
    /\ "redis" \in Faults
    /\ Arrive(n)
    /\ queue' \in {queue, Append(queue, n)}
    /\ pc[r] = "idle"
    /\ UNCHANGED <<delayed, tries, local>>

\* add rejects, and the request handles the report itself; Redis may have
\* queued the job all the same.
EnqueueFails(r, n) ==
    /\ "redis" \in Faults
    /\ Arrive(n)
    /\ queue' \in {queue, Append(queue, n)}
    /\ Take(r, n, "read")
    /\ UNCHANGED <<delayed, tries>>

WorkerTake(w) ==
    /\ queue # <<>>
    /\ Take(w, Head(queue), "read")
    /\ queue' = Tail(queue)
    /\ UNCHANGED <<session, online, shadow, events, delayed, tries, fate>>

-----------------------------------------------------------------------------
(* processTelemetryReport in a worker, recordMqttReport in a request.      *)

ReadDevice(p) ==
    /\ pc[p] = "read"
    /\ status' = [status EXCEPT ![p] = online]
    /\ Goto(p, IF patch[work[p]] = {} THEN "device_write" ELSE "shadow_read")
    /\ UNCHANGED <<session, online, shadow, events, jobs, fate, work, seen>>

ShadowRead(p) ==
    /\ pc[p] = "shadow_read"
    /\ seen' = [seen EXCEPT ![p] = [reported |-> reported, desired |-> desired,
                                    version |-> version]]
    /\ Goto(p, "shadow_write")
    /\ UNCHANGED <<session, online, shadow, events, jobs, fate, work, status>>

\* The keys of the report, over those the shadow had.
mergeReportedShadow(current, n) ==
    [k \in Keys |-> IF k \in patch[n] THEN n ELSE current[k]]

AfterShadow(p) == IF p \in Requests THEN "shadow_event" ELSE "device_write"

\* Mutated: the merge's desired is written back along with reported.
ShadowWriteMerged(p) ==
    /\ pc[p] = "shadow_write"
    /\ reported' = mergeReportedShadow(seen[p].reported, work[p])
    /\ desired' = seen[p].desired
    /\ version' = version + 1
    /\ seen' = [seen EXCEPT ![p].reported = reported', ![p].version = version']
    /\ Goto(p, AfterShadow(p))
    /\ UNCHANGED <<session, online, events, jobs, fate, work, status>>

\* Mutated: the merge's version, one more than the one read, is written.
ShadowWriteVersion(p) ==
    /\ pc[p] = "shadow_write"
    /\ reported' = mergeReportedShadow(seen[p].reported, work[p])
    /\ version' = seen[p].version + 1
    /\ seen' = [seen EXCEPT ![p].reported = reported', ![p].version = version']
    /\ Goto(p, AfterShadow(p))
    /\ UNCHANGED <<session, online, desired, events, jobs, fate, work, status>>

ShadowWrite(p) ==
    /\ pc[p] = "shadow_write"
    /\ reported' = mergeReportedShadow(seen[p].reported, work[p])
    /\ version' = version + 1
    /\ seen' = [seen EXCEPT ![p].reported = reported', ![p].version = version']
    /\ Goto(p, AfterShadow(p))
    /\ UNCHANGED <<session, online, desired, events, jobs, fate, work, status>>

\* Mutated: the version is read when the event is sent.
ShadowEventLatest(p) ==
    /\ pc[p] = "shadow_event"
    /\ Push(shown' = [reported |-> seen[p].reported, version |-> version],
            UNCHANGED shown)
    /\ Goto(p, "device_write")
    /\ UNCHANGED <<session, online, shadow, pushed, jobs, fate, work, status, seen>>

\* Only recordMqttReport tells the apps of the shadow it wrote.
ShadowEvent(p) ==
    /\ pc[p] = "shadow_event"
    /\ Push(shown' = [reported |-> seen[p].reported, version |-> seen[p].version],
            UNCHANGED shown)
    /\ Goto(p, "device_write")
    /\ UNCHANGED <<session, online, shadow, pushed, jobs, fate, work, status, seen>>

\* Mutated: only the heartbeat is refreshed.
DeviceWriteHeartbeat(p) ==
    /\ pc[p] = "device_write"
    /\ Goto(p, "log")
    /\ UNCHANGED <<session, online, shadow, events, jobs, fate, work, status, seen>>

\* A report brings its device online, by the status read before.
DeviceWrite(p) ==
    /\ pc[p] = "device_write"
    /\ IF status[p] = "online"
       THEN Goto(p, "log") /\ UNCHANGED online
       ELSE Goto(p, "status_event") /\ online' = "online"
    /\ UNCHANGED <<session, shadow, events, jobs, fate, work, status, seen>>

StatusEvent(p) ==
    /\ pc[p] = "status_event"
    /\ Push(pushed' = "online", UNCHANGED pushed)
    /\ Goto(p, "log")
    /\ UNCHANGED <<session, online, shadow, shown, jobs, fate, work, status, seen>>

\* The device log is the last statement, of a connection webhook too.
Log(p) ==
    /\ pc[p] = "log"
    /\ applied' = applied \cup ({work[p]} \cap Reports)
    /\ End(p)
    /\ UNCHANGED <<session, online, shadow, events, jobs, patch, arrived, dropped>>

-----------------------------------------------------------------------------
(* Failures.                                                               *)

\* Mutated: a job that failed is not tried again.
JobFailsOnce(w) ==
    /\ "job" \in Faults
    /\ pc[w] # "idle"
    /\ tries' = [tries EXCEPT ![work[w]] = @ + 1]
    /\ End(w)
    /\ UNCHANGED <<session, online, shadow, events, queue, delayed, fate>>

\* Mutated: one attempt too many.
JobFailsLate(w) ==
    /\ "job" \in Faults
    /\ pc[w] # "idle"
    /\ LET n == work[w] IN
       /\ tries' = [tries EXCEPT ![n] = @ + 1]
       /\ IF tries[n] = JobAttempts
          THEN dropped' = dropped \cup {n} /\ UNCHANGED delayed
          ELSE delayed' = delayed \cup {n} /\ UNCHANGED dropped
    /\ End(w)
    /\ UNCHANGED <<session, online, shadow, events, queue, patch, arrived, applied>>

\* A statement of the job throws, or the worker dies and the job stalls: the
\* whole job is run again later, whatever of it was done.
JobFails(w) ==
    /\ "job" \in Faults
    /\ pc[w] # "idle"
    /\ LET n == work[w] IN
       /\ tries' = [tries EXCEPT ![n] = @ + 1]
       /\ IF tries'[n] = JobAttempts
          THEN dropped' = dropped \cup {n} /\ UNCHANGED delayed
          ELSE delayed' = delayed \cup {n} /\ UNCHANGED dropped
    /\ End(w)
    /\ UNCHANGED <<session, online, shadow, events, queue, patch, arrived, applied>>

BackoffEnds(n) ==
    /\ n \in delayed
    /\ delayed' = delayed \ {n}
    /\ queue' \in {Append(queue, n), <<n>> \o queue}
    /\ UNCHANGED <<session, online, shadow, events, tries, fate, local>>

\* The webhook answers deny, or dies, and nobody asks again.
RequestFails(r) ==
    /\ "request" \in Faults
    /\ pc[r] # "idle"
    /\ dropped' = dropped \cup ({work[r]} \cap Reports)
    /\ End(r)
    /\ UNCHANGED <<session, online, shadow, events, jobs, patch, arrived, applied>>

-----------------------------------------------------------------------------
\* PATCH of the shadow, or a property_set command: one statement each.
WriteDesired ==
    /\ desired < MaxDesired
    /\ desired' = desired + 1
    /\ version' = version + 1
    /\ UNCHANGED <<session, online, reported, events, jobs, fate, local>>

\* The device is gone for good and nothing is left to handle.
AtRest ==
    /\ ~connected /\ sessions = MaxSessions /\ notices = <<>>
    /\ arrived = Reports /\ queue = <<>> /\ delayed = {}
    /\ \A p \in Processes : pc[p] = "idle"
    /\ UNCHANGED vars

Handle(p) == ReadDevice(p) \/ ShadowRead(p) \/ ShadowWrite(p) \/ ShadowEvent(p)
             \/ DeviceWrite(p) \/ StatusEvent(p) \/ Log(p)

Next ==
    \/ Connect \/ Disconnect \/ Takeover \/ LoseNotice
    \/ \E r \in Lifecycle : NoticeRead(r) \/ SessionWrite(r) \/ SessionEvent(r)
    \/ \E r \in Direct, n \in Reports : EnqueueFails(r, n)
    \/ \E r \in Requests : RequestFails(r)
    \/ \E w \in Workers : WorkerTake(w) \/ JobFails(w)
    \/ \E p \in Processes : Handle(p)
    \/ \E n \in Reports : Enqueue(n) \/ BackoffEnds(n)
    \/ WriteDesired
    \/ AtRest

Spec == Init /\ [][Next]_vars

\* Handlers and workers that began go on, idle workers take jobs, backoffs end.
\* Nothing is assumed of the device, the broker or the users.
FairSpec ==
    /\ Spec
    /\ \A p \in Processes : WF_vars(Handle(p))
    /\ \A r \in Lifecycle : WF_vars(SessionWrite(r) \/ SessionEvent(r))
    /\ \A w \in Workers : WF_vars(WorkerTake(w))
    /\ \A n \in Reports : WF_vars(BackoffEnds(n))

-----------------------------------------------------------------------------
(* Safety.                                                                 *)

InHand(n) == \E p \in Processes : work[p] = n
Waiting(n) == n \in delayed \/ \E i \in DOMAIN queue : queue[i] = n

\* No report the webhook received is lost between the queue, the workers, the
\* backoffs and the direct path: it waits, is in hand, was worked off, or was
\* given up after its attempts or by a request that failed.
NoReportVanishes ==
    \A n \in arrived : Waiting(n) \/ InHand(n) \/ n \in applied \cup dropped

\* The merges of reports, which read desired too, never undo a newer desired.
DesiredSurvivesReports == [][desired' >= desired]_vars

\* Apps detect changes by the version: no two contents of the shadow share one.
VersionTellsContents ==
    [][<<reported', desired'>> # <<reported, desired>> => version' > version]_vars

\* An app whose last shadow event bears the current version has the current
\* contents: it need not read the shadow again, whoever else reports meanwhile.
ShownIsCurrent == shown.version = version => shown.reported = reported

-----------------------------------------------------------------------------
(* Liveness, under FairSpec.                                               *)

\* The device is connected, and no webhook is left that says otherwise.
Settled ==
    /\ connected
    /\ \A i \in DOMAIN notices : notices[i].status = "online"
    /\ \A r \in Lifecycle : pc[r] = "session_write" => work[r].status = "online"

ToBeRead(n) == Waiting(n) \/ \E p \in Processes : work[p] = n /\ pc[p] = "read"

\* A lost connected event heals: once a report is taken up while its device
\* stays connected, the device is online again, unless the report is given up.
ReportHealsOnline ==
    \A n \in Reports :
      [](ToBeRead(n) /\ []Settled => <>(online = "online" \/ n \in dropped))

\* A report that was put on the queue is worked off in the end, or given up.
QueuedReportIsApplied ==
    \A n \in Reports : Waiting(n) ~> n \in applied \cup dropped
=============================================================================
