------------------------------ MODULE OtaTask ------------------------------
(***************************************************************************)
(* One OTA task, its per-device records, the web requests that work on it  *)
(* (create, start or restart, cancel, delete, a device's report) and the   *)
(* worker's expiry and retention scans.                                    *)
(*                                                                         *)
(* apps/web/features/ota/ota-service.ts awaits the database several times  *)
(* per request and opens no transaction around those awaits, so a request  *)
(* is a sequence of actions, one per statement, with pc[h] telling which   *)
(* statement of which operation request h performs next.  Every statement  *)
(* is filtered by the task's id, hence the system of all tasks projects    *)
(* onto this module for each single task.                                  *)
(***************************************************************************)
EXTENDS Naturals, FiniteSets

CONSTANTS
    Devices,         \* devices of the product the firmware belongs to
    Handlers,        \* web requests that may be in flight together
    ReportStatuses,  \* statuses a device's report may carry
    NoReport,        \* msg[h] of a request that handles no report
    Faults           \* which disturbances may happen

Report == [dev: Devices, status: ReportStatuses]

ASSUME OtaAssumption ==
    /\ ReportStatuses \subseteq
         {"notified", "downloading", "installing", "success", "failed"}
    /\ NoReport \notin Report
    /\ Faults \subseteq {"crash", "publish", "purge"}

VARIABLES
    task,      \* status of the ota_tasks row
    rec,       \* status of the ota_records row of each device
    age,       \* how long ago the record's updated_at was written
    told,      \* devices the broker accepted an upgrade notification for
    upgraded,  \* devices whose firmware_version this task has written
    pc,        \* next statement of each request
    todo,      \* devices a start request still has to notify
    msg,       \* the report a request is handling
    scan,      \* progress of the worker's expiry scan
    lostBy     \* ghost: what has left the task without anyone to finish it

rows == <<task, rec, age>>
requests == <<pc, todo, msg>>
vars == <<task, rec, age, told, upgraded, pc, todo, msg, scan, lostBy>>

-----------------------------------------------------------------------------
Pending == {"created", "scheduled", "notified", "downloading", "installing"}
Terminal == {"success", "failed", "cancelled"}
RecordStatus == Pending \cup Terminal

Ended == {"finished", "cancelled"}
TaskStatus == {"created", "scheduled", "running"} \cup Ended

\* No row: before the task is created, for a device that is no target, and
\* after the row was deleted.  A deleted task's id is never used again.
Rowless == {"none", "deleted"}

PcStart == {"start_update", "start_reset", "restart_update", "restart_reset",
            "publish"}
PcCancel == {"cancel_records", "cancel_task"}
PcReport == {"report_write", "report_sync", "report_count", "report_finish"}
Pc == {"idle", "delete_row"} \cup PcStart \cup PcCancel \cup PcReport

\* Ages: 0 within the 24 hours of OTA_RECORD_TIMEOUT_HOURS, 1 beyond them,
\* 2 beyond the 7 days of OTA_RECORD_RETENTION_DAYS as well.
Stale == 1
Purgeable == 2
MaxAge == IF "purge" \in Faults THEN Purgeable ELSE Stale

TypeOK ==
    /\ task \in TaskStatus \cup Rowless
    /\ rec \in [Devices -> RecordStatus \cup {"none"}]
    /\ age \in [Devices -> 0 .. Purgeable]
    /\ told \subseteq Devices
    /\ upgraded \subseteq Devices
    /\ pc \in [Handlers -> Pc]
    /\ todo \in [Handlers -> SUBSET Devices]
    /\ msg \in [Handlers -> Report \cup {NoReport}]
    /\ \A h \in Handlers : pc[h] \in PcReport => msg[h] \in Report
    /\ scan \in {"idle", "circled", "expired"}
    /\ lostBy \subseteq {"hollow_start", "purge", "crash"}

Init ==
    /\ task = "none"
    /\ rec = [d \in Devices |-> "none"]
    /\ age = [d \in Devices |-> 0]
    /\ told = {}
    /\ upgraded = {}
    /\ pc = [h \in Handlers |-> "idle"]
    /\ todo = [h \in Handlers |-> {}]
    /\ msg = [h \in Handlers |-> NoReport]
    /\ scan = "idle"
    /\ lostBy = {}

-----------------------------------------------------------------------------
(* One database statement each.                                            *)

\* UPDATE of the records in S: Prisma's @updatedAt restarts their age.
SetRecords(S, status) ==
    /\ rec' = [d \in Devices |-> IF d \in S THEN status ELSE rec[d]]
    /\ age' = [d \in Devices |-> IF d \in S THEN 0 ELSE age[d]]

\* UPDATE of the task row by its id; Prisma throws when the row is gone, and
\* the request then ends with nothing written.
SetTask(status) == task' = IF task \in Rowless THEN task ELSE status

PendingRecords == {d \in Devices : rec[d] \in Pending}

\* Mutated: a restart resets the successful records too.
StartScopeAll(restart) ==
    {d \in Devices : rec[d] \in (IF restart THEN RecordStatus
                                 ELSE {"created", "scheduled"})}

\* The records a start resets, and the records it notifies about: the same
\* filter in both places, over whatever the records are at that moment.
StartScope(restart) ==
    IF restart
    THEN {d \in Devices : rec[d] \notin {"success", "none"}}
    ELSE {d \in Devices : rec[d] \in {"created", "scheduled"}}

Goto(h, label) == pc' = [pc EXCEPT ![h] = label]

\* Mutated: the request's program counter is not reset.
FinishStuck(h) ==
    /\ todo' = [todo EXCEPT ![h] = {}]
    /\ msg' = [msg EXCEPT ![h] = NoReport]
    /\ UNCHANGED pc

Finish(h) ==
    /\ pc' = [pc EXCEPT ![h] = "idle"]
    /\ todo' = [todo EXCEPT ![h] = {}]
    /\ msg' = [msg EXCEPT ![h] = NoReport]

-----------------------------------------------------------------------------
(* Creation: the task row and one record per target in a nested insert.    *)

\* The targets a strategy resolves to: listed devices, a group's, or all of the
\* product's; none are left when all of them were deleted.
TargetSets == SUBSET Devices

CreateTask(targets) ==
    /\ task = "none"
    /\ targets # {}
    /\ task' = "created"
    /\ SetRecords(targets, "created")
    /\ UNCHANGED <<told, upgraded, requests, scan, lostBy>>

-----------------------------------------------------------------------------
(* Start and restart.                                                      *)

StartRead(h) ==
    /\ pc[h] = "idle"
    /\ \/ /\ task \in {"created", "scheduled"}
          /\ Goto(h, "start_update")
       \/ /\ task \in Ended
          /\ StartScope(TRUE) # {}
          /\ Goto(h, "restart_update")
    /\ UNCHANGED <<rows, told, upgraded, todo, msg, scan, lostBy>>

StartUpdate(h) ==
    /\ pc[h] \in {"start_update", "restart_update"}
    /\ SetTask("running")
    /\ IF task \in Rowless
       THEN Finish(h)
       ELSE LET restart == pc[h] = "restart_update" IN
            /\ Goto(h, IF restart THEN "restart_reset" ELSE "start_reset")
            /\ todo' = [todo EXCEPT ![h] = StartScope(restart)]
            /\ UNCHANGED msg
    /\ UNCHANGED <<rec, age, told, upgraded, scan, lostBy>>

StartReset(h) ==
    /\ pc[h] \in {"start_reset", "restart_reset"}
    /\ LET scope == StartScope(pc[h] = "restart_reset") IN
       /\ SetRecords(scope, "notified")
       /\ lostBy' = IF scope = {} THEN lostBy \cup {"hollow_start"} ELSE {}
    /\ IF todo[h] = {} THEN Finish(h)
                       ELSE Goto(h, "publish") /\ UNCHANGED <<todo, msg>>
    /\ UNCHANGED <<task, told, upgraded, scan>>

PublishNotify(h) ==
    /\ pc[h] = "publish"
    /\ \E d \in todo[h] :
         /\ told' = told \cup {d}
         /\ IF todo[h] = {d}
            THEN Finish(h)
            ELSE todo' = [todo EXCEPT ![h] = @ \ {d}] /\ UNCHANGED <<pc, msg>>
    /\ UNCHANGED <<rows, upgraded, scan, lostBy>>

\* publishMqtt makes one attempt and throws: the rest of the loop is skipped.
\* A fetch that rejects may have published all the same.
PublishFails(h) ==
    /\ "publish" \in Faults
    /\ pc[h] = "publish"
    /\ \E d \in todo[h] : told' \in {told, told \cup {d}}
    /\ Finish(h)
    /\ UNCHANGED <<rows, upgraded, scan, lostBy>>

-----------------------------------------------------------------------------
(* Cancel and delete.                                                      *)

CancelRead(h) ==
    /\ pc[h] = "idle"
    /\ task \notin Ended \cup Rowless
    /\ Goto(h, "cancel_records")
    /\ UNCHANGED <<rows, told, upgraded, todo, msg, scan, lostBy>>

CancelRecords(h) ==
    /\ pc[h] = "cancel_records"
    /\ SetRecords(PendingRecords, "cancelled")
    /\ Goto(h, "cancel_task")
    /\ UNCHANGED <<task, told, upgraded, todo, msg, scan, lostBy>>

CancelTask(h) ==
    /\ pc[h] = "cancel_task"
    /\ SetTask("cancelled")
    /\ Finish(h)
    /\ UNCHANGED <<rec, age, told, upgraded, scan, lostBy>>

DeleteRead(h) ==
    /\ pc[h] = "idle"
    /\ task \in Ended
    /\ Goto(h, "delete_row")
    /\ UNCHANGED <<rows, told, upgraded, todo, msg, scan, lostBy>>

\* Mutated: the foreign key does not cascade.
DeleteRowOnly(h) ==
    /\ pc[h] = "delete_row"
    /\ task' = "deleted"
    /\ Finish(h)
    /\ UNCHANGED <<rec, age, told, upgraded, scan, lostBy>>

\* The records go with the row (onDelete: Cascade).
DeleteRow(h) ==
    /\ pc[h] = "delete_row"
    /\ task' = "deleted"
    /\ SetRecords(Devices, "none")
    /\ Finish(h)
    /\ UNCHANGED <<told, upgraded, scan, lostBy>>

-----------------------------------------------------------------------------
(* A device's report, delivered by the EMQX webhook.  QoS 1 repeats and    *)
(* delays messages, so any report of a notified device may arrive at any   *)
(* time after the notification.                                            *)

\* A report of a device without a record, or with a cancelled one, is refused.
ReportRead(h) ==
    /\ pc[h] = "idle"
    /\ \E r \in Report :
         /\ r.dev \in told
         /\ rec[r.dev] \notin {"none", "cancelled"}
         /\ msg' = [msg EXCEPT ![h] = r]
    /\ Goto(h, "report_write")
    /\ UNCHANGED <<rows, told, upgraded, todo, scan, lostBy>>

\* Mutated: the device row is left alone.
ReportWriteNoSync(h) ==
    /\ pc[h] = "report_write"
    /\ IF rec[msg[h].dev] = "none"
       THEN Finish(h) /\ UNCHANGED <<rec, age>>
       ELSE /\ SetRecords({msg[h].dev}, msg[h].status)
            /\ Goto(h, "report_count")
            /\ UNCHANGED <<todo, msg>>
    /\ UNCHANGED <<task, told, upgraded, scan, lostBy>>

\* Mutated: only a success looks whether the task is complete.
ReportWriteNoCount(h) ==
    /\ pc[h] = "report_write"
    /\ IF rec[msg[h].dev] = "none"
       THEN Finish(h) /\ UNCHANGED <<rec, age>>
       ELSE /\ SetRecords({msg[h].dev}, msg[h].status)
            /\ IF msg[h].status = "success"
               THEN Goto(h, "report_sync") /\ UNCHANGED <<todo, msg>>
               ELSE Finish(h)
    /\ UNCHANGED <<task, told, upgraded, scan, lostBy>>

\* The update names the row by (task_id, device_id) only: whatever the status
\* has become since ReportRead is overwritten; a row that is gone throws.
ReportWrite(h) ==
    /\ pc[h] = "report_write"
    /\ LET d == msg[h].dev
           s == msg[h].status IN
       IF rec[d] = "none"
       THEN Finish(h) /\ UNCHANGED <<rec, age>>
       ELSE /\ SetRecords({d}, s)
            /\ Goto(h, IF s = "success" THEN "report_sync" ELSE "report_count")
            /\ UNCHANGED <<todo, msg>>
    /\ UNCHANGED <<task, told, upgraded, scan, lostBy>>

ReportSync(h) ==
    /\ pc[h] = "report_sync"
    /\ upgraded' = upgraded \cup {msg[h].dev}
    /\ Goto(h, "report_count")
    /\ UNCHANGED <<rows, told, todo, msg, scan, lostBy>>

ReportCount(h) ==
    /\ pc[h] = "report_count"
    /\ IF PendingRecords = {}
       THEN Goto(h, "report_finish") /\ UNCHANGED <<todo, msg>>
       ELSE Finish(h)
    /\ UNCHANGED <<rows, told, upgraded, scan, lostBy>>

ReportFinish(h) ==
    /\ pc[h] = "report_finish"
    /\ SetTask("finished")
    /\ Finish(h)
    /\ UNCHANGED <<rec, age, told, upgraded, scan, lostBy>>

-----------------------------------------------------------------------------
(* The worker.  The cut-off is taken once, when the scan begins, so no     *)
(* record grows stale for a scan under way: TimePasses waits for it.       *)

StaleRecords == {d \in PendingRecords : age[d] >= Stale}

ScanFind ==
    /\ scan = "idle"
    /\ StaleRecords # {}
    /\ scan' = "circled"
    /\ UNCHANGED <<rows, told, upgraded, requests, lostBy>>

ScanExpire ==
    /\ scan = "circled"
    /\ SetRecords(StaleRecords, "failed")
    /\ scan' = "expired"
    /\ UNCHANGED <<task, told, upgraded, requests, lostBy>>

\* Mutated: the scan closes no task.
ScanFinishNothing ==
    /\ scan = "expired"
    /\ scan' = "idle"
    /\ UNCHANGED <<rows, told, upgraded, requests, lostBy>>

ScanFinish ==
    /\ scan = "expired"
    /\ task' = IF task = "running" /\ PendingRecords = {} THEN "finished" ELSE task
    /\ scan' = "idle"
    /\ UNCHANGED <<rec, age, told, upgraded, requests, lostBy>>

\* Retention deletes records by age alone, whatever their status.
RetentionPurge ==
    /\ "purge" \in Faults
    /\ LET old == {d \in Devices : rec[d] # "none" /\ age[d] >= Purgeable} IN
       /\ old # {}
       /\ SetRecords(old, "none")
       /\ lostBy' = IF old \cap PendingRecords = {}
                    THEN lostBy ELSE lostBy \cup {"purge"}
    /\ UNCHANGED <<task, told, upgraded, requests, scan>>

-----------------------------------------------------------------------------
(* Disturbances and time.                                                  *)

\* What request h still owes the task: to end it, or to reset its records.
Owes(h) == pc[h] \in {"start_reset", "restart_reset", "cancel_task"}
                       \cup (PcReport \ {"report_write"})

\* The web process dies with request h half done.
CrashHandler(h) ==
    /\ "crash" \in Faults
    /\ pc[h] # "idle"
    /\ lostBy' = IF Owes(h) THEN lostBy \cup {"crash"} ELSE lostBy
    /\ Finish(h)
    /\ UNCHANGED <<rows, told, upgraded, scan>>

\* The worker dies in the middle of a scan, or a statement of it throws.
CrashScan ==
    /\ "crash" \in Faults
    /\ scan # "idle"
    /\ lostBy' = IF scan = "expired" THEN lostBy \cup {"crash"} ELSE lostBy
    /\ scan' = "idle"
    /\ UNCHANGED <<rows, told, upgraded, requests>>

\* More than a time-out passes in which no record is written.
TimePasses ==
    /\ scan = "idle"
    /\ \E d \in Devices : rec[d] # "none" /\ age[d] < MaxAge
    /\ age' = [d \in Devices |-> IF rec[d] # "none" /\ age[d] < MaxAge
                                 THEN age[d] + 1 ELSE age[d]]
    /\ UNCHANGED <<task, rec, told, upgraded, requests, scan, lostBy>>

-----------------------------------------------------------------------------
Start(h) == StartRead(h) \/ StartUpdate(h) \/ StartReset(h)
            \/ PublishNotify(h) \/ PublishFails(h)
Cancel(h) == CancelRead(h) \/ CancelRecords(h) \/ CancelTask(h)
Delete(h) == DeleteRead(h) \/ DeleteRow(h)
Progress(h) == ReportRead(h) \/ ReportWrite(h) \/ ReportSync(h)
               \/ ReportCount(h) \/ ReportFinish(h)
Scan == ScanFind \/ ScanExpire \/ ScanFinish

\* A deleted task stays deleted; nothing else lets the system come to rest.
Gone ==
    /\ task = "deleted"
    /\ scan = "idle"
    /\ \A h \in Handlers : pc[h] = "idle"
    /\ UNCHANGED vars

Next ==
    \/ \E targets \in TargetSets : CreateTask(targets)
    \/ \E h \in Handlers : \/ Start(h)
                           \/ Cancel(h)
                           \/ Delete(h)
                           \/ Progress(h)
                           \/ CrashHandler(h)
    \/ Scan
    \/ RetentionPurge
    \/ CrashScan
    \/ TimePasses
    \/ Gone

Spec == Init /\ [][Next]_vars

\* A request that began runs to its end, the worker's timer keeps firing and
\* time keeps passing.  Users and devices promise nothing.
Continue(h) == StartUpdate(h) \/ StartReset(h) \/ PublishNotify(h)
               \/ CancelRecords(h) \/ CancelTask(h) \/ DeleteRow(h)
               \/ ReportWrite(h) \/ ReportSync(h) \/ ReportCount(h)
               \/ ReportFinish(h)

FairSpec ==
    /\ Spec
    /\ \A h \in Handlers : WF_vars(Continue(h))
    /\ WF_vars(Scan)
    /\ WF_vars(TimePasses)

-----------------------------------------------------------------------------
(* Safety.                                                                 *)

\* The records belong to the task row: whatever requests were in flight when
\* deleteOtaTask removed it, none of them leaves or recreates a record.
NoOrphanRecords == task \in Rowless => \A d \in Devices : rec[d] = "none"

\* Some request or scan is still going to look whether the task is complete.
BeingClosed == scan = "expired" \/ \E h \in Handlers : Owes(h)

\* finishTaskIfComplete, the expiry scan and cancelOtaTask together miss no
\* task: a running task with no record left to wait for is about to be closed,
\* or was left by a start that reset no record, by the deletion of an unfinished
\* record or by the death of the process that owed it the closing step.
NoForgottenTask ==
    task = "running" /\ PendingRecords = {} => BeingClosed \/ lostBy # {}

\* A record may say success only if recordOtaProgress has written the device's
\* firmware_version or is about to, unless the process dies in between.
SuccessSynced ==
    "crash" \notin Faults =>
      \A d \in Devices : rec[d] = "success" =>
        \/ d \in upgraded
        \/ \E h \in Handlers : pc[h] = "report_sync" /\ msg[h].dev = d

Writes(h, d) == /\ pc[h] = "report_write" /\ msg[h].dev = d
                /\ pc'[h] # "report_write"

\* Restarting, cancelling and expiring never take a success back: a successful
\* record is only overwritten by a further report of its own device or deleted.
PlatformKeepsSuccess ==
    [][\A d \in Devices :
         rec[d] = "success" /\ rec'[d] # "success" =>
           rec'[d] = "none" \/ \E h \in Handlers : Writes(h, d)]_vars

-----------------------------------------------------------------------------
(* Liveness, under FairSpec.                                               *)

NoReportUnderWay == \A h \in Handlers : pc[h] \notin PcReport

\* A task whose devices have fallen silent does not stay running forever,
\* except one of those NoForgottenTask lists.
SilentTaskEnds ==
    <>[]NoReportUnderWay => []<>(task # "running" \/ lostBy # {})

\* What admin-api.md promises without exception: a lost device never keeps a
\* task in progress forever.
LostDeviceNeverPinsTask == <>[]NoReportUnderWay => []<>(task # "running")
=============================================================================
