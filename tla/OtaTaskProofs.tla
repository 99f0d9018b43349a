-------------------------- MODULE OtaTaskProofs ----------------------------
(* Theorems about OtaTask, for any set of devices, requests and faults.    *)
EXTENDS OtaTask, TLAPS

\* Every record a step may write is given a status and a fresh age.
LEMMA SetRecordsType ==
    ASSUME TypeOK, NEW S, NEW s \in RecordStatus \cup {"none"}, SetRecords(S, s)
    PROVE  /\ rec' \in [Devices -> RecordStatus \cup {"none"}]
           /\ age' \in [Devices -> 0 .. Purgeable]
  BY DEF TypeOK, SetRecords, Purgeable

\* Setting the task's status keeps its type.
LEMMA SetTaskType ==
    ASSUME TypeOK, NEW s \in TaskStatus, SetTask(s)
    PROVE  task' \in TaskStatus \cup Rowless
  BY DEF TypeOK, SetTask

\* Ending a request keeps the types of its local state.
LEMMA FinishType ==
    ASSUME TypeOK, NEW h \in Handlers, Finish(h)
    PROVE  /\ pc' \in [Handlers -> Pc]
           /\ todo' \in [Handlers -> SUBSET Devices]
           /\ msg' \in [Handlers -> Report \cup {NoReport}]
           /\ \A k \in Handlers : pc'[k] \in PcReport => msg'[k] \in Report
  BY DEF TypeOK, Finish, Pc, PcReport

\* Moving a request to a statement outside its report handling, or within it.
LEMMA GotoType ==
    ASSUME TypeOK, NEW h \in Handlers, NEW l \in Pc, Goto(h, l), msg' = msg,
           l \in PcReport => msg[h] \in Report
    PROVE  /\ pc' \in [Handlers -> Pc]
           /\ msg' \in [Handlers -> Report \cup {NoReport}]
           /\ \A k \in Handlers : pc'[k] \in PcReport => msg'[k] \in Report
  BY DEF TypeOK, Goto

-----------------------------------------------------------------------------
\* The variables keep their types, whatever requests, scans and faults do.
THEOREM TypeCorrect == Spec => []TypeOK
<1>1. Init => TypeOK
  BY DEF Init, TypeOK, TaskStatus, Rowless, RecordStatus, Pc, PcReport, Purgeable
<1>2. TypeOK /\ [Next]_vars => TypeOK'
  <2> SUFFICES ASSUME TypeOK, [Next]_vars PROVE TypeOK'
    OBVIOUS
  <2> USE OtaAssumption
  <2>1. ASSUME NEW T \in SUBSET Devices, CreateTask(T) PROVE TypeOK'
    BY <2>1, SetRecordsType
    DEF CreateTask, TypeOK, TaskStatus, RecordStatus, Pending, requests
  <2>2. ASSUME NEW h \in Handlers, Start(h) PROVE TypeOK'
    <3>1. CASE StartRead(h)
      BY <3>1, GotoType
      DEF StartRead, TypeOK, rows, Pc, PcStart, PcReport
    <3>2. CASE StartUpdate(h)
      <4>1. task' \in TaskStatus \cup Rowless
        BY <3>2, SetTaskType DEF StartUpdate, TaskStatus
      <4>2. CASE task \in Rowless
        BY <3>2, <4>1, <4>2, FinishType DEF StartUpdate, TypeOK
      <4>3. CASE task \notin Rowless
        <5>1. PICK l \in {"start_reset", "restart_reset"} : Goto(h, l)
          BY <3>2, <4>3 DEF StartUpdate
        <5>2. PICK S : S \subseteq Devices /\ todo' = [todo EXCEPT ![h] = S]
          BY <3>2, <4>3, Zenon DEF StartUpdate, StartScope
        <5>3. todo' \in [Handlers -> SUBSET Devices] /\ msg' = msg
          BY <3>2, <4>3, <5>2 DEF StartUpdate, TypeOK
        <5> QED
          BY <3>2, <4>1, <5>1, <5>3, GotoType
          DEF StartUpdate, TypeOK, Pc, PcStart, PcReport
      <4> QED BY <4>2, <4>3
    <3>3. CASE StartReset(h)
      <4>1. /\ rec' \in [Devices -> RecordStatus \cup {"none"}]
            /\ age' \in [Devices -> 0 .. Purgeable]
        BY <3>3, SetRecordsType DEF StartReset, RecordStatus, Pending
      <4>2. CASE todo[h] = {}
        BY <3>3, <4>1, <4>2, FinishType DEF StartReset, TypeOK
      <4>3. CASE todo[h] # {}
        BY <3>3, <4>1, <4>3, GotoType
        DEF StartReset, TypeOK, Pc, PcStart, PcReport
      <4> QED BY <4>2, <4>3
    <3>4. CASE PublishNotify(h)
      <4>1. PICK d \in todo[h] :
              /\ told' = told \cup {d}
              /\ IF todo[h] = {d}
                 THEN Finish(h)
                 ELSE todo' = [todo EXCEPT ![h] = @ \ {d}] /\ UNCHANGED <<pc, msg>>
        BY <3>4 DEF PublishNotify
      <4>2. told' \subseteq Devices
        BY <4>1 DEF TypeOK
      <4>3. CASE todo[h] = {d}
        BY <3>4, <4>1, <4>2, <4>3, FinishType DEF PublishNotify, TypeOK, rows
      <4>4. CASE todo[h] # {d}
        BY <3>4, <4>1, <4>2, <4>4 DEF PublishNotify, TypeOK, rows
      <4> QED BY <4>3, <4>4
    <3>5. CASE PublishFails(h)
      <4>1. told' \subseteq Devices
        BY <3>5 DEF PublishFails, TypeOK
      <4> QED BY <3>5, <4>1, FinishType DEF PublishFails, TypeOK, rows
    <3> QED BY <2>2, <3>1, <3>2, <3>3, <3>4, <3>5 DEF Start
  <2>3. ASSUME NEW h \in Handlers, Cancel(h) PROVE TypeOK'
    <3>1. CASE CancelRead(h)
      BY <3>1, GotoType DEF CancelRead, TypeOK, rows, Pc, PcCancel, PcReport
    <3>2. CASE CancelRecords(h)
      BY <3>2, GotoType, SetRecordsType
      DEF CancelRecords, TypeOK, Pc, PcCancel, PcReport, RecordStatus, Terminal
    <3>3. CASE CancelTask(h)
      BY <3>3, FinishType, SetTaskType
      DEF CancelTask, TypeOK, TaskStatus, Ended
    <3> QED BY <2>3, <3>1, <3>2, <3>3 DEF Cancel
  <2>4. ASSUME NEW h \in Handlers, Delete(h) PROVE TypeOK'
    <3>1. CASE DeleteRead(h)
      BY <3>1, GotoType DEF DeleteRead, TypeOK, rows, Pc, PcReport
    <3>2. CASE DeleteRow(h)
      BY <3>2, FinishType, SetRecordsType DEF DeleteRow, TypeOK, Rowless
    <3> QED BY <2>4, <3>1, <3>2 DEF Delete
  <2>5. ASSUME NEW h \in Handlers, Progress(h) PROVE TypeOK'
    <3>1. CASE ReportRead(h)
      BY <3>1 DEF ReportRead, TypeOK, rows, Goto, Pc, PcReport
    <3>2. CASE ReportWrite(h)
      <4>1. msg[h] \in Report
        BY <3>2 DEF ReportWrite, TypeOK, PcReport
      <4>2. msg[h].status \in RecordStatus
        BY <4>1 DEF Report, RecordStatus, Pending, Terminal
      <4>3. CASE rec[msg[h].dev] = "none"
        BY <3>2, <4>3, FinishType DEF ReportWrite, TypeOK
      <4>4. CASE rec[msg[h].dev] # "none"
        <5>1. /\ rec' \in [Devices -> RecordStatus \cup {"none"}]
              /\ age' \in [Devices -> 0 .. Purgeable]
          BY <3>2, <4>2, <4>4, SetRecordsType DEF ReportWrite
        <5>2. PICK l \in {"report_sync", "report_count"} : Goto(h, l)
          BY <3>2, <4>4 DEF ReportWrite
        <5> QED
          BY <3>2, <4>1, <4>4, <5>1, <5>2, GotoType
          DEF ReportWrite, TypeOK, Pc, PcReport
      <4> QED BY <4>3, <4>4
    <3>3. CASE ReportSync(h)
      <4>1. msg[h] \in Report
        BY <3>3 DEF ReportSync, TypeOK, PcReport
      <4>2. upgraded' \subseteq Devices
        BY <3>3, <4>1 DEF ReportSync, TypeOK, Report
      <4> QED
        BY <3>3, <4>1, <4>2, GotoType DEF ReportSync, TypeOK, rows, Pc, PcReport
    <3>4. CASE ReportCount(h)
      <4>1. msg[h] \in Report
        BY <3>4 DEF ReportCount, TypeOK, PcReport
      <4> QED
        BY <3>4, <4>1, GotoType, FinishType
        DEF ReportCount, TypeOK, rows, Pc, PcReport
    <3>5. CASE ReportFinish(h)
      BY <3>5, FinishType, SetTaskType DEF ReportFinish, TypeOK, TaskStatus, Ended
    <3> QED BY <2>5, <3>1, <3>2, <3>3, <3>4, <3>5 DEF Progress
  <2>6. ASSUME NEW h \in Handlers, CrashHandler(h) PROVE TypeOK'
    BY <2>6, FinishType DEF CrashHandler, TypeOK, rows
  <2>7. CASE Scan
    <3>1. CASE ScanFind
      BY <3>1 DEF ScanFind, TypeOK, rows, requests
    <3>2. CASE ScanExpire
      BY <3>2, SetRecordsType
      DEF ScanExpire, TypeOK, requests, RecordStatus, Terminal
    <3>3. CASE ScanFinish
      BY <3>3 DEF ScanFinish, TypeOK, requests, TaskStatus, Ended
    <3> QED BY <2>7, <3>1, <3>2, <3>3 DEF Scan
  <2>8. CASE RetentionPurge
    BY <2>8, SetRecordsType DEF RetentionPurge, TypeOK, requests
  <2>9. CASE CrashScan
    BY <2>9 DEF CrashScan, TypeOK, rows, requests
  <2>10. CASE TimePasses
    <3>1. MaxAge \in 0 .. Purgeable
      BY DEF MaxAge, Purgeable, Stale
    <3>2. age' \in [Devices -> 0 .. Purgeable]
      BY <2>10, <3>1 DEF TimePasses, TypeOK, Purgeable
    <3> QED BY <2>10, <3>2 DEF TimePasses, TypeOK, requests
  <2>11. CASE Gone
    BY <2>11 DEF Gone, vars, TypeOK
  <2>12. CASE UNCHANGED vars
    BY <2>12 DEF vars, TypeOK
  <2> QED
    BY <2>1, <2>2, <2>3, <2>4, <2>5, <2>6, <2>7, <2>8, <2>9, <2>10, <2>11, <2>12
    DEF Next, TargetSets
<1> QED
  BY <1>1, <1>2, PTL DEF Spec

-----------------------------------------------------------------------------
\* No request in flight across the deletion of a task leaves a record behind.
THEOREM OrphanFree == Spec => []NoOrphanRecords
<1>1. Init => NoOrphanRecords
  BY DEF Init, NoOrphanRecords
<1>2. TypeOK /\ NoOrphanRecords /\ [Next]_vars => NoOrphanRecords'
  <2> SUFFICES ASSUME TypeOK, NoOrphanRecords, [Next]_vars, task' \in Rowless
               PROVE  \A d \in Devices : rec'[d] = "none"
    BY DEF NoOrphanRecords
  <2> USE DEF NoOrphanRecords
  <2>1. ASSUME NEW T \in SUBSET Devices, CreateTask(T) PROVE FALSE
    BY <2>1 DEF CreateTask, Rowless
  <2>2. ASSUME task' = task, NEW S, NEW s \in RecordStatus \cup {"none"},
               SetRecords(S, s), \A d \in S \cap Devices : rec[d] # "none"
        PROVE  \A d \in Devices : rec'[d] = "none"
    BY <2>2 DEF SetRecords
  <2>3. ASSUME NEW h \in Handlers, NEW s \in TaskStatus, SetTask(s), rec' = rec
        PROVE  \A d \in Devices : rec'[d] = "none"
    BY <2>3 DEF SetTask, TaskStatus, Ended, Rowless
  <2>4. ASSUME NEW h \in Handlers, Start(h)
        PROVE  \A d \in Devices : rec'[d] = "none"
    <3>1. CASE StartUpdate(h)
      BY <2>3, <3>1 DEF StartUpdate, TaskStatus
    <3>2. CASE StartReset(h)
      <4>1. PICK b \in BOOLEAN : SetRecords(StartScope(b), "notified") /\ task' = task
        BY <3>2 DEF StartReset
      <4>2. \A d \in StartScope(b) : rec[d] # "none"
        BY DEF StartScope
      <4> QED BY <2>2, <4>1, <4>2 DEF RecordStatus, Pending
    <3> QED
      BY <2>4, <3>1, <3>2
      DEF Start, StartRead, PublishNotify, PublishFails, rows
  <2>5. ASSUME NEW h \in Handlers, Cancel(h)
        PROVE  \A d \in Devices : rec'[d] = "none"
    <3>1. CASE CancelRecords(h)
      BY <2>2, <3>1
      DEF CancelRecords, PendingRecords, RecordStatus, Pending, Terminal
    <3>2. CASE CancelTask(h)
      BY <2>3, <3>2 DEF CancelTask, TaskStatus, Ended
    <3> QED BY <2>5, <3>1, <3>2 DEF Cancel, CancelRead, rows
  <2>6. ASSUME NEW h \in Handlers, Delete(h)
        PROVE  \A d \in Devices : rec'[d] = "none"
    BY <2>6 DEF Delete, DeleteRead, DeleteRow, SetRecords, rows
  <2>7. ASSUME NEW h \in Handlers, Progress(h)
        PROVE  \A d \in Devices : rec'[d] = "none"
    <3>1. CASE ReportWrite(h)
      BY <3>1 DEF ReportWrite, SetRecords, TypeOK, PcReport, Report
    <3>2. CASE ReportFinish(h)
      BY <2>3, <3>2 DEF ReportFinish, TaskStatus, Ended
    <3> QED
      BY <2>7, <3>1, <3>2
      DEF Progress, ReportRead, ReportSync, ReportCount, rows
  <2>8. CASE Scan
    <3>1. CASE ScanExpire
      BY <2>2, <3>1
      DEF ScanExpire, StaleRecords, PendingRecords, RecordStatus, Pending, Terminal
    <3>2. CASE ScanFinish
      BY <3>2 DEF ScanFinish, Rowless
    <3> QED BY <2>8, <3>1, <3>2 DEF Scan, ScanFind, rows
  <2>9. CASE RetentionPurge
    BY <2>2, <2>9 DEF RetentionPurge
  <2>10. CASE TimePasses \/ CrashScan \/ Gone \/ UNCHANGED vars
    BY <2>10 DEF TimePasses, CrashScan, Gone, vars, rows
  <2>11. ASSUME NEW h \in Handlers, CrashHandler(h)
         PROVE  \A d \in Devices : rec'[d] = "none"
    BY <2>11 DEF CrashHandler, rows
  <2> QED
    BY <2>1, <2>4, <2>5, <2>6, <2>7, <2>8, <2>9, <2>10, <2>11 DEF Next, TargetSets
<1> QED
  BY <1>1, <1>2, TypeCorrect, PTL DEF Spec

-----------------------------------------------------------------------------
\* A request that moves on to a closing step is about to close the task.
LEMMA GotoCloses ==
    ASSUME TypeOK, NEW h \in Handlers, NEW l, Goto(h, l),
           l \in {"start_reset", "restart_reset", "cancel_task", "report_sync",
                 "report_count", "report_finish"}
    PROVE  BeingClosed'
  BY DEF TypeOK, Goto, BeingClosed, Owes, PcReport

\* A step of a request that closes nothing itself leaves the others as they were.
LEMMA OthersClose ==
    ASSUME TypeOK, NEW h \in Handlers, ~Owes(h), scan' = scan, BeingClosed,
           \A k \in Handlers \ {h} : pc'[k] = pc[k]
    PROVE  BeingClosed'
  BY DEF BeingClosed, Owes

\* No sequence of requests, reports, scans and faults leaves a task running with
\* nothing to wait for, except through the three causes lostBy records.
THEOREM NoTaskForgotten == Spec => []NoForgottenTask
<1>1. Init => NoForgottenTask
  BY DEF Init, NoForgottenTask
<1>2. TypeOK /\ NoForgottenTask /\ [Next]_vars => NoForgottenTask'
  <2> SUFFICES ASSUME TypeOK, NoForgottenTask, [Next]_vars,
                      task' = "running", PendingRecords' = {}, lostBy' = {}
               PROVE  BeingClosed'
    BY DEF NoForgottenTask
  <2>1. ASSUME task = "running", PendingRecords = {}, lostBy = {}
        PROVE  BeingClosed
    BY <2>1 DEF NoForgottenTask
  <2>2. ASSUME rec' = rec PROVE PendingRecords = {}
    BY <2>2 DEF PendingRecords
  <2>3. ASSUME NEW T \in SUBSET Devices, CreateTask(T) PROVE FALSE
    BY <2>3 DEF CreateTask
  <2>4. ASSUME NEW h \in Handlers, Start(h) PROVE BeingClosed'
    <3>1. CASE StartUpdate(h)
      <4>1. task \notin Rowless
        BY <3>1 DEF StartUpdate, SetTask, Rowless
      <4>2. PICK l \in {"start_reset", "restart_reset"} : Goto(h, l)
        BY <3>1, <4>1 DEF StartUpdate
      <4> QED BY <4>2, GotoCloses
    <3>2. CASE StartReset(h)
      <4>1. PICK b \in BOOLEAN :
              /\ SetRecords(StartScope(b), "notified")
              /\ StartScope(b) # {}
        BY <3>2 DEF StartReset
      <4>2. PICK d \in Devices : d \in StartScope(b)
        BY <4>1 DEF StartScope
      <4>3. rec'[d] = "notified"
        BY <4>1, <4>2 DEF SetRecords
      <4> QED BY <4>2, <4>3 DEF PendingRecords, Pending
    <3>3. CASE StartRead(h) \/ PublishNotify(h) \/ PublishFails(h)
      <4>1. /\ UNCHANGED <<task, rec, scan, lostBy>>
            /\ ~Owes(h)
            /\ \A k \in Handlers \ {h} : pc'[k] = pc[k]
        BY <3>3
        DEF StartRead, PublishNotify, PublishFails, rows, Owes, PcReport,
            Goto, Finish, TypeOK
      <4> QED BY <2>1, <2>2, <4>1, OthersClose
    <3> QED BY <2>4, <3>1, <3>2, <3>3 DEF Start
  <2>5. ASSUME NEW h \in Handlers, Cancel(h) PROVE BeingClosed'
    <3>1. CASE CancelRead(h)
      <4>1. /\ UNCHANGED <<task, rec, scan, lostBy>>
            /\ ~Owes(h)
            /\ \A k \in Handlers \ {h} : pc'[k] = pc[k]
        BY <3>1 DEF CancelRead, rows, Owes, PcReport, Goto, TypeOK
      <4> QED BY <2>1, <2>2, <4>1, OthersClose
    <3>2. CASE CancelRecords(h)
      BY <3>2, GotoCloses DEF CancelRecords
    <3>3. CASE CancelTask(h)
      BY <3>3 DEF CancelTask, SetTask, Rowless
    <3> QED BY <2>5, <3>1, <3>2, <3>3 DEF Cancel
  <2>6. ASSUME NEW h \in Handlers, Delete(h) PROVE BeingClosed'
    <3>1. CASE DeleteRead(h)
      BY <3>1 DEF DeleteRead, rows, Ended
    <3>2. CASE DeleteRow(h)
      BY <3>2 DEF DeleteRow
    <3> QED BY <2>6, <3>1, <3>2 DEF Delete
  <2>7. ASSUME NEW h \in Handlers, Progress(h) PROVE BeingClosed'
    <3>1. CASE ReportRead(h) \/ (ReportWrite(h) /\ rec[msg[h].dev] = "none")
      <4>1. /\ UNCHANGED <<task, rec, scan, lostBy>>
            /\ ~Owes(h)
            /\ \A k \in Handlers \ {h} : pc'[k] = pc[k]
        BY <3>1
        DEF ReportRead, ReportWrite, rows, Owes, PcReport, Goto, Finish, TypeOK
      <4> QED BY <2>1, <2>2, <4>1, OthersClose
    <3>2. CASE ReportWrite(h) /\ rec[msg[h].dev] # "none"
      <4>1. PICK l \in {"report_sync", "report_count"} : Goto(h, l)
        BY <3>2 DEF ReportWrite
      <4> QED BY <4>1, GotoCloses
    <3>3. CASE ReportSync(h)
      BY <3>3, GotoCloses DEF ReportSync
    <3>4. CASE ReportCount(h)
      <4>1. rec' = rec
        BY <3>4 DEF ReportCount, rows
      <4> QED BY <2>2, <3>4, <4>1, GotoCloses DEF ReportCount
    <3>5. CASE ReportFinish(h)
      BY <3>5 DEF ReportFinish, SetTask, Rowless
    <3> QED BY <2>7, <3>1, <3>2, <3>3, <3>4, <3>5 DEF Progress
  <2>8. CASE Scan
    <3>1. CASE ScanFind
      <4>1. UNCHANGED <<task, rec, pc, lostBy>> /\ scan # "expired"
        BY <3>1 DEF ScanFind, rows, requests
      <4> QED BY <2>1, <2>2, <4>1 DEF BeingClosed, Owes
    <3>2. CASE ScanExpire
      BY <3>2 DEF ScanExpire, BeingClosed
    <3>3. CASE ScanFinish
      <4>1. rec' = rec
        BY <3>3 DEF ScanFinish
      <4> QED BY <2>2, <3>3, <4>1 DEF ScanFinish
    <3> QED BY <2>8, <3>1, <3>2, <3>3 DEF Scan
  <2>9. CASE RetentionPurge
    <3>1. PICK old \in SUBSET Devices :
            /\ SetRecords(old, "none")
            /\ old \cap PendingRecords = {}
      BY <2>9 DEF RetentionPurge
    <3>2. PendingRecords = {}
      BY <3>1 DEF SetRecords, PendingRecords
    <3>3. UNCHANGED <<task, pc, scan>> /\ lostBy = {}
      BY <2>9 DEF RetentionPurge, requests
    <3> QED BY <2>1, <3>2, <3>3 DEF BeingClosed, Owes
  <2>10. CASE CrashScan
    <3>1. UNCHANGED <<task, rec, pc>> /\ lostBy = {} /\ scan # "expired"
      BY <2>10 DEF CrashScan, rows, requests
    <3> QED BY <2>1, <2>2, <3>1 DEF BeingClosed, Owes
  <2>11. ASSUME NEW h \in Handlers, CrashHandler(h) PROVE BeingClosed'
    <3>1. /\ UNCHANGED <<task, rec, scan>>
          /\ lostBy = {}
          /\ ~Owes(h)
          /\ \A k \in Handlers \ {h} : pc'[k] = pc[k]
      BY <2>11 DEF CrashHandler, rows, Finish, TypeOK
    <3> QED BY <2>1, <2>2, <3>1, OthersClose
  <2>12. CASE TimePasses \/ Gone \/ UNCHANGED vars
    <3>1. UNCHANGED <<task, rec, pc, scan, lostBy>>
      BY <2>12 DEF TimePasses, Gone, vars, requests
    <3> QED BY <2>1, <2>2, <3>1 DEF BeingClosed, Owes
  <2> QED
    BY <2>3, <2>4, <2>5, <2>6, <2>7, <2>8, <2>9, <2>10, <2>11, <2>12 DEF Next, TargetSets
<1> QED
  BY <1>1, <1>2, TypeCorrect, PTL DEF Spec

-----------------------------------------------------------------------------
Syncing(d) == \E h \in Handlers : pc[h] = "report_sync" /\ msg[h].dev = d

\* A request that is not about to write a device row keeps the others' promise.
LEMMA OthersSync ==
    ASSUME NEW h \in Handlers, NEW d, pc[h] # "report_sync", Syncing(d),
           \A k \in Handlers \ {h} : pc'[k] = pc[k] /\ msg'[k] = msg[k]
    PROVE  Syncing(d)'
  BY DEF Syncing

\* Unless a process dies, no device is recorded as upgraded without its
\* firmware_version having been written, or about to be.
THEOREM VersionFollowsSuccess == Spec => []SuccessSynced
<1>1. Init => SuccessSynced
  BY DEF Init, SuccessSynced
<1>2. TypeOK /\ SuccessSynced /\ [Next]_vars => SuccessSynced'
  <2> SUFFICES ASSUME TypeOK, SuccessSynced, [Next]_vars, "crash" \notin Faults,
                      NEW d \in Devices, rec'[d] = "success"
               PROVE  d \in upgraded' \/ Syncing(d)'
    BY DEF SuccessSynced, Syncing
  <2>1. rec[d] = "success" => d \in upgraded \/ Syncing(d)
    BY DEF SuccessSynced, Syncing
  <2>2. ASSUME NEW S, NEW s, s # "success", SetRecords(S, s) PROVE rec[d] = "success"
    BY <2>2 DEF SetRecords
  <2>3. ASSUME NEW h \in Handlers, pc[h] # "report_sync", rec[d] = "success",
               upgraded' = upgraded,
               \A k \in Handlers \ {h} : pc'[k] = pc[k] /\ msg'[k] = msg[k]
        PROVE  d \in upgraded' \/ Syncing(d)'
    BY <2>1, <2>3, OthersSync
  <2>4. ASSUME NEW T \in SUBSET Devices, CreateTask(T)
        PROVE  d \in upgraded' \/ Syncing(d)'
    BY <2>1, <2>2, <2>4 DEF CreateTask, requests, Syncing
  <2>5. ASSUME NEW h \in Handlers, Start(h) \/ Cancel(h) \/ Delete(h)
        PROVE  d \in upgraded' \/ Syncing(d)'
    <3>1. rec[d] = "success"
      BY <2>2, <2>5
      DEF Start, StartRead, StartUpdate, StartReset, PublishNotify, PublishFails,
          Cancel, CancelRead, CancelRecords, CancelTask, Delete, DeleteRead,
          DeleteRow, rows
    <3>2. pc[h] # "report_sync" /\ upgraded' = upgraded
      BY <2>5
      DEF Start, StartRead, StartUpdate, StartReset, PublishNotify, PublishFails,
          Cancel, CancelRead, CancelRecords, CancelTask, Delete, DeleteRead,
          DeleteRow
    <3>3. \A k \in Handlers \ {h} : pc'[k] = pc[k] /\ msg'[k] = msg[k]
      BY <2>5
      DEF Start, StartRead, StartUpdate, StartReset, PublishNotify, PublishFails,
          Cancel, CancelRead, CancelRecords, CancelTask, Delete, DeleteRead,
          DeleteRow, Goto, Finish, TypeOK
    <3> QED BY <2>3, <3>1, <3>2, <3>3
  <2>6. ASSUME NEW h \in Handlers, Progress(h)
        PROVE  d \in upgraded' \/ Syncing(d)'
    <3>1. CASE ReportWrite(h)
      <4>1. msg[h] \in Report
        BY <3>1 DEF ReportWrite, TypeOK, PcReport
      <4>2. CASE rec[d] = "success" /\ (d # msg[h].dev \/ rec[msg[h].dev] = "none")
        BY <2>3, <3>1, <4>2 DEF ReportWrite, Goto, Finish, TypeOK
      <4>3. CASE d = msg[h].dev /\ rec[msg[h].dev] # "none"
        <5>1. msg[h].status = "success"
          BY <3>1, <4>3 DEF ReportWrite, SetRecords
        <5>2. pc'[h] = "report_sync" /\ msg' = msg
          BY <3>1, <4>3, <5>1 DEF ReportWrite, Goto, TypeOK
        <5> QED BY <4>3, <5>2 DEF Syncing
      <4>4. rec[d] = "success" \/ d = msg[h].dev
        BY <3>1 DEF ReportWrite, SetRecords
      <4>5. rec[d] = "success" \/ rec[msg[h].dev] # "none"
        BY <3>1 DEF ReportWrite
      <4> QED BY <4>2, <4>3, <4>4, <4>5
    <3>2. CASE ReportSync(h)
      <4>1. rec[d] = "success" /\ upgraded \subseteq upgraded' /\ msg' = msg
            /\ msg[h].dev \in upgraded' /\ \A k \in Handlers \ {h} : pc'[k] = pc[k]
        BY <3>2 DEF ReportSync, rows, Goto, TypeOK
      <4> QED BY <2>1, <4>1 DEF Syncing
    <3>3. CASE ReportRead(h) \/ ReportCount(h) \/ ReportFinish(h)
      <4>1. rec[d] = "success" /\ pc[h] # "report_sync" /\ upgraded' = upgraded
        BY <3>3 DEF ReportRead, ReportCount, ReportFinish, rows
      <4>2. \A k \in Handlers \ {h} : pc'[k] = pc[k] /\ msg'[k] = msg[k]
        BY <3>3 DEF ReportRead, ReportCount, ReportFinish, Goto, Finish, TypeOK
      <4> QED BY <2>3, <4>1, <4>2
    <3> QED BY <2>6, <3>1, <3>2, <3>3 DEF Progress
  <2>7. CASE Scan \/ RetentionPurge \/ CrashScan \/ TimePasses \/ Gone \/ UNCHANGED vars
    <3>1. rec[d] = "success"
      BY <2>2, <2>7
      DEF Scan, ScanFind, ScanExpire, ScanFinish, RetentionPurge, CrashScan,
          TimePasses, Gone, vars, rows
    <3>2. UNCHANGED <<upgraded, pc, msg>>
      BY <2>7
      DEF Scan, ScanFind, ScanExpire, ScanFinish, RetentionPurge, CrashScan,
          TimePasses, Gone, vars, requests
    <3> QED BY <2>1, <3>1, <3>2 DEF Syncing
  <2>8. ASSUME NEW h \in Handlers, CrashHandler(h) PROVE FALSE
    BY <2>8 DEF CrashHandler
  <2> QED BY <2>4, <2>5, <2>6, <2>7, <2>8 DEF Next, TargetSets
<1> QED
  BY <1>1, <1>2, TypeCorrect, PTL DEF Spec

-----------------------------------------------------------------------------
\* Starting, cancelling, deleting, expiring, purging and dying never turn a
\* successful record into an unsuccessful one: only its device's report does.
THEOREM SuccessKept == Spec => PlatformKeepsSuccess
<1> DEFINE Kept == \A d \in Devices :
                     rec[d] = "success" /\ rec'[d] # "success" =>
                       rec'[d] = "none" \/ \E h \in Handlers : Writes(h, d)
<1>1. TypeOK /\ NoOrphanRecords /\ [Next]_vars => [Kept]_vars
  <2> SUFFICES ASSUME TypeOK, NoOrphanRecords, Next, NEW d \in Devices,
                      rec[d] = "success", rec'[d] # "success"
               PROVE  rec'[d] = "none" \/ \E h \in Handlers : Writes(h, d)
    OBVIOUS
  <2>1. ASSUME NEW S, NEW s, SetRecords(S, s)
        PROVE  d \in S /\ rec'[d] = s
    BY <2>1 DEF SetRecords
  <2>2. ASSUME NEW h \in Handlers, ReportWrite(h) PROVE Writes(h, d)
    BY <2>1, <2>2 DEF ReportWrite, Writes, Goto, Finish, TypeOK
  <2>3. ASSUME NEW h \in Handlers, Start(h) PROVE FALSE
    <3>1. \A b \in BOOLEAN : d \notin StartScope(b)
      BY DEF StartScope
    <3> QED
      BY <2>1, <2>3, <3>1
      DEF Start, StartRead, StartUpdate, StartReset, PublishNotify, PublishFails, rows
  <2>4. d \notin PendingRecords /\ d \notin StaleRecords
    BY DEF PendingRecords, StaleRecords, Pending
  <2>5. ASSUME NEW h \in Handlers, Cancel(h) \/ Delete(h) \/ CrashHandler(h)
        PROVE  rec'[d] = "none"
    BY <2>1, <2>4, <2>5
    DEF Cancel, CancelRead, CancelRecords, CancelTask, Delete, DeleteRead,
        DeleteRow, CrashHandler, rows
  <2>6. ASSUME NEW h \in Handlers, Progress(h) PROVE ReportWrite(h)
    BY <2>6 DEF Progress, ReportRead, ReportSync, ReportCount, ReportFinish, rows
  <2>7. CASE Scan \/ RetentionPurge \/ CrashScan \/ TimePasses \/ Gone
    BY <2>1, <2>4, <2>7
    DEF Scan, ScanFind, ScanExpire, ScanFinish, RetentionPurge, CrashScan,
        TimePasses, Gone, vars, rows
  <2>8. ASSUME NEW T \in SUBSET Devices, CreateTask(T) PROVE FALSE
    BY <2>8 DEF CreateTask, NoOrphanRecords, Rowless
  <2> QED
    BY <2>2, <2>3, <2>5, <2>6, <2>7, <2>8 DEF Next, TargetSets
<1> QED
  BY <1>1, TypeCorrect, OrphanFree, PTL DEF Spec, PlatformKeepsSuccess
=============================================================================
