------------------------- MODULE DeviceIngressProofs -------------------------
(* Theorems about DeviceIngress, for any set of keys, reports, requests and *)
(* workers and all faults.                                                  *)
EXTENDS DeviceIngress, SequenceTheorems, TLAPS

Queued(q) == {q[i] : i \in DOMAIN q}
Once(q) == \A i, j \in DOMAIN q : q[i] = q[j] => i = j

\* A process handles what the statement it stands at is about.
WorkFits ==
    /\ \A p \in Processes : pc[p] = "idle" <=> work[p] = Nothing
    /\ \A p \in Processes : pc[p] \in PcNotice => work[p] \in Notice
    /\ \A p \in Processes : pc[p] \in PcReport => work[p] \in Reports
    /\ \A w \in Workers : work[w] \in Reports \cup {Nothing}

\* A session has begun before it can end.
SessionBegan == connected => sessions > 0

\* A report has at most one job: in the queue, in a backoff or with one worker.
OneJob ==
    /\ Once(queue)
    /\ delayed \cap Queued(queue) = {}
    /\ \A w \in Workers : work[w] \notin delayed \cup Queued(queue)
    /\ \A v, w \in Workers : v # w /\ work[v] = work[w] => work[v] = Nothing

\* A job belongs to a report that arrived and has an attempt left.
HasJob(n) == n \in delayed \cup Queued(queue) \/ \E w \in Workers : work[w] = n
JobsAlive ==
    \A n \in Reports : HasJob(n) => n \in arrived /\ tries[n] < JobAttempts

Fresh == \A n \in Reports \ arrived : tries[n] = 0

\* What a handler read or wrote, and what was shown, is not ahead of the row.
Snapshots ==
    /\ shown.version <= version
    /\ \A p \in Processes : pc[p] = "shadow_event" =>
         /\ seen[p].version <= version
         /\ seen[p].version = version => seen[p].reported = reported

IInv == TypeOK /\ WorkFits /\ SessionBegan /\ OneJob /\ JobsAlive /\ Fresh
        /\ Snapshots /\ ShownIsCurrent /\ NoReportVanishes
-----------------------------------------------------------------------------
(* What the queue's operations do to its jobs.                             *)

\* A job put at the end of the queue joins those waiting there.
LEMMA AppendJob ==
    ASSUME NEW q \in Seq(Reports), NEW n \in Reports
    PROVE  /\ Append(q, n) \in Seq(Reports)
           /\ Queued(Append(q, n)) = Queued(q) \cup {n}
           /\ Once(q) /\ n \notin Queued(q) => Once(Append(q, n))
<1>1. /\ Append(q, n) \in Seq(Reports)
      /\ Len(Append(q, n)) = Len(q) + 1
      /\ \A i \in 1 .. Len(q) : Append(q, n)[i] = q[i]
      /\ Append(q, n)[Len(q) + 1] = n
  BY AppendProperties
<1>2. /\ Len(q) \in Nat
      /\ DOMAIN q = 1 .. Len(q)
      /\ DOMAIN Append(q, n) = 1 .. Len(q) + 1
  BY <1>1, LenProperties
<1>3. Queued(Append(q, n)) = Queued(q) \cup {n}
  BY <1>1, <1>2 DEF Queued
<1>4. Once(q) /\ n \notin Queued(q) => Once(Append(q, n))
  BY <1>1, <1>2 DEF Queued, Once
<1> QED BY <1>1, <1>3, <1>4

\* So does one put at its front.
LEMMA PrependJob ==
    ASSUME NEW q \in Seq(Reports), NEW n \in Reports
    PROVE  /\ <<n>> \o q \in Seq(Reports)
           /\ Queued(<<n>> \o q) = Queued(q) \cup {n}
           /\ Once(q) /\ n \notin Queued(q) => Once(<<n>> \o q)
<1> DEFINE r == <<n>> \o q
<1>0. <<n>> \in Seq(Reports) /\ Len(<<n>>) = 1 /\ <<n>>[1] = n
  OBVIOUS
<1>1. /\ r \in Seq(Reports)
      /\ Len(r) = 1 + Len(q)
      /\ \A i \in 1 .. 1 + Len(q) : r[i] = IF i <= 1 THEN <<n>>[i] ELSE q[i - 1]
  BY <1>0, ConcatProperties
<1>2. /\ Len(q) \in Nat
      /\ DOMAIN q = 1 .. Len(q)
      /\ DOMAIN r = 1 .. Len(q) + 1
  BY <1>1, LenProperties
<1>3. r[1] = n /\ \A i \in 1 .. Len(q) : r[i + 1] = q[i]
  BY <1>0, <1>1, <1>2
<1>4. \A i \in 2 .. Len(q) + 1 : i - 1 \in 1 .. Len(q) /\ r[i] = q[i - 1]
  BY <1>1, <1>2
<1> HIDE DEF r
<1>5. Queued(r) = Queued(q) \cup {n}
  BY <1>2, <1>3, <1>4 DEF Queued
<1>6. ASSUME Once(q), n \notin Queued(q), NEW i \in DOMAIN r, NEW j \in DOMAIN r,
             r[i] = r[j]
      PROVE  i = j
  <2>1. \A k \in 2 .. Len(q) + 1 : r[k] # n
    BY <1>2, <1>4, <1>6 DEF Queued
  <2>2. CASE i = 1 \/ j = 1
    BY <1>2, <1>3, <1>6, <2>1, <2>2
  <2>3. CASE i # 1 /\ j # 1
    <3>1. i \in 2 .. Len(q) + 1 /\ j \in 2 .. Len(q) + 1
      BY <1>2, <1>6, <2>3
    <3>2. q[i - 1] = q[j - 1] /\ i - 1 \in DOMAIN q /\ j - 1 \in DOMAIN q
      BY <1>2, <1>4, <1>6, <3>1
    <3>3. i - 1 = j - 1
      BY <1>6, <3>2 DEF Once
    <3> QED BY <1>2, <1>6, <3>3
  <2> QED BY <2>2, <2>3
<1>7. Once(q) /\ n \notin Queued(q) => Once(r)
  BY <1>6 DEF Once
<1> QED BY <1>1, <1>5, <1>7 DEF r

\* Taking the first job leaves the others.
LEMMA TakeJob ==
    ASSUME NEW q \in Seq(Reports), q # <<>>
    PROVE  /\ Head(q) \in Reports /\ Tail(q) \in Seq(Reports)
           /\ Queued(q) = Queued(Tail(q)) \cup {Head(q)}
           /\ Once(q) => Head(q) \notin Queued(Tail(q)) /\ Once(Tail(q))
<1>1. /\ Head(q) \in Reports
      /\ Tail(q) \in Seq(Reports)
      /\ Len(Tail(q)) = Len(q) - 1
      /\ \A i \in 1 .. Len(q) - 1 : Tail(q)[i] = q[i + 1]
  BY HeadTailProperties
<1>2. /\ Len(q) \in Nat \ {0}
      /\ DOMAIN q = 1 .. Len(q)
      /\ DOMAIN Tail(q) = 1 .. Len(q) - 1
      /\ Head(q) = q[1]
  BY <1>1, LenProperties, EmptySeq
<1>3. \A i \in 2 .. Len(q) : i - 1 \in 1 .. Len(q) - 1 /\ q[i] = Tail(q)[i - 1]
  BY <1>1, <1>2
<1>4. Queued(q) = Queued(Tail(q)) \cup {Head(q)}
  <2>1. ASSUME NEW i \in DOMAIN q PROVE q[i] \in Queued(Tail(q)) \cup {Head(q)}
    <3>1. CASE i = 1
      BY <1>2, <3>1
    <3>2. CASE i # 1
      <4>1. i \in 2 .. Len(q)
        BY <1>2, <2>1, <3>2
      <4> QED BY <1>2, <1>3, <4>1 DEF Queued
    <3> QED BY <3>1, <3>2
  <2>2. Head(q) \in Queued(q)
    <3>1. 1 \in DOMAIN q
      BY <1>2
    <3> QED BY <1>2, <3>1 DEF Queued
  <2>3. ASSUME NEW i \in DOMAIN Tail(q) PROVE Tail(q)[i] \in Queued(q)
    <3>1. i \in 1 .. Len(q) - 1 /\ i + 1 \in DOMAIN q
      BY <1>2, <2>3
    <3> QED BY <1>1, <3>1 DEF Queued
  <2> QED BY <2>1, <2>2, <2>3 DEF Queued
<1>5. Once(q) => Head(q) \notin Queued(Tail(q)) /\ Once(Tail(q))
  BY <1>1, <1>2 DEF Queued, Once
<1> QED BY <1>1, <1>4, <1>5

\* Only reports are queued.
LEMMA QueuedReports ==
    ASSUME NEW q \in Seq(Reports) PROVE Queued(q) \subseteq Reports
<1>1. DOMAIN q = 1 .. Len(q) /\ \A i \in 1 .. Len(q) : q[i] \in Reports
  BY LenProperties, ElementOfSeq
<1> QED BY <1>1 DEF Queued

\* Waiting in the terms of these lemmas.
LEMMA WaitingIs == \A n : Waiting(n) <=> n \in delayed \cup Queued(queue)
  BY DEF Waiting, Queued

-----------------------------------------------------------------------------
(* What a step of a process does to the local variables.                   *)

\* Moving a process on moves no other.
LEMMA GotoPc ==
    ASSUME TypeOK, NEW p \in Processes, NEW l \in Pc, Goto(p, l)
    PROVE  /\ pc' \in [Processes -> Pc]
           /\ pc'[p] = l
           /\ \A o \in Processes \ {p} : pc'[o] = pc[o]
  BY DEF TypeOK, Goto

\* A process that ends forgets what it handled and read.
LEMMA EndLocal ==
    ASSUME TypeOK, NEW p \in Processes, End(p)
    PROVE  /\ pc' \in [Processes -> Pc]
           /\ work' \in [Processes -> Reports \cup Notice \cup {Nothing}]
           /\ status' \in [Processes -> OnlineStatus]
           /\ seen' \in [Processes -> Shadow]
           /\ pc'[p] = "idle" /\ work'[p] = Nothing
           /\ \A o \in Processes \ {p} : /\ pc'[o] = pc[o] /\ work'[o] = work[o]
                                         /\ seen'[o] = seen[o]
<1>1. EmptyShadow \in Shadow
  BY DEF EmptyShadow, Shadow
<1> QED BY <1>1 DEF End, Goto, TypeOK, Pc, OnlineStatus

\* A process that takes a report stands at its first statement.
LEMMA TakeLocal ==
    ASSUME TypeOK, NEW p \in Processes, NEW n \in Reports, Take(p, n, "read")
    PROVE  /\ pc' \in [Processes -> Pc]
           /\ work' \in [Processes -> Reports \cup Notice \cup {Nothing}]
           /\ pc[p] = "idle" /\ pc'[p] = "read" /\ work'[p] = n
           /\ \A o \in Processes \ {p} : pc'[o] = pc[o] /\ work'[o] = work[o]
           /\ UNCHANGED <<status, seen>>
  BY DEF Take, Goto, TypeOK, Pc, PcReport

\* A handler's snapshot takes over what its write of the shadow returned.
LEMMA SeenWritten ==
    ASSUME NEW f \in [Processes -> Shadow], NEW p \in Processes,
           NEW r \in [Keys -> Reports \cup {Nothing}], NEW v \in Nat
    PROVE  [f EXCEPT ![p].reported = r, ![p].version = v] \in [Processes -> Shadow]
  BY DEF Shadow

\* The statements that leave all jobs, and what is in hand, where they are.
Still == \/ Connect \/ Disconnect \/ Takeover \/ LoseNotice \/ WriteDesired
         \/ \E r \in Lifecycle : SessionWrite(r) \/ SessionEvent(r)
         \/ \E p \in Processes :
              ReadDevice(p) \/ ShadowRead(p) \/ ShadowWrite(p) \/ ShadowEvent(p)
              \/ DeviceWrite(p) \/ StatusEvent(p)
         \/ AtRest \/ UNCHANGED vars

\* The steps that move no report leave all jobs alone.
LEMMA StillKeeps == Still => UNCHANGED <<jobs, work, arrived, applied, dropped>>
  BY DEF Still, Connect, Disconnect, Takeover, LoseNotice, WriteDesired, SessionWrite,
         SessionEvent, ReadDevice, ShadowRead, ShadowWrite, ShadowEvent, DeviceWrite,
         StatusEvent, AtRest, vars, local, jobs, fate

\* Every step is one of those, or moves a report or a notice.
LEMMA StepKinds ==
    ASSUME [Next]_vars
    PROVE  \/ Still
           \/ \E r \in Lifecycle : NoticeRead(r)
           \/ \E r \in Direct, n \in Reports : EnqueueFails(r, n)
           \/ \E r \in Requests : RequestFails(r)
           \/ \E w \in Workers : WorkerTake(w)
           \/ \E w \in Workers : JobFails(w)
           \/ \E p \in Processes : Log(p)
           \/ \E n \in Reports : Enqueue(n)
           \/ \E n \in Reports : BackoffEnds(n)
  BY DEF Next, Handle, Still

\* The initial state satisfies the inductive invariant.
LEMMA InitInv == Init => IInv
<1> SUFFICES ASSUME Init PROVE IInv
  OBVIOUS
<1> USE IngressAssumption DEF Init
<1>0. /\ EmptyShadow \in Shadow
      /\ EmptyShadow.reported \in [Keys -> Reports \cup {Nothing}]
  BY DEF EmptyShadow, Shadow
<1>1. TypeOK
  <2>1. /\ pc \in [Processes -> Pc] /\ status \in [Processes -> OnlineStatus]
        /\ work \in [Processes -> Reports \cup Notice \cup {Nothing}]
        /\ seen \in [Processes -> Shadow]
    BY <1>0 DEF Pc, OnlineStatus
  <2>2. notices \in Seq(Notice) /\ queue \in Seq(Reports)
    OBVIOUS
  <2>3. shown \in [reported: [Keys -> Reports \cup {Nothing}], version: Nat]
    BY <1>0
  <2>4. /\ patch \in [Reports -> SUBSET Keys]
        /\ tries \in [Reports -> 0 .. JobAttempts]
        /\ desired \in 0 .. MaxDesired /\ sessions \in 0 .. MaxSessions
        /\ reported \in [Keys -> Reports \cup {Nothing}]
    BY <1>0
  <2> QED BY <2>1, <2>2, <2>3, <2>4 DEF TypeOK, OnlineStatus
<1>2. Queued(queue) = {} /\ Once(queue)
  BY DEF Queued, Once
<1>3. WorkFits /\ SessionBegan /\ Fresh
  BY DEF WorkFits, SessionBegan, Fresh, PcNotice, PcReport, Processes
<1>4. OneJob
  BY <1>2 DEF OneJob, Processes
<1>5. JobsAlive
  BY <1>2 DEF JobsAlive, HasJob, Processes
<1>6. Snapshots /\ ShownIsCurrent /\ NoReportVanishes
  BY DEF Snapshots, ShownIsCurrent, NoReportVanishes
<1> QED BY <1>1, <1>3, <1>4, <1>5, <1>6 DEF IInv

-----------------------------------------------------------------------------
(* Each part of IInv is kept by every step.                                *)

\* The values stay in their ranges: a failure finds an attempt left to count.
LEMMA TypeStep == IInv /\ [Next]_vars => TypeOK'
<1> SUFFICES ASSUME IInv, [Next]_vars PROVE TypeOK'
  OBVIOUS
<1> USE IngressAssumption DEF IInv
<1>p. /\ Lifecycle \subseteq Processes /\ Requests \subseteq Processes
      /\ Direct \subseteq Processes /\ Workers \subseteq Processes
  BY DEF Requests, Processes
<1>b. sessions \in 0 .. MaxSessions /\ notices \in Seq(Notice) /\ MaxSessions \in Nat
  BY DEF TypeOK
<1>1. CASE Connect
  <2>1. Started \in Notice
    BY <1>1, <1>b DEF Connect, Started, Notice
  <2>2. sessions' \in 0 .. MaxSessions /\ notices' \in Seq(Notice) /\ connected' \in BOOLEAN
    BY <1>1, <1>b, <2>1 DEF Connect
  <2> QED BY <1>1, <2>2 DEF Connect, TypeOK, shadow, events, jobs, fate, local
<1>2. CASE Disconnect
  <2>1. Ended \in Notice
    BY <1>2, <1>b DEF Disconnect, Ended, Notice, SessionBegan
  <2>2. notices' = Append(notices, Ended) /\ connected' \in BOOLEAN
    BY <1>2 DEF Disconnect
  <2>3. notices' \in Seq(Notice)
    BY <1>b, <2>1, <2>2, AppendProperties
  <2> QED BY <1>2, <2>2, <2>3 DEF Disconnect, TypeOK, shadow, events, jobs, fate, local
<1>3. CASE Takeover
  <2>1. Started \in Notice /\ Ended \in Notice
    BY <1>3, <1>b DEF Takeover, Started, Ended, Notice, SessionBegan
  <2>2. sessions' \in 0 .. MaxSessions
    BY <1>3, <1>b DEF Takeover
  <2>3. notices' \in Seq(Notice)
    <3>1. <<Ended, Started>> \in Seq(Notice) /\ <<Started, Ended>> \in Seq(Notice)
      BY <2>1
    <3>2. \/ notices' = notices \o <<Ended, Started>>
          \/ notices' = notices \o <<Started, Ended>>
      BY <1>3 DEF Takeover
    <3>3. notices \o <<Ended, Started>> \in Seq(Notice)
      BY <1>b, <3>1, ConcatProperties
    <3>4. notices \o <<Started, Ended>> \in Seq(Notice)
      BY <1>b, <3>1, ConcatProperties
    <3> QED BY <3>2, <3>3, <3>4
  <2> QED BY <1>3, <2>2, <2>3 DEF Takeover, TypeOK, shadow, events, jobs, fate, local
<1>4. CASE LoseNotice
  <2>1. notices' \in Seq(Notice)
    BY <1>4, <1>b, HeadTailProperties DEF LoseNotice
  <2> QED BY <1>4, <2>1 DEF LoseNotice, TypeOK, shadow, events, jobs, fate, local
<1>5. ASSUME NEW r \in Lifecycle, NoticeRead(r) PROVE TypeOK'
  <2>1. notices' \in Seq(Notice) /\ Head(notices) \in Notice
    BY <1>5, <1>b, HeadTailProperties DEF NoticeRead
  <2>2. /\ pc' \in [Processes -> Pc]
        /\ work' \in [Processes -> Reports \cup Notice \cup {Nothing}]
        /\ status' \in [Processes -> OnlineStatus]
    BY <1>5, <1>p, <2>1, GotoPc DEF NoticeRead, TypeOK, Pc, PcNotice
  <2> QED BY <1>5, <2>1, <2>2 DEF NoticeRead, TypeOK, shadow, events, jobs, fate
<1>6. ASSUME NEW r \in Lifecycle, SessionWrite(r) PROVE TypeOK'
  <2>1. work[r] \in Notice
    BY <1>6, <1>p DEF SessionWrite, WorkFits, PcNotice
  <2>2. online' \in OnlineStatus
    BY <1>6, <2>1 DEF SessionWrite, Notice, OnlineStatus
  <2>3. pc' \in [Processes -> Pc]
    BY <1>6 DEF SessionWrite, Goto, TypeOK, Pc, PcNotice
  <2> QED BY <1>6, <2>2, <2>3 DEF SessionWrite, TypeOK, session, shadow, events, jobs, fate
<1>7. ASSUME NEW r \in Lifecycle, SessionEvent(r) PROVE TypeOK'
  <2>1. work[r] \in Notice
    BY <1>7, <1>p DEF SessionEvent, WorkFits, PcNotice
  <2>2. pushed' \in OnlineStatus
    BY <1>7, <2>1 DEF SessionEvent, Push, Notice, OnlineStatus, TypeOK
  <2>3. pc' \in [Processes -> Pc]
    BY <1>7 DEF SessionEvent, Goto, TypeOK, Pc
  <2> QED BY <1>7, <2>2, <2>3 DEF SessionEvent, TypeOK, session, shadow, jobs, fate
<1>a. ASSUME NEW n \in Reports, Arrive(n), queue' \in {queue, Append(queue, n)}
      PROVE  /\ patch' \in [Reports -> SUBSET Keys] /\ arrived' \subseteq Reports
             /\ queue' \in Seq(Reports)
  <2>1. queue' \in Seq(Reports)
    <3>1. queue \in Seq(Reports)
      BY DEF TypeOK
    <3>2. Append(queue, n) \in Seq(Reports)
      BY <3>1, AppendJob
    <3> QED BY <1>a, <3>1, <3>2
  <2> QED BY <1>a, <2>1 DEF Arrive, TypeOK
<1>8. ASSUME NEW r \in Direct, NEW n \in Reports, EnqueueFails(r, n) PROVE TypeOK'
  <2>1. Arrive(n) /\ queue' \in {queue, Append(queue, n)} /\ UNCHANGED <<delayed, tries>>
        /\ Take(r, n, "read")
    BY <1>8 DEF EnqueueFails
  <2>2. UNCHANGED <<session, online, shadow, events, applied, dropped>>
    BY <2>1 DEF Arrive
  <2> QED BY <1>a, <1>p, <2>1, <2>2, TakeLocal DEF TypeOK, session, shadow, events
<1>9. ASSUME NEW r \in Requests, RequestFails(r) PROVE TypeOK'
  <2>1. dropped' \subseteq Reports /\ End(r)
    BY <1>9 DEF RequestFails, TypeOK
  <2> QED BY <1>9, <1>p, <2>1, EndLocal DEF RequestFails, TypeOK, session, shadow, events, jobs
<1>10. ASSUME NEW w \in Workers, WorkerTake(w) PROVE TypeOK'
  <2>1. Head(queue) \in Reports /\ queue' \in Seq(Reports)
    BY <1>10, TakeJob DEF WorkerTake, TypeOK
  <2>2. Take(w, Head(queue), "read")
    BY <1>10 DEF WorkerTake
  <2> QED BY <1>10, <1>p, <2>1, <2>2, TakeLocal
          DEF WorkerTake, TypeOK, session, shadow, events, fate
<1>11. ASSUME NEW w \in Workers, JobFails(w) PROVE TypeOK'
  <2>1. work[w] \in Reports
    BY <1>11, <1>p DEF JobFails, WorkFits
  <2>2. tries[work[w]] < JobAttempts
    BY <2>1 DEF JobsAlive, HasJob
  <2>3. tries' \in [Reports -> 0 .. JobAttempts]
    <3>1. tries[work[w]] + 1 \in 0 .. JobAttempts
      BY <2>1, <2>2 DEF TypeOK
    <3> QED BY <1>11, <3>1 DEF JobFails, TypeOK
  <2>4. dropped' \subseteq Reports /\ delayed' \subseteq Reports /\ End(w)
    BY <1>11, <2>1 DEF JobFails, TypeOK
  <2>5. /\ pc' \in [Processes -> Pc]
        /\ work' \in [Processes -> Reports \cup Notice \cup {Nothing}]
        /\ status' \in [Processes -> OnlineStatus]
        /\ seen' \in [Processes -> Shadow]
    BY <1>p, <2>4, EndLocal
  <2> QED BY <1>11, <2>3, <2>4, <2>5 DEF JobFails, TypeOK, session, shadow, events
<1>12. ASSUME NEW p \in Processes, ReadDevice(p) PROVE TypeOK'
  <2>1. status' \in [Processes -> OnlineStatus] /\ pc' \in [Processes -> Pc]
    BY <1>12 DEF ReadDevice, Goto, TypeOK, Pc, PcReport
  <2> QED BY <1>12, <2>1 DEF ReadDevice, TypeOK, session, shadow, events, jobs, fate
<1>13. ASSUME NEW p \in Processes, ShadowRead(p) PROVE TypeOK'
  <2>1. [reported |-> reported, desired |-> desired, version |-> version] \in Shadow
    BY DEF TypeOK, Shadow
  <2>2. seen' \in [Processes -> Shadow] /\ pc' \in [Processes -> Pc]
    BY <1>13, <2>1 DEF ShadowRead, Goto, TypeOK, Pc, PcReport
  <2> QED BY <1>13, <2>2 DEF ShadowRead, TypeOK, session, shadow, events, jobs, fate
<1>14. ASSUME NEW p \in Processes, ShadowWrite(p) PROVE TypeOK'
  <2>1. work[p] \in Reports
    BY <1>14 DEF ShadowWrite, WorkFits, PcReport
  <2>2. reported' \in [Keys -> Reports \cup {Nothing}]
    BY <1>14, <2>1 DEF ShadowWrite, mergeReportedShadow, TypeOK, Shadow
  <2>3. version' \in Nat
    BY <1>14 DEF ShadowWrite, TypeOK
  <2>4. seen' \in [Processes -> Shadow]
    <3>1. seen' = [seen EXCEPT ![p].reported = reported', ![p].version = version']
      BY <1>14 DEF ShadowWrite
    <3>2. seen \in [Processes -> Shadow]
      BY DEF TypeOK
    <3> QED BY <2>2, <2>3, <3>1, <3>2, SeenWritten
  <2>5. pc' \in [Processes -> Pc]
    BY <1>14 DEF ShadowWrite, AfterShadow, Goto, TypeOK, Pc, PcReport
  <2> QED BY <1>14, <2>2, <2>3, <2>4, <2>5 DEF ShadowWrite, TypeOK, session, events, jobs, fate
<1>15. ASSUME NEW p \in Processes, ShadowEvent(p) PROVE TypeOK'
  <2>1. [reported |-> seen[p].reported, version |-> seen[p].version]
          \in [reported: [Keys -> Reports \cup {Nothing}], version: Nat]
    BY DEF TypeOK, Shadow
  <2>2. shown' \in [reported: [Keys -> Reports \cup {Nothing}], version: Nat]
    BY <1>15, <2>1 DEF ShadowEvent, Push, TypeOK
  <2>3. pc' \in [Processes -> Pc]
    BY <1>15 DEF ShadowEvent, Goto, TypeOK, Pc, PcReport
  <2> QED BY <1>15, <2>2, <2>3 DEF ShadowEvent, TypeOK, session, shadow, jobs, fate
<1>16. ASSUME NEW p \in Processes, DeviceWrite(p) PROVE TypeOK'
  <2>1. pc' \in [Processes -> Pc] /\ online' \in OnlineStatus
    BY <1>16 DEF DeviceWrite, Goto, TypeOK, Pc, PcReport, OnlineStatus
  <2> QED BY <1>16, <2>1 DEF DeviceWrite, TypeOK, session, shadow, events, jobs, fate
<1>17. ASSUME NEW p \in Processes, StatusEvent(p) PROVE TypeOK'
  <2>1. pc' \in [Processes -> Pc] /\ pushed' \in OnlineStatus
    BY <1>17 DEF StatusEvent, Push, Goto, TypeOK, Pc, OnlineStatus
  <2> QED BY <1>17, <2>1 DEF StatusEvent, TypeOK, session, shadow, jobs, fate
<1>18. ASSUME NEW p \in Processes, Log(p) PROVE TypeOK'
  <2>1. applied' \subseteq Reports /\ End(p)
    BY <1>18 DEF Log, TypeOK
  <2> QED BY <1>18, <2>1, EndLocal DEF Log, TypeOK, session, shadow, events, jobs
<1>19. ASSUME NEW n \in Reports, Enqueue(n) PROVE TypeOK'
  <2>1. Arrive(n) /\ queue' = Append(queue, n) /\ UNCHANGED <<delayed, tries, local>>
    BY <1>19 DEF Enqueue
  <2>2. UNCHANGED <<session, online, shadow, events, applied, dropped>>
    BY <2>1 DEF Arrive
  <2> QED BY <1>a, <2>1, <2>2 DEF TypeOK, session, shadow, events, local
<1>20. ASSUME NEW n \in Reports, BackoffEnds(n) PROVE TypeOK'
  <2>1. queue' \in Seq(Reports)
    <3>1. CASE queue' = Append(queue, n)
      BY <3>1, AppendJob DEF TypeOK
    <3>2. CASE queue' = <<n>> \o queue
      BY <3>2, PrependJob DEF TypeOK
    <3> QED BY <1>20, <3>1, <3>2 DEF BackoffEnds
  <2>2. delayed' \subseteq Reports
    BY <1>20 DEF BackoffEnds, TypeOK
  <2> QED BY <1>20, <2>1, <2>2 DEF BackoffEnds, TypeOK, session, shadow, events, fate, local
<1>21. CASE WriteDesired
  <2>1. desired' \in 0 .. MaxDesired /\ version' \in Nat
    BY <1>21 DEF WriteDesired, TypeOK
  <2> QED BY <1>21, <2>1 DEF WriteDesired, TypeOK, session, events, jobs, fate, local
<1>22. CASE AtRest \/ UNCHANGED vars
  BY <1>22 DEF AtRest, TypeOK, vars, session, shadow, events, jobs, fate, local
<1> QED
  BY <1>1, <1>2, <1>3, <1>4, <1>5, <1>6, <1>7, <1>8, <1>9, <1>10, <1>11, <1>12, <1>13,
     <1>14, <1>15, <1>16, <1>17, <1>18, <1>19, <1>20, <1>21, <1>22 DEF Next, Handle

\* Taking, failing, putting back and ending a job keep it one job, with an
\* attempt left.
LEMMA JobsStep == IInv /\ [Next]_vars => OneJob' /\ JobsAlive' /\ Fresh'
<1> SUFFICES ASSUME IInv, [Next]_vars PROVE OneJob' /\ JobsAlive' /\ Fresh'
  OBVIOUS
<1> USE IngressAssumption DEF IInv
<1> DEFINE Q == Queued(queue)
<1>q. queue \in Seq(Reports) /\ delayed \subseteq Reports /\ Nothing \notin Reports
      /\ tries \in [Reports -> 0 .. JobAttempts] /\ Workers \subseteq Processes
  BY DEF TypeOK, Processes
<1>n. ASSUME NEW n \in Reports \ arrived
      PROVE  n \notin Q /\ n \notin delayed /\ \A w \in Workers : work[w] # n
  BY <1>n DEF JobsAlive, HasJob
<1>1. CASE Still
  BY <1>1, StillKeeps DEF OneJob, JobsAlive, Fresh, HasJob, jobs
<1>2. ASSUME NEW r \in Lifecycle, NoticeRead(r) PROVE OneJob' /\ JobsAlive' /\ Fresh'
  <2>1. \A w \in Workers : work'[w] = work[w]
    BY <1>2, <1>q DEF NoticeRead, TypeOK, Requests, Processes
  <2> QED BY <1>2, <2>1 DEF NoticeRead, OneJob, JobsAlive, Fresh, HasJob, jobs, fate
<1>3. ASSUME NEW n \in Reports, n \notin arrived, Arrive(n), UNCHANGED <<delayed, tries>>,
             \A w \in Workers : work'[w] = work[w],
             queue' \in {queue, Append(queue, n)}
      PROVE  OneJob' /\ JobsAlive' /\ Fresh'
  <2>1. Once(queue') /\ Queued(queue') \subseteq Q \cup {n}
    <3>1. CASE queue' = queue
      BY <3>1 DEF OneJob
    <3>2. CASE queue' = Append(queue, n)
      BY <1>3, <1>q, <1>n, <3>2, AppendJob DEF OneJob
    <3> QED BY <1>3, <3>1, <3>2
  <2>2. arrived' = arrived \cup {n} /\ tries[n] = 0
    BY <1>3 DEF Arrive, Fresh
  <2>3. OneJob'
    BY <1>3, <1>n, <2>1 DEF OneJob
  <2>4. JobsAlive'
    BY <1>3, <2>1, <2>2 DEF JobsAlive, HasJob
  <2>5. Fresh'
    BY <1>3, <2>2 DEF Fresh
  <2> QED BY <2>3, <2>4, <2>5
<1>4. ASSUME NEW r \in Direct, NEW n \in Reports, EnqueueFails(r, n)
      PROVE  OneJob' /\ JobsAlive' /\ Fresh'
  <2>1. r \in Processes /\ r \notin Workers
    BY DEF Requests, Processes
  <2>2. \A w \in Workers : work'[w] = work[w]
    BY <1>4, <1>q, <2>1, TakeLocal DEF EnqueueFails
  <2> QED BY <1>3, <1>4, <2>2 DEF EnqueueFails, Arrive
<1>5. ASSUME NEW r \in Requests, RequestFails(r) PROVE OneJob' /\ JobsAlive' /\ Fresh'
  <2>1. \A w \in Workers : work'[w] = work[w]
    BY <1>5, <1>q, EndLocal DEF RequestFails, Processes
  <2> QED BY <1>5, <2>1 DEF RequestFails, OneJob, JobsAlive, Fresh, HasJob, jobs
<1>6. ASSUME NEW w \in Workers, WorkerTake(w) PROVE OneJob' /\ JobsAlive' /\ Fresh'
  <2> DEFINE n == Head(queue)
  <2>1. /\ n \in Reports /\ Q = Queued(queue') \cup {n}
        /\ n \notin Queued(queue') /\ Once(queue')
    BY <1>6, <1>q, TakeJob DEF WorkerTake, OneJob
  <2>2. /\ work'[w] = n /\ UNCHANGED <<delayed, tries, arrived>>
        /\ \A v \in Workers \ {w} : work'[v] = work[v]
    BY <1>6, <1>q, <2>1, TakeLocal DEF WorkerTake, fate
  <2> HIDE DEF n
  <2>3. OneJob'
    <3>1. (delayed \cap Queued(queue) = {})' /\ n \notin delayed
      BY <2>1, <2>2 DEF OneJob
    <3>2. \A v \in Workers : work'[v] \notin delayed' \cup Queued(queue')
      BY <2>1, <2>2, <3>1 DEF OneJob
    <3>3. \A v \in Workers : work[v] # n
      BY <2>1 DEF OneJob
    <3>4. \A u, v \in Workers : u # v /\ work'[u] = work'[v] => work'[u] = Nothing
      BY <2>2, <3>3 DEF OneJob
    <3> QED BY <2>1, <3>1, <3>2, <3>4 DEF OneJob
  <2>4. \A m \in Reports : HasJob(m)' => HasJob(m)
    BY <2>1, <2>2 DEF HasJob
  <2> QED BY <2>2, <2>3, <2>4 DEF JobsAlive, Fresh
<1>7. ASSUME NEW w \in Workers, JobFails(w) PROVE OneJob' /\ JobsAlive' /\ Fresh'
  <2>0. work[w] \in Reports
    BY <1>7, <1>q DEF JobFails, WorkFits
  <2>1. PICK n \in Reports : n = work[w] /\ n # Nothing
    BY <1>q, <2>0
  <2>2. /\ work'[w] = Nothing
        /\ \A v \in Workers \ {w} : work'[v] = work[v]
        /\ UNCHANGED <<queue, arrived>>
    BY <1>7, <1>q, EndLocal DEF JobFails
  <2>3. /\ n \in arrived /\ tries[n] < JobAttempts
        /\ n \notin delayed \cup Q
        /\ \A v \in Workers \ {w} : work[v] # n
    BY <2>1, <1>q DEF JobsAlive, HasJob, OneJob
  <2>4. /\ tries' = [tries EXCEPT ![n] = @ + 1]
        /\ tries'[n] = JobAttempts => delayed' = delayed
        /\ tries'[n] # JobAttempts => delayed' = delayed \cup {n}
    BY <1>7, <2>1 DEF JobFails
  <2>5. OneJob'
    <3>1. Nothing \notin delayed' \cup Queued(queue)
      BY <1>q, <2>1, <2>2, <2>4, QueuedReports DEF OneJob
    <3>2. \A v \in Workers : work'[v] \notin delayed' \cup Queued(queue')
      BY <2>2, <2>3, <2>4, <3>1 DEF OneJob
    <3>3. delayed' \cap Queued(queue') = {}
      BY <2>2, <2>3, <2>4 DEF OneJob
    <3> QED BY <2>2, <3>2, <3>3 DEF OneJob
  <2>6. \A m \in Reports \ {n} : HasJob(m)' => HasJob(m) /\ tries'[m] = tries[m]
    BY <1>q, <2>1, <2>2, <2>4 DEF HasJob
  <2>7. HasJob(n)' => tries'[n] < JobAttempts
    <3>1. HasJob(n)' => n \in delayed'
      BY <2>1, <2>2, <2>3 DEF HasJob
    <3>2. tries'[n] = tries[n] + 1 /\ tries[n] \in Nat
      BY <1>q, <2>1, <2>4
    <3> QED BY <2>3, <2>4, <3>1, <3>2
  <2>8. JobsAlive'
    <3> SUFFICES ASSUME NEW m \in Reports, HasJob(m)'
                 PROVE  m \in arrived' /\ tries'[m] < JobAttempts
      BY DEF JobsAlive
    <3>1. CASE m = n
      BY <2>2, <2>3, <2>7, <3>1
    <3>2. CASE m # n
      BY <2>2, <2>6, <3>2 DEF JobsAlive
    <3> QED BY <3>1, <3>2
  <2>9. Fresh'
    BY <1>q, <2>1, <2>2, <2>3, <2>4 DEF Fresh
  <2> QED BY <2>5, <2>8, <2>9
<1>8. ASSUME NEW p \in Processes, Log(p) PROVE OneJob' /\ JobsAlive' /\ Fresh'
  <2>1. \A w \in Workers : work'[w] = work[w] \/ work'[w] = Nothing
    BY <1>8, <1>q, EndLocal DEF Log
  <2>2. Nothing \notin delayed \cup Q
    BY <1>q, QueuedReports
  <2>3. UNCHANGED <<queue, delayed, tries, arrived>>
    BY <1>8 DEF Log, jobs
  <2>4. OneJob'
    BY <2>1, <2>2, <2>3 DEF OneJob
  <2>5. \A m \in Reports : HasJob(m)' => HasJob(m)
    BY <1>q, <2>1, <2>3 DEF HasJob
  <2> QED BY <2>3, <2>4, <2>5 DEF JobsAlive, Fresh
<1>9. ASSUME NEW n \in Reports, Enqueue(n) PROVE OneJob' /\ JobsAlive' /\ Fresh'
  BY <1>3, <1>9 DEF Enqueue, Arrive, local
<1>10. ASSUME NEW n \in Reports, BackoffEnds(n) PROVE OneJob' /\ JobsAlive' /\ Fresh'
  <2>1. n \in delayed /\ n \notin Q /\ \A w \in Workers : work[w] # n
    BY <1>10 DEF BackoffEnds, OneJob
  <2>2. Once(queue') /\ Queued(queue') = Q \cup {n}
    <3>1. queue' = Append(queue, n) \/ queue' = <<n>> \o queue
      BY <1>10 DEF BackoffEnds
    <3>2. CASE queue' = Append(queue, n)
      BY <1>q, <2>1, <3>2, AppendJob DEF OneJob
    <3>3. CASE queue' = <<n>> \o queue
      BY <1>q, <2>1, <3>3, PrependJob DEF OneJob
    <3> QED BY <3>1, <3>2, <3>3
  <2>3. delayed' = delayed \ {n} /\ UNCHANGED <<tries, work, arrived>>
    BY <1>10 DEF BackoffEnds, fate, local
  <2>4. OneJob'
    BY <2>1, <2>2, <2>3 DEF OneJob
  <2>5. \A m \in Reports : HasJob(m)' => HasJob(m)
    BY <2>1, <2>2, <2>3 DEF HasJob
  <2> QED BY <2>3, <2>4, <2>5 DEF JobsAlive, Fresh
<1> QED
  BY <1>1, <1>2, <1>4, <1>5, <1>6, <1>7, <1>8, <1>9, <1>10, StepKinds

\* Every step on the reports' path but the last leaves a process with its work.
LEMMA FitsStep == IInv /\ [Next]_vars => WorkFits' /\ SessionBegan'
<1> SUFFICES ASSUME IInv, [Next]_vars PROVE WorkFits' /\ SessionBegan'
  OBVIOUS
<1> USE IngressAssumption DEF IInv
<1>p. /\ Lifecycle \subseteq Processes /\ Direct \subseteq Processes
      /\ Requests \subseteq Processes /\ Workers \subseteq Processes
      /\ Requests = Lifecycle \cup Direct /\ Requests \cap Workers = {}
  BY DEF Requests, Processes
<1>s. SessionBegan'
  <2>1. CASE Connect \/ Takeover
    <3>1. sessions \in Nat /\ sessions' = sessions + 1
      BY <2>1 DEF Connect, Takeover, TypeOK
    <3> QED BY <3>1 DEF SessionBegan
  <2>2. CASE UNCHANGED sessions /\ (connected' => connected)
    BY <2>2 DEF SessionBegan
  <2>3. [Next]_vars => \/ Connect \/ Takeover
                       \/ UNCHANGED sessions /\ (connected' => connected)
    BY DEF Next, Handle, Disconnect, LoseNotice, NoticeRead, SessionWrite, SessionEvent,
           EnqueueFails, Arrive, RequestFails, WorkerTake, JobFails, ReadDevice, ShadowRead,
           ShadowWrite, ShadowEvent, DeviceWrite, StatusEvent, Log, Enqueue, BackoffEnds,
           WriteDesired, AtRest, vars, session
  <2> QED BY <2>1, <2>2, <2>3
<1>k. ASSUME UNCHANGED <<pc, work>> PROVE WorkFits'
  BY <1>k DEF WorkFits
\* A process that goes on with the work it has.
<1>g. ASSUME NEW p \in Processes, NEW l \in Pc, Goto(p, l), UNCHANGED work,
             \/ pc[p] \in PcNotice /\ l \in PcNotice \cup {"log"}
             \/ pc[p] \in PcReport /\ l \in PcReport \cup {"log"}
      PROVE  WorkFits'
  <2>1. pc[p] # "idle" /\ l # "idle"
    BY <1>g DEF PcNotice, PcReport
  <2>2. l \in PcNotice => pc[p] \in PcNotice
    BY <1>g DEF PcNotice, PcReport
  <2>3. l \in PcReport => pc[p] \in PcReport
    BY <1>g DEF PcNotice, PcReport
  <2> HIDE DEF PcNotice, PcReport
  <2>4. pc'[p] = l /\ \A o \in Processes \ {p} : pc'[o] = pc[o]
    BY <1>g, GotoPc
  <2> QED BY <1>g, <2>1, <2>2, <2>3, <2>4 DEF WorkFits
<1>e. ASSUME NEW p \in Processes, End(p) PROVE WorkFits'
  <2>1. /\ pc'[p] = "idle" /\ work'[p] = Nothing
        /\ \A o \in Processes \ {p} : pc'[o] = pc[o] /\ work'[o] = work[o]
    BY <1>e, EndLocal
  <2> QED BY <1>p, <2>1 DEF WorkFits, PcNotice, PcReport
<1>t. ASSUME NEW p \in Processes, NEW n \in Reports, Take(p, n, "read") PROVE WorkFits'
  <2>1. /\ pc'[p] = "read" /\ work'[p] = n
        /\ \A o \in Processes \ {p} : pc'[o] = pc[o] /\ work'[o] = work[o]
    BY <1>t, TakeLocal
  <2> QED BY <1>p, <2>1 DEF WorkFits, PcNotice, PcReport
<1>1. ASSUME \/ Connect \/ Disconnect \/ Takeover \/ LoseNotice \/ WriteDesired \/ AtRest
             \/ UNCHANGED vars \/ \E n \in Reports : Enqueue(n) \/ BackoffEnds(n)
      PROVE  WorkFits'
  BY <1>1, <1>k DEF Connect, Disconnect, Takeover, LoseNotice, WriteDesired, AtRest,
     Enqueue, BackoffEnds, vars, local
<1>2. ASSUME NEW r \in Lifecycle, NoticeRead(r) PROVE WorkFits'
  <2>1. Head(notices) \in Notice
    BY <1>2, HeadTailProperties DEF NoticeRead, TypeOK
  <2>2. /\ pc'[r] = "session_write" /\ work'[r] = Head(notices)
        /\ \A o \in Processes \ {r} : pc'[o] = pc[o] /\ work'[o] = work[o]
    BY <1>2, <1>p DEF NoticeRead, Goto, TypeOK
  <2> QED BY <1>p, <2>1, <2>2 DEF WorkFits, PcNotice, PcReport
<1>3. ASSUME NEW r \in Lifecycle, SessionWrite(r) \/ SessionEvent(r) PROVE WorkFits'
  <2>1. r \in Processes
    BY <1>p
  <2>2. \E l \in PcNotice \cup {"log"} : Goto(r, l)
    BY <1>3 DEF SessionWrite, SessionEvent, PcNotice
  <2>3. UNCHANGED work /\ pc[r] \in PcNotice
    BY <1>3 DEF SessionWrite, SessionEvent, PcNotice
  <2>4. PcNotice \cup {"log"} \subseteq Pc
    BY DEF Pc
  <2> QED BY <1>g, <2>1, <2>2, <2>3, <2>4
<1>4. ASSUME NEW p \in Processes, Handle(p) PROVE WorkFits'
  <2>1. CASE Log(p)
    BY <1>e, <2>1 DEF Log
  <2>2. CASE ~Log(p)
    <3>1. \E l \in PcReport \cup {"log"} : Goto(p, l)
      BY <1>4, <2>2 DEF Handle, ReadDevice, ShadowRead, ShadowWrite, ShadowEvent, DeviceWrite,
         StatusEvent, AfterShadow, PcReport
    <3>2. UNCHANGED work /\ pc[p] \in PcReport
      BY <1>4, <2>2 DEF Handle, ReadDevice, ShadowRead, ShadowWrite, ShadowEvent, DeviceWrite,
         StatusEvent, PcReport
    <3>3. PcReport \cup {"log"} \subseteq Pc
      BY DEF Pc
    <3> QED BY <1>g, <3>1, <3>2, <3>3
  <2> QED BY <2>1, <2>2
<1>5. ASSUME NEW r \in Direct, NEW n \in Reports, EnqueueFails(r, n) PROVE WorkFits'
  BY <1>5, <1>t, <1>p DEF EnqueueFails
<1>6. ASSUME NEW w \in Workers, WorkerTake(w) PROVE WorkFits'
  <2>1. Head(queue) \in Reports
    BY <1>6, TakeJob DEF WorkerTake, TypeOK
  <2> QED BY <1>6, <1>t, <1>p, <2>1 DEF WorkerTake
<1>7. ASSUME NEW p \in Processes, RequestFails(p) \/ JobFails(p) PROVE WorkFits'
  BY <1>7, <1>e DEF RequestFails, JobFails
<1>8. WorkFits'
  BY <1>p, <1>1, <1>2, <1>3, <1>4, <1>5, <1>6, <1>7 DEF Next
<1> QED BY <1>s, <1>8

\* The version moves with every write, past all that was read or shown before.
LEMMA VersionsStep == IInv /\ [Next]_vars => Snapshots' /\ ShownIsCurrent'
<1> SUFFICES ASSUME IInv, [Next]_vars PROVE Snapshots' /\ ShownIsCurrent'
  OBVIOUS
<1> USE IngressAssumption DEF IInv
<1>p. Lifecycle \subseteq Processes /\ Requests \subseteq Processes /\ Workers \subseteq Processes
  BY DEF Requests, Processes
<1>v. version \in Nat /\ shown.version \in Nat /\ \A p \in Processes : seen[p].version \in Nat
  BY DEF TypeOK, Shadow
<1>k. ASSUME UNCHANGED <<shadow, shown>>,
             \A p \in Processes : pc'[p] = "shadow_event" =>
                pc[p] = "shadow_event" /\ seen'[p] = seen[p]
      PROVE  Snapshots' /\ ShownIsCurrent'
  BY <1>k DEF Snapshots, ShownIsCurrent, shadow
\* A step of one process that neither reads nor writes the shadow.
<1>g. ASSUME NEW p \in Processes, NEW l \in Pc \ {"shadow_event"}, Goto(p, l),
             UNCHANGED <<shadow, shown>>, \A o \in Processes \ {p} : seen'[o] = seen[o]
      PROVE  Snapshots' /\ ShownIsCurrent'
  <2>1. pc'[p] = l /\ \A o \in Processes \ {p} : pc'[o] = pc[o]
    BY <1>g, GotoPc
  <2> QED BY <1>g, <1>k, <2>1
<1>1. CASE Connect \/ Disconnect \/ Takeover \/ LoseNotice \/ AtRest \/ UNCHANGED vars
           \/ \E n \in Reports : Enqueue(n) \/ BackoffEnds(n)
  BY <1>1, <1>k DEF Connect, Disconnect, Takeover, LoseNotice, AtRest, Enqueue, Arrive,
     BackoffEnds, vars, local, events
<1>2. CASE WriteDesired
  <2>1. version' = version + 1 /\ UNCHANGED <<shown, pc, seen>>
    BY <1>2 DEF WriteDesired, events, local
  <2> QED BY <1>v, <2>1 DEF Snapshots, ShownIsCurrent
<1>3. ASSUME NEW r \in Lifecycle, NoticeRead(r) \/ SessionWrite(r) \/ SessionEvent(r)
      PROVE  Snapshots' /\ ShownIsCurrent'
  <2>1. r \in Processes /\ UNCHANGED <<shadow, shown, seen>>
    BY <1>3, <1>p DEF NoticeRead, SessionWrite, SessionEvent, events
  <2>2. \E l \in Pc \ {"shadow_event"} : Goto(r, l)
    BY <1>3 DEF NoticeRead, SessionWrite, SessionEvent, Pc, PcNotice
  <2> QED BY <1>g, <2>1, <2>2
<1>4. ASSUME NEW p \in Processes, ShadowWrite(p) PROVE Snapshots' /\ ShownIsCurrent'
  <2>1. version' = version + 1 /\ UNCHANGED shown
    BY <1>4 DEF ShadowWrite, events
  <2>2. seen'[p].reported = reported' /\ seen'[p].version = version'
    BY <1>4 DEF ShadowWrite, TypeOK, Shadow
  <2>3. \A o \in Processes \ {p} : seen'[o] = seen[o] /\ pc'[o] = pc[o]
    BY <1>4 DEF ShadowWrite, Goto, TypeOK
  <2> QED BY <1>v, <2>1, <2>2, <2>3 DEF Snapshots, ShownIsCurrent
<1>5. ASSUME NEW p \in Processes, ShadowEvent(p) PROVE Snapshots' /\ ShownIsCurrent'
  <2>1. /\ pc[p] = "shadow_event" /\ UNCHANGED <<shadow, seen>>
        /\ Goto(p, "device_write")
        /\ \/ shown' = [reported |-> seen[p].reported, version |-> seen[p].version]
           \/ UNCHANGED shown
    BY <1>5 DEF ShadowEvent, Push
  <2>2. \A o \in Processes : pc'[o] = "shadow_event" => pc[o] = "shadow_event"
    BY <2>1 DEF Goto, TypeOK
  <2>3. /\ shown'.version <= version
        /\ shown'.version = version => shown'.reported = reported
    BY <2>1 DEF Snapshots, ShownIsCurrent
  <2> QED BY <2>1, <2>2, <2>3 DEF Snapshots, ShownIsCurrent, shadow
<1>6. ASSUME NEW p \in Processes, ReadDevice(p) \/ ShadowRead(p) \/ DeviceWrite(p) \/ StatusEvent(p)
      PROVE  Snapshots' /\ ShownIsCurrent'
  <2>1. UNCHANGED <<shadow, shown>> /\ \A o \in Processes \ {p} : seen'[o] = seen[o]
    BY <1>6 DEF ReadDevice, ShadowRead, DeviceWrite, StatusEvent, events, TypeOK
  <2>2. \E l \in Pc \ {"shadow_event"} : Goto(p, l)
    BY <1>6 DEF ReadDevice, ShadowRead, DeviceWrite, StatusEvent, Pc, PcReport
  <2> QED BY <1>g, <2>1, <2>2
<1>7. ASSUME NEW p \in Processes, End(p), UNCHANGED <<shadow, shown>>
      PROVE  Snapshots' /\ ShownIsCurrent'
  <2>1. pc'[p] = "idle" /\ \A o \in Processes \ {p} : pc'[o] = pc[o] /\ seen'[o] = seen[o]
    BY <1>7, EndLocal
  <2> QED BY <1>7, <1>k, <2>1
<1>8. ASSUME NEW p \in Processes, Log(p) \/ RequestFails(p) \/ JobFails(p)
      PROVE  Snapshots' /\ ShownIsCurrent'
  BY <1>7, <1>8 DEF Log, RequestFails, JobFails, events
<1>9. ASSUME NEW p \in Processes, NEW n \in Reports, Take(p, n, "read"), UNCHANGED <<shadow, shown>>
      PROVE  Snapshots' /\ ShownIsCurrent'
  <2>1. /\ pc'[p] = "read" /\ UNCHANGED seen
        /\ \A o \in Processes \ {p} : pc'[o] = pc[o]
    BY <1>9, TakeLocal
  <2> QED BY <1>9, <1>k, <2>1
<1>10. ASSUME NEW r \in Direct, NEW n \in Reports, EnqueueFails(r, n)
       PROVE  Snapshots' /\ ShownIsCurrent'
  BY <1>9, <1>10 DEF EnqueueFails, Arrive, events, Requests, Processes
<1>11. ASSUME NEW w \in Workers, WorkerTake(w) PROVE Snapshots' /\ ShownIsCurrent'
  <2>1. Head(queue) \in Reports
    BY <1>11, TakeJob DEF WorkerTake, TypeOK
  <2> QED BY <1>9, <1>11, <1>p, <2>1 DEF WorkerTake, events
<1> QED
  BY <1>p, <1>1, <1>2, <1>3, <1>4, <1>5, <1>6, <1>8, <1>10, <1>11 DEF Next, Handle

\* Each step that ends a report's wait or its handling says what became of it.
LEMMA VanishStep == IInv /\ [Next]_vars => NoReportVanishes'
<1> SUFFICES ASSUME IInv, [Next]_vars,
                    NEW n \in Reports, n \in arrived'
             PROVE  Waiting(n)' \/ InHand(n)' \/ n \in applied' \cup dropped'
  <2>1. IInv /\ [Next]_vars => arrived' \subseteq Reports
    BY TypeStep DEF TypeOK
  <2> QED BY <2>1 DEF NoReportVanishes
<1> USE IngressAssumption DEF IInv
<1>q. /\ queue \in Seq(Reports) /\ delayed \subseteq Reports
      /\ Nothing \notin Reports /\ Reports \cap Notice = {}
      /\ Requests \subseteq Processes /\ Workers \subseteq Processes
      /\ Lifecycle \subseteq Processes /\ Direct \subseteq Requests
  BY DEF TypeOK, Processes, Requests
<1>w. /\ Waiting(n) <=> n \in delayed \cup Queued(queue)
      /\ Waiting(n)' <=> n \in delayed' \cup Queued(queue')
  BY WaitingIs DEF Waiting, Queued
<1>o. n \in arrived => Waiting(n) \/ InHand(n) \/ n \in applied \cup dropped
  BY DEF NoReportVanishes
<1> DEFINE Kept == Waiting(n)' \/ InHand(n)' \/ n \in applied' \cup dropped'
\* A process lets go of nothing but what it had in hand.
<1>h. ASSUME NEW p \in Processes, \A o \in Processes \ {p} : work'[o] = work[o],
             InHand(n), work[p] # n
      PROVE  InHand(n)'
  BY <1>h DEF InHand
<1>1. CASE Still
  BY <1>1, <1>o, StillKeeps DEF InHand, Waiting, jobs
<1>2. ASSUME NEW r \in Lifecycle, NoticeRead(r) PROVE Kept
  <2>1. r \in Processes /\ work[r] # n
    BY <1>2, <1>q DEF NoticeRead, WorkFits
  <2>2. \A o \in Processes \ {r} : work'[o] = work[o]
    BY <1>2 DEF NoticeRead, TypeOK
  <2> QED BY <1>2, <1>h, <1>o, <2>1, <2>2 DEF NoticeRead, Waiting, jobs, fate
<1>3. ASSUME NEW m \in Reports, Arrive(m), UNCHANGED delayed,
             queue' \in {queue, Append(queue, m)}
      PROVE  /\ Waiting(n) => Waiting(n)'
             /\ n \in arrived \/ n = m
             /\ queue' = Append(queue, m) => Waiting(m)'
  <2>1. Queued(Append(queue, m)) = Queued(queue) \cup {m}
    BY <1>q, AppendJob
  <2>2. Waiting(m)' <=> m \in delayed' \cup Queued(queue')
    BY DEF Waiting, Queued
  <2> QED BY <1>3, <1>w, <2>1, <2>2 DEF Arrive
<1>4. ASSUME NEW r \in Direct, NEW m \in Reports, EnqueueFails(r, m) PROVE Kept
  <2>1. /\ r \in Processes /\ work[r] # n /\ work'[r] = m
        /\ \A o \in Processes \ {r} : work'[o] = work[o]
    BY <1>4, <1>q, TakeLocal DEF EnqueueFails, WorkFits
  <2>2. n = m => InHand(n)'
    BY <2>1 DEF InHand
  <2>3. /\ Waiting(n) => Waiting(n)'
        /\ n \in arrived \/ n = m
        /\ UNCHANGED <<applied, dropped>>
    BY <1>3, <1>4 DEF EnqueueFails, Arrive
  <2> QED BY <1>h, <1>o, <2>1, <2>2, <2>3
<1>5. ASSUME NEW r \in Requests, RequestFails(r) PROVE Kept
  <2>1. r \in Processes /\ \A o \in Processes \ {r} : work'[o] = work[o]
    BY <1>5, <1>q, EndLocal DEF RequestFails
  <2>2. /\ dropped' = dropped \cup ({work[r]} \cap Reports)
        /\ UNCHANGED <<queue, delayed, applied, arrived>>
    BY <1>5 DEF RequestFails, jobs
  <2>3. CASE work[r] = n
    BY <2>2, <2>3
  <2>4. CASE work[r] # n
    BY <1>h, <1>o, <2>1, <2>2, <2>4 DEF Waiting
  <2> QED BY <2>3, <2>4
<1>6. ASSUME NEW w \in Workers, WorkerTake(w) PROVE Kept
  <2>1. /\ Head(queue) \in Reports
        /\ Queued(queue) = Queued(queue') \cup {Head(queue)}
    BY <1>6, <1>q, TakeJob DEF WorkerTake
  <2>2. /\ w \in Processes /\ work[w] # n /\ work'[w] = Head(queue)
        /\ \A o \in Processes \ {w} : work'[o] = work[o]
    BY <1>6, <1>q, <2>1, TakeLocal DEF WorkerTake, WorkFits
  <2>3. UNCHANGED <<delayed, applied, dropped, arrived>>
    BY <1>6 DEF WorkerTake, fate
  <2>4. n = Head(queue) => InHand(n)'
    BY <2>2 DEF InHand
  <2> QED BY <1>h, <1>o, <1>w, <2>1, <2>2, <2>3, <2>4
<1>7. ASSUME NEW w \in Workers, JobFails(w) PROVE Kept
  <2>1. w \in Processes /\ \A o \in Processes \ {w} : work'[o] = work[o]
    BY <1>7, <1>q, EndLocal DEF JobFails
  <2>2. /\ UNCHANGED <<queue, applied, arrived>>
        /\ \/ dropped' = dropped \cup {work[w]} /\ UNCHANGED delayed
           \/ delayed' = delayed \cup {work[w]} /\ UNCHANGED dropped
    BY <1>7 DEF JobFails
  <2>3. CASE work[w] = n
    BY <1>w, <2>2, <2>3
  <2>4. CASE work[w] # n
    BY <1>h, <1>o, <1>w, <2>1, <2>2, <2>4
  <2> QED BY <2>3, <2>4
<1>8. ASSUME NEW p \in Processes, Log(p) PROVE Kept
  <2>1. \A o \in Processes \ {p} : work'[o] = work[o]
    BY <1>8, EndLocal DEF Log
  <2>2. /\ applied' = applied \cup ({work[p]} \cap Reports)
        /\ UNCHANGED <<queue, delayed, dropped, arrived>>
    BY <1>8 DEF Log, jobs
  <2>3. CASE work[p] = n
    BY <2>2, <2>3
  <2>4. CASE work[p] # n
    BY <1>h, <1>o, <2>1, <2>2, <2>4 DEF Waiting
  <2> QED BY <2>3, <2>4
<1>9. ASSUME NEW m \in Reports, Enqueue(m) PROVE Kept
  <2>1. UNCHANGED <<work, applied, dropped>>
    BY <1>9 DEF Enqueue, Arrive, local
  <2>2. (Waiting(n) => Waiting(n)') /\ (n \in arrived \/ n = m) /\ (n = m => Waiting(n)')
    BY <1>3, <1>9 DEF Enqueue
  <2> QED BY <1>o, <2>1, <2>2 DEF InHand
<1>10. ASSUME NEW m \in Reports, BackoffEnds(m) PROVE Kept
  <2>1. Queued(queue') = Queued(queue) \cup {m}
    <3>1. CASE queue' = Append(queue, m)
      BY <1>q, <3>1, AppendJob
    <3>2. CASE queue' = <<m>> \o queue
      BY <1>q, <3>2, PrependJob
    <3> QED BY <1>10, <3>1, <3>2 DEF BackoffEnds
  <2>2. delayed' = delayed \ {m} /\ UNCHANGED <<work, applied, dropped, arrived>>
    BY <1>10 DEF BackoffEnds, fate, local
  <2> QED BY <1>o, <1>w, <2>1, <2>2 DEF InHand
<1> QED
  BY <1>1, <1>2, <1>4, <1>5, <1>6, <1>7, <1>8, <1>9, <1>10, StepKinds

-----------------------------------------------------------------------------
(* The theorems.                                                           *)

\* Every step keeps the inductive invariant.
LEMMA NextInv == IInv /\ [Next]_vars => IInv'
  BY TypeStep, FitsStep, JobsStep, VersionsStep, VanishStep DEF IInv

\* The inductive invariant holds in every reachable state.
THEOREM Invariant == Spec => []IInv
<1>1. Init => IInv
  BY InitInv
<1>2. IInv /\ [Next]_vars => IInv'
  BY NextInv
<1> QED BY <1>1, <1>2, PTL DEF Spec

\* The types of the device row, the shadow, the queue and the handlers' locals;
\* with them, that no job ever counts more failures than it has attempts.
THEOREM TypeCorrect == Spec => []TypeOK
<1>1. IInv => TypeOK
  BY DEF IInv
<1> QED BY <1>1, Invariant, PTL

\* A report never has two jobs: however jobs fail and come back at either end of the
\* queue, no two workers handle the same report, and none waits in the queue or in a
\* backoff while a worker has it.  Only the request that took a failure of the queue
\* at its word may handle a report beside its job.
THEOREM JobsAreSingle == Spec => []OneJob
<1>1. IInv => OneJob
  BY DEF IInv
<1> QED BY <1>1, Invariant, PTL

\* No report the webhook received is lost, whatever fails and in any order.
THEOREM NothingVanishes == Spec => []NoReportVanishes
<1>1. IInv => NoReportVanishes
  BY DEF IInv
<1> QED BY <1>1, Invariant, PTL

\* No event tells contents under a version that belongs to others: an app that
\* finds the version of its last event unchanged has the shadow as it is.
THEOREM ShownCurrent == Spec => []ShownIsCurrent
<1>1. IInv => ShownIsCurrent
  BY DEF IInv
<1> QED BY <1>1, Invariant, PTL

\* A report's write of the shadow leaves desired, which it read earlier, alone.
THEOREM DesiredSurvives == Spec => DesiredSurvivesReports
<1>1. TypeOK /\ [Next]_vars => [desired' >= desired]_vars
  <2> SUFFICES ASSUME TypeOK, [Next]_vars PROVE desired' >= desired
    OBVIOUS
  <2>1. desired \in Nat
    BY IngressAssumption DEF TypeOK
  <2>2. desired' = desired \/ desired' = desired + 1
    BY DEF Next, Handle, Connect, Disconnect, Takeover, LoseNotice, NoticeRead, SessionWrite,
       SessionEvent, EnqueueFails, Arrive, RequestFails, WorkerTake, JobFails, ReadDevice,
       ShadowRead, ShadowWrite, ShadowEvent, DeviceWrite, StatusEvent, Log, Enqueue,
       BackoffEnds, WriteDesired, AtRest, vars, shadow
  <2> QED BY <2>1, <2>2
<1> QED BY <1>1, TypeCorrect, PTL DEF Spec, DesiredSurvivesReports

\* Whoever writes the shadow moves its version, by the statement that writes.
THEOREM VersionTells == Spec => VersionTellsContents
<1>1. TypeOK /\ [Next]_vars
      => [<<reported', desired'>> # <<reported, desired>> => version' > version]_vars
  <2> SUFFICES ASSUME TypeOK, [Next]_vars, <<reported', desired'>> # <<reported, desired>>
               PROVE  version' > version
    OBVIOUS
  <2>1. version \in Nat
    BY DEF TypeOK
  <2>2. (UNCHANGED <<reported, desired>>) \/ version' = version + 1
    BY DEF Next, Handle, Connect, Disconnect, Takeover, LoseNotice, NoticeRead, SessionWrite,
       SessionEvent, EnqueueFails, Arrive, RequestFails, WorkerTake, JobFails, ReadDevice,
       ShadowRead, ShadowWrite, ShadowEvent, DeviceWrite, StatusEvent, Log, Enqueue,
       BackoffEnds, WriteDesired, AtRest, vars, shadow
  <2> QED BY <2>1, <2>2
<1> QED BY <1>1, TypeCorrect, PTL DEF Spec, VersionTellsContents
=============================================================================
