--------------------------- MODULE EventStreamProofs ---------------------------
(***************************************************************************)
(* Proofs about Bindings and EventStream, for any number of users,         *)
(* devices, codes, requests and streams.  First the bindings on their own: *)
(* the inductive invariant says what a request may still rely on when its  *)
(* next statement runs, and that it is on record when it may not.  Then    *)
(* the streams, whose steps leave the bindings alone.                      *)
(***************************************************************************)
EXTENDS EventStream, TLAPS

USE BindingsAssumption

AllPc == ConsolePc \cup ScanPc \cup AppPc \cup {"idle"}

\* A request whose reading is out of date is among the crossed ones.
ReadersKnow ==
    \A r \in Requests :
      /\ pc[r] = "generate" => r \in crossed \/ code[dev[r]] = NoCode
      /\ pc[r] = "upsert" =>
           r \in crossed \/ (code[dev[r]] = scanned[r] /\ status[dev[r]] = "active")
      /\ pc[r] = "command" => r \in crossed \/ <<user[r], dev[r]>> \in bound

BindingsInv ==
    /\ BindingsTypeOK
    /\ ReadersKnow
    /\ ShownCodesHold
    /\ CountersExpire

-----------------------------------------------------------------------------
\* The initial state satisfies the inductive invariant.
LEMMA BindingsInitInv == BindingsInit => BindingsInv
<1> SUFFICES ASSUME BindingsInit PROVE BindingsInv
  OBVIOUS
<1>1. BindingsTypeOK
  <2>1. 0 \in 0 .. Limit + 1
    OBVIOUS
  <2> QED BY <2>1 DEF BindingsInit, BindingsTypeOK, Status, ConsolePc, ScanPc, AppPc
<1>2. ReadersKnow /\ ShownCodesHold /\ CountersExpire
  BY DEF BindingsInit, ReadersKnow, ShownCodesHold, CountersExpire
<1> QED BY <1>1, <1>2 DEF BindingsInv

\* Only request r moves.
Moves(r) ==
    /\ pc' \in [Requests -> AllPc]
    /\ user' \in [Requests -> Users \cup {NoOne}]
    /\ dev' \in [Requests -> Devices \cup {NoOne}]
    /\ scanned' \in [Requests -> Codes \cup {NoCode}]
    /\ \A q \in Requests \ {r} : /\ pc'[q] = pc[q] /\ user'[q] = user[q]
                                 /\ dev'[q] = dev[q] /\ scanned'[q] = scanned[q]

\* What a request is about stays the same.
Keeps(r) == user'[r] = user[r] /\ dev'[r] = dev[r] /\ scanned'[r] = scanned[r]

Ended(r) ==
    pc'[r] = "idle" /\ user'[r] = NoOne /\ dev'[r] = NoOne /\ scanned'[r] = NoCode

\* A request that sets out.
LEMMA BeginCourse ==
  ASSUME BindingsTypeOK, NEW r \in Requests, NEW label \in AllPc,
         NEW u \in Users \cup {NoOne}, NEW d \in Devices \cup {NoOne},
         NEW c \in Codes \cup {NoCode}, Begin(r, label, u, d, c)
  PROVE  /\ pc[r] = "idle" /\ Moves(r)
         /\ pc'[r] = label /\ user'[r] = u /\ dev'[r] = d /\ scanned'[r] = c
  BY DEF BindingsTypeOK, Begin, AllPc, Moves

\* A request that goes on.
LEMMA GotoCourse ==
  ASSUME BindingsTypeOK, NEW r \in Requests, NEW label \in AllPc, Goto(r, label)
  PROVE  Moves(r) /\ pc'[r] = label /\ Keeps(r)
  BY DEF BindingsTypeOK, Goto, AllPc, Moves, Keeps

\* A request that ends.
LEMMA EndCourse ==
  ASSUME BindingsTypeOK, NEW r \in Requests, End(r)
  PROVE  Moves(r) /\ Ended(r)
  BY DEF BindingsTypeOK, End, AllPc, Moves, Ended

\* A request counts against its user's limit.
LEMMA CountType ==
  ASSUME BindingsTypeOK, NEW u \in Users,
         count' = [count EXCEPT ![u] = IF @ > Limit THEN @ ELSE @ + 1]
  PROVE  /\ count' \in [Users -> 0 .. Limit + 1]
         /\ \A v \in Users : v # u => count'[v] = count[v]
<1>1. (IF count[u] > Limit THEN count[u] ELSE count[u] + 1) \in 0 .. Limit + 1
  BY DEF BindingsTypeOK
<1> QED BY <1>1 DEF BindingsTypeOK

-----------------------------------------------------------------------------
(* Each action keeps the inductive invariant.                              *)

\* A request sets out.
LEMMA BeginStep ==
  ASSUME BindingsInv, NEW r \in Requests, BeginConsole(r) \/ BeginScan(r) \/ BeginApp(r)
  PROVE  BindingsInv'
<1> USE DEF BindingsInv, Moves, Keeps, Ended
<1>1. UNCHANGED <<status, code, bound, count, expiring, shown, retired, lost, crossed, jammed>>
  BY DEF BeginConsole, BeginScan, BeginApp, Begin, deviceVars, limiter, codeHistory
<1>2. /\ pc[r] = "idle" /\ Moves(r)
      /\ \/ /\ pc'[r] \in {"view", "findDevice"}
            /\ user'[r] = NoOne /\ dev'[r] \in Devices /\ scanned'[r] = NoCode
         \/ pc'[r] = "incr" /\ user'[r] \in Users /\ dev'[r] = NoOne
         \/ /\ pc'[r] \in {"findBinding", "findForCommand"}
            /\ user'[r] \in Users /\ dev'[r] \in Devices
  <2>1. CASE BeginConsole(r)
    <3>1. PICK label \in {"view", "findDevice"}, d \in Devices :
            Begin(r, label, NoOne, d, NoCode)
      BY <2>1 DEF BeginConsole
    <3> QED BY <3>1, BeginCourse DEF AllPc, ConsolePc
  <2>2. CASE BeginScan(r)
    <3>1. PICK u \in Users, c \in Codes : Begin(r, "incr", u, NoOne, c)
      BY <2>2 DEF BeginScan, BindingsTypeOK
    <3>2. "incr" \in AllPc
      BY DEF AllPc, ScanPc
    <3>3. /\ pc[r] = "idle" /\ Moves(r)
          /\ pc'[r] = "incr" /\ user'[r] = u /\ dev'[r] = NoOne
      BY <3>1, <3>2, BeginCourse
    <3> QED BY <3>3
  <2>3. CASE BeginApp(r)
    <3>1. PICK label \in {"findBinding", "findForCommand"}, u \in Users, d \in Devices :
            Begin(r, label, u, d, NoCode)
      BY <2>3 DEF BeginApp
    <3> QED BY <3>1, BeginCourse DEF AllPc, AppPc
  <2> QED BY <2>1, <2>2, <2>3
<1>3. BindingsTypeOK'
  BY <1>1, <1>2 DEF BindingsTypeOK, AllPc, ConsolePc, ScanPc, AppPc
<1>4. ReadersKnow'
  BY <1>1, <1>2
     DEF BindingsTypeOK, ReadersKnow, AllPc, ConsolePc, ScanPc, AppPc
<1>5. ShownCodesHold'
  BY <1>1, <1>2 DEF BindingsTypeOK, ShownCodesHold
<1>6. CountersExpire'
  BY <1>1, <1>2 DEF BindingsTypeOK, CountersExpire
<1> QED BY <1>3, <1>4, <1>5, <1>6

\* A view that finds no code goes on to generate one.
LEMMA ViewStep ==
  ASSUME BindingsInv, NEW r \in Requests, ViewCode(r)
  PROVE  BindingsInv'
<1> USE DEF BindingsInv, Moves, Keeps, Ended
<1>1. pc[r] = "view" /\ dev[r] \in Devices /\ user[r] = NoOne
  BY DEF ViewCode, BindingsTypeOK, ConsolePc
<1>2. UNCHANGED <<status, code, bound, count, expiring, retired, lost, crossed, jammed>>
  BY DEF ViewCode, deviceVars, limiter
<1>3. /\ Moves(r)
      /\ \/ Ended(r) /\ UNCHANGED shown
         \/ Ended(r) /\ code[dev[r]] # NoCode /\ shown' = shown \cup {code[dev[r]]}
         \/ pc'[r] = "generate" /\ Keeps(r) /\ code[dev[r]] = NoCode /\ UNCHANGED shown
  <2>1. CASE End(r)
    BY <2>1, EndCourse DEF ViewCode
  <2>2. CASE Goto(r, "generate") /\ code[dev[r]] = NoCode /\ UNCHANGED shown
    BY <2>2, GotoCourse DEF AllPc, ConsolePc
  <2> QED BY <2>1, <2>2 DEF ViewCode
<1>4. BindingsTypeOK'
  BY <1>1, <1>2, <1>3 DEF BindingsTypeOK, AllPc, ConsolePc, ScanPc, AppPc
<1>5. ReadersKnow'
  BY <1>1, <1>2, <1>3
     DEF BindingsTypeOK, ReadersKnow, AllPc, ConsolePc, ScanPc, AppPc
<1>6. ShownCodesHold'
  BY <1>1, <1>2, <1>3 DEF BindingsTypeOK, ShownCodesHold
<1>7. CountersExpire'
  BY <1>1, <1>2, <1>3 DEF BindingsTypeOK, CountersExpire
<1> QED BY <1>4, <1>5, <1>6, <1>7

\* A code that a view replaces is on record: it was generated since.
LEMMA GenerateStep ==
  ASSUME BindingsInv, NEW r \in Requests, GenerateCode(r)
  PROVE  BindingsInv'
<1> USE DEF BindingsInv, Moves, Keeps, Ended
<1>1. pc[r] = "generate" /\ dev[r] \in Devices
  BY DEF GenerateCode, BindingsTypeOK, ConsolePc
<1>2. PICK c \in Codes :
        /\ code' = [code EXCEPT ![dev[r]] = c]
        /\ shown' = shown \cup {c}
        /\ crossed' = (crossed \cup Overtaken(r, dev[r])) \ {r}
  BY DEF GenerateCode, NewCode
<1>3. /\ lost' = IF r \in crossed THEN lost \cup ({code[dev[r]]} \ {NoCode}) ELSE lost
      /\ UNCHANGED <<status, bound, count, expiring, retired, jammed>>
  BY DEF GenerateCode, NewCode, limiter
<1>4. Moves(r) /\ Ended(r)
  BY EndCourse DEF GenerateCode, NewCode
<1>5. r \in crossed \/ code[dev[r]] = NoCode
  BY <1>1 DEF ReadersKnow
<1>6. BindingsTypeOK'
  BY <1>1, <1>2, <1>3, <1>4, <1>5
     DEF BindingsTypeOK, AllPc, ConsolePc, ScanPc, AppPc, Overtaken
<1>7. ReadersKnow'
  BY <1>1, <1>2, <1>3, <1>4, <1>5
     DEF BindingsTypeOK, ReadersKnow, AllPc, ConsolePc, ScanPc, AppPc, Overtaken
<1>8. ShownCodesHold'
  BY <1>1, <1>2, <1>3, <1>4, <1>5 DEF BindingsTypeOK, ShownCodesHold
<1>9. CountersExpire'
  BY <1>1, <1>2, <1>3, <1>4, <1>5 DEF BindingsTypeOK, CountersExpire
<1> QED BY <1>6, <1>7, <1>8, <1>9

\* A code that is rotated away is retired.
LEMMA RotateStep ==
  ASSUME BindingsInv, NEW r \in Requests, RotateCode(r)
  PROVE  BindingsInv'
<1> USE DEF BindingsInv, Moves, Keeps, Ended
<1>1. pc[r] = "rotate" /\ dev[r] \in Devices
  BY DEF RotateCode, BindingsTypeOK, ConsolePc
<1>2. PICK c \in Codes :
        /\ code' = [code EXCEPT ![dev[r]] = c]
        /\ shown' = shown \cup {c}
        /\ crossed' = (crossed \cup Overtaken(r, dev[r])) \ {r}
  BY DEF RotateCode, NewCode
<1>3. /\ retired' = retired \cup ({code[dev[r]]} \ {NoCode})
      /\ UNCHANGED <<status, bound, count, expiring, lost, jammed>>
  BY DEF RotateCode, NewCode, limiter
<1>4. Moves(r) /\ Ended(r)
  BY EndCourse DEF RotateCode, NewCode
<1>5. BindingsTypeOK'
  BY <1>1, <1>2, <1>3, <1>4
     DEF BindingsTypeOK, AllPc, ConsolePc, ScanPc, AppPc, Overtaken
<1>6. ReadersKnow'
  BY <1>1, <1>2, <1>3, <1>4
     DEF BindingsTypeOK, ReadersKnow, AllPc, ConsolePc, ScanPc, AppPc, Overtaken
<1>7. ShownCodesHold'
  BY <1>1, <1>2, <1>3, <1>4 DEF BindingsTypeOK, ShownCodesHold
<1>8. CountersExpire'
  BY <1>1, <1>2, <1>3, <1>4 DEF BindingsTypeOK, CountersExpire
<1> QED BY <1>5, <1>6, <1>7, <1>8

\* The device to rotate the code of is there.
LEMMA FindDeviceStep ==
  ASSUME BindingsInv, NEW r \in Requests, FindDevice(r)
  PROVE  BindingsInv'
<1> USE DEF BindingsInv, Moves, Keeps, Ended
<1>1. pc[r] = "findDevice" /\ dev[r] \in Devices /\ user[r] = NoOne
  BY DEF FindDevice, BindingsTypeOK, ConsolePc
<1>2. UNCHANGED <<status, code, bound, count, expiring, shown, retired, lost, crossed, jammed>>
  BY DEF FindDevice, deviceVars, limiter, codeHistory
<1>3. /\ Moves(r)
      /\ Ended(r) \/ (pc'[r] = "rotate" /\ Keeps(r))
  BY EndCourse, GotoCourse DEF FindDevice, AllPc, ConsolePc
<1>4. BindingsTypeOK'
  BY <1>1, <1>2, <1>3 DEF BindingsTypeOK, AllPc, ConsolePc, ScanPc, AppPc
<1>5. ReadersKnow'
  BY <1>1, <1>2, <1>3
     DEF BindingsTypeOK, ReadersKnow, AllPc, ConsolePc, ScanPc, AppPc
<1>6. ShownCodesHold'
  BY <1>1, <1>2, <1>3 DEF BindingsTypeOK, ShownCodesHold
<1>7. CountersExpire'
  BY <1>1, <1>2, <1>3 DEF BindingsTypeOK, CountersExpire
<1> QED BY <1>4, <1>5, <1>6, <1>7

\* A request is counted; the first goes on to set the expiry.
LEMMA CountStep ==
  ASSUME BindingsInv, NEW r \in Requests, CountRequest(r)
  PROVE  BindingsInv'
<1> USE DEF BindingsInv, Moves, Keeps, Ended
<1>1. pc[r] = "incr" /\ user[r] \in Users
  BY DEF CountRequest, BindingsTypeOK, ScanPc
<1>2. UNCHANGED <<status, code, bound, expiring, shown, retired, lost, crossed, jammed>>
  BY DEF CountRequest, deviceVars, codeHistory
<1>3. /\ count' \in [Users -> 0 .. Limit + 1]
      /\ \A v \in Users : v # user[r] => count'[v] = count[v]
  BY <1>1, CountType DEF CountRequest
<1>4. /\ Moves(r)
      /\ \/ pc'[r] = "expire" /\ Keeps(r)
         \/ pc'[r] = "findCode" /\ Keeps(r) /\ count[user[r]] > 0
         \/ Ended(r) /\ count[user[r]] > 0
  <2>1. CASE Goto(r, "expire")
    BY <2>1, GotoCourse DEF AllPc, ScanPc
  <2>2. CASE Goto(r, "findCode") /\ count[user[r]] \in 1 .. Limit - 1
    BY <2>2, GotoCourse DEF AllPc, ScanPc
  <2>3. CASE End(r) /\ count[user[r]] >= Limit
    <3>1. count[user[r]] > 0
      BY <1>1, <2>3 DEF BindingsTypeOK
    <3> QED BY <2>3, <3>1, EndCourse
  <2> QED BY <2>1, <2>2, <2>3 DEF CountRequest
<1>5. BindingsTypeOK'
  BY <1>1, <1>2, <1>3, <1>4 DEF BindingsTypeOK, AllPc, ConsolePc, ScanPc, AppPc
<1>6. ReadersKnow'
  BY <1>1, <1>2, <1>3, <1>4
     DEF BindingsTypeOK, ReadersKnow, AllPc, ConsolePc, ScanPc, AppPc
<1>7. ShownCodesHold'
  BY <1>1, <1>2, <1>3, <1>4 DEF BindingsTypeOK, ShownCodesHold
<1>8. CountersExpire'
  BY <1>1, <1>2, <1>3, <1>4 DEF BindingsTypeOK, CountersExpire
<1> QED BY <1>5, <1>6, <1>7, <1>8

\* A counter that was given its expiry goes back to zero.
LEMMA ExpiryStep ==
  ASSUME BindingsInv, NEW r \in Requests, SetExpiry(r)
  PROVE  BindingsInv'
<1> USE DEF BindingsInv, Moves, Keeps, Ended
<1>1. pc[r] = "expire" /\ user[r] \in Users
  BY DEF SetExpiry, BindingsTypeOK, ScanPc
<1>2. expiring' = expiring \cup {user[r]} /\ UNCHANGED <<status, code, bound, count, shown, retired, lost, crossed, jammed>>
  BY DEF SetExpiry, deviceVars, codeHistory
<1>3. Moves(r) /\ pc'[r] = "findCode" /\ Keeps(r)
  BY GotoCourse DEF SetExpiry, AllPc, ScanPc
<1>4. BindingsTypeOK'
  BY <1>1, <1>2, <1>3 DEF BindingsTypeOK, AllPc, ConsolePc, ScanPc, AppPc
<1>5. ReadersKnow'
  BY <1>1, <1>2, <1>3
     DEF BindingsTypeOK, ReadersKnow, AllPc, ConsolePc, ScanPc, AppPc
<1>6. ShownCodesHold'
  BY <1>1, <1>2, <1>3 DEF BindingsTypeOK, ShownCodesHold
<1>7. CountersExpire'
  BY <1>1, <1>2, <1>3 DEF BindingsTypeOK, CountersExpire
<1> QED BY <1>4, <1>5, <1>6, <1>7

\* Where Redis fails, a counter may stay without its expiry.
LEMMA LimiterFailsStep ==
  ASSUME BindingsInv, NEW r \in Requests, LimiterFails(r)
  PROVE  BindingsInv'
<1> USE DEF BindingsInv, Moves, Keeps, Ended
<1>1. pc[r] \in {"incr", "expire"} /\ user[r] \in Users
  BY DEF LimiterFails, BindingsTypeOK, ScanPc
<1>2. UNCHANGED <<status, code, bound, shown, retired, lost, crossed>>
  BY DEF LimiterFails, deviceVars, codeHistory
<1>3. /\ expiring \subseteq expiring' /\ expiring' \subseteq expiring \cup {user[r]}
      /\ jammed \subseteq jammed' /\ jammed' \subseteq jammed \cup {user[r]}
      /\ count' \in [Users -> 0 .. Limit + 1]
      /\ \A v \in Users : v # user[r] => count'[v] = count[v]
      /\ \/ user[r] \in jammed'
         \/ pc[r] = "incr" /\ (count'[user[r]] = count[user[r]] \/ count[user[r]] > 0)
  <2>1. CASE pc[r] = "incr" /\ UNCHANGED <<limiter, jammed>>
    BY <1>1, <2>1 DEF limiter, BindingsTypeOK
  <2>2. CASE /\ pc[r] = "incr"
             /\ count' = [count EXCEPT ![user[r]] = IF @ > Limit THEN @ ELSE @ + 1]
             /\ jammed' = IF count[user[r]] = 0 THEN jammed \cup {user[r]} ELSE jammed
             /\ UNCHANGED expiring
    <3>1. user[r] \in jammed' \/ count[user[r]] > 0
      BY <1>1, <2>2 DEF BindingsTypeOK
    <3> QED BY <1>1, <2>2, <3>1, CountType
  <2>3. CASE /\ pc[r] = "expire"
             /\ expiring' \in {expiring, expiring \cup {user[r]}}
             /\ jammed' = jammed \cup {user[r]}
             /\ UNCHANGED count
    BY <1>1, <2>3 DEF BindingsTypeOK
  <2> QED BY <2>1, <2>2, <2>3 DEF LimiterFails
<1>4. Moves(r) /\ pc'[r] = "findCode" /\ Keeps(r)
  BY GotoCourse DEF LimiterFails, AllPc, ScanPc
<1>5. BindingsTypeOK'
  BY <1>1, <1>2, <1>3, <1>4 DEF BindingsTypeOK, AllPc, ConsolePc, ScanPc, AppPc
<1>6. ReadersKnow'
  BY <1>1, <1>2, <1>3, <1>4
     DEF BindingsTypeOK, ReadersKnow, AllPc, ConsolePc, ScanPc, AppPc
<1>7. ShownCodesHold'
  BY <1>1, <1>2, <1>3, <1>4 DEF BindingsTypeOK, ShownCodesHold
<1>8. CountersExpire'
  BY <1>1, <1>2, <1>3, <1>4 DEF BindingsTypeOK, CountersExpire
<1> QED BY <1>5, <1>6, <1>7, <1>8

\* A code that is found is the current one of an enabled device.
LEMMA FindCodeStep ==
  ASSUME BindingsInv, NEW r \in Requests, FindCode(r)
  PROVE  BindingsInv'
<1> USE DEF BindingsInv, Moves, Keeps, Ended
<1>1. pc[r] = "findCode" /\ user[r] \in Users
  BY DEF FindCode, BindingsTypeOK, ScanPc
<1>2. UNCHANGED <<status, code, bound, count, expiring, shown, retired, lost, crossed, jammed>>
  BY DEF FindCode, deviceVars, limiter, codeHistory
<1>3. /\ Moves(r)
      /\ \/ Ended(r)
         \/ /\ pc'[r] = "upsert" /\ user'[r] = user[r] /\ scanned'[r] = scanned[r]
            /\ dev'[r] \in Devices
            /\ code[dev'[r]] = scanned[r] /\ status[dev'[r]] = "active"
  <2>1. CASE End(r)
    BY <2>1, EndCourse
  <2>2. ASSUME NEW d \in Devices, code[d] = scanned[r], status[d] = "active",
               pc' = [pc EXCEPT ![r] = "upsert"], dev' = [dev EXCEPT ![r] = d],
               UNCHANGED <<user, scanned>>
        PROVE  /\ Moves(r)
               /\ pc'[r] = "upsert" /\ user'[r] = user[r] /\ scanned'[r] = scanned[r]
               /\ dev'[r] = d
    BY <2>2 DEF BindingsTypeOK, AllPc, ScanPc
  <2> QED BY <2>1, <2>2 DEF FindCode
<1>4. BindingsTypeOK'
  BY <1>1, <1>2, <1>3 DEF BindingsTypeOK, AllPc, ConsolePc, ScanPc, AppPc
<1>5. ReadersKnow'
  BY <1>1, <1>2, <1>3
     DEF BindingsTypeOK, ReadersKnow, AllPc, ConsolePc, ScanPc, AppPc
<1>6. ShownCodesHold'
  BY <1>1, <1>2, <1>3 DEF BindingsTypeOK, ShownCodesHold
<1>7. CountersExpire'
  BY <1>1, <1>2, <1>3 DEF BindingsTypeOK, CountersExpire
<1> QED BY <1>4, <1>5, <1>6, <1>7

\* A binding is added.
LEMMA UpsertStep ==
  ASSUME BindingsInv, NEW r \in Requests, UpsertBinding(r)
  PROVE  BindingsInv'
<1> USE DEF BindingsInv, Moves, Keeps, Ended
<1>1. pc[r] = "upsert" /\ user[r] \in Users /\ dev[r] \in Devices
  BY DEF UpsertBinding, BindingsTypeOK, ScanPc
<1>2. /\ bound' = bound \cup {<<user[r], dev[r]>>}
      /\ crossed' = crossed \ {r}
      /\ UNCHANGED <<status, code, count, expiring, shown, retired, lost, jammed>>
  BY DEF UpsertBinding, limiter, codeHistory
<1>3. Moves(r) /\ Ended(r)
  BY EndCourse DEF UpsertBinding
<1>4. BindingsTypeOK'
  BY <1>1, <1>2, <1>3 DEF BindingsTypeOK, AllPc, ConsolePc, ScanPc, AppPc
<1>5. ReadersKnow'
  BY <1>1, <1>2, <1>3
     DEF BindingsTypeOK, ReadersKnow, AllPc, ConsolePc, ScanPc, AppPc
<1>6. ShownCodesHold'
  BY <1>1, <1>2, <1>3 DEF BindingsTypeOK, ShownCodesHold
<1>7. CountersExpire'
  BY <1>1, <1>2, <1>3 DEF BindingsTypeOK, CountersExpire
<1> QED BY <1>4, <1>5, <1>6, <1>7

\* A binding is found for a command or to be ended.
LEMMA FindBindingStep ==
  ASSUME BindingsInv, NEW r \in Requests, FindBinding(r)
  PROVE  BindingsInv'
<1> USE DEF BindingsInv, Moves, Keeps, Ended
<1>1. pc[r] \in {"findBinding", "findForCommand"} /\ user[r] \in Users /\ dev[r] \in Devices
  BY DEF FindBinding, BindingsTypeOK, AppPc
<1>2. UNCHANGED <<status, code, bound, count, expiring, shown, retired, lost, crossed, jammed>>
  BY DEF FindBinding, deviceVars, limiter, codeHistory
<1>3. /\ Moves(r)
      /\ \/ Ended(r)
         \/ /\ pc'[r] \in {"unbind", "command"} /\ Keeps(r)
            /\ <<user[r], dev[r]>> \in bound
  <2>1. CASE End(r)
    BY <2>1, EndCourse
  <2>2. ASSUME NEW label \in {"unbind", "command"}, Goto(r, label)
        PROVE  Moves(r) /\ pc'[r] = label /\ Keeps(r)
    BY <2>2, GotoCourse DEF AllPc, AppPc
  <2> QED BY <2>1, <2>2 DEF FindBinding, Bound
<1>4. BindingsTypeOK'
  BY <1>1, <1>2, <1>3 DEF BindingsTypeOK, AllPc, ConsolePc, ScanPc, AppPc
<1>5. ReadersKnow'
  BY <1>1, <1>2, <1>3
     DEF BindingsTypeOK, ReadersKnow, AllPc, ConsolePc, ScanPc, AppPc
<1>6. ShownCodesHold'
  BY <1>1, <1>2, <1>3 DEF BindingsTypeOK, ShownCodesHold
<1>7. CountersExpire'
  BY <1>1, <1>2, <1>3 DEF BindingsTypeOK, CountersExpire
<1> QED BY <1>4, <1>5, <1>6, <1>7

\* A binding ends behind the back of the commands it has admitted.
LEMMA UnbindStep ==
  ASSUME BindingsInv, NEW r \in Requests, Unbind(r)
  PROVE  BindingsInv'
<1> USE DEF BindingsInv, Moves, Keeps, Ended
<1>1. pc[r] = "unbind" /\ user[r] \in Users /\ dev[r] \in Devices
  BY DEF Unbind, BindingsTypeOK, AppPc
<1>2. /\ bound' = bound \ {<<user[r], dev[r]>>}
      /\ crossed' = crossed \cup {q \in Requests : /\ pc[q] = "command"
                                                   /\ user[q] = user[r] /\ dev[q] = dev[r]}
      /\ UNCHANGED <<status, code, count, expiring, shown, retired, lost, jammed>>
  BY DEF Unbind, limiter, codeHistory
<1>3. Moves(r) /\ Ended(r)
  BY EndCourse DEF Unbind
<1>4. BindingsTypeOK'
  BY <1>1, <1>2, <1>3 DEF BindingsTypeOK, AllPc, ConsolePc, ScanPc, AppPc
<1>5. ReadersKnow'
  BY <1>1, <1>2, <1>3
     DEF BindingsTypeOK, ReadersKnow, AllPc, ConsolePc, ScanPc, AppPc
<1>6. ShownCodesHold'
  BY <1>1, <1>2, <1>3 DEF BindingsTypeOK, ShownCodesHold
<1>7. CountersExpire'
  BY <1>1, <1>2, <1>3 DEF BindingsTypeOK, CountersExpire
<1> QED BY <1>4, <1>5, <1>6, <1>7

\* A command is sent, or a request dies.
LEMMA EndStep ==
  ASSUME BindingsInv, NEW r \in Requests, SendCommand(r) \/ Abort(r)
  PROVE  BindingsInv'
<1> USE DEF BindingsInv, Moves, Keeps, Ended
<1>1. /\ crossed' = crossed \ {r}
      /\ jammed' = IF pc[r] = "expire" THEN jammed \cup {user[r]} ELSE jammed
      /\ UNCHANGED <<status, code, bound, count, expiring, shown, retired, lost>>
  BY DEF SendCommand, Abort, deviceVars, limiter, codeHistory
<1>2. Moves(r) /\ Ended(r)
  BY EndCourse DEF SendCommand, Abort
<1>3. pc[r] = "expire" => user[r] \in Users
  BY DEF BindingsTypeOK, ScanPc
<1>4. BindingsTypeOK'
  BY <1>1, <1>2, <1>3 DEF BindingsTypeOK, AllPc, ConsolePc, ScanPc, AppPc
<1>5. ReadersKnow'
  BY <1>1, <1>2, <1>3
     DEF BindingsTypeOK, ReadersKnow, AllPc, ConsolePc, ScanPc, AppPc
<1>6. ShownCodesHold'
  BY <1>1, <1>2, <1>3 DEF BindingsTypeOK, ShownCodesHold
<1>7. CountersExpire'
  BY <1>1, <1>2, <1>3 DEF BindingsTypeOK, CountersExpire
<1> QED BY <1>4, <1>5, <1>6, <1>7

\* A window that ends and a change of status keep the inductive invariant.
LEMMA AroundStep ==
  ASSUME BindingsInv,
         (\E u \in Users : WindowEnds(u)) \/ (\E d \in Devices : ChangeStatus(d))
  PROVE  BindingsInv'
<1> USE DEF BindingsInv
<1>1. ASSUME NEW u \in Users, WindowEnds(u) PROVE BindingsInv'
  <2>1. /\ count' = [count EXCEPT ![u] = 0] /\ expiring' = expiring \ {u}
        /\ UNCHANGED <<status, code, bound, pc, user, dev, scanned, shown, retired,
                       lost, crossed, jammed>>
    BY <1>1 DEF WindowEnds, deviceVars, request, codeHistory
  <2>2. 0 \in 0 .. Limit + 1 /\ count' \in [Users -> 0 .. Limit + 1]
    <3>1. 0 \in 0 .. Limit + 1
      OBVIOUS
    <3> QED BY <2>1, <3>1 DEF BindingsTypeOK
  <2>3. BindingsTypeOK' /\ ReadersKnow' /\ ShownCodesHold'
    BY <2>1, <2>2 DEF BindingsTypeOK, ReadersKnow, ShownCodesHold
  <2>4. CountersExpire'
    BY <2>1 DEF BindingsTypeOK, CountersExpire
  <2> QED BY <2>3, <2>4
<1>2. ASSUME NEW d \in Devices, ChangeStatus(d) PROVE BindingsInv'
  <2>1. PICK s \in Status : status' = [status EXCEPT ![d] = s]
    BY <1>2 DEF ChangeStatus
  <2>2. /\ crossed' = crossed \cup {q \in Requests : pc[q] = "upsert" /\ dev[q] = d}
        /\ UNCHANGED <<code, bound, count, expiring, pc, user, dev, scanned, shown,
                       retired, lost, jammed>>
    BY <1>2 DEF ChangeStatus, limiter, request, codeHistory
  <2>3. BindingsTypeOK'
    BY <2>1, <2>2 DEF BindingsTypeOK
  <2>4. ReadersKnow'
    BY <2>1, <2>2 DEF BindingsTypeOK, ReadersKnow
  <2>5. ShownCodesHold' /\ CountersExpire'
    BY <2>2 DEF ShownCodesHold, CountersExpire
  <2> QED BY <2>3, <2>4, <2>5
<1> QED BY <1>1, <1>2

\* The inductive invariant is kept by every step.
LEMMA BindingsStep ==
  ASSUME BindingsInv, [BindingsNext]_bindingVars
  PROVE  BindingsInv'
<1>1. ASSUME NEW r \in Requests, ServeConsole(r) PROVE BindingsInv'
  BY <1>1, ViewStep, GenerateStep, FindDeviceStep, RotateStep DEF ServeConsole
<1>2. ASSUME NEW r \in Requests, ServeScan(r) PROVE BindingsInv'
  BY <1>2, CountStep, ExpiryStep, LimiterFailsStep, FindCodeStep, UpsertStep
     DEF ServeScan
<1>3. ASSUME NEW r \in Requests, ServeApp(r) \/ Abort(r) PROVE BindingsInv'
  BY <1>3, FindBindingStep, UnbindStep, EndStep DEF ServeApp
<1>4. CASE UNCHANGED bindingVars
  <2>1. UNCHANGED <<status, code, bound, count, expiring, pc, user, dev, scanned,
                    shown, retired, lost, crossed, jammed>>
    BY <1>4 DEF bindingVars, deviceVars, limiter, request, codeHistory
  <2> QED BY <2>1 DEF BindingsInv, BindingsTypeOK, ReadersKnow, ShownCodesHold,
                      CountersExpire
<1> QED BY <1>1, <1>2, <1>3, <1>4, BeginStep, AroundStep DEF BindingsNext

-----------------------------------------------------------------------------
\* The inductive invariant holds in every reachable state.
THEOREM BindingsInvariant == BindingsSpec => []BindingsInv
<1>1. BindingsInit => BindingsInv
  BY BindingsInitInv
<1>2. BindingsInv /\ [BindingsNext]_bindingVars => BindingsInv'
  BY BindingsStep
<1> QED BY <1>1, <1>2, PTL DEF BindingsSpec

\* The types hold: each request has the user and the device its statement needs.
THEOREM BindingsTypes == BindingsSpec => []BindingsTypeOK
<1>1. BindingsInv => BindingsTypeOK
  BY DEF BindingsInv
<1> QED BY <1>1, BindingsInvariant, PTL

\* A printed code holds until it is rotated away or a crossed view replaces it.
THEOREM PrintedCodesHold == BindingsSpec => []ShownCodesHold
<1>1. BindingsInv => ShownCodesHold
  BY DEF BindingsInv
<1> QED BY <1>1, BindingsInvariant, PTL

\* No counter outlives its window but one whose first request failed.
THEOREM CountersComeBack == BindingsSpec => []CountersExpire
<1>1. BindingsInv => CountersExpire
  BY DEF BindingsInv
<1> QED BY <1>1, BindingsInvariant, PTL

\* Who comes to be bound has the current code of an enabled device, or had it.
THEOREM BindingNeedsCode == BindingsSpec => BoundByCurrentCode
<1>1. ASSUME BindingsInv, [BindingsNext]_bindingVars
      PROVE  [\A u \in Users, d \in Devices :
                <<u, d>> \in bound' \ bound =>
                  \E r \in Requests :
                    /\ pc[r] = "upsert" /\ user[r] = u /\ dev[r] = d
                    /\ r \in crossed \/ (code[d] = scanned[r] /\ status[d] = "active")]_bindingVars
  <2>1. ASSUME NEW u \in Users, NEW d \in Devices, <<u, d>> \in bound' \ bound, BindingsNext
        PROVE  \E r \in Requests : UpsertBinding(r) /\ user[r] = u /\ dev[r] = d
    BY <2>1 DEF BindingsNext, BeginConsole, BeginScan, BeginApp, Begin, ServeConsole,
                ViewCode, GenerateCode, FindDevice, RotateCode, NewCode, ServeScan,
                CountRequest, SetExpiry, LimiterFails, FindCode, UpsertBinding, ServeApp,
                FindBinding, Unbind, SendCommand, Abort, WindowEnds, ChangeStatus, deviceVars
  <2> QED BY <1>1, <2>1 DEF BindingsInv, ReadersKnow, UpsertBinding
<1> QED BY <1>1, BindingsInvariant, PTL DEF BindingsSpec, BoundByCurrentCode

\* Who commands a device is bound to it, or was when the request looked.
THEOREM CommandsNeedBinding == BindingsSpec => CommandsComeFromBound
<1>1. ASSUME BindingsInv
      PROVE  \A r \in Requests :
               SendCommand(r) => r \in crossed \/ <<user[r], dev[r]>> \in bound
  BY <1>1 DEF BindingsInv, ReadersKnow, SendCommand
<1> QED BY <1>1, BindingsInvariant, PTL DEF BindingsSpec, CommandsComeFromBound

-----------------------------------------------------------------------------
(* The streams.                                                            *)

\* The streams' share of the type invariant.
ConnectionsTypeOK ==
    /\ phase \in [Streams -> {"none", "checking", "open"}]
    /\ wire \subseteq Streams /\ aborted \subseteq Streams
    /\ closed \subseteq Streams /\ listening \subseteq Streams
    /\ timers \subseteq Streams
    /\ leaked \subseteq Streams
    /\ listening = timers
    /\ closed \cup timers \subseteq {s \in Streams : phase[s] = "open"}

\* The filters and what is loaded for them.
LoadsTypeOK ==
    /\ filter \in [Streams -> SUBSET Devices]
    /\ load \in [Streams -> [Kind -> [state : {"idle", "asked", "read"},
                                      devices : SUBSET Devices]]]

\* A stream that was closed without its clean-up is on record.
ClosedLetGo == \A s \in closed : s \notin timers \/ s \in leaked

\* A load that was asked for belongs to a stream that was started.
LoadsAreOpen ==
    \A s \in Streams, k \in Kind : load[s][k] # Idle => phase[s] = "open"

StreamsInv ==
    /\ BindingsInv
    /\ ConnectionsTypeOK
    /\ LoadsTypeOK
    /\ LoadsAreOpen
    /\ ClosedLetGo
    /\ EndedStreamsLetGo

\* The initial state satisfies the streams' invariant.
LEMMA StreamsInitInv == StreamsInit => StreamsInv
<1> SUFFICES ASSUME StreamsInit PROVE StreamsInv
  OBVIOUS
<1>1. BindingsInv
  BY BindingsInitInv DEF StreamsInit
<1>2. ConnectionsTypeOK /\ LoadsTypeOK
  BY DEF StreamsInit, ConnectionsTypeOK, LoadsTypeOK, Idle
<1>3. LoadsAreOpen /\ ClosedLetGo /\ EndedStreamsLetGo
  BY DEF StreamsInit, LoadsAreOpen, ClosedLetGo, EndedStreamsLetGo
<1> QED BY <1>1, <1>2, <1>3 DEF StreamsInv

\* A write closes a stream whose client has gone, and puts it on record.
LEMMA WriteKeeps ==
  ASSUME ConnectionsTypeOK, ClosedLetGo, EndedStreamsLetGo,
         NEW s \in Streams, phase[s] = "open", Write(s),
         UNCHANGED <<phase, wire, aborted, listening, timers>>
  PROVE  ConnectionsTypeOK' /\ ClosedLetGo' /\ EndedStreamsLetGo'
  BY DEF ConnectionsTypeOK, ClosedLetGo, EndedStreamsLetGo, Write

\* A stream that begins or ends keeps the invariant of the connections.
LEMMA ConnectionStep ==
  ASSUME ConnectionsTypeOK, ClosedLetGo, EndedStreamsLetGo, NEW s \in Streams,
         Connect(s) \/ StartStream(s) \/ Hangup(s) \/ AbortRequest(s)
  PROVE  ConnectionsTypeOK' /\ ClosedLetGo' /\ EndedStreamsLetGo'
<1> USE DEF ConnectionsTypeOK, ClosedLetGo, EndedStreamsLetGo
<1>1. CASE Connect(s)
  BY <1>1 DEF Connect
<1>2. CASE StartStream(s)
  BY <1>2 DEF StartStream
<1>3. CASE Hangup(s)
  BY <1>3 DEF Hangup
<1>4. CASE AbortRequest(s)
  BY <1>4 DEF AbortRequest, CleanUp
<1> QED BY <1>1, <1>2, <1>3, <1>4

Loaded == [state : {"idle", "asked", "read"}, devices : SUBSET Devices]

\* One load of one stream goes on.
LEMMA LoadMoves ==
  ASSUME LoadsTypeOK, NEW s \in Streams, NEW k \in Kind, NEW x \in Loaded,
         load' = [load EXCEPT ![s][k] = x]
  PROVE  /\ load' \in [Streams -> [Kind -> Loaded]]
         /\ \A t \in Streams, j \in Kind :
              load'[t][j] = IF t = s /\ j = k THEN x ELSE load[t][j]
  BY DEF LoadsTypeOK, Loaded

\* What a load comes to.
LEMMA LoadStates ==
  /\ Idle \in Loaded /\ Asked \in Loaded
  /\ \A devices \in SUBSET Devices : Read(devices) \in Loaded /\ Read(devices) # Idle
  /\ Asked # Idle
  BY DEF Idle, Asked, Read, Loaded

\* The steps of a stream keep the invariant of the loads.
LEMMA LoadStep ==
  ASSUME ConnectionsTypeOK, LoadsTypeOK, LoadsAreOpen, NEW s \in Streams, StreamNext(s)
  PROVE  LoadsTypeOK' /\ LoadsAreOpen'
<1>1. CASE UNCHANGED <<phase, load, filter>>
  BY <1>1 DEF LoadsTypeOK, LoadsAreOpen
<1>2. CASE Connect(s)
  BY <1>2 DEF Connect, ConnectionsTypeOK, LoadsTypeOK, LoadsAreOpen
<1>3. CASE StartStream(s)
  <2>1. /\ load' = [load EXCEPT ![s]["first"] = Asked] /\ UNCHANGED filter
        /\ phase' = [phase EXCEPT ![s] = "open"]
    BY <1>3 DEF StartStream
  <2>2. "first" \in Kind
    BY DEF Kind
  <2>3. /\ load' \in [Streams -> [Kind -> Loaded]]
        /\ \A t \in Streams, j \in Kind :
             load'[t][j] = IF t = s /\ j = "first" THEN Asked ELSE load[t][j]
    BY <2>1, <2>2, LoadMoves, LoadStates
  <2>4. \A t \in Streams : phase'[t] = IF t = s THEN "open" ELSE phase[t]
    BY <2>1 DEF ConnectionsTypeOK
  <2>5. LoadsTypeOK'
    BY <2>1, <2>3 DEF LoadsTypeOK, Loaded
  <2>6. LoadsAreOpen'
    BY <2>3, <2>4 DEF LoadsAreOpen
  <2> QED BY <2>5, <2>6
<1>4. CASE ReloadTick(s)
  <2>1. /\ load' = [load EXCEPT ![s]["reload"] = Asked] /\ UNCHANGED <<filter, phase>>
        /\ phase[s] = "open"
    BY <1>4 DEF ReloadTick, ConnectionsTypeOK
  <2>2. "reload" \in Kind
    BY DEF Kind
  <2> QED BY <2>1, <2>2, LoadMoves, LoadStates DEF LoadsTypeOK, LoadsAreOpen, Loaded
<1>5. ASSUME NEW k \in Kind, ReadBindings(s, k) PROVE LoadsTypeOK' /\ LoadsAreOpen'
  <2>1. /\ load' = [load EXCEPT ![s][k] = Read(BoundTo(s))] /\ UNCHANGED <<filter, phase>>
        /\ phase[s] = "open"
    BY <1>5, LoadStates DEF ReadBindings, LoadsAreOpen
  <2>2. Read(BoundTo(s)) \in Loaded
    BY LoadStates DEF BoundTo
  <2> QED BY <2>1, <2>2, LoadMoves DEF LoadsTypeOK, LoadsAreOpen, Loaded
<1>6. ASSUME NEW k \in Kind, TakeOver(s, k) \/ LoadFails(s, k)
      PROVE  LoadsTypeOK' /\ LoadsAreOpen'
  <2>1. load' = [load EXCEPT ![s][k] = Idle] /\ UNCHANGED phase
    BY <1>6 DEF TakeOver, LoadFails
  <2>2. filter' \in [Streams -> SUBSET Devices]
    BY <1>6 DEF TakeOver, LoadFails, LoadsTypeOK
  <2>3. /\ load' \in [Streams -> [Kind -> Loaded]]
        /\ \A t \in Streams, j \in Kind :
             load'[t][j] = IF t = s /\ j = k THEN Idle ELSE load[t][j]
    <3>1. Idle \in Loaded
      BY LoadStates
    <3> QED BY <2>1, <3>1, LoadMoves
  <2>4. LoadsTypeOK'
    BY <2>2, <2>3 DEF LoadsTypeOK, Loaded
  <2>5. LoadsAreOpen'
    BY <2>1, <2>3 DEF LoadsAreOpen
  <2> QED BY <2>4, <2>5
<1>7. ASSUME Hangup(s) \/ AbortRequest(s) \/ Heartbeat(s) \/ (\E d \in Devices : PassOn(s, d))
      PROVE  UNCHANGED <<phase, load, filter>>
  BY <1>7 DEF Hangup, AbortRequest, Heartbeat, PassOn
<1> QED BY <1>1, <1>2, <1>3, <1>4, <1>5, <1>6, <1>7 DEF StreamNext

\* The steps of a stream keep the invariant of the connections.
LEMMA WritingStep ==
  ASSUME ConnectionsTypeOK, LoadsTypeOK, LoadsAreOpen, ClosedLetGo, EndedStreamsLetGo,
         NEW s \in Streams, StreamNext(s)
  PROVE  ConnectionsTypeOK' /\ ClosedLetGo' /\ EndedStreamsLetGo'
<1>1. CASE Connect(s) \/ StartStream(s) \/ Hangup(s) \/ AbortRequest(s)
  BY <1>1, ConnectionStep
<1>2. CASE Heartbeat(s) \/ \E d \in Devices : PassOn(s, d)
  <2>1. /\ phase[s] = "open" /\ Write(s)
        /\ UNCHANGED <<phase, wire, aborted, listening, timers>>
    BY <1>2 DEF Heartbeat, PassOn, ConnectionsTypeOK
  <2> QED BY <2>1, WriteKeeps
<1>3. ASSUME NEW k \in Kind, TakeOver(s, k) \/ LoadFails(s, k)
      PROVE  ConnectionsTypeOK' /\ ClosedLetGo' /\ EndedStreamsLetGo'
  <2>1. load[s][k] # Idle
    BY <1>3, LoadStates DEF TakeOver, LoadFails, Idle
  <2>2. /\ phase[s] = "open"
        /\ Write(s) \/ UNCHANGED <<closed, leaked>>
        /\ UNCHANGED <<phase, wire, aborted, listening, timers>>
    BY <1>3, <2>1 DEF TakeOver, LoadFails, LoadsAreOpen
  <2>3. CASE UNCHANGED <<closed, leaked>>
    BY <2>2, <2>3 DEF ConnectionsTypeOK, ClosedLetGo, EndedStreamsLetGo
  <2> QED BY <2>2, <2>3, WriteKeeps
<1>4. ASSUME ReloadTick(s) \/ (\E k \in Kind : ReadBindings(s, k))
      PROVE  ConnectionsTypeOK' /\ ClosedLetGo' /\ EndedStreamsLetGo'
  <2>1. UNCHANGED <<phase, wire, aborted, closed, listening, timers, leaked>>
    BY <1>4 DEF ReloadTick, ReadBindings
  <2> QED BY <2>1 DEF ConnectionsTypeOK, ClosedLetGo, EndedStreamsLetGo
<1> QED BY <1>1, <1>2, <1>3, <1>4 DEF StreamNext

\* No step of a stream touches the bindings.
LEMMA StreamsLeaveBindings ==
  ASSUME [EventNext]_eventVars
  PROVE  [BindingsNext]_bindingVars
<1>1. ASSUME NEW s \in Streams, StreamNext(s) PROVE UNCHANGED bindingVars
  BY <1>1 DEF StreamNext, Connect, StartStream, Hangup, AbortRequest, Heartbeat,
              ReloadTick, PassOn, ReadBindings, TakeOver, LoadFails
<1> QED BY <1>1 DEF EventNext, eventVars

\* The streams' invariant is kept by every step.
LEMMA EventStep ==
  ASSUME StreamsInv, [EventNext]_eventVars
  PROVE  StreamsInv'
<1>1. BindingsInv'
  BY StreamsLeaveBindings, BindingsStep DEF StreamsInv
<1>2. ASSUME NEW s \in Streams, StreamNext(s) PROVE StreamsInv'
  BY <1>1, <1>2, LoadStep, WritingStep DEF StreamsInv
<1>3. CASE UNCHANGED streamVars
  BY <1>1, <1>3 DEF streamVars, StreamsInv, ConnectionsTypeOK, LoadsTypeOK, LoadsAreOpen,
                    ClosedLetGo, EndedStreamsLetGo
<1> QED BY <1>2, <1>3 DEF EventNext, eventVars

-----------------------------------------------------------------------------
\* The streams' invariant holds in every reachable state.
THEOREM StreamsInvariant == EventSpec => []StreamsInv
<1>1. StreamsInit => StreamsInv
  BY StreamsInitInv
<1>2. StreamsInv /\ [EventNext]_eventVars => StreamsInv'
  BY EventStep
<1> QED BY <1>1, <1>2, PTL DEF EventSpec

\* The types hold: a stream listens as long as its timers run.
THEOREM StreamsTypes == EventSpec => []StreamsTypeOK
<1>1. StreamsInv => StreamsTypeOK
  BY DEF StreamsInv, ConnectionsTypeOK, LoadsTypeOK, BindingsInv, StreamsTypeOK
<1> QED BY <1>1, StreamsInvariant, PTL

\* An aborted stream has let go of the bus and its timers, unless a write or an
\* early abort cost it its clean-up.
THEOREM StreamsLetGo == EventSpec => []EndedStreamsLetGo
<1>1. StreamsInv => EndedStreamsLetGo
  BY DEF StreamsInv
<1> QED BY <1>1, StreamsInvariant, PTL

\* Streams read the bindings and never change them, so that every theorem about
\* the bindings holds where streams run.
THEOREM StreamsOnlyRead == EventSpec => BindingsSpec
<1>1. StreamsInit => BindingsInit
  BY DEF StreamsInit
<1>2. [EventNext]_eventVars => [BindingsNext]_bindingVars
  BY StreamsLeaveBindings
<1> QED BY <1>1, <1>2, PTL DEF EventSpec, BindingsSpec

=============================================================================
