------------------------ MODULE FirmwareLibraryProofs ------------------------
(***************************************************************************)
(* Proofs about FirmwareLibrary, for any number of requests, firmwares,    *)
(* names and tasks.  The inductive invariant says what each request relies *)
(* on between two of its statements: an upload that its firmware is its    *)
(* own and in no table yet, a deletion that no task referred to its        *)
(* firmware when it looked.                                                *)
(***************************************************************************)
EXTENDS FirmwareLibrary, FiniteSetTheorems, TLAPS

USE LibraryAssumption

\* A deletion has read the row of its firmware.
Found == {"countTasks", "removeObject", "removeRow"}

\* An upload that has not inserted its row.
Sending == {"put", "quota", "lookup", "insert"}

AllPc == UploadPc \cup DeletePc \cup TaskPc \cup {"idle"}

\* An upload has its firmware to itself until the row is there, and its key is
\* not known before.
UploadsApart ==
    /\ row \subseteq shown
    /\ \A f \in Firmwares :
         f \in shown \/ f \in object \/ ~Uploaded(f) => name[f] # NoName
    /\ \A f, g \in Firmwares : file[f] = g /\ f # g => g \in shown
    /\ \A r \in Requests : pc[r] \in UploadPc \cup Found => name[target[r]] # NoName
    /\ \A r, q \in Requests : /\ pc[r] \in UploadPc
                              /\ pc[q] \in UploadPc \/ (pc[r] # "reclaim" /\ pc[q] \in Found)
                              /\ target[r] = target[q]
                              => r = q
    /\ \A r \in Requests : pc[r] \in Sending => target[r] \notin shown

\* Where the file of a firmware is while a request works on it.
FilesKnown ==
    /\ \A f \in Firmwares : f \in object => Uploaded(f)
    /\ \A r \in Requests :
         /\ pc[r] \in {"put", "reclaim"} => Uploaded(target[r])
         /\ pc[r] \in {"quota", "lookup", "insert"} /\ Uploaded(target[r])
            => target[r] \in object
         /\ pc[r] = "reclaim" /\ target[r] \in row => target[r] \in stripped

\* A task that refers to a firmware about to be deleted came too late.
CondemnedReferred ==
    \A f \in Firmwares : Condemned(f) /\ Referred(f) => f \in stripped

\* A name taken although it was looked up was taken since.
TakenIsOutrun ==
    \A r \in Requests : pc[r] = "insert" /\ Taken(name[target[r]]) => r \in outrun

Inv == /\ TypeOK
       /\ UploadsApart
       /\ FilesKnown
       /\ CondemnedReferred
       /\ TakenIsOutrun
       /\ RowHasObject
       /\ ObjectHasRow
       /\ NamesDiffer

-----------------------------------------------------------------------------
\* The initial state satisfies the inductive invariant.
LEMMA InitInv == Init => Inv
<1> SUFFICES ASSUME Init PROVE Inv
  OBVIOUS
<1>1. TypeOK
  BY DEF Init, TypeOK, Keys
<1>2. UploadsApart /\ FilesKnown /\ CondemnedReferred /\ TakenIsOutrun
  BY DEF Init, UploadsApart, FilesKnown, Uploaded, CondemnedReferred, TakenIsOutrun,
         UploadPc, Found, Sending, Condemned
<1>3. RowHasObject /\ ObjectHasRow /\ NamesDiffer
  BY DEF Init, RowHasObject, ObjectHasRow, NamesDiffer
<1> QED BY <1>1, <1>2, <1>3 DEF Inv

(* The course of a request: where it goes, and what it is about.           *)

\* Only request r moves, and it has a firmware while it is under way.
Moves(r) ==
    /\ pc' \in [Requests -> AllPc]
    /\ target' \in [Requests -> Firmwares \cup {NoFirmware}]
    /\ \A q \in Requests \ {r} : pc'[q] = pc[q] /\ target'[q] = target[q]
    /\ \A q \in Requests : pc'[q] = "idle" <=> target'[q] = NoFirmware

\* A request that sets out.
LEMMA StartCourse ==
  ASSUME TypeOK, NEW r \in Requests, NEW label \in AllPc \ {"idle"}, NEW f \in Firmwares,
         Start(r, label, f)
  PROVE  pc[r] = "idle" /\ Moves(r) /\ pc'[r] = label /\ target'[r] = f
  BY DEF TypeOK, Start, AllPc, Moves

\* A request that goes on.
LEMMA GotoCourse ==
  ASSUME TypeOK, NEW r \in Requests, pc[r] # "idle", NEW label \in AllPc \ {"idle"},
         Goto(r, label)
  PROVE  /\ target[r] \in Firmwares
         /\ Moves(r) /\ pc'[r] = label /\ target'[r] = target[r]
  BY DEF TypeOK, Goto, AllPc, Moves

\* A request that ends.
LEMMA EndCourse ==
  ASSUME TypeOK, NEW r \in Requests, pc[r] # "idle", End(r)
  PROVE  /\ target[r] \in Firmwares
         /\ Moves(r) /\ pc'[r] = "idle" /\ target'[r] = NoFirmware
  BY DEF TypeOK, End, AllPc, Moves

\* A request that fails ends, or goes on to take its object back.
LEMMA FailCourse ==
  ASSUME TypeOK, NEW r \in Requests, pc[r] \in Sending, Fail(r)
  PROVE  /\ target[r] \in Firmwares
         /\ Moves(r)
         /\ \/ ~Uploaded(target[r]) /\ pc'[r] = "idle" /\ target'[r] = NoFirmware
            \/ Uploaded(target[r]) /\ pc'[r] = "reclaim" /\ target'[r] = target[r]
<1>1. pc[r] # "idle" /\ "reclaim" \in AllPc \ {"idle"}
  BY DEF Sending, AllPc, UploadPc
<1>2. CASE ~Uploaded(target[r])
  BY <1>1, <1>2, EndCourse DEF Fail
<1>3. CASE Uploaded(target[r])
  BY <1>1, <1>3, GotoCourse DEF Fail, TypeOK
<1> QED BY <1>2, <1>3

-----------------------------------------------------------------------------
(* Each action keeps the inductive invariant.                              *)

\* An upload or a registration begins with a firmware of its own.
LEMMA BeginStep ==
  ASSUME Inv, NEW r \in Requests, StartUpload(r) \/ Register(r)
  PROVE  Inv'
<1> USE DEF Inv, Moves
<1>1. PICK f \in Firmwares, n \in Names, label \in {"put", "quota"} :
        /\ name[f] = NoName
        /\ Start(r, label, f)
        /\ name' = [name EXCEPT ![f] = n]
        /\ \/ label = "put" /\ file' = file
           \/ /\ label = "quota"
              /\ \E key \in {Elsewhere} \cup Bins \cup {file[g] : g \in shown} :
                   file' = [file EXCEPT ![f] = key]
  BY DEF StartUpload, Register, Names
<1>2. UNCHANGED <<row, object, taskOf, linked, shown, outrun, late, leftover, stripped>>
  BY DEF StartUpload, Register, library, history
<1>3. pc[r] = "idle" /\ Moves(r) /\ pc'[r] = label /\ target'[r] = f
  BY <1>1, StartCourse DEF AllPc, UploadPc
<1>4. /\ name' \in [Firmwares -> Names \cup {NoName}]
      /\ \A g \in Firmwares : name'[g] = IF g = f THEN n ELSE name[g]
      /\ n # NoName
      /\ f \notin row /\ f \notin shown /\ f \notin object /\ Uploaded(f)
      /\ \A q \in Requests : pc[q] \in UploadPc \cup Found => target[q] # f
      /\ \A g \in Firmwares : g # f => file[g] # f
      /\ \A q \in Requests : pc[q] # "idle" => target[q] \in Firmwares
      /\ row \subseteq Firmwares
  BY <1>1 DEF TypeOK, UploadsApart, Names
<1>5. /\ file' \in [Firmwares -> Keys \cup {Elsewhere}]
      /\ \A g \in Firmwares : g # f => file'[g] = file[g]
      /\ \/ file'[f] = f /\ label = "put"
         \/ /\ label = "quota" /\ file'[f] # f
            /\ file'[f] \in Firmwares => file'[f] \in shown
  <2>1. CASE file' = file
    BY <1>1, <1>4, <2>1 DEF TypeOK, Uploaded
  <2>2. ASSUME label = "quota",
               NEW key \in {Elsewhere} \cup Bins \cup {file[g] : g \in shown},
               file' = [file EXCEPT ![f] = key]
        PROVE  /\ file' \in [Firmwares -> Keys \cup {Elsewhere}]
               /\ \A g \in Firmwares : g # f => file'[g] = file[g]
               /\ file'[f] # f
               /\ file'[f] \in Firmwares => file'[f] \in shown
    <3>1. key \in Keys \cup {Elsewhere} /\ key # f
      BY <1>4, <2>2 DEF TypeOK, Keys
    <3>2. key \in Firmwares => key \in shown
      BY <2>2 DEF TypeOK, UploadsApart, Keys
    <3> QED BY <2>2, <3>1, <3>2 DEF TypeOK
  <2> QED BY <1>1, <2>1, <2>2
<1>6. TypeOK'
  BY <1>1, <1>2, <1>3, <1>4, <1>5 DEF TypeOK, AllPc
<1>7. UploadsApart'
  BY <1>1, <1>2, <1>3, <1>4, <1>5 DEF UploadsApart, Uploaded, UploadPc, Found, Sending
<1>8. FilesKnown'
  BY <1>1, <1>2, <1>3, <1>4, <1>5
     DEF UploadsApart, FilesKnown, Uploaded, UploadPc, Found, Sending
<1>9. CondemnedReferred'
  BY <1>1, <1>2, <1>3, <1>4, <1>5 DEF CondemnedReferred, Condemned, Referred
<1>10. TakenIsOutrun'
  BY <1>1, <1>2, <1>3, <1>4, <1>5 DEF TypeOK, TakenIsOutrun, Taken, UploadPc
<1>11. RowHasObject'
  BY <1>1, <1>2, <1>3, <1>4, <1>5 DEF RowHasObject, Deleting, Uploaded, FilesKnown
<1>12. ObjectHasRow'
  BY <1>1, <1>2, <1>3, <1>4, <1>5
     DEF ObjectHasRow, Uploading, Kept, Deleting, Uploaded, FilesKnown, UploadPc
<1>13. NamesDiffer'
  BY <1>1, <1>2, <1>3, <1>4, <1>5 DEF NamesDiffer
<1> QED BY <1>6, <1>7, <1>8, <1>9, <1>10, <1>11, <1>12, <1>13

\* The object is in the store before the quota is asked.
LEMMA PutStep ==
  ASSUME Inv, NEW r \in Requests, PutObject(r)
  PROVE  Inv'
<1> USE DEF Inv, Moves
<1>1. pc[r] = "put" /\ pc[r] \in Sending /\ pc[r] # "idle"
  BY DEF PutObject, Sending
<1>2. /\ object' \in {object, object \cup {target[r]}}
      /\ UNCHANGED <<row, taskOf, name, file, linked,
                     shown, outrun, late, leftover, stripped>>
  BY DEF PutObject, naming, history
<1>3. Uploaded(target[r])
  BY <1>1 DEF FilesKnown
<1>4. /\ target[r] \in Firmwares
      /\ Moves(r)
      /\ \/ pc'[r] = "quota" /\ target'[r] = target[r] /\ target[r] \in object'
         \/ ~Uploaded(target[r]) /\ pc'[r] = "idle" /\ target'[r] = NoFirmware
         \/ Uploaded(target[r]) /\ pc'[r] = "reclaim" /\ target'[r] = target[r]
  <2>1. CASE object' = object \cup {target[r]} /\ Goto(r, "quota")
    BY <1>1, <2>1, GotoCourse DEF AllPc, UploadPc
  <2>2. CASE Fail(r)
    BY <1>1, <2>2, FailCourse
  <2> QED BY <2>1, <2>2 DEF PutObject
<1>5. TypeOK'
  BY <1>1, <1>2, <1>3, <1>4 DEF TypeOK, Keys, AllPc
<1>6. UploadsApart'
  BY <1>1, <1>2, <1>3, <1>4 DEF UploadsApart, Uploaded, UploadPc, Found, Sending
<1>7. FilesKnown'
  BY <1>1, <1>2, <1>3, <1>4
     DEF UploadsApart, FilesKnown, Uploaded, UploadPc, Found, Sending
<1>8. CondemnedReferred'
  BY <1>1, <1>2, <1>3, <1>4 DEF CondemnedReferred, Condemned, Referred
<1>9. TakenIsOutrun'
  BY <1>1, <1>2, <1>3, <1>4 DEF TypeOK, TakenIsOutrun, Taken, UploadPc
<1>10. RowHasObject'
  BY <1>1, <1>2, <1>3, <1>4 DEF RowHasObject, Deleting, Uploaded, FilesKnown
<1>11. ObjectHasRow'
  BY <1>1, <1>2, <1>3, <1>4
     DEF ObjectHasRow, Uploading, Kept, Deleting, Uploaded, FilesKnown, UploadPc
<1>12. NamesDiffer'
  BY <1>1, <1>2, <1>3, <1>4 DEF NamesDiffer
<1> QED BY <1>5, <1>6, <1>7, <1>8, <1>9, <1>10, <1>11, <1>12

\* Counting the firmwares changes nothing but the course.
LEMMA CountStep ==
  ASSUME Inv, NEW r \in Requests, CountFirmwares(r)
  PROVE  Inv'
<1> USE DEF Inv, Moves
<1>1. pc[r] = "quota" /\ pc[r] \in Sending /\ pc[r] # "idle"
  BY DEF CountFirmwares, Sending
<1>2. UNCHANGED <<row, object, taskOf, name, file, linked,
                  shown, outrun, late, leftover, stripped>>
  BY DEF CountFirmwares, library, naming, history
<1>3. /\ target[r] \in Firmwares
      /\ Moves(r)
      /\ \/ pc'[r] = "lookup" /\ target'[r] = target[r]
         \/ ~Uploaded(target[r]) /\ pc'[r] = "idle" /\ target'[r] = NoFirmware
         \/ Uploaded(target[r]) /\ pc'[r] = "reclaim" /\ target'[r] = target[r]
  <2>1. CASE Goto(r, "lookup")
    BY <1>1, <2>1, GotoCourse DEF AllPc, UploadPc
  <2>2. CASE Fail(r)
    BY <1>1, <2>2, FailCourse
  <2> QED BY <2>1, <2>2 DEF CountFirmwares
<1>4. TypeOK'
  BY <1>1, <1>2, <1>3 DEF TypeOK, AllPc
<1>5. UploadsApart'
  BY <1>1, <1>2, <1>3 DEF UploadsApart, Uploaded, UploadPc, Found, Sending
<1>6. FilesKnown'
  BY <1>1, <1>2, <1>3
     DEF UploadsApart, FilesKnown, Uploaded, UploadPc, Found, Sending
<1>7. CondemnedReferred'
  BY <1>1, <1>2, <1>3 DEF CondemnedReferred, Condemned, Referred
<1>8. TakenIsOutrun'
  BY <1>1, <1>2, <1>3 DEF TypeOK, TakenIsOutrun, Taken, UploadPc
<1>9. RowHasObject'
  BY <1>1, <1>2, <1>3 DEF RowHasObject, Deleting, Uploaded, FilesKnown
<1>10. ObjectHasRow'
  BY <1>1, <1>2, <1>3
     DEF ObjectHasRow, Uploading, Kept, Deleting, Uploaded, FilesKnown, UploadPc
<1>11. NamesDiffer'
  BY <1>1, <1>2, <1>3 DEF NamesDiffer
<1> QED BY <1>4, <1>5, <1>6, <1>7, <1>8, <1>9, <1>10, <1>11

\* A name that is looked up in vain is free.
LEMMA LookUpStep ==
  ASSUME Inv, NEW r \in Requests, LookUpName(r)
  PROVE  Inv'
<1> USE DEF Inv, Moves
<1>1. pc[r] = "lookup" /\ pc[r] \in Sending /\ pc[r] # "idle"
  BY DEF LookUpName, Sending
<1>2. UNCHANGED <<row, object, taskOf, name, file, linked,
                  shown, outrun, late, leftover, stripped>>
  BY DEF LookUpName, library, naming, history
<1>3. /\ target[r] \in Firmwares
      /\ Moves(r)
      /\ \/ pc'[r] = "insert" /\ target'[r] = target[r] /\ ~Taken(name[target[r]])
         \/ ~Uploaded(target[r]) /\ pc'[r] = "idle" /\ target'[r] = NoFirmware
         \/ Uploaded(target[r]) /\ pc'[r] = "reclaim" /\ target'[r] = target[r]
  <2>1. CASE ~Taken(name[target[r]]) /\ Goto(r, "insert")
    BY <1>1, <2>1, GotoCourse DEF AllPc, UploadPc
  <2>2. CASE Fail(r)
    BY <1>1, <2>2, FailCourse
  <2> QED BY <2>1, <2>2 DEF LookUpName
<1>4. TypeOK'
  BY <1>1, <1>2, <1>3 DEF TypeOK, AllPc
<1>5. UploadsApart'
  BY <1>1, <1>2, <1>3 DEF UploadsApart, Uploaded, UploadPc, Found, Sending
<1>6. FilesKnown'
  BY <1>1, <1>2, <1>3
     DEF UploadsApart, FilesKnown, Uploaded, UploadPc, Found, Sending
<1>7. CondemnedReferred'
  BY <1>1, <1>2, <1>3 DEF CondemnedReferred, Condemned, Referred
<1>8. TakenIsOutrun'
  BY <1>1, <1>2, <1>3 DEF TypeOK, TakenIsOutrun, Taken, UploadPc
<1>9. RowHasObject'
  BY <1>1, <1>2, <1>3 DEF RowHasObject, Deleting, Uploaded, FilesKnown
<1>10. ObjectHasRow'
  BY <1>1, <1>2, <1>3
     DEF ObjectHasRow, Uploading, Kept, Deleting, Uploaded, FilesKnown, UploadPc
<1>11. NamesDiffer'
  BY <1>1, <1>2, <1>3 DEF NamesDiffer
<1> QED BY <1>4, <1>5, <1>6, <1>7, <1>8, <1>9, <1>10, <1>11

\* A row that is inserted has its object; a name that is taken was taken late.
LEMMA InsertStep ==
  ASSUME Inv, NEW r \in Requests, InsertRow(r)
  PROVE  Inv'
<1> USE DEF Inv, Moves
<1>1. pc[r] = "insert" /\ pc[r] \in Sending /\ pc[r] # "idle"
  BY DEF InsertRow, Sending
<1>2. /\ Insertable(target[r])
      /\ row' = row \cup {target[r]}
      /\ outrun' = {q \in Requests \ {r} :
                      \/ q \in outrun
                      \/ pc[q] = "insert" /\ name[target[q]] = name[target[r]]}
      /\ late' = IF r \in outrun THEN late \cup {target[r]} ELSE late
      /\ stripped' \in {stripped, stripped \cup {target[r]}}
      /\ shown' = shown \cup {target[r]}
      /\ UNCHANGED <<object, taskOf, name, file, linked, leftover>>
  BY DEF InsertRow, naming
<1>3. /\ target[r] \in Firmwares
      /\ Moves(r)
      /\ \/ pc'[r] = "idle" /\ target'[r] = NoFirmware
         \/ /\ Uploaded(target[r]) /\ target[r] \in stripped'
            /\ pc'[r] = "reclaim" /\ target'[r] = target[r]
  <2>1. CASE End(r)
    BY <1>1, <2>1, EndCourse
  <2>2. CASE Fail(r) /\ stripped' = stripped \cup {target[r]}
    BY <1>1, <2>2, FailCourse
  <2> QED BY <2>1, <2>2 DEF InsertRow
<1>4. /\ target[r] \notin row /\ target[r] \notin shown
      /\ Uploaded(target[r]) => target[r] \in object
      /\ name[target[r]] \in Names
      /\ \A q \in Requests \ {r} : pc[q] \in UploadPc \cup Found => target[q] # target[r]
  BY <1>1, <1>3 DEF TypeOK, UploadsApart, FilesKnown, UploadPc, Found
<1>5. TypeOK'
  BY <1>1, <1>2, <1>3, <1>4 DEF TypeOK, AllPc
<1>6. UploadsApart'
  BY <1>1, <1>2, <1>3, <1>4 DEF UploadsApart, Uploaded, UploadPc, Found, Sending
<1>7. FilesKnown'
  BY <1>1, <1>2, <1>3, <1>4
     DEF UploadsApart, FilesKnown, Uploaded, UploadPc, Found, Sending
<1>8. CondemnedReferred'
  BY <1>1, <1>2, <1>3, <1>4 DEF CondemnedReferred, Condemned, Referred
<1>9. TakenIsOutrun'
  BY <1>1, <1>2, <1>3, <1>4 DEF TypeOK, TakenIsOutrun, Taken, UploadPc
<1>10. RowHasObject'
  BY <1>1, <1>2, <1>3, <1>4 DEF RowHasObject, Deleting, Uploaded, FilesKnown
<1>11. ObjectHasRow'
  <2>1. \A f : Deleting(f)' => Deleting(f)
    BY <1>1, <1>3 DEF Deleting
  <2>2. ASSUME NEW key \in object, key = target[r] PROVE Kept(key)'
    <3>1. ~Deleting(key)
      BY <1>1, <1>4, <2>2 DEF Deleting, Found
    <3>2. file[key] = key
      BY <1>3, <2>2 DEF FilesKnown, Uploaded
    <3> QED BY <1>2, <2>1, <2>2, <3>1, <3>2 DEF Kept
  <2>3. \A key : Kept(key) => Kept(key)'
    BY <1>2, <2>1 DEF Kept
  <2>4. \A key : Uploading(key) /\ key # target[r] => Uploading(key)'
    BY <1>3 DEF Uploading
  <2> QED BY <1>2, <2>2, <2>3, <2>4 DEF ObjectHasRow
<1>12. NamesDiffer'
  BY <1>1, <1>2, <1>3, <1>4
     DEF NamesDiffer, TypeOK, TakenIsOutrun, Taken, Insertable, Names
<1> QED BY <1>5, <1>6, <1>7, <1>8, <1>9, <1>10, <1>11, <1>12

\* An insert that fails leaves the table as it is.
LEMMA InsertFailsStep ==
  ASSUME Inv, NEW r \in Requests, InsertFails(r)
  PROVE  Inv'
<1> USE DEF Inv, Moves
<1>1. pc[r] = "insert" /\ pc[r] \in Sending /\ pc[r] # "idle"
  BY DEF InsertFails, Sending
<1>2. /\ outrun' = outrun \ {r}
      /\ UNCHANGED <<row, object, taskOf, name, file, linked, shown, late, leftover, stripped>>
  BY DEF InsertFails, library, naming
<1>3. /\ target[r] \in Firmwares
      /\ Moves(r)
      /\ \/ ~Uploaded(target[r]) /\ pc'[r] = "idle" /\ target'[r] = NoFirmware
         \/ Uploaded(target[r]) /\ pc'[r] = "reclaim" /\ target'[r] = target[r]
  BY <1>1, FailCourse DEF InsertFails
<1>4. TypeOK'
  BY <1>1, <1>2, <1>3 DEF TypeOK, AllPc
<1>5. UploadsApart'
  BY <1>1, <1>2, <1>3 DEF UploadsApart, Uploaded, UploadPc, Found, Sending
<1>6. FilesKnown'
  BY <1>1, <1>2, <1>3
     DEF UploadsApart, FilesKnown, Uploaded, UploadPc, Found, Sending
<1>7. CondemnedReferred'
  BY <1>1, <1>2, <1>3 DEF CondemnedReferred, Condemned, Referred
<1>8. TakenIsOutrun'
  BY <1>1, <1>2, <1>3 DEF TypeOK, TakenIsOutrun, Taken, UploadPc
<1>9. RowHasObject'
  BY <1>1, <1>2, <1>3 DEF RowHasObject, Deleting, Uploaded, FilesKnown
<1>10. ObjectHasRow'
  BY <1>1, <1>2, <1>3
     DEF ObjectHasRow, Uploading, Kept, Deleting, Uploaded, FilesKnown, UploadPc
<1>11. NamesDiffer'
  BY <1>1, <1>2, <1>3 DEF NamesDiffer
<1> QED BY <1>4, <1>5, <1>6, <1>7, <1>8, <1>9, <1>10, <1>11

\* The object of a failed upload goes, unless the store fails, too.
LEMMA ReclaimStep ==
  ASSUME Inv, NEW r \in Requests, Reclaim(r)
  PROVE  Inv'
<1> USE DEF Inv, Moves
<1>1. pc[r] = "reclaim" /\ pc[r] # "idle"
  BY DEF Reclaim
<1>2. /\ \/ object' = object \ {target[r]} /\ leftover' = leftover \ {target[r]}
         \/ UNCHANGED object /\ leftover' = leftover \cup (object \cap {target[r]})
      /\ UNCHANGED <<row, taskOf, name, file, linked, shown, outrun, late, stripped>>
  BY DEF Reclaim, Remove, naming
<1>3. /\ target[r] \in Firmwares
      /\ Moves(r) /\ pc'[r] = "idle" /\ target'[r] = NoFirmware
  BY <1>1, EndCourse DEF Reclaim
<1>4. \A q \in Requests \ {r} : pc[q] \in UploadPc => target[q] # target[r]
  BY <1>1 DEF UploadsApart, UploadPc
<1>5. TypeOK'
  BY <1>1, <1>2, <1>3, <1>4 DEF TypeOK, AllPc
<1>6. UploadsApart'
  BY <1>1, <1>2, <1>3, <1>4 DEF UploadsApart, Uploaded, UploadPc, Found, Sending
<1>7. FilesKnown'
  BY <1>1, <1>2, <1>3, <1>4
     DEF UploadsApart, FilesKnown, Uploaded, UploadPc, Found, Sending
<1>8. CondemnedReferred'
  BY <1>1, <1>2, <1>3, <1>4 DEF CondemnedReferred, Condemned, Referred
<1>9. TakenIsOutrun'
  BY <1>1, <1>2, <1>3, <1>4 DEF TypeOK, TakenIsOutrun, Taken, UploadPc
<1>10. RowHasObject'
  BY <1>1, <1>2, <1>3, <1>4 DEF RowHasObject, Deleting, Uploaded, FilesKnown
<1>11. ObjectHasRow'
  BY <1>1, <1>2, <1>3, <1>4
     DEF ObjectHasRow, Uploading, Kept, Deleting, Uploaded, FilesKnown, UploadPc
<1>12. NamesDiffer'
  BY <1>1, <1>2, <1>3, <1>4 DEF NamesDiffer
<1> QED BY <1>5, <1>6, <1>7, <1>8, <1>9, <1>10, <1>11, <1>12

\* A deletion or a task asks for a firmware by any id.
LEMMA AskStep ==
  ASSUME Inv, NEW r \in Requests, StartDeletion(r) \/ StartTask(r)
  PROVE  Inv'
<1> USE DEF Inv, Moves
<1>1. PICK f \in Firmwares, label \in {"find", "findForTask"} : Start(r, label, f)
  BY DEF StartDeletion, StartTask
<1>2. UNCHANGED <<row, object, taskOf, name, file, linked,
                  shown, outrun, late, leftover, stripped>>
  BY DEF StartDeletion, StartTask, library, naming, history
<1>3. pc[r] = "idle" /\ Moves(r) /\ pc'[r] = label /\ target'[r] = f
  BY <1>1, StartCourse DEF AllPc, DeletePc, TaskPc
<1>4. TypeOK'
  BY <1>1, <1>2, <1>3 DEF TypeOK, AllPc
<1>5. UploadsApart'
  BY <1>1, <1>2, <1>3 DEF UploadsApart, Uploaded, UploadPc, Found, Sending
<1>6. FilesKnown'
  BY <1>1, <1>2, <1>3
     DEF UploadsApart, FilesKnown, Uploaded, UploadPc, Found, Sending
<1>7. CondemnedReferred'
  BY <1>1, <1>2, <1>3 DEF CondemnedReferred, Condemned, Referred
<1>8. TakenIsOutrun'
  BY <1>1, <1>2, <1>3 DEF TypeOK, TakenIsOutrun, Taken, UploadPc
<1>9. RowHasObject'
  BY <1>1, <1>2, <1>3 DEF RowHasObject, Deleting, Uploaded, FilesKnown
<1>10. ObjectHasRow'
  BY <1>1, <1>2, <1>3
     DEF ObjectHasRow, Uploading, Kept, Deleting, Uploaded, FilesKnown, UploadPc
<1>11. NamesDiffer'
  BY <1>1, <1>2, <1>3 DEF NamesDiffer
<1> QED BY <1>4, <1>5, <1>6, <1>7, <1>8, <1>9, <1>10, <1>11

\* A firmware that is found is in no upload's hands.
LEMMA FindStep ==
  ASSUME Inv, NEW r \in Requests, FindFirmware(r) \/ NoSuchFirmware(r)
  PROVE  Inv'
<1> USE DEF Inv, Moves
<1>1. pc[r] \in {"find", "findForTask"} /\ pc[r] # "idle"
  BY DEF FindFirmware, NoSuchFirmware
<1>2. UNCHANGED <<row, object, taskOf, name, file, linked,
                  shown, outrun, late, leftover, stripped>>
  BY DEF FindFirmware, NoSuchFirmware, library, naming, history
<1>3. /\ target[r] \in Firmwares
      /\ Moves(r)
      /\ \/ pc'[r] = "idle" /\ target'[r] = NoFirmware
         \/ /\ pc'[r] \in {"countTasks", "insertTask"} /\ target'[r] = target[r]
            /\ target[r] \in row
  <2>1. ASSUME NEW label \in {"countTasks", "insertTask"}, Goto(r, label), target[r] \in row
        PROVE  /\ target[r] \in Firmwares /\ Moves(r)
               /\ pc'[r] = label /\ target'[r] = target[r]
    BY <1>1, <2>1, GotoCourse DEF AllPc, DeletePc, TaskPc
  <2>2. CASE End(r)
    BY <1>1, <2>2, EndCourse
  <2> QED BY <2>1, <2>2 DEF FindFirmware, NoSuchFirmware
<1>4. TypeOK'
  BY <1>1, <1>2, <1>3 DEF TypeOK, AllPc
<1>5. UploadsApart'
  BY <1>1, <1>2, <1>3 DEF UploadsApart, Uploaded, UploadPc, Found, Sending
<1>6. FilesKnown'
  BY <1>1, <1>2, <1>3
     DEF UploadsApart, FilesKnown, Uploaded, UploadPc, Found, Sending
<1>7. CondemnedReferred'
  BY <1>1, <1>2, <1>3 DEF CondemnedReferred, Condemned, Referred
<1>8. TakenIsOutrun'
  BY <1>1, <1>2, <1>3 DEF TypeOK, TakenIsOutrun, Taken, UploadPc
<1>9. RowHasObject'
  BY <1>1, <1>2, <1>3 DEF RowHasObject, Deleting, Uploaded, FilesKnown
<1>10. ObjectHasRow'
  BY <1>1, <1>2, <1>3
     DEF ObjectHasRow, Uploading, Kept, Deleting, Uploaded, FilesKnown, UploadPc
<1>11. NamesDiffer'
  BY <1>1, <1>2, <1>3 DEF NamesDiffer
<1> QED BY <1>4, <1>5, <1>6, <1>7, <1>8, <1>9, <1>10, <1>11

\* A deletion goes on when no task refers to its firmware.
LEMMA CountTasksStep ==
  ASSUME Inv, NEW r \in Requests, CountTasks(r)
  PROVE  Inv'
<1> USE DEF Inv, Moves
<1>1. pc[r] = "countTasks" /\ pc[r] # "idle"
  BY DEF CountTasks
<1>2. UNCHANGED <<row, object, taskOf, name, file, linked,
                  shown, outrun, late, leftover, stripped>>
  BY DEF CountTasks, library, naming, history
<1>3. /\ target[r] \in Firmwares
      /\ Moves(r)
      /\ \/ pc'[r] = "idle" /\ target'[r] = NoFirmware
         \/ /\ pc'[r] = "removeObject" /\ target'[r] = target[r]
            /\ ~Referred(target[r])
  <2>1. CASE ~Referred(target[r]) /\ Goto(r, "removeObject")
    BY <1>1, <2>1, GotoCourse DEF AllPc, DeletePc
  <2>2. CASE End(r)
    BY <1>1, <2>2, EndCourse
  <2> QED BY <2>1, <2>2 DEF CountTasks
<1>4. TypeOK'
  BY <1>1, <1>2, <1>3 DEF TypeOK, AllPc
<1>5. UploadsApart'
  BY <1>1, <1>2, <1>3 DEF UploadsApart, Uploaded, UploadPc, Found, Sending
<1>6. FilesKnown'
  BY <1>1, <1>2, <1>3
     DEF UploadsApart, FilesKnown, Uploaded, UploadPc, Found, Sending
<1>7. CondemnedReferred'
  BY <1>1, <1>2, <1>3 DEF CondemnedReferred, Condemned, Referred
<1>8. TakenIsOutrun'
  BY <1>1, <1>2, <1>3 DEF TypeOK, TakenIsOutrun, Taken, UploadPc
<1>9. RowHasObject'
  BY <1>1, <1>2, <1>3 DEF RowHasObject, Deleting, Uploaded, FilesKnown
<1>10. ObjectHasRow'
  BY <1>1, <1>2, <1>3
     DEF ObjectHasRow, Uploading, Kept, Deleting, Uploaded, FilesKnown, UploadPc
<1>11. NamesDiffer'
  BY <1>1, <1>2, <1>3 DEF NamesDiffer
<1> QED BY <1>4, <1>5, <1>6, <1>7, <1>8, <1>9, <1>10, <1>11

\* A deletion is between the object and the row.
LEMMA RemoveObjectStep ==
  ASSUME Inv, NEW r \in Requests, RemoveObject(r)
  PROVE  Inv'
<1> USE DEF Inv, Moves
<1>1. pc[r] = "removeObject" /\ pc[r] # "idle"
  BY DEF RemoveObject
<1>2. /\ \/ /\ object' = object \ {file[target[r]]}
            /\ leftover' = leftover \ {file[target[r]]}
         \/ /\ UNCHANGED object
            /\ leftover' = leftover \cup (object \cap {file[target[r]]})
      /\ stripped' = {f \in Firmwares : \/ f \in stripped
                                        \/ f \in object \ object' /\ f # target[r]}
      /\ UNCHANGED <<row, taskOf, name, file, linked, shown, outrun, late>>
  BY DEF RemoveObject, Remove, naming
<1>3. /\ target[r] \in Firmwares
      /\ Moves(r) /\ pc'[r] = "removeRow" /\ target'[r] = target[r]
      /\ row \subseteq Firmwares
  BY <1>1, GotoCourse DEF RemoveObject, AllPc, DeletePc, TypeOK
<1>4. TypeOK'
  BY <1>1, <1>2, <1>3 DEF TypeOK, AllPc
<1>5. UploadsApart'
  BY <1>1, <1>2, <1>3 DEF UploadsApart, Uploaded, UploadPc, Found, Sending
<1>6. FilesKnown'
  BY <1>1, <1>2, <1>3
     DEF UploadsApart, FilesKnown, Uploaded, UploadPc, Found, Sending
<1>7. CondemnedReferred'
  BY <1>1, <1>2, <1>3 DEF CondemnedReferred, Condemned, Referred
<1>8. TakenIsOutrun'
  BY <1>1, <1>2, <1>3 DEF TypeOK, TakenIsOutrun, Taken, UploadPc
<1>9. RowHasObject'
  BY <1>1, <1>2, <1>3 DEF RowHasObject, Deleting, Uploaded, FilesKnown
<1>10. ObjectHasRow'
  BY <1>1, <1>2, <1>3
     DEF ObjectHasRow, Uploading, Kept, Deleting, Uploaded, FilesKnown, UploadPc
<1>11. NamesDiffer'
  BY <1>1, <1>2, <1>3 DEF NamesDiffer
<1> QED BY <1>4, <1>5, <1>6, <1>7, <1>8, <1>9, <1>10, <1>11

\* The row of a firmware whose object is gone goes, or a late task keeps it.
LEMMA RemoveRowStep ==
  ASSUME Inv, NEW r \in Requests, RemoveRow(r)
  PROVE  Inv'
<1> USE DEF Inv, Moves
<1>1. pc[r] = "removeRow" /\ pc[r] # "idle"
  BY DEF RemoveRow
<1>2. /\ row' = IF Referred(target[r]) THEN row ELSE row \ {target[r]}
      /\ UNCHANGED <<object, taskOf, name, file, linked,
                     shown, outrun, late, leftover, stripped>>
  BY DEF RemoveRow, naming, history
<1>3. /\ target[r] \in Firmwares
      /\ Moves(r) /\ pc'[r] = "idle" /\ target'[r] = NoFirmware
  BY <1>1, EndCourse DEF RemoveRow
<1>4. Referred(target[r]) => target[r] \in stripped
  BY <1>1, <1>3 DEF CondemnedReferred, Condemned
<1>5. TypeOK'
  BY <1>1, <1>2, <1>3, <1>4 DEF TypeOK, AllPc
<1>6. UploadsApart'
  BY <1>1, <1>2, <1>3, <1>4 DEF UploadsApart, Uploaded, UploadPc, Found, Sending
<1>7. FilesKnown'
  BY <1>1, <1>2, <1>3, <1>4
     DEF UploadsApart, FilesKnown, Uploaded, UploadPc, Found, Sending
<1>8. CondemnedReferred'
  BY <1>1, <1>2, <1>3, <1>4 DEF CondemnedReferred, Condemned, Referred
<1>9. TakenIsOutrun'
  BY <1>1, <1>2, <1>3, <1>4 DEF TypeOK, TakenIsOutrun, Taken, UploadPc
<1>10. RowHasObject'
  BY <1>1, <1>2, <1>3, <1>4 DEF RowHasObject, Deleting, Uploaded, FilesKnown
<1>11. ObjectHasRow'
  BY <1>1, <1>2, <1>3, <1>4
     DEF ObjectHasRow, Uploading, Kept, Deleting, Uploaded, FilesKnown, UploadPc
<1>12. NamesDiffer'
  BY <1>1, <1>2, <1>3, <1>4 DEF NamesDiffer
<1> QED BY <1>5, <1>6, <1>7, <1>8, <1>9, <1>10, <1>11, <1>12

\* A task that refers to a condemned firmware is on record.
LEMMA InsertTaskStep ==
  ASSUME Inv, NEW r \in Requests, InsertTask(r)
  PROVE  Inv'
<1> USE DEF Inv, Moves
<1>1. pc[r] = "insertTask" /\ pc[r] # "idle"
  BY DEF InsertTask
<1>2. UNCHANGED <<row, object, name, file, linked, shown, outrun, late, leftover>>
  BY DEF InsertTask, naming
<1>3. /\ target[r] \in Firmwares
      /\ Moves(r) /\ pc'[r] = "idle" /\ target'[r] = NoFirmware
  BY <1>1, EndCourse DEF InsertTask
<1>4. /\ taskOf' \in [Tasks -> Firmwares \cup {NoFirmware}]
      /\ stripped \subseteq stripped' /\ stripped' \subseteq Firmwares
      /\ \A f \in Firmwares : Referred(f)' /\ Condemned(f) => Referred(f) \/ f \in stripped'
  BY <1>1, <1>3 DEF InsertTask, TypeOK, Referred
<1>5. \A f \in Firmwares : Condemned(f)' => Condemned(f)
  BY <1>3 DEF Condemned
<1>6. TypeOK'
  BY <1>1, <1>2, <1>3, <1>4, <1>5 DEF TypeOK, AllPc
<1>7. UploadsApart'
  BY <1>1, <1>2, <1>3, <1>4, <1>5 DEF UploadsApart, Uploaded, UploadPc, Found, Sending
<1>8. FilesKnown'
  BY <1>1, <1>2, <1>3, <1>4, <1>5
     DEF UploadsApart, FilesKnown, Uploaded, UploadPc, Found, Sending
<1>9. CondemnedReferred'
  BY <1>1, <1>2, <1>3, <1>4, <1>5 DEF CondemnedReferred, Condemned, Referred
<1>10. TakenIsOutrun'
  BY <1>1, <1>2, <1>3, <1>4, <1>5 DEF TypeOK, TakenIsOutrun, Taken, UploadPc
<1>11. RowHasObject'
  BY <1>1, <1>2, <1>3, <1>4, <1>5 DEF RowHasObject, Deleting, Uploaded, FilesKnown
<1>12. ObjectHasRow'
  BY <1>1, <1>2, <1>3, <1>4, <1>5
     DEF ObjectHasRow, Uploading, Kept, Deleting, Uploaded, FilesKnown, UploadPc
<1>13. NamesDiffer'
  BY <1>1, <1>2, <1>3, <1>4, <1>5 DEF NamesDiffer
<1> QED BY <1>6, <1>7, <1>8, <1>9, <1>10, <1>11, <1>12, <1>13

\* Whatever a crash leaves behind is on record.
LEMMA CrashStep ==
  ASSUME Inv, NEW r \in Requests, Crash(r)
  PROVE  Inv'
<1> USE DEF Inv, Moves
<1>1. pc[r] # "idle"
  BY DEF Crash
<1>2. /\ outrun' = outrun \ {r}
      /\ leftover' = IF pc[r] \in UploadPc THEN leftover \cup (object \cap {target[r]})
                                          ELSE leftover
      /\ stripped' = IF pc[r] = "removeRow" THEN stripped \cup {target[r]} ELSE stripped
      /\ UNCHANGED <<row, object, taskOf, name, file, linked, shown, late>>
  BY DEF Crash, library, naming
<1>3. /\ target[r] \in Firmwares
      /\ Moves(r) /\ pc'[r] = "idle" /\ target'[r] = NoFirmware
  BY <1>1, EndCourse DEF Crash
<1>4. TypeOK'
  BY <1>1, <1>2, <1>3 DEF TypeOK, AllPc
<1>5. UploadsApart'
  BY <1>1, <1>2, <1>3 DEF UploadsApart, Uploaded, UploadPc, Found, Sending
<1>6. FilesKnown'
  BY <1>1, <1>2, <1>3
     DEF UploadsApart, FilesKnown, Uploaded, UploadPc, Found, Sending
<1>7. CondemnedReferred'
  BY <1>1, <1>2, <1>3 DEF CondemnedReferred, Condemned, Referred
<1>8. TakenIsOutrun'
  BY <1>1, <1>2, <1>3 DEF TypeOK, TakenIsOutrun, Taken, UploadPc
<1>9. RowHasObject'
  BY <1>1, <1>2, <1>3 DEF RowHasObject, Deleting, Uploaded, FilesKnown
<1>10. ObjectHasRow'
  BY <1>1, <1>2, <1>3
     DEF ObjectHasRow, Uploading, Kept, Deleting, Uploaded, FilesKnown, UploadPc
<1>11. NamesDiffer'
  BY <1>1, <1>2, <1>3 DEF NamesDiffer
<1> QED BY <1>4, <1>5, <1>6, <1>7, <1>8, <1>9, <1>10, <1>11

\* What comes by a link has a row that keeps it, or is left over.
LEMMA LinkStep ==
  ASSUME Inv,
         \/ \E f \in Firmwares : CreateUploadUrl(f)
         \/ \E key \in Bins : LinkExpires(key) \/ PutByLink(key)
  PROVE  Inv'
<1> USE DEF Inv
<1>1. /\ UNCHANGED <<row, taskOf, name, file, pc, target,
                     shown, outrun, late, stripped>>
      /\ linked' \subseteq Bins
      /\ object \subseteq object' /\ object' \subseteq object \cup Bins
      /\ leftover \subseteq leftover' /\ leftover' \subseteq object'
      /\ \A key \in object' \ object : Kept(key) \/ key \in leftover'
  <2>1. ASSUME NEW f \in Firmwares, CreateUploadUrl(f)
        PROVE  /\ linked' \subseteq Bins
               /\ UNCHANGED <<object, leftover>>
    <3>1. name[f] \in Names
      BY <2>1 DEF CreateUploadUrl, UploadsApart, TypeOK
    <3> QED BY <2>1, <3>1 DEF CreateUploadUrl, history, TypeOK, Names
  <2>2. ASSUME NEW key \in Bins, LinkExpires(key)
        PROVE  /\ linked' \subseteq Bins
               /\ UNCHANGED <<object, leftover>>
    BY <2>2 DEF LinkExpires, history, TypeOK
  <2>3. ASSUME NEW key \in Bins, PutByLink(key)
        PROVE  /\ linked' \subseteq Bins
               /\ object \subseteq object' /\ object' \subseteq object \cup Bins
               /\ leftover \subseteq leftover' /\ leftover' \subseteq object'
               /\ \A k \in object' \ object : Kept(k) \/ k \in leftover'
    BY <2>3 DEF PutByLink, TypeOK
  <2>4. UNCHANGED <<row, taskOf, name, file, pc, target, shown, outrun, late, stripped>>
    BY DEF CreateUploadUrl, LinkExpires, PutByLink, naming, history
  <2> QED BY <2>1, <2>2, <2>3, <2>4 DEF TypeOK
<1>2. \A f \in Firmwares : f \in object' <=> f \in object
  BY <1>1
<1>3. TypeOK'
  BY <1>1 DEF TypeOK, Keys
<1>4. UploadsApart' /\ FilesKnown'
  BY <1>1, <1>2 DEF UploadsApart, FilesKnown, Uploaded, TypeOK, UploadPc
<1>5. CondemnedReferred' /\ TakenIsOutrun' /\ NamesDiffer'
  BY <1>1 DEF CondemnedReferred, Condemned, Referred, TakenIsOutrun, Taken, NamesDiffer
<1>6. RowHasObject'
  BY <1>1 DEF RowHasObject, Deleting, Uploaded
<1>7. ObjectHasRow'
  BY <1>1 DEF ObjectHasRow, Kept, Deleting, Uploading
<1> QED BY <1>3, <1>4, <1>5, <1>6, <1>7

\* The inductive invariant is kept by every step.
LEMMA InvStep ==
  ASSUME Inv, [Next]_vars
  PROVE  Inv'
<1>1. ASSUME NEW r \in Requests, Upload(r) PROVE Inv'
  BY <1>1, BeginStep, PutStep, CountStep, LookUpStep, InsertStep, InsertFailsStep,
     ReclaimStep DEF Upload
<1>2. ASSUME NEW r \in Requests, Deletion(r) \/ TaskCreation(r) PROVE Inv'
  BY <1>2, AskStep, FindStep, CountTasksStep, RemoveObjectStep, RemoveRowStep,
     InsertTaskStep DEF Deletion, TaskCreation
<1>3. ASSUME NEW r \in Requests, Crash(r) PROVE Inv'
  BY <1>3, CrashStep
<1>4. ASSUME NEW k \in Tasks, DeleteTask(k) PROVE Inv'
  <2>1. /\ UNCHANGED <<row, object, name, file, linked, pc, target,
                       shown, outrun, late, leftover, stripped>>
        /\ taskOf' \in [Tasks -> Firmwares \cup {NoFirmware}]
        /\ \A f \in Firmwares : Referred(f)' => Referred(f)
    BY <1>4 DEF DeleteTask, naming, history, Inv, TypeOK, Referred
  <2>2. TypeOK' /\ UploadsApart' /\ FilesKnown' /\ TakenIsOutrun'
    BY <2>1 DEF Inv, TypeOK, UploadsApart, FilesKnown, Uploaded, TakenIsOutrun, Taken
  <2>3. CondemnedReferred'
    BY <2>1 DEF Inv, CondemnedReferred, Condemned
  <2>4. RowHasObject' /\ ObjectHasRow' /\ NamesDiffer'
    BY <2>1 DEF Inv, RowHasObject, ObjectHasRow, NamesDiffer, Deleting, Uploading, Kept,
                Uploaded
  <2> QED BY <2>2, <2>3, <2>4 DEF Inv
<1>5. CASE \/ \E f \in Firmwares : CreateUploadUrl(f)
           \/ \E key \in Bins : LinkExpires(key) \/ PutByLink(key)
  BY <1>5, LinkStep
<1>6. CASE UNCHANGED vars
  BY <1>6 DEF vars, Inv, TypeOK, UploadsApart, FilesKnown, TakenIsOutrun, Taken,
              CondemnedReferred, Condemned, Referred, RowHasObject, ObjectHasRow,
              NamesDiffer, Deleting, Uploading, Kept, Uploaded
<1> QED BY <1>1, <1>2, <1>3, <1>4, <1>5, <1>6 DEF Next

-----------------------------------------------------------------------------
\* The inductive invariant holds in every reachable state.
THEOREM LibraryInvariant == Spec => []Inv
<1>1. Init => Inv
  BY InitInv
<1>2. Inv /\ [Next]_vars => Inv'
  BY InvStep
<1> QED BY <1>1, <1>2, PTL DEF Spec

\* The types hold: a request under way has its firmware, and one that ended none.
THEOREM LibraryTypes == Spec => []TypeOK
<1>1. Inv => TypeOK
  BY DEF Inv
<1> QED BY <1>1, LibraryInvariant, PTL

\* An uploaded firmware in the table can be downloaded, unless a deletion took its
\* object: its own, or that of another registration of the same file.
THEOREM FirmwaresHaveFiles == Spec => []RowHasObject
<1>1. Inv => RowHasObject
  BY DEF Inv
<1> QED BY <1>1, LibraryInvariant, PTL

\* An object in the store has a row that keeps it or an upload under way; only a
\* failed removal, a dead request and a presigned link leave one over.
THEOREM ObjectsAreReclaimed == Spec => []ObjectHasRow
<1>1. Inv => ObjectHasRow
  BY DEF Inv
<1> QED BY <1>1, LibraryInvariant, PTL

\* Two firmwares of one name are full packages that were uploaded together.
THEOREM NamesDifferOrCrossed == Spec => []NamesDiffer
<1>1. Inv => NamesDiffer
  BY DEF Inv
<1> QED BY <1>1, LibraryInvariant, PTL

-----------------------------------------------------------------------------
(* The quota.                                                              *)

Admitted == {r \in Requests : pc[r] \in {"lookup", "insert"}}

\* The rows of the table can be counted.
LEMMA RowCount ==
  ASSUME TypeOK
  PROVE  IsFiniteSet(row) /\ Cardinality(row) \in Nat
  BY FS_Subset, FS_CardinalityType DEF TypeOK

\* A request that is let in, or lets go of its place, or does neither.
LEMMA QuotaMove ==
  ASSUME TypeOK, NEW r \in Requests, Moves(r), UNCHANGED row,
         r \notin Admitted /\ r \in Admitted' => Cardinality(row) < MaxFirmwares
  PROVE  [LibraryQuota!QuotaNext]_(LibraryQuota!quotaVars)
<1>1. \A q \in Requests \ {r} : q \in Admitted' <=> q \in Admitted
  BY DEF Moves, Admitted
<1>2. CASE r \in Admitted <=> r \in Admitted'
  <2>1. Admitted' = Admitted
    BY <1>1, <1>2 DEF Admitted
  <2> QED BY <2>1 DEF LibraryQuota!quotaVars, Admitted
<1>3. CASE r \in Admitted /\ r \notin Admitted'
  <2>1. Admitted' = Admitted \ {r}
    BY <1>1, <1>3 DEF Admitted
  <2>2. LibraryQuota!Withdraw(r)
    BY <1>3, <2>1 DEF LibraryQuota!Withdraw, Admitted
  <2> QED BY <2>2 DEF LibraryQuota!QuotaNext
<1>4. CASE r \notin Admitted /\ r \in Admitted'
  <2>1. Admitted' = Admitted \cup {r}
    BY <1>1, <1>4 DEF Admitted
  <2>2. LibraryQuota!Admit(r)
    BY <1>4, <2>1 DEF LibraryQuota!Admit, Admitted
  <2> QED BY <2>2 DEF LibraryQuota!QuotaNext
<1> QED BY <1>2, <1>3, <1>4

\* A row is inserted by a request that was let in.
LEMMA QuotaInsert ==
  ASSUME Inv, NEW r \in Requests, InsertRow(r)
  PROVE  LibraryQuota!QuotaNext
<1>1. TypeOK /\ pc[r] = "insert" /\ pc[r] \in Sending /\ pc[r] # "idle"
  BY DEF InsertRow, Sending, Inv
<1>2. target[r] \in Firmwares /\ Moves(r) /\ pc'[r] \in {"idle", "reclaim"}
  <2>1. CASE End(r)
    BY <1>1, <2>1, EndCourse
  <2>2. CASE Fail(r)
    BY <1>1, <2>2, FailCourse
  <2> QED BY <2>1, <2>2 DEF InsertRow
<1>3. target[r] \notin row
  BY <1>1 DEF Inv, UploadsApart
<1>4. Cardinality(row') = Cardinality(row) + 1
  BY <1>1, <1>2, <1>3, RowCount, FS_AddElement DEF InsertRow
<1>5. r \in Admitted /\ Admitted' = Admitted \ {r}
  BY <1>1, <1>2 DEF Moves, Admitted
<1>6. LibraryQuota!Occupy(r)
  BY <1>4, <1>5 DEF LibraryQuota!Occupy, Admitted
<1> QED BY <1>6 DEF LibraryQuota!QuotaNext

\* A row that is removed makes room.
LEMMA QuotaRemove ==
  ASSUME Inv, NEW r \in Requests, RemoveRow(r)
  PROVE  [LibraryQuota!QuotaNext]_(LibraryQuota!quotaVars)
<1>1. TypeOK /\ pc[r] = "removeRow" /\ pc[r] # "idle"
  BY DEF RemoveRow, Inv
<1>2. Moves(r) /\ pc'[r] = "idle"
  BY <1>1, EndCourse DEF RemoveRow
<1>3. CASE row' = row
  BY <1>1, <1>2, <1>3, QuotaMove DEF Admitted
<1>4. CASE row' # row
  <2>1. target[r] \in row /\ row' = row \ {target[r]}
    BY <1>4 DEF RemoveRow
  <2>2. Cardinality(row') = Cardinality(row) - 1
    BY <1>1, <2>1, RowCount, FS_RemoveElement
  <2>3. Cardinality(row) > 0
    BY <1>1, <2>1, RowCount, FS_EmptySet
  <2>4. Admitted' = Admitted
    BY <1>1, <1>2 DEF Moves, Admitted
  <2>5. LibraryQuota!Vacate
    BY <2>2, <2>3, <2>4 DEF LibraryQuota!Vacate, Admitted
  <2> QED BY <2>5 DEF LibraryQuota!QuotaNext
<1> QED BY <1>3, <1>4

\* Every step of the library is a step of the quota, or none.
LEMMA QuotaStep ==
  ASSUME Inv, [Next]_vars
  PROVE  [LibraryQuota!QuotaNext]_(LibraryQuota!quotaVars)
<1> USE DEF Admitted
<1>1. TypeOK
  BY DEF Inv
<1>2. ASSUME NEW r \in Requests, Upload(r)
      PROVE  [LibraryQuota!QuotaNext]_(LibraryQuota!quotaVars)
  <2>1. CASE StartUpload(r) \/ Register(r)
    <3>1. PICK f \in Firmwares, label \in {"put", "quota"} : Start(r, label, f)
      BY <2>1 DEF StartUpload, Register
    <3>2. pc[r] = "idle" /\ Moves(r) /\ pc'[r] = label
      BY <1>1, <3>1, StartCourse DEF AllPc, UploadPc
    <3>3. UNCHANGED row
      BY <2>1 DEF StartUpload, Register, library
    <3> QED BY <1>1, <3>2, <3>3, QuotaMove
  <2>2. CASE PutObject(r)
    <3>1. pc[r] = "put" /\ pc[r] \in Sending /\ pc[r] # "idle" /\ UNCHANGED row
      BY <2>2 DEF PutObject, Sending
    <3>2. Moves(r) /\ pc'[r] \in {"quota", "reclaim", "idle"}
      <4>1. CASE Goto(r, "quota")
        BY <1>1, <3>1, <4>1, GotoCourse DEF AllPc, UploadPc
      <4>2. CASE Fail(r)
        BY <1>1, <3>1, <4>2, FailCourse
      <4> QED BY <2>2, <4>1, <4>2 DEF PutObject
    <3> QED BY <1>1, <3>1, <3>2, QuotaMove
  <2>3. CASE CountFirmwares(r)
    <3>1. pc[r] = "quota" /\ pc[r] \in Sending /\ pc[r] # "idle" /\ UNCHANGED row
      BY <2>3 DEF CountFirmwares, Sending, library
    <3>2. /\ Moves(r)
          /\ \/ pc'[r] \in {"reclaim", "idle"}
             \/ Cardinality(row) < MaxFirmwares
      <4>1. CASE Goto(r, "lookup") /\ Cardinality(row) < MaxFirmwares
        BY <1>1, <3>1, <4>1, GotoCourse DEF AllPc, UploadPc
      <4>2. CASE Fail(r)
        BY <1>1, <3>1, <4>2, FailCourse
      <4> QED BY <2>3, <4>1, <4>2 DEF CountFirmwares
    <3> QED BY <1>1, <3>1, <3>2, QuotaMove
  <2>4. CASE LookUpName(r) \/ InsertFails(r)
    <3>1. pc[r] \in {"lookup", "insert"} /\ pc[r] \in Sending /\ pc[r] # "idle" /\ UNCHANGED row
      BY <2>4 DEF LookUpName, InsertFails, Sending, library
    <3>2. Moves(r)
      <4>1. CASE Goto(r, "insert")
        BY <1>1, <3>1, <4>1, GotoCourse DEF AllPc, UploadPc
      <4>2. CASE Fail(r)
        BY <1>1, <3>1, <4>2, FailCourse
      <4> QED BY <2>4, <4>1, <4>2 DEF LookUpName, InsertFails
    <3> QED BY <1>1, <3>1, <3>2, QuotaMove
  <2>5. CASE InsertRow(r)
    BY <2>5, QuotaInsert
  <2>6. CASE Reclaim(r)
    <3>1. pc[r] = "reclaim" /\ pc[r] # "idle" /\ UNCHANGED row
      BY <2>6 DEF Reclaim
    <3>2. Moves(r) /\ pc'[r] = "idle"
      BY <1>1, <2>6, <3>1, EndCourse DEF Reclaim
    <3> QED BY <1>1, <3>1, <3>2, QuotaMove
  <2> QED BY <1>2, <2>1, <2>2, <2>3, <2>4, <2>5, <2>6 DEF Upload
<1>3. ASSUME NEW r \in Requests, Deletion(r) \/ TaskCreation(r)
      PROVE  [LibraryQuota!QuotaNext]_(LibraryQuota!quotaVars)
  <2>1. CASE RemoveRow(r)
    BY <2>1, QuotaRemove
  <2>2. CASE StartDeletion(r) \/ StartTask(r)
    <3>1. PICK f \in Firmwares, label \in {"find", "findForTask"} : Start(r, label, f)
      BY <2>2 DEF StartDeletion, StartTask
    <3>2. pc[r] = "idle" /\ Moves(r) /\ pc'[r] = label
      BY <1>1, <3>1, StartCourse DEF AllPc, DeletePc, TaskPc
    <3>3. UNCHANGED row
      BY <2>2 DEF StartDeletion, StartTask, library
    <3> QED BY <1>1, <3>2, <3>3, QuotaMove
  <2>3. ASSUME \/ FindFirmware(r) \/ NoSuchFirmware(r) \/ CountTasks(r)
               \/ RemoveObject(r) \/ InsertTask(r)
        PROVE  [LibraryQuota!QuotaNext]_(LibraryQuota!quotaVars)
    <3>1. pc[r] \in DeletePc \cup TaskPc /\ pc[r] # "idle" /\ UNCHANGED row
      BY <2>3 DEF FindFirmware, NoSuchFirmware, CountTasks, RemoveObject, InsertTask,
                  DeletePc, TaskPc, library
    <3>2. PICK label \in DeletePc \cup TaskPc : End(r) \/ Goto(r, label)
      BY <2>3 DEF FindFirmware, NoSuchFirmware, CountTasks, RemoveObject, InsertTask,
                  DeletePc, TaskPc
    <3>3. Moves(r) /\ pc'[r] \in {"idle", label}
      BY <1>1, <3>1, <3>2, EndCourse, GotoCourse DEF AllPc, DeletePc, TaskPc
    <3> QED BY <1>1, <3>1, <3>3, QuotaMove DEF DeletePc, TaskPc
  <2> QED BY <1>3, <2>1, <2>2, <2>3 DEF Deletion, TaskCreation
<1>4. ASSUME NEW r \in Requests, Crash(r)
      PROVE  [LibraryQuota!QuotaNext]_(LibraryQuota!quotaVars)
  <2>1. Moves(r) /\ pc'[r] = "idle" /\ UNCHANGED row
    BY <1>1, <1>4, EndCourse DEF Crash, library
  <2> QED BY <1>1, <2>1, QuotaMove
<1>5. ASSUME NEW k \in Tasks, DeleteTask(k)
      PROVE  [LibraryQuota!QuotaNext]_(LibraryQuota!quotaVars)
  BY <1>5 DEF DeleteTask, LibraryQuota!quotaVars
<1>6. CASE \/ \E f \in Firmwares : CreateUploadUrl(f)
           \/ \E key \in Bins : LinkExpires(key) \/ PutByLink(key)
  <2>1. UNCHANGED <<row, pc>>
    BY <1>6 DEF CreateUploadUrl, LinkExpires, PutByLink
  <2> QED BY <2>1 DEF LibraryQuota!quotaVars
<1>7. CASE UNCHANGED vars
  BY <1>7 DEF vars, LibraryQuota!quotaVars
<1> QED BY <1>2, <1>3, <1>4, <1>5, <1>6, <1>7 DEF Next

\* Firmwares are counted and inserted as the abstract quota allows.
THEOREM FirmwareQuota == Spec => ImplementsLibraryQuota
<1>1. Init => LibraryQuota!QuotaInit
  BY FS_EmptySet DEF Init, LibraryQuota!QuotaInit
<1>2. Inv /\ [Next]_vars => [LibraryQuota!QuotaNext]_(LibraryQuota!quotaVars)
  BY QuotaStep
<1> QED BY <1>1, <1>2, LibraryInvariant, PTL
        DEF Spec, ImplementsLibraryQuota, LibraryQuota!QuotaSpec

\* Requests that were let in are counted.
LEMMA AdmittedCount ==
  /\ IsFiniteSet(Admitted) /\ Cardinality(Admitted) \in Nat
  /\ Cardinality(Requests) \in Nat /\ Cardinality(Admitted) <= Cardinality(Requests)
<1>1. Admitted \subseteq Requests
  BY DEF Admitted
<1> QED BY <1>1, FS_Subset, FS_CardinalityType

\* The instance's sets are counted like any others.
LEMMA QuotaCardinality == \A S : LibraryQuota!Cardinality(S) = Cardinality(S)
  BY Zenon DEF LibraryQuota!Cardinality, Cardinality

\* A step of the quota keeps its bound: only who counted a free place is let in.
LEMMA OverrunStep ==
  ASSUME TypeOK, TypeOK', LibraryQuota!OverrunBounded,
         [LibraryQuota!QuotaNext]_(LibraryQuota!quotaVars)
  PROVE  LibraryQuota!OverrunBounded'
<1>1. Cardinality(row) + Cardinality(Admitted) < MaxFirmwares + Cardinality(Requests)
  BY QuotaCardinality DEF LibraryQuota!OverrunBounded, Admitted
<1>2. /\ Cardinality(row) \in Nat /\ Cardinality(row') \in Nat
      /\ Cardinality(Admitted') \in Nat /\ IsFiniteSet(Admitted')
      /\ Cardinality(Admitted') <= Cardinality(Requests)
  <2>1. Admitted' \subseteq Requests
    BY DEF Admitted
  <2>2. row' \subseteq Firmwares
    BY DEF TypeOK
  <2> QED BY <2>1, <2>2, RowCount, FS_Subset, FS_CardinalityType
<1>3. Cardinality(row') + Cardinality(Admitted') < MaxFirmwares + Cardinality(Requests)
  <2>1. ASSUME NEW r \in Requests, LibraryQuota!Admit(r)
        PROVE  Cardinality(row') + Cardinality(Admitted') < MaxFirmwares + Cardinality(Requests)
    <3>1. Cardinality(row') = Cardinality(row) /\ Cardinality(row) < MaxFirmwares
      BY <2>1 DEF LibraryQuota!Admit
    <3> QED BY <1>2, <3>1, AdmittedCount
  <2>2. ASSUME NEW r \in Requests, LibraryQuota!Occupy(r) \/ LibraryQuota!Withdraw(r)
        PROVE  Cardinality(row') + Cardinality(Admitted') < MaxFirmwares + Cardinality(Requests)
    <3>1. r \in Admitted /\ Admitted' = Admitted \ {r}
      BY <2>2 DEF LibraryQuota!Occupy, LibraryQuota!Withdraw, Admitted
    <3>2. Cardinality(Admitted') = Cardinality(Admitted) - 1
      BY <3>1, AdmittedCount, FS_RemoveElement
    <3>3. Cardinality(row') = Cardinality(row) + 1 \/ Cardinality(row') = Cardinality(row)
      BY <2>2 DEF LibraryQuota!Occupy, LibraryQuota!Withdraw
    <3> QED BY <1>1, <1>2, <3>2, <3>3, AdmittedCount
  <2>3. CASE LibraryQuota!Vacate
    <3>1. Cardinality(row') = Cardinality(row) - 1 /\ Admitted' = Admitted
      BY <2>3 DEF LibraryQuota!Vacate, Admitted
    <3> QED BY <1>1, <1>2, <3>1, AdmittedCount
  <2>4. CASE UNCHANGED LibraryQuota!quotaVars
    <3>1. Cardinality(row') = Cardinality(row) /\ Admitted' = Admitted
      BY <2>4 DEF LibraryQuota!quotaVars, Admitted
    <3> QED BY <1>1, <3>1
  <2> QED BY <2>1, <2>2, <2>3, <2>4 DEF LibraryQuota!QuotaNext
<1> QED BY <1>3, QuotaCardinality DEF LibraryQuota!OverrunBounded, Admitted

\* A user's firmwares, with the uploads that were let in, exceed the limit by
\* less than the number of requests served together.
THEOREM FirmwareOverrun == Spec => []LibraryQuota!OverrunBounded
<1>1. Init => LibraryQuota!OverrunBounded
  <2> SUFFICES ASSUME Init PROVE LibraryQuota!OverrunBounded
    OBVIOUS
  <2>1. row = {} /\ Admitted = {}
    BY DEF Init, Admitted
  <2>2. Cardinality(row) + Cardinality(Admitted) < MaxFirmwares + Cardinality(Requests)
    BY <2>1, FS_EmptySet, AdmittedCount
  <2> QED BY <2>2, QuotaCardinality DEF LibraryQuota!OverrunBounded, Admitted
<1>2. ASSUME Inv, Inv', LibraryQuota!OverrunBounded, [Next]_vars
      PROVE  LibraryQuota!OverrunBounded'
  BY <1>2, QuotaStep, OverrunStep DEF Inv
<1> QED BY <1>1, <1>2, LibraryInvariant, PTL DEF Spec

=============================================================================
