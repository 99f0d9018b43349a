-------------------------- MODULE FirmwareLibrary --------------------------
(***************************************************************************)
(* The firmware library of one user: rows of `firmwares`, the objects they *)
(* name in the object store, and the OTA tasks that refer to them.  Upload *)
(* of a full or a delta package, registration of a file_url of the         *)
(* caller's, the presigned upload link and deletion are those of           *)
(* features/ota/ota-service.ts and of the upload and delta routes; of a    *)
(* task only its reference to the firmware is kept (OtaTask has the rest). *)
(* A key of the store is a firmware, of the object its upload put (the key *)
(* has a UUID of its own), or a member of Bins, firmwares/<product>/       *)
(* <version>.bin, where the links of a version lead.                       *)
(***************************************************************************)
EXTENDS Naturals, FiniteSets

CONSTANTS
    Firmwares,
    FullNames,    \* product and version of full packages
    DeltaNames,   \* product, version and base version of deltas
    NoName,       \* of a firmware not yet uploaded
    Bins,         \* keys that presigned links lead to
    BinOf,        \* the key of each name: a delta's is its version's
    Elsewhere,    \* a file_url that names nothing in the store
    Tasks,        \* ids of OTA tasks
    Requests,     \* requests that may be served together
    NoFirmware,   \* of a request or task that is not there
    MaxFirmwares  \* MAX_FIRMWARES_PER_USER

ASSUME LibraryAssumption ==
    /\ IsFiniteSet(Firmwares) /\ IsFiniteSet(Requests)
    /\ FullNames \cap DeltaNames = {}
    /\ NoName \notin FullNames \cup DeltaNames
    /\ NoFirmware \notin Firmwares
    /\ BinOf \in [FullNames \cup DeltaNames -> Bins]
    /\ Firmwares \cap Bins = {}
    /\ Elsewhere \notin Firmwares \cup Bins
    /\ MaxFirmwares \in Nat \ {0}

VARIABLES
    row,        \* firmwares in the table
    object,     \* keys whose object is in the store
    name,       \* what each upload is called
    file,       \* the key each firmware's file_url names
    taskOf,     \* the firmware of each task
    linked,     \* keys a presigned link can still write
    pc,         \* next statement of each request
    target,     \* the firmware each request is about
    shown,      \* history: firmwares whose row, with its file_url, was there
    outrun,     \* history: uploads whose name was taken after they looked it up
    late,       \* history: rows of such uploads
    leftover,   \* history: objects left in the store, see ObjectHasRow
    stripped    \* history: firmwares whose object was, or may be, lost alone

vars == <<row, object, name, file, taskOf, linked, pc, target,
          shown, outrun, late, leftover, stripped>>
history == <<shown, outrun, late, leftover, stripped>>
library == <<row, object, taskOf, linked>>
naming == <<name, file>>

-----------------------------------------------------------------------------
Names == FullNames \cup DeltaNames

Keys == Firmwares \cup Bins

UploadPc == {"put", "quota", "lookup", "insert", "reclaim"}
DeletePc == {"find", "countTasks", "removeObject", "removeRow"}
TaskPc == {"findForTask", "insertTask"}

TypeOK ==
    /\ row \subseteq Firmwares
    /\ object \subseteq Keys
    /\ name \in [Firmwares -> Names \cup {NoName}]
    /\ file \in [Firmwares -> Keys \cup {Elsewhere}]
    /\ linked \subseteq Bins
    /\ taskOf \in [Tasks -> Firmwares \cup {NoFirmware}]
    /\ pc \in [Requests -> UploadPc \cup DeletePc \cup TaskPc \cup {"idle"}]
    /\ target \in [Requests -> Firmwares \cup {NoFirmware}]
    /\ \A r \in Requests : pc[r] = "idle" <=> target[r] = NoFirmware
    /\ shown \subseteq Firmwares
    /\ outrun \subseteq Requests
    /\ late \subseteq Firmwares
    /\ leftover \subseteq object
    /\ stripped \subseteq Firmwares

Init ==
    /\ row = {}
    /\ object = {}
    /\ name = [f \in Firmwares |-> NoName]
    /\ file = [f \in Firmwares |-> f]
    /\ linked = {}
    /\ taskOf = [k \in Tasks |-> NoFirmware]
    /\ pc = [r \in Requests |-> "idle"]
    /\ target = [r \in Requests |-> NoFirmware]
    /\ shown = {}
    /\ outrun = {}
    /\ late = {}
    /\ leftover = {}
    /\ stripped = {}

-----------------------------------------------------------------------------
(* A request's course.                                                     *)

Start(r, label, f) ==
    /\ pc[r] = "idle"
    /\ pc' = [pc EXCEPT ![r] = label]
    /\ target' = [target EXCEPT ![r] = f]

Goto(r, label) ==
    /\ pc' = [pc EXCEPT ![r] = label]
    /\ UNCHANGED target

\* Mutated: the request ends and keeps its firmware.
EndHolding(r) ==
    /\ pc' = [pc EXCEPT ![r] = "idle"]
    /\ target' = target

End(r) ==
    /\ pc' = [pc EXCEPT ![r] = "idle"]
    /\ target' = [target EXCEPT ![r] = NoFirmware]

-----------------------------------------------------------------------------
(* Upload and registration.                                                *)

\* The object's key is fresh; the routes have found the product.
StartUpload(r) ==
    /\ \E f \in Firmwares, n \in Names :
         /\ name[f] = NoName
         /\ Start(r, "put", f)
         /\ name' = [name EXCEPT ![f] = n]
    /\ UNCHANGED <<library, file, history>>

\* A full package whose file_url is any string: of another site, of a link's
\* object, or one that a firmware was answered with.
Register(r) ==
    /\ \E f \in Firmwares, n \in FullNames,
          key \in {Elsewhere} \cup Bins \cup {file[g] : g \in shown} :
         /\ name[f] = NoName
         /\ Start(r, "quota", f)
         /\ name' = [name EXCEPT ![f] = n]
         /\ file' = [file EXCEPT ![f] = key]
    /\ UNCHANGED <<library, history>>

\* The firmware's file was uploaded with it.
Uploaded(f) == file[f] = f

\* An error answer.  The catch of the upload routes removes the object first.
Fail(r) ==
    IF Uploaded(target[r]) THEN Goto(r, "reclaim") ELSE End(r)

PutObject(r) ==
    /\ pc[r] = "put"
    /\ \/ object' = object \cup {target[r]} /\ Goto(r, "quota")
       \/ object' \in {object, object \cup {target[r]}} /\ Fail(r)
    /\ UNCHANGED <<row, taskOf, linked, naming, history>>

\* Mutated: one firmware too many is let in.
CountFirmwaresOneMore(r) ==
    /\ pc[r] = "quota"
    /\ \/ Cardinality(row) <= MaxFirmwares /\ Goto(r, "lookup")
       \/ Fail(r)
    /\ UNCHANGED <<library, naming, history>>

\* The product may have been deleted since.
CountFirmwares(r) ==
    /\ pc[r] = "quota"
    /\ \/ Cardinality(row) < MaxFirmwares /\ Goto(r, "lookup")
       \/ Fail(r)
    /\ UNCHANGED <<library, naming, history>>

Taken(n) == \E f \in row : name[f] = n

\* Mutated: the version is not looked up.
LookUpNameNever(r) ==
    /\ pc[r] = "lookup"
    /\ Goto(r, "insert")
    /\ UNCHANGED <<library, naming, history>>

LookUpName(r) ==
    /\ pc[r] = "lookup"
    /\ IF Taken(name[target[r]]) THEN Fail(r) ELSE Goto(r, "insert")
    /\ UNCHANGED <<library, naming, history>>

\* The unique index tells deltas apart; base_version is null in full packages,
\* and nulls are distinct.
Insertable(f) == ~(name[f] \in DeltaNames /\ Taken(name[f]))

\* The answer of the database may be lost: the route then takes the insert for
\* failed.
InsertRow(r) ==
    /\ pc[r] = "insert"
    /\ Insertable(target[r])
    /\ row' = row \cup {target[r]}
    /\ outrun' = {q \in Requests \ {r} :
                    \/ q \in outrun
                    \/ pc[q] = "insert" /\ name[target[q]] = name[target[r]]}
    /\ late' = IF r \in outrun THEN late \cup {target[r]} ELSE late
    /\ shown' = shown \cup {target[r]}
    /\ \/ End(r) /\ UNCHANGED stripped
       \/ Fail(r) /\ stripped' = stripped \cup {target[r]}
    /\ UNCHANGED <<object, taskOf, linked, naming, leftover>>

InsertFails(r) ==
    /\ pc[r] = "insert"
    /\ outrun' = outrun \ {r}
    /\ Fail(r)
    /\ UNCHANGED <<library, naming, shown, late, leftover, stripped>>

\* Mutated: the object of a failed upload is kept.
ReclaimNever(r) ==
    /\ pc[r] = "reclaim"
    /\ End(r)
    /\ UNCHANGED <<library, naming, history>>

\* removeObject: what is left in the store when it fails is on record.
Remove(key) ==
    \/ object' = object \ {key} /\ leftover' = leftover \ {key}
    \/ UNCHANGED object /\ leftover' = leftover \cup (object \cap {key})

\* .catch(() => undefined)
Reclaim(r) ==
    /\ pc[r] = "reclaim"
    /\ Remove(target[r])
    /\ End(r)
    /\ UNCHANGED <<row, taskOf, linked, naming, shown, outrun, late, stripped>>

-----------------------------------------------------------------------------
(* Deletion, and the tasks that refer to a firmware.                       *)

StartDeletion(r) ==
    /\ \E f \in Firmwares : Start(r, "find", f)
    /\ UNCHANGED <<library, naming, history>>

FindFirmware(r) ==
    /\ \/ pc[r] = "find" /\ Goto(r, "countTasks")
       \/ pc[r] = "findForTask" /\ Goto(r, "insertTask")
    /\ target[r] \in row
    /\ UNCHANGED <<library, naming, history>>

NoSuchFirmware(r) ==
    /\ pc[r] \in {"find", "findForTask"}
    /\ target[r] \notin row
    /\ End(r)
    /\ UNCHANGED <<library, naming, history>>

\* A deletion has found no task that refers to f.
Condemned(f) ==
    \E r \in Requests : pc[r] \in {"removeObject", "removeRow"} /\ target[r] = f

Referred(f) == \E k \in Tasks : taskOf[k] = f

\* Mutated: the tasks are not counted.
CountTasksNever(r) ==
    /\ pc[r] = "countTasks"
    /\ Goto(r, "removeObject")
    /\ UNCHANGED <<library, naming, history>>

CountTasks(r) ==
    /\ pc[r] = "countTasks"
    /\ IF Referred(target[r]) THEN End(r) ELSE Goto(r, "removeObject")
    /\ UNCHANGED <<library, naming, history>>

\* A failure of the store does not stop the deletion, and a file elsewhere stays.
\* Whether another row names the object, nothing asks.
RemoveObject(r) ==
    /\ pc[r] = "removeObject"
    /\ Remove(file[target[r]])
    /\ stripped' = {f \in Firmwares : \/ f \in stripped
                                      \/ f \in object \ object' /\ f # target[r]}
    /\ Goto(r, "removeRow")
    /\ UNCHANGED <<row, taskOf, linked, naming, shown, outrun, late>>

\* Refused by the foreign key of a task, or because the row is gone.
RemoveRow(r) ==
    /\ pc[r] = "removeRow"
    /\ row' = IF Referred(target[r]) THEN row ELSE row \ {target[r]}
    /\ End(r)
    /\ UNCHANGED <<object, taskOf, linked, naming, history>>

StartTask(r) ==
    /\ \E f \in Firmwares : Start(r, "findForTask", f)
    /\ UNCHANGED <<library, naming, history>>

\* The foreign key refuses a firmware that is gone, and not one that a deletion
\* is about to take the object of.
InsertTask(r) ==
    /\ pc[r] = "insertTask"
    /\ \/ /\ target[r] \in row
          /\ \E k \in Tasks : /\ taskOf[k] = NoFirmware
                              /\ taskOf' = [taskOf EXCEPT ![k] = target[r]]
          /\ stripped' = {f \in Firmwares : \/ f \in stripped
                                            \/ f = target[r] /\ Condemned(f)}
       \/ UNCHANGED <<taskOf, stripped>>
    /\ End(r)
    /\ UNCHANGED <<row, object, linked, naming, shown, outrun, late, leftover>>

\* deleteOtaTask, of a task that has ended.
DeleteTask(k) ==
    /\ taskOf[k] # NoFirmware
    /\ taskOf' = [taskOf EXCEPT ![k] = NoFirmware]
    /\ UNCHANGED <<row, object, linked, naming, pc, target, history>>

-----------------------------------------------------------------------------
(* Presigned upload links.                                                 *)

\* createFirmwareUploadUrl, for a firmware in the table; the key is recorded in
\* no row.
CreateUploadUrl(f) ==
    /\ f \in row
    /\ linked' = linked \cup {BinOf[name[f]]}
    /\ UNCHANGED <<row, object, taskOf, naming, pc, target, history>>

LinkExpires(key) ==
    /\ key \in linked
    /\ linked' = linked \ {key}
    /\ UNCHANGED <<row, object, taskOf, naming, pc, target, history>>

Deleting(f) == \E r \in Requests : pc[r] = "removeRow" /\ target[r] = f

\* A row names the key, and no deletion of it is past the object.
Kept(key) == \E f \in row : file[f] = key /\ ~Deleting(f)

\* The store takes the file; the code hears nothing of it.
PutByLink(key) ==
    /\ key \in linked
    /\ object' = object \cup {key}
    /\ leftover' = IF Kept(key) THEN leftover ELSE leftover \cup {key}
    /\ UNCHANGED <<row, taskOf, linked, naming, pc, target,
                   shown, outrun, late, stripped>>

-----------------------------------------------------------------------------
\* The process dies.
Crash(r) ==
    /\ pc[r] # "idle"
    /\ End(r)
    /\ outrun' = outrun \ {r}
    /\ leftover' = IF pc[r] \in UploadPc THEN leftover \cup (object \cap {target[r]})
                                        ELSE leftover
    /\ stripped' = IF pc[r] = "removeRow" THEN stripped \cup {target[r]} ELSE stripped
    /\ UNCHANGED <<library, naming, shown, late>>

Upload(r) == \/ StartUpload(r) \/ Register(r) \/ PutObject(r) \/ CountFirmwares(r)
             \/ LookUpName(r) \/ InsertRow(r) \/ InsertFails(r) \/ Reclaim(r)
Deletion(r) == \/ StartDeletion(r) \/ FindFirmware(r) \/ NoSuchFirmware(r)
               \/ CountTasks(r) \/ RemoveObject(r) \/ RemoveRow(r)
TaskCreation(r) == StartTask(r) \/ InsertTask(r)

Next == \/ \E r \in Requests : \/ Upload(r) \/ Deletion(r)
                               \/ TaskCreation(r) \/ Crash(r)
        \/ \E k \in Tasks : DeleteTask(k)
        \/ \E f \in Firmwares : CreateUploadUrl(f)
        \/ \E key \in Bins : LinkExpires(key) \/ PutByLink(key)

Spec == Init /\ [][Next]_vars

-----------------------------------------------------------------------------
(* Safety.                                                                 *)

Uploading(f) == \E r \in Requests : pc[r] \in UploadPc /\ target[r] = f

\* Every firmware that was uploaded can be downloaded while it is in the table,
\* unless its deletion is between the object and the row, or ended there: refused
\* by a task that was created after it had counted them, or in a crash.  Two more
\* lose the object: an insert that was taken for failed, and a firmware whose
\* file_url was registered again under another name, when that one is deleted.
RowHasObject ==
    \A f \in row : Uploaded(f) => f \in object \/ Deleting(f) \/ f \in stripped

\* Every object in the store is named by a row whose deletion has still to come
\* to it, or belongs to an upload under way: an upload that is refused takes its
\* object back, and a deletion takes the object it names.  Left over are those
\* whose removal failed or whose request died, and what a presigned link put
\* while no row kept it, which the code never removes unless a row is registered
\* that names it.
ObjectHasRow ==
    \A key \in object : Kept(key) \/ Uploading(key) \/ key \in leftover

\* Two packages of the same name were uploaded at once, and are full packages.
NamesDiffer ==
    \A f, g \in row : f # g /\ name[f] = name[g] =>
      name[f] \in FullNames /\ (f \in late \/ g \in late)

-----------------------------------------------------------------------------
LibraryQuota == INSTANCE Quota WITH
    Limit <- MaxFirmwares,
    used <- Cardinality(row),
    admitted <- {r \in Requests : pc[r] \in {"lookup", "insert"}}

\* Firmwares are counted and inserted as the abstract quota allows.
ImplementsLibraryQuota == LibraryQuota!QuotaSpec
=============================================================================
