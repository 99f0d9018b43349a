# ZiOT in TLA+

ZiOT is an IoT platform: a Next.js web process (console, app and device APIs, the
webhook EMQX calls), a worker process (BullMQ consumer and timers), PostgreSQL
through Prisma, Redis (queue and pub/sub) and EMQX as MQTT broker. This directory
holds TLA+ models of the parts whose correctness depends on the order of things,
the TLC runs that check them and TLAPS proofs about them.

The web code opens no database transaction around its handlers: each `await` on
Prisma, Redis or EMQX is a point where any other request, job or timer may run.
The models therefore take **one database statement, one publication or one fetch
as one atomic action**, and a request as a program counter that walks through
them.

    tlasany OtaTask.tla                              parse
    tlc -config OtaConcurrent.cfg MCOtaTask          one run (names below)
    tlapm OtaTaskProofs.tla                          proofs of one module

## 1. Inventory

| Component | State it keeps | Operations | Interacts through |
| --- | --- | --- | --- |
| OTA tasks (`features/ota/ota-service.ts`, `worker/src/ota`) | `ota_tasks.status`, `ota_records.status/updated_at`, `devices.firmware_version` | create, start/restart, cancel, delete, progress report, expiry scan | REST, EMQX HTTP publish, webhook, worker timer |
| Commands (`features/control`, `worker/src/control`) | `device_commands.status/timeout_at`, shadow `desired`, cached EMQX token | create (device, group), list/get with lazy expiry, reply, expiry timer | REST, EMQX HTTP login and publish, webhook |
| Reports, shadow, presence (`features/ingress`, `worker/src/telemetry`, `domain/devices/shadow.ts`) | `devices.online_status`, `device_shadows`, BullMQ jobs, logs | connected/disconnected, property/event/log post, queue and retry, direct path | webhook, BullMQ, Redis pub/sub |
| Event stream (`app/events/stream`, `lib/events`) | per connection: `closed`, listener, intervals, `deviceIds` | connect, first load, reload, heartbeat, pass on, clean-up | Redis pub/sub, SSE, bindings |
| Retention (`worker/src/retention`) | none | hourly deletion by age | the tables of all others |
| Bindings (`features/devices/binding-service.ts`) | binding code, `user_devices` | view, rotate code; bind, unbind; admission of commands | REST, rate limiter |
| Rate limiter (`lib/rate-limit.ts`) | Redis counters with an expiry | count | Redis |
| Sessions (`lib/identity`, `lib/client/session-fetch.ts`, `middleware.ts`) | refresh tokens, password; in the browser cookies, documents, the refresh in flight | login, refresh, logout, password change, page load; registration | REST, cookies |
| Products, devices (`lib/products`, `lib/devices`) | rows with soft deletion, shadows, group members | create, update, delete; groups | REST |
| Quotas (all of the above) | none: counts of rows | count, then create | the rows |
| Firmware library (`ota-service.ts`, `firmware-storage.ts`, `firmware-patch.ts`) | `firmwares`, MinIO objects | upload, delta, register, presigned upload link, delete | REST, MinIO, OTA tasks |
| Logs, audit, dashboard, topics, console pages, simulator, scripts | - | queries, parsing, pages, tools | - |

What makes each one hard, and what makes it correct:

* **OTA.** Five operations and two timers share a task and its records without
  transactions; devices report late, twice, or never. A running task must always
  have somebody left to end it; a success must reach the device row and not be
  taken back; a cancelled record must stay cancelled; nothing may survive a
  deletion.
* **Commands.** The confirmation, the failure, the expiry and the device's reply
  each write the status, and the request may die or outlive its time-out. Success
  and `desired` must not be claimed for what the broker did not accept; every
  command must be closed; a stale token must not use up the attempts.
* **Reports.** Jobs of one device run four at a time, fail and are retried whole;
  Redis may take a job and report failure; connection webhooks are late or lost.
  No report may vanish, merges must not undo `desired` or each other, the version
  must tell contents apart, and presence must heal.
* **Sessions.** A token is checked, spent and replaced in three statements, while
  tabs that share one cookie exchange it at once and a change of the password
  revokes everything. A changed password must end the sessions of before; the
  browser must not be left with a spent token, nor give up with a live one.
* **Bindings and streams.** Codes are generated on first view, found in one
  statement and used in the next; the limiter counts and sets its expiry in two
  commands; a stream reloads its devices concurrently and must let go of bus and
  timers however it ends. A printed code must hold; nobody may be bound, or send
  commands, on what is no longer true but within the crossing request.
* **Products, devices, firmware.** Counts and look-ups come statements before the
  insert they admit, deletions before the rows they orphan, the object store fails
  apart from the database. Quotas may be overrun only by what was under way, a
  deleted product keeps no devices, a row and its object come and go together, also where
  two rows name one object and where clients write to the store by themselves.

## 2. Modules

| Module | What it is |
| --- | --- |
| `OtaTask` | one OTA task, its records, web requests and the worker's scans |
| `CommandContract` | what the control service promises, in three actions |
| `Command` | the control service; `Contract == INSTANCE CommandContract WITH ...` |
| `DeviceIngress` | one device's connections and reports: webhook, queue, workers, direct path |
| `RefreshTokens` | the refresh tokens of one user, console or app: what the services do, whoever the clients are |
| `ConsoleSession` | EXTENDS it by the console's browser: tabs, cookies, fetches, page loads |
| `Quota` | what "count, then create" promises about a limit, in four actions |
| `Catalog` | products, devices and shadows; implements `Quota` once for products and once per product |
| `FirmwareLibrary` | firmware rows and objects, deletion against task creation; implements `Quota` |
| `Bindings` | binding codes, the limiter, bindings and the admission of commands |
| `EventStream` | EXTENDS it by the app's event streams |
| `*Proofs` | the theorems, one module per component; those about `Bindings` are in `EventStreamProofs` |
| `MC*` | symmetry sets and functions for TLC |

They are composed where components share state: `ConsoleSession` moves the
variables of `RefreshTokens` by its actions, `EventStream` interleaves with all
of `Bindings`. Elsewhere the other component appears as what it does to
the shared row: `ChangeStatus` in `Bindings`, `InsertTask`, `DeleteTask` in
`FirmwareLibrary`, `RetentionPurge` in `OtaTask`, `WriteDesired` in `DeviceIngress`.

Operators named "Mutated:" in a comment are wrong variants of the definition that
follows them. Nothing uses them; they serve to see a property fail.

### OtaTask

`task`, `rec`, `age` are the rows (`age` in units of the two time-outs: 0 fresh,
1 older than `OTA_RECORD_TIMEOUT_HOURS`, 2 older than `OTA_RECORD_RETENTION_DAYS`),
`upgraded` the devices whose `firmware_version` was written, `told` those EMQX took
a notification for, `pc/todo/msg` the web requests, `scan` the worker. `lostBy` is
a ghost that names what has deprived the task of the one who would have ended it;
no action reads it.

| Code | Actions |
| --- | --- |
| `createOtaTask` (nested insert: one statement) | `CreateTask` |
| `startOtaTask` | `StartRead`, `StartUpdate` (also reads the records to notify), `StartReset`, `PublishNotify` per device, `PublishFails` |
| `cancelOtaTask` | `CancelRead`, `CancelRecords`, `CancelTask` |
| `deleteOtaTask` | `DeleteRead`, `DeleteRow` (cascade) |
| `recordOtaProgress`, `finishTaskIfComplete` | `ReportRead`, `ReportWrite`, `ReportSync`, `ReportCount`, `ReportFinish` |
| `expireStaleOtaRecords` | `ScanFind`, `ScanExpire`, `ScanFinish` |
| `runRetentionCleanup` (records) | `RetentionPurge` |
| death of a process, time | `CrashHandler`, `CrashScan`, `TimePasses` |

Abstracted: progress numbers, messages, timestamps other than `updated_at`,
payloads, and permissions. All statements of a task are filtered by its id, so
tasks do not interact and one is enough; the scan handles all tasks in one
statement, which for one task is what the model does. A fetch that rejects may
have published (`PublishFails`). `TimePasses` waits for a scan under way, since the
scan fixes its cut-off when it begins.

### Command and CommandContract

One request per command: `cmd` is the row's status, `due` whether `timeout_at` has
passed, `delivered` what the broker accepted, `desired` whose parameters the shadow
holds; `pc/attempts/held` the request, `cache` the process-wide `cachedEmqxToken`,
`epoch` the broker's incarnation (a token is good only in the epoch it was issued
in), `reply` the webhook requests that have read a command and will write it.

| Code | Actions |
| --- | --- |
| `createDeviceCommand` | `CreateCommand`, `Confirm`, `WriteDesired`, `MarkFailed` |
| `emqxToken` | `UseCachedToken`, `Login`, `CacheToken`, `LoginFails`, `TokenExpires` |
| `publishMqtt` | `PublishAccepted`, `PublishUnauthorized`, `PublishRefused`, `PublishThrows` |
| both expiries | `ExpireTimedOut` |
| `recordCommandReply` | `ReplyRead`, `ReplyWrite` |
| environment | `TimeoutPasses`, `BrokerRestarts`, `CrashWeb` |

`CommandContract` says: submitted once, accepted only if submitted, closed for
good (an outcome may still be corrected), successful only if accepted, and closed
in the end. `Command` implements it with `submitted` = commands with a row,
`closed` = those with a final status, `succeeded` = those at `success`, `accepted`
= `delivered`.

### DeviceIngress

`connected/sessions/notices` are the broker's side (`notices`: webhooks still to
be sent, in order, since `setup-emqx-webhook.sh` configures one synchronous worker
per action); `online`, `reported`, `desired`, `version` the rows; `pushed/shown`
what the last events told; `patch/arrived/applied/dropped` the reports' keys and
fate; `queue/delayed/tries` the BullMQ jobs; `pc/work/status/seen` the handlers, each
with what it read before it awaited. `processTelemetryReport` and
`recordMqttReport` have the same statements in the same order, except that only
the latter sends `device.shadow.updated`, so both are walked by `ReadDevice`,
`ShadowRead`, `ShadowWrite`, (`ShadowEvent`,) `DeviceWrite`, `StatusEvent`, `Log`.
A key's value is the report it came from; `desired` is the number of its write.

External, modelled from how the code uses it: BullMQ's queue (a failed or stalled
job waits for its backoff, then goes to either end of the queue, up to `attempts`)
and the broker. `Takeover` sends the end of the old session and the start of the
new one in either order, as two broker processes do. Not modelled: the device's
deletion under way, and resending of webhooks by EMQX.

### RefreshTokens and ConsoleSession

`token` is the row of each token (`exchanged` and `revoked` are both a
`revoked_at`; the model remembers which came first), `password` the number of
changes, `pc/presented/issued/knew` the requests. `swept/crossed/born/late` are
history: which change last revoked the tokens, which requests were let in before
it, under which password a token was issued. The console and the app have the same
statements but for the end of a password change: the app's goes on to
`CreateSession` (constant `Service`), and both let an aborted or unanswered request
stop anywhere (`Abort`).

| Code | Actions |
| --- | --- |
| `refreshSession`, `refreshAppSession` | `CheckToken`, `RevokePresented`, `CreateSession` |
| `loginUser`, `loginAppUser` | `ComparePassword`, `CreateSession` |
| `logoutUser`, `logoutAppUser` | `Logout` |
| `resetPasswordWithInvitation`, `changeAppUserPassword` | `Verify`, `UpdatePassword`, `SweepTokens` |
| thirty days | `TokenExpires` |

In `ConsoleSession`, `cookie/access` are the two cookies, `page/fetch/inFlight` the
documents of the tabs (`inFlight` is `refreshInFlight`), `dropped` is history. A
fetch answered 401 is `SendFetch`, then `StartRefresh` or `JoinRefresh`, then
`RefreshAnswered` or `RefreshAborted`, then `RetryAuthorized` or
`RetryUnauthorized`. The middleware is `OpenPage` and `RenewPage`, the forms are
`SignIn`, `ResetPassword`, `SignOut`, their answers `PageAnswered`, `SignedOut`,
`PageAborted`. `AccessExpires` waits until no exchange or retry is under way: the
access token lives a quarter of an hour.

### Catalog, FirmwareLibrary and Quota

`Catalog`: `product/device/shadow` are the rows, `pc/item` the requests;
`outrun/slipped/bare` are history (creations overtaken by a deletion, devices
so created, devices whose creation broke off between its inserts). A product stands
for its key: deleted keys stay taken, as in the tables.

| Code | Actions |
| --- | --- |
| `createProduct` | `CountProducts`, `FindKey`, `InsertProduct` |
| `deleteProduct` | `FindProduct`, `CountDevices`, `RemoveProduct` |
| `createDevice` | `FindHome`, `CountSiblings`, `FindDeviceKey`, `InsertDevice`, `InsertShadow` |
| `deleteDevice` | `FindDevice`, `RemoveDevice` |

`FirmwareLibrary`: `row/object/taskOf` are the table, the store and the tasks'
references, `name` the product with version (and base version), `file` the object each
`file_url` names, `linked` the keys presigned links can still write;
`shown/outrun/late/leftover/stripped` are history. A key of the store is either a
firmware, for the object its own upload put (the routes give it a random UUID), or a
member of `Bins`, for `firmwares/<product_key>/<version>.bin`, where a link leads; the
two never meet, as the second kind has no UUID. `createFirmware` stores
any string of at most 2048 characters: `Register` takes `Elsewhere` (any string that
names no object, an external URL as a rule), a key of `Bins`, or the `file_url` of any
firmware that was ever in the table, since list and detail answer it.

| Code | Actions |
| --- | --- |
| upload and delta routes, `createFirmware`, `createDeltaFirmware` | `StartUpload`, `PutObject`, `CountFirmwares`, `LookUpName`, `InsertRow`, `InsertFails`, `Reclaim`; with a `file_url` of the caller's `Register` |
| `deleteFirmware` | `StartDeletion`, `FindFirmware`, `NoSuchFirmware`, `CountTasks`, `RemoveObject`, `RemoveRow` |
| `createFirmwareUploadUrl` | `CreateUploadUrl`; store: `PutByLink`, `LinkExpires` |
| `createOtaTask`, `deleteOtaTask` as far as the firmware is concerned | `StartTask`, `FindFirmware`, `InsertTask`, `DeleteTask` |

`Insertable` is what the unique index of `(product_id, version, base_version)` does:
`base_version` is null in full packages, and PostgreSQL holds nulls distinct.

`Quota` has `used` rows and `admitted` requests; `Admit` reads a count below the
limit, `Occupy`, `Withdraw`, `Vacate` are what follows. In `Catalog` and
`FirmwareLibrary` `used` is the number of live rows and `admitted` the requests
between count and insert.

### Bindings and EventStream

`status/code/bound` are the rows, `count/expiring` the limiter's counters of each
user, `pc/user/dev/scanned` the requests; `shown/retired/lost/crossed/jammed` are
history (codes answered to the console, rotated away, replaced by a crossed first
view; requests whose reading has been overtaken; users whose counter missed its
expiry).

| Code | Actions |
| --- | --- |
| `getDeviceBindingCode` | `ViewCode`, `GenerateCode` |
| `rotateDeviceBindingCode` | `FindDevice`, `RotateCode` |
| `allowRequest` | `CountRequest`, `SetExpiry`, `LimiterFails`; Redis: `WindowEnds` |
| `bindDeviceByCode` | `FindCode`, `UpsertBinding` |
| `getActiveBinding`, `unbindAppDevice`, the command route | `FindBinding`, `Unbind`, `SendCommand` |

`EventStream`: `closed/listening/timers/filter` are `closed`, the listener on the
bus, the two intervals and `deviceIds` of `start`; `phase/wire/aborted` the
connection, its client and its request's signal, `load` the two loads that may be under
way. `start` is `StartStream`, `write` is `Write`, `cleanup` is `CleanUp`; the
intervals are `Heartbeat` and `ReloadTick`, the listener `PassOn`, a load
`ReadBindings` or `LoadFails` and then `TakeOver`. `leaked` is history.

## 3. Runs

Passing runs (sizes are distinct states, after symmetry where it is used):

| Run | Instance | Shows |
| --- | --- | --- |
| `OtaConcurrent` | 2 devices, 2 requests, all faults; 3.5M states | `TypeOK`, `NoOrphanRecords`, `NoForgottenTask`, `PlatformKeepsSuccess` |
| `OtaLive` | 1 device, 2 requests, failing publications, purge | `SuccessSynced`, `SilentTaskEnds` |
| `CommandSafe` | 2 commands (one of each kind), 2 repliers, 2 epochs, all faults; 1.4M states | `TypeOK`, `NothingClaimedUndelivered`, `FinalOverwrittenOnlyBy`, `ImplementsContract` |
| `CommandLive` | 2 commands, 1 replier, 2 epochs; logins, fetches and processes fail | `StaleTokenIsReplaced`, `EveryCommandCloses` |
| `IngressQueue` | 1 key, 2 reports, a worker and a request, 2 attempts, failing jobs and Redis; 2.6M states | `TypeOK`, `NoReportVanishes`, `ShownIsCurrent`, `DesiredSurvivesReports`, `VersionTellsContents` |
| `IngressHeals` | 2 sessions, 1 report, worker, request and webhook, lost webhooks, all faults | `ReportHealsOnline`, `QueuedReportIsApplied` |
| `Sessions` | 2 tabs, 2 fetches, 3 tokens, 1 password change, lost answers, crashes; 0.95M states | `ConsoleTypeOK`, `OldSessionsOnlyCrossed`, `SpentCookieHasSuccessor`, `GivesUpOnlyWithoutToken` |
| `CatalogQuotas` | 2 products, 2 devices, 3 requests, limits of 1; 0.42M states | `TypeOK`, `DeletedProductsAreEmpty`, `ShadowComesWithDevice`, `ImplementsQuotas` |
| `FirmwareStore` | 3 firmwares, a full and a delta name with one link, 1 task, 3 requests, limit of 2, store, database and process fail; `MCBound`, see below; 0.98M states | `TypeOK`, `RowHasObject`, `ObjectHasRow`, `NamesDiffer`, `ImplementsLibraryQuota` |
| `Bindings` | 2 users, 1 device, 3 codes, 2 requests, limit of 2; 1.5M states | `BindingsTypeOK`, `ShownCodesHold`, `CountersExpire`, `BoundByCurrentCode`, `CommandsComeFromBound` |
| `Stream` | 1 stream over 1 user, device, code and request; 97k states | `StreamsTypeOK`, `EndedStreamsLetGo`, `FilterCatchesUp` |

One run must be found violated. It states what the repository's documents say and
the code does not keep (quoted in `PROJECT.json`, `findings`):

| Run | Property | Shortest story |
| --- | --- | --- |
| `OtaZombie` | `LostDeviceNeverPinsTask` | start reads `created`; the scan times the stale record out to failed and closes nothing, as the task is not running yet; start sets the task running and finds no created or scheduled record to reset: running forever, as scans select tasks by a pending record |

Other divergences the same models show, each reached by a few steps of two actors:

* A report reads its record, a cancellation writes, the report writes: the
  cancelled record is revived (`ota-service.ts:926`; `admin-api.md:1315` says later
  reports are refused). A delayed report moves a successful record back in the same way
  (`:920` refuses only `cancelled`; `PlatformKeepsSuccess` names that writer).
* A reply reads `pending`, the confirmation writes `success`, the reply writes
  `failed` (`control-service.ts:510`; `iot-platform-prd.md:640` lets one reply take
  effect, once). A failed publication overwrites `timeout` (`:286`), an accepted one may end as
  `timeout` (`:301`), a failed login ends a command with attempts left (`:188`).
* Two workers read one shadow and both write it whole: the second takes the first's
  keys back (`consume-device-reports.ts:120`; `iot-platform-prd.md:654` has the version
  avoid that).
* A disconnection is recorded, then a worker handles an older report: the device is
  online for good (`consume-device-reports.ts:131`; `admin-api.md:1177` has the MQTT
  session decide).
* A disconnected webhook reads `offline`, a report writes and announces `online`, the
  webhook writes `offline` and says nothing, as it compares with what it read
  (`mqtt-ingress-service.ts:308`; `app-api.md:315` promises an event for each turn).
* A refresh let in before a change of the password issues its token after all tokens
  were revoked, and stays signed in (`auth-service.ts:565`,
  `app-auth-service.ts:293`; `admin-api.md:179`, `app-api.md:176` say all are signed
  out). `OldSessionsOnlyCrossed` says that these are the only ones.
* Full packages of one name are inserted twice when two uploads cross: the
  index the insert relies on does not tell nulls apart (`ota-service.ts:317`,
  `schema.prisma:455`; see `NamesDiffer`).
* The `file_url` of an uploaded firmware is registered under a second version. Deleting
  that version removes the object, and the first, perhaps with a task that refers to
  it, keeps only its row: `deleteFirmware` counts the tasks of the one row and asks
  for no other row of the same file (`ota-service.ts:453`; `admin-api.md:1241` refuses the
  deletion of a firmware that a task refers to). No crossing is needed; `stripped` in
  `RowHasObject` names it.
* A presigned link writes `firmwares/<product_key>/<version>.bin`, while the row goes on
  naming the file it was created with (`ota-service.ts:491`). Devices are never sent to the
  new object, and no deletion removes it (`admin-api.md:1242` has the deletion clean up the
  storage), unless somebody registers its `minio://` address; `leftover` in
  `ObjectHasRow`. A link may write after its firmware was deleted.
* A stream whose write failed before the abort, or whose client left while
  `getAppUser` was awaited, keeps listener and intervals for the life of the process
  (`stream/route.ts:95`; `leaked` in `EndedStreamsLetGo`).
* Two first views of a device's code generate two, and one console shows a dead one
  (`binding-service.ts:148`; `lost` in `ShownCodesHold`).
* A limiter whose EXPIRE failed refuses its user once the limit is reached, and for
  good (`rate-limit.ts:45`; `jammed` in `CountersExpire`).
* The devices a start notifies are filtered one statement before the records it resets
  (`ota-service.ts:783`, `:769`); a scan may finish a task that is being restarted
  (`expire-ota-records.ts:57`); a deletion may remove a task restarted since it was
  read (`ota-service.ts:481`); the worker sends no `device.shadow.updated`
  (`consume-device-reports.ts:120`).

**Bounds.** Two devices tell "the last record" from "all records"; two requests
let any two statements of any two operations cross, an ended request starting again as
any operation (the theorems cover more). The report statuses `downloading` and
`installing`, and `notified`, are treated alike by every guard, so the runs take one of
them. Two epochs make one token stale. `JobAttempts` is 2 where the code says 5:
first, retried and given up are the three cases. In `IngressQueue` the two
concurrent handlers are a worker and a request, whose statements are the same, and
its connection webhooks are all lost, since they share no state with the shadow; `IngressHeals` is about them and has no keys.
`MaxSessions` bounds the device's connections (with 2, a session can end or be
taken over while webhooks of the other are under way), `MaxDesired` the writes of
desired, `MaxEpoch` the broker's restarts. `Commands` and `Reports` are also how
many there ever are. No other counter grows: `version` is bounded by the number
of writes.

In `Sessions` the fetches are those of one tab, as a second tab's differ from its
page loads only in who shares them; three tokens are a login's and two successors,
so that two exchanges of one cookie both succeed. `MCBound` keeps tokens issued plus
password changes at 3, and these together with the requests in flight at 5: up to four requests
are in flight while few tokens are issued, two once all are. States beyond that are
left to the theorems.
`MaxPassword` is 1 (the theorems have any number). A limit of 1 in `CatalogQuotas` with
three requests lets two overrun while a third deletes. The limit of 2 in `FirmwareStore` leaves room for a firmware and a second
registration of its file, one after the other, and lets a third overrun it. Its `MCBound`
has two requests on two firmwares wherever a file is shared, linked or left over, a delta
or a task is about, and three on three where the quota alone is at stake; the theorems
have any number of both. A limit of 2 in `Bindings` tells the first, an admitted and a
refused request apart. `Codes`,
`Tokens`, `Firmwares`, `Products`, `Devices` are also how many there ever are: keys
and codes are not reused. A counter above its limit is kept at one above. A stream
has one reload under way at a time (a reload takes less than the minute between two),
and one first load, whose answers may cross. `Stream` has one of everything, because a
stream reads the bindings of its own user only.

**Deadlock** is checked in every run: `Gone` (OtaTask) and `AtRest` (Command,
DeviceIngress) stutter only in states where all work is done, so a state in which
somebody waits for nothing is reported. The newer modules never rest: a request may
always begin or fail.

**Fairness.** `OtaTask!FairSpec`: a request that has begun runs on (Node resumes
resolved promises), the scan fires (`setInterval`, ten minutes), time passes. Users
and devices need not act. `Command!FairSpec` is weaker: only time and the expiry
timer; requests, broker and device may stop. `DeviceIngress!FairSpec`: handlers that
began go on, idle workers take jobs, backoffs end; the broker, the device and the
users promise nothing. `EventStream!StreamFairness`: the interval ticks, the database
answers a load or fails it, an answer that was read is taken over; and the loads do not
fail for ever, which is the one strong fairness (on `ReadBindings`): `setInterval`
asks again each minute, and without it no filter could be promised to follow. Clients,
devices and the console promise nothing.

Some properties carry their exceptions in the formula, because the code has them:

* `NoForgottenTask` and `SilentTaskEnds` except a start that reset nothing
  (`hollow_start`, the `OtaZombie` story), a purge of a pending record, and a
  process that died owing the closing step. `OtaZombie` is the same property
  without the exception.
* `StaleTokenIsReplaced` bounds the attempts a restart costs by the number of
  requests that share the cache: a request that finds its token stale drops
  whatever is cached, also the fresh token another request has just fetched. With two
  requests one restart leaves an attempt of the three; with three requests, or a second
  restart, it can use up all of them. `StaleLossesShrink` says where the attempts go for any number.
* `FinalOverwrittenOnlyBy` names the two writers that do overwrite.
* The history variables of the newer modules (`crossed`, `late`, `dropped`, `slipped`,
  `bare`, `stripped`, `leftover`, `lost`, `jammed`, `leaked`) each name one crossing
  or failure; the property says that there is no other. No guard reads them, but for
  `shown`, `retired` and `lost` of Bindings (users scan codes that were shown, and
  a new code is none that ever was) and `shown` of FirmwareLibrary (callers
  register what they were answered).
* `ObjectHasRow` speaks of links, too: what a link put while a row names the key is that
  row's, everything else it put is `leftover`.

## 4. Proofs

The eight proof modules prove, for all sets of devices, requests, tokens and so on
and all combinations of faults (assumptions on the constants: their types; that
sentinels and kinds of processes are distinct; positive limits; finite sets where rows,
sessions or requests are counted, as everything a process or a table ever holds is):

| Theorem | Statement |
| --- | --- |
| `OtaTaskProofs!TypeCorrect` | `Spec => []TypeOK` |
| `OtaTaskProofs!OrphanFree` | `Spec => []NoOrphanRecords` |
| `OtaTaskProofs!NoTaskForgotten` | `Spec => []NoForgottenTask` |
| `OtaTaskProofs!VersionFollowsSuccess` | `Spec => []SuccessSynced` |
| `OtaTaskProofs!SuccessKept` | `Spec => PlatformKeepsSuccess` |
| `CommandProofs!TypeCorrect` | `Spec => []TypeOK` |
| `CommandProofs!ClaimsAreDelivered` | `Spec => []NothingClaimedUndelivered` |
| `CommandProofs!FinalOverwrites` | `Spec => FinalOverwrittenOnlyBy` |
| `CommandProofs!StaleTokenReplaced` | `Spec => []StaleTokenIsReplaced` |
| `CommandProofs!StaleLossesShrink` | between restarts `StaleLosses(c)`, the attempts lost and the stale tokens still to be met, never grows |
| `CommandProofs!Implements` | `Spec => ImplementsContract` (the safety part) |
| `DeviceIngressProofs!TypeCorrect` | `Spec => []TypeOK` |
| `DeviceIngressProofs!NothingVanishes` | `Spec => []NoReportVanishes` |
| `DeviceIngressProofs!JobsAreSingle` | `Spec => []OneJob` |
| `DeviceIngressProofs!ShownCurrent` | `Spec => []ShownIsCurrent` |
| `DeviceIngressProofs!DesiredSurvives` | `Spec => DesiredSurvivesReports` |
| `DeviceIngressProofs!VersionTells` | `Spec => VersionTellsContents` |
| `RefreshTokensProofs!OldSessionsEnd` | `TokensSpec => []OldSessionsOnlyCrossed` |
| `RefreshTokensProofs!FewOldSessions` | `TokensSpec => []OldSessionsBounded`: fewer sessions of before outlive a change than requests are served together |
| `ConsoleSessionProofs!ConsoleTypes` | `ConsoleSpec => []ConsoleTypeOK` |
| `ConsoleSessionProofs!ConsoleRefines` | `ConsoleSpec => TokensSpec` |
| `ConsoleSessionProofs!ConsoleOldSessionsEnd` | `ConsoleSpec => []OldSessionsOnlyCrossed` |
| `ConsoleSessionProofs!ConsoleFewOldSessions` | `ConsoleSpec => []OldSessionsBounded` |
| `ConsoleSessionProofs!GivesUpWithoutToken` | `ConsoleSpec => GivesUpOnlyWithoutToken` |
| `ConsoleSessionProofs!SpentCookieReplaced` | `ConsoleSpec => []SpentCookieHasSuccessor` |
| `CatalogProofs!CatalogTypes` | `Spec => []TypeOK` |
| `CatalogProofs!DeletedProductsEmpty` | `Spec => []DeletedProductsAreEmpty` |
| `CatalogProofs!DevicesHaveShadows` | `Spec => []ShadowComesWithDevice` |
| `CatalogProofs!CatalogQuotas` | `Spec => ImplementsQuotas` |
| `CatalogProofs!ProductOverrun` | `Spec => []ProductQuota!OverrunBounded` |
| `CatalogProofs!DeviceOverrun` | `Spec => [](\A p \in Products : DeviceQuota(p)!OverrunBounded)` |
| `FirmwareLibraryProofs!LibraryTypes` | `Spec => []TypeOK` |
| `FirmwareLibraryProofs!FirmwaresHaveFiles` | `Spec => []RowHasObject` |
| `FirmwareLibraryProofs!ObjectsAreReclaimed` | `Spec => []ObjectHasRow` |
| `FirmwareLibraryProofs!NamesDifferOrCrossed` | `Spec => []NamesDiffer` |
| `FirmwareLibraryProofs!FirmwareQuota` | `Spec => ImplementsLibraryQuota` |
| `FirmwareLibraryProofs!FirmwareOverrun` | `Spec => []LibraryQuota!OverrunBounded` |
| `EventStreamProofs!BindingsTypes` | `BindingsSpec => []BindingsTypeOK` |
| `EventStreamProofs!PrintedCodesHold` | `BindingsSpec => []ShownCodesHold` |
| `EventStreamProofs!CountersComeBack` | `BindingsSpec => []CountersExpire` |
| `EventStreamProofs!BindingNeedsCode` | `BindingsSpec => BoundByCurrentCode` |
| `EventStreamProofs!CommandsNeedBinding` | `BindingsSpec => CommandsComeFromBound` |
| `EventStreamProofs!StreamsTypes` | `EventSpec => []StreamsTypeOK` |
| `EventStreamProofs!StreamsLetGo` | `EventSpec => []EndedStreamsLetGo` |
| `EventStreamProofs!StreamsOnlyRead` | `EventSpec => BindingsSpec` |

In OtaTask, `NoOrphanRecords`, `NoForgottenTask` and `SuccessSynced` are each
inductive relative to `TypeOK`: the argument is per statement, in every state, not
only in those an idle system reaches. `NoForgottenTask` holds because each statement that removes
the last pending record is followed by a count in the same process (`Owes`), a
restarted or started task has just reset a record or is listed in `lostBy`, and
the scan's last statement looks at the records afresh.

In Command, `NothingClaimedUndelivered` is not inductive: a request about to
confirm could be one whose message was refused. `IInv` adds `DeliveryPrecedes`
(requests past publication and replies on their way stem from an accepted message),
`RowPrecedes` (a row is there exactly when its request has begun, and before
acceptance), `AttemptsLeft` (so that the attempt counter keeps its range) and
`DesiredOfPropertySets`. The refinement uses `RowPrecedes` to map each
action: `CreateCommand` to `Submit`, `PublishAccepted` and a `PublishThrows` that
published to `Accept`, the four writers of a final status to `Close`, everything
else to a stutter.

`StaleTokenIsReplaced` counts attempts lost while the broker refuses nothing, and
what limits them is the number of stale tokens about. A request loses an attempt only by carrying a stale token to the broker:
one it holds, one it finds in the cache, or one that another request, logging in since
before the restart, still puts there. `StaleCarriers(c)` is that set for the request
`c`, `StaleLosses(c)` its size plus the attempts lost. Every step but a restart
leaves the sum as it is or lowers it (`StaleLossesShrink`: what an attempt costs, a
carrier pays); a restart makes each request a carrier at most once. `LossesBounded`, with
`IInv`, is thus inductive, and the property is its weaker half.

In DeviceIngress even `TypeOK` is not inductive: a job's failures stay within its
attempts only because a report has one job. `IInv` adds `WorkFits` (an idle process
has no work, every other the kind of work its statement is about), `SessionBegan`,
`OneJob` (queue, backoffs and workers' hands are disjoint and hold each report at
most once), `JobsAlive` (a job's report has arrived and has an attempt left), `Fresh`
(a report that has not arrived has failed nothing) and `Snapshots`. The last carries
`ShownIsCurrent`: between its write and its event a handler holds a version that is at
most the row's and, if equal, the row's contents; another handler's write moves the
version past every one held. Three lemmas say what appending, prepending
and taking do to the set of queued jobs, and `StepKinds` sorts the steps into those
that leave all jobs alone and the eight that move one.

In RefreshTokens, `OldSessionsOnlyCrossed` speaks of tokens, and what may go wrong
sits in requests: `OutdatedAreCrossed` says that a request let in by an outdated
password is among the crossed ones, `PasswordsKnown` that nobody knows a password
of the future. ConsoleSession then shows that each step of the browser is one of
RefreshTokens or leaves the tokens alone (`ConsoleStepRefines`; it needs
`HeldIsIssued`: what the browser presents was issued), and takes the theorem over.
`SpentCookieHasSuccessor` rests on `IssuedIsFresh`: a token on its way to the browser is
held by one request, and nobody can have presented it.

How many old sessions there can be is a count of both kinds together (`OldAreFew`):
old live tokens, plus the requests that may still issue one (`Outdated`), are fewer than
all requests. The sweep takes the tokens to none and leaves at most the requests beside
its own; a sign-in moves one request from the second kind to the first; everything else
takes away. So a user whose requests come one at a time keeps no old session. The bound is
sharp: with two, a refresh let in before the sweep and signed in after it leaves one.

`GivesUpOnlyWithoutToken` rests on `GiveUpInv`. `Settled` says that nothing is left to
renew: an access cookie is there, or the refresh cookie is of no use. Once settled, a
browser stays so until its access cookie expires (`SettledStays`), which waits for
exchanges and retries. `RefusedWhenSettled` says that a refresh is refused, and a fetch
sent again, only when all is settled; `OwnRefreshInFlight` that a fetch of the present
document has no refresh but the one in flight; and `NoSecondRefresh` that, while a fetch
is about to be sent again, a later refresh of its document spends the cookie only if the
retry will find the access cookie.

In Catalog, `DeletionsKnown` says what a deletion about to remove the product knows
of its devices (those it has not counted came behind its back) and what a creation
knows of its product; in FirmwareLibrary, `UploadsApart` that an upload has its
firmware to itself until the row is there, and that its key is nowhere registered
before, `FilesKnown` where the file is at each statement, `CondemnedReferred` and `TakenIsOutrun` what a deletion and an upload still
know of what they looked up. The refinements of `Quota` count: one insert raises the
cardinality by one, one removal lowers it, everything else leaves rows and admitted
requests alone or admits or withdraws one. `FirmwareOverrun` bounds the overrun: when
a request is admitted, the rows are below the limit and it is not among the admitted
yet; a creation then only moves it from there to the rows. `ProductOverrun` and
`DeviceOverrun` are the same argument for Catalog (`BoundKept`), where other steps may
also remove a row or overtake a creation.

In Bindings, `ReadersKnow` says that a request between its reading and its writing is
among the crossed ones or its reading still holds. In EventStream, `ClosedLetGo`
(a stream closed by a failing write is on record) and `LoadsAreOpen` (only a started
stream has loads) make `EndedStreamsLetGo` inductive, and no step of a stream touches the
variables of Bindings.

Only model-checked: the five liveness properties (`SilentTaskEnds`,
`EveryCommandCloses`, `ReportHealsOnline`, `QueuedReportIsApplied`,
`FilterCatchesUp`). They hold by fairness, which is defined by ENABLED, and the prover
has no rules for it. Every
invariant and every action property that a run checks is also a theorem.

## 5. Plan

All of the plan's modules are there: OtaTask, Command with its contract, and
DeviceIngress first, as the paths every device depends on; then RefreshTokens with
ConsoleSession, Bindings with EventStream, and Quota with Catalog and
FirmwareLibrary; proofs for each. What a further step would take up, in this order:

1. group commands as requests of `Command` in sequence, ending at the first error, and
   which of two `desired` writes should win;
2. invitations: the use count checked and incremented in separate statements;
3. groups and their members against the deletion of devices.

## 6. Not modelled

* Group commands, invitations and registration, device groups (above); device
  secrets and their rotation; `updateProduct`, aliases, remarks: they write columns
  no other operation reads.
* Users exempt from quotas, organisations and permissions: decisions over one row.
* The patch tool and its temporary files, download links (public and permanent, derived
  from `file_url`), files of the local upload directory of earlier versions (no route
  writes them any more; `Elsewhere` in the model), MinIO's own state.
* Topic and payload parsing, logs, audit, dashboard: pure, or append-only and
  read by nobody who acts on it.
* Pages and panels of the console, the simulator, scripts and deployment.
* The generated Prisma client under `packages/db/src/generated`: about two thirds
  of the repository's TypeScript and none of its logic. Its statements are the models'
  atomic steps; the schema it is generated from is mapped where its enums, indexes and
  cascades matter. The models cover the services whose statements interleave, which
  are a small part of the remaining lines beside pages, routes and queries.
