# A TLA+ verification of soulcloud.js

soulcloud.js is a cloud platform for fleets of devices: an HTTP API, an MQTT broker, a PostgreSQL
database that both share, a plugin host, and a web interface. API and broker never call
each other: they meet in tables, with `pg_notify` as a hint to look sooner; only the plugin manager
calls plugin processes, over RPC, and browsers call the API. Correctness
therefore rests on conditional `UPDATE`s, leases, sweeps and `CHECK` constraints, and on what
happens *between* two statements of a process. That is what this project models.

## The system

| Component | State | Operations | Talks to |
|---|---|---|---|
| Command queue (`core/src/queue`) | `device_commands`, `devices.next_command_sequence` | enqueue, lease, mark accepted, defer, release, record a result, expire | API and plugins write, brokers lease |
| Command poller (`broker/src/mqtt/publish.ts`) | the leased command, the MQTT sessions of its process | sweep, lease, route, publish, mark | queue, registry, devices |
| Debug executions (`core/src/plugins/execution*.ts`) | `debug_executions` | enqueue with an idempotency key, cancel, renew, release, complete, expire | queue |
| OTA delivery (`core/src/ota/deploy.ts`) | `ota_jobs`, `ota_targets`, `device_firmware_state` | create a job, two sweeps, lease, release, mark delivered, mark delivering, record a result, confirm by firmware | API, brokers, devices |
| OTA poller (`broker/src/mqtt/ota-publish.ts`) | as the command poller | sweep, lease, publish, mark | OTA delivery |
| Rollouts (`core/src/ota/rollout.ts`, `api/src/rollout-poller.ts`, `api/src/api/rollout.ts`) | `ota_rollouts`, pool, phases | create, advance (a loop in every API process), pause, resume, abort, roll back | OTA jobs |
| Connection registry and presence (`broker/src/mqtt/connection-registry.ts`, `broker.ts`, `status.ts`) | sessions, subscriptions, topics authorised early, deferred offline timers | authenticate, register, replace, subscribe, disconnect, kick | pollers, aedes, `pg_notify` |
| Uplink dispatch (`broker/src/mqtt/dispatch.ts`, `core/src/queue/rate-limit.ts`) | per-device work queues, token buckets | admit within limits, handle in order, acknowledge | queue, OTA, logs, plugin events |
| WebSocket transport (`broker/src/mqtt/ws-adapter.ts`) | bytes of an unfinished frame | scan, pass on, write whole packets | aedes |
| Plugin tables (`core/src/plugins`) | `plugin_*` tables | install, migrate, bind, route, lease, complete, purge | managers, API, dispatch |
| Plugin manager and runtime | connections, circuits, operations, tokens of executions, page sessions | dispatch events, call plugins, start debug sessions, relay uploads, render pages | plugin tables, plugin process |
| SoulInjector plugin | its own schema: debug sessions, artifacts | start, report, abort, store chunks | manager (RPC) |
| Realtime streams (`api/src/api/*-stream.ts`, `ws-access.ts`) | subscribers, timers, baselines, re-checkers | listen, merge, read, push, close | `pg_notify`, tables (read only), browsers |
| Accounts (`core/src/auth`, `api/src/api/auth.ts`, `web/src/api/http.ts`) | `users`, `refresh_tokens`, one browser's storage and tabs | register, log in, rotate, revoke, share between tabs | API |
| Log archive (`core/src/logging`) | `raw_log_events`, `firmware_artifacts` | scan bundles, ingest, import, backfill, list, export | dispatch, API |
| Codecs, decoding, ELF, other pages | none | encode, decode, render | none |

What is hard in it, and hard to test:

* a lease that lapses while its holder is still working, so that two loops own one row;
* a process that dies between publishing and recording that it published;
* a sweep whose snapshot is older than the rows it writes;
* decisions taken from rows read several statements earlier (rollout phases, reported firmware);
* results that are repeated, reordered, late, or lost;
* several API processes running the same advance loop, against people pausing, resuming, aborting
  and rolling back;
* sessions replaced, restored, kicked or lost while their messages are being handled;
* a plugin that is replaced, rebound or migrated between the check, the call and the answer;
* two databases (the platform's and a plugin's) kept together only by calls that may fail;
* notifications that arrive while the answer to the previous one is being read;
* one-time credentials used twice by a browser that reloads;
* gates, ratios, page boundaries and byte counts at their limits.

`PROJECT.json` lists these under `hazards`, each at its line, with the properties that would notice.

## The modules

| Module | Models |
|---|---|
| `CommandQueue` | the queue, its pollers, the debug-execution commands, broker sessions and devices |
| `OrderedDelivery` | what the queue promises: an abstract specification without leases, brokers or clocks |
| `CommandQueueProofs` | theorems about `CommandQueue`; it implements `OrderedDelivery` |
| `OtaDelivery` | OTA targets, their pollers, devices that download, install, report and reboot |
| `TargetLife` | what a target promises to the rollout or deployment that created it |
| `OtaDeliveryProofs` | theorems about `OtaDelivery`; it implements `TargetLife` |
| `Rollout` | the plan, the phases, the advance loops and the lifecycle requests of one rollout |
| `RolloutPlanProofs`, `RolloutProofs` | theorems about the plan, and about the rollout |
| `Connections` | devices, connections and faults shared by the next two |
| `DeviceSessions` | authentication gate, connection registry, presence, revocation |
| `UplinkQueue` | rate limiter, bounded executor, acknowledgement gate |
| `BrokerProcess` | composes the two: one broker process with its devices |
| `BrokerProofs` | theorems about it |
| `MqttFraming` | MQTT frames in WebSocket messages, both directions |
| `PluginTables` | every transaction on the plugin tables |
| `PluginManager` | extends it: managers, connections, circuits, the plugin runtime |
| `PluginManagerProofs` | theorems about both |
| `DebugSessions` | debug executions, the manager's tokens, the plugin's sessions, device actions |
| `ArtifactUploads` | chunked, repeated uploads into the plugin's database |
| `PluginServicesProofs` | theorems about the two |
| `OtaStream`, `CommandStream`, `LogStream`, `StatusStream` | the four hubs of the API and what a page makes of their frames |
| `StreamAccess` | who may stay connected: handshake, membership re-checks, expiry, reconnection |
| `Accounts` | registration, login, refresh tokens, the tabs of one browser |
| `PluginUi` | one-time grants and page sessions of plugins |
| `Credentials` | composes the two: what a user holds and may spend once |
| `LogContainer` | the scan of a log bundle |
| `LogArchive` | ingest, import, releases, backfill |
| `Listings` | lists read in several queries |
| `ApiProofs` | theorems about `Credentials`, `LogArchive` and `Listings` |
| `MC*` | constants for TLC; `MCPluginServices`, `MCStreams` and `MCApi` put independent modules into one run |

`Rollout` sees a target as open, installed, completed or failed. That is the interface `TargetLife`
describes (with the rollout's own stall judgement, installed to failed, added), and `OtaDelivery` is
checked to implement it. `DebugSessions` sees installations and bindings as columns: what
`PluginTables` does to them, and what those transactions do to executions.

### Conventions

* **Grain.** A statement, or an interactive transaction, is one step. A loop or a request is a
  process (`pc`) that stops between its statements, so that any other process may run there. A
  request that never takes its next step is a request whose process died.
* **READ COMMITTED.** `expireDelayedCommands` selects ids in a subquery and updates by id, so
  PostgreSQL re-checks only the id of a row that changed meanwhile: the sweep is two steps
  (`SweepSelects`, `SweepCommits`). `expireOtaTargets` repeats its condition in the outer `WHERE`
  (deploy.ts:321 explains why) and is one step.
* **CHECK constraints.** A statement that would leave a row outside them fails as a whole
  (`SweepRejected`). `ChecksHold` shows that no other statement of the queue meets them.
* **Time.** A timestamp is absent, ahead of `now()` or behind it, and a step lets it pass. Batch
  limits of the sweeps (1000 rows) only make one sweep into several.
* **MQTT.** In `CommandQueue` and `OtaDelivery` a publication reaches a device whose session is on
  that broker and subscribed, else it is dropped and still succeeds (clean sessions;
  `MQTT_COMMAND_RETAIN` is refused in production, so nothing is retained). Sessions themselves,
  persistent ones too, are `DeviceSessions`.
* **aedes** is external: it authenticates, restores the subscriptions of a persistent session, closes
  the session it replaces, and only then emits `client`.
* **Transactions.** Row locks make most transactions of the plugin tables one step. The rotation of
  a refresh token is several, with the locks and snapshots of READ COMMITTED written out, because
  its comments argue from them.
* **Devices** may run a command twice, lose what they hold on a reboot, and repeat a result until it
  is acknowledged.
* **Merged or narrowed steps.** A manual pause and a timeout pause write the rollout and its phases
  in one step (`PauseRollout`, `TimeoutPausesRollout`; the code uses two statements of one transaction). `CommandQueue`
  and `OtaDelivery` give a device one broker connection at a time and handle one stat of a device at
  a time; overlapping sessions are `DeviceSessions`. The judgement of installed targets by the
  rollout's loop (`rollout.ts:558`) is a step of `Rollout`, not of `OtaDelivery`.
* **Data.** Payloads, names, provenance, authorisation and notifications are left out; they guard
  whole requests and change none of the state modelled. Ratios are exact fractions, where the code
  uses floating point. Distinct releases have distinct firmware identities. Every OTA target is
  modelled as a job of its own; a job's targets do not depend on each other. The modelled rollout
  has a baseline release (without one a rollback is refused).
* **Mutants.** Operators marked `(mutant)` are plausible mistakes in the definition that follows
  them; nothing in a specification uses them. With one in the place of its definition the property
  named in `PROJECT.json` fails.

### CommandQueue

`rows` is `device_commands`, a row per device and sequence number; `next` the per-device sequence;
`execs` the state of debug executions as the queue's queries see it (live, lapsed, paused, ended).
`pc`, `job` and `sweep` are the locals of a poll loop: the next statement, the leased command, the
ids its sweep has selected. `conn` and `subscribed` are the connection registries; `inbox` and
`uplink` what is on its way to and from a device. `published` is a history variable.

Actions carry the names of the functions: `EnqueueBatch`, `EnqueueDebugCommand`,
`RequestDebugCommandCancellation`, `SweepSelects`/`SweepCommits`/`SweepRejected`
(`expireDelayedCommands`), `LeaseNext`, `HandleLeasedCommand`, `DeferCommand`, `PublishToDevice`,
`MarkBrokerAccepted`, `ReleaseLease`, `RecordDeviceResult`. `AcknowledgementLost` is a result that
was recorded and is sent again. `CycleFails` is a database error, `BrokerCrashes` the loss of a
process with its sessions.

### OtaDelivery

`target` is `ota_targets`; `reported` is `device_firmware_state`; `asked` what `createOtaJob` read
of it before its transaction; `stat` the stat message a broker is handling, in two statements:
first the reported firmware, then the confirmation. `progress` is how far a device got with the
update of a target; a result may report any stage the device has been through, any time later, any
number of times. `known` is the history of `reported`.

### Rollout

`rollout`, `phase` and `sizes` are the tables; `jobs` the OTA jobs in the order of their creation,
with the state of each target. `mem` is what a loop or a request has read. The loop is
`AdvanceRollouts` (the scan), `AdvanceOneRollout` (the phases), `JudgePhase`, then one of
`FinishPhase`, `TimeoutPausesRollout`, `JudgeInstalledTargets`, and `ActivatePendingPhase` or
`CompleteRollout`. `resumeRollout` is five steps, `abortRollout` two, `rollbackRollout` five. Which
devices already run a release, and which are found stuck, is left open.

### DeviceSessions, UplinkQueue, BrokerProcess

`phase` is where a connection is in its life, `active` and `waiters` the `AuthSemaphore`, `session`,
`topics` and `pending` the registry, `subs` and `saved` what aedes keeps, `timer` the deferred
offline notifications, `shown` the last status notified, `revoked` and `kicks` the credentials. The
actions are the callbacks of `broker.ts` and the methods of the registry. `work` is the
`UplinkWorkQueue` (queues by device, active devices, ready list, counters), `tokens` the buckets,
`unacked` and `sent` what devices hold and have sent, `stored` the recorded messages. `Enqueue`,
`Drain`, `Finish` and `Answer` are the operations of the executor and the gate. The loop of `drain` is
given in closed form: the turns it takes are the shortest prefix of the ready list after which no slot is
free or no device is left (`DrainTurns`), and the devices it starts are those of the prefix that are
not active and have work (`Startable`). `QueueConsistent` weighs the work in units, a message of `s`
bytes as `s` of them, so that a counter is the size of a set. `BrokerProcess` joins them: an
error of a durable message closes its session, a restart loses everything in memory.

### PluginTables, PluginManager

The tables are variables of the same names; a build is a manifest with the shapes of its entities.
`applied` counts how often an event's effects were committed. A dispatch is a record in `batch[m]`
whose `phase` is the await it stands at; `circuits` are the breakers, `orphans` the handlers of the
runtime whose caller has gone. A connection that closes fails its calls at once; the plugin process
may come back as any deployed build.

### DebugSessions, ArtifactUploads

`execs` is `debug_executions`, `tokens` and `byDevice` the manager's memory, `starts` the progress of
`startDebugSession` through both databases, `sessions` the plugin's table, `events` the reports of a
device on their way through the manager, `encoding` a device action between its checks. In
`ArtifactUploads` an attempt sends chunk after chunk and may be abandoned with a call in flight; the
plugin's transaction stores, repeats, refuses or completes.

### The streams and StreamAccess

Each hub keeps its timers (`pendingTimers`), the push under way, the flag that asks for another,
its baseline or mark, and its subscribers; a push stops between its query and its frames. History
variables say what a page is owed: the state of the last notification that reached the hub while the
page was subscribed. The periodic REST polls of the pages would hide every loss and are left out.
`StreamAccess` has the user's membership, session and access tokens, each page's reconnecting
client, the connections of the server and the re-checkers, retired ones with a query in flight too.

### Accounts, PluginUi

`rows` is `refresh_tokens`; `reqs` the refresh transactions under way; `store` and `lock` the
browser's storage and Web Lock; `tabs` what a tab keeps in memory; `told` the history the properties
need. `PluginUi` has a clock, because grants, cookies and nonce rows expire independently.

### MqttFraming, LogContainer, LogArchive, Listings

The first two work on short sequences of bytes and compare what the scanner does, cut at any place,
with a reference definition of frames and of MessagePack values. `arcRows` are `raw_log_events` with
their artifact, `arcIngest` the bundle being stored, `arcReq` the uploads and bindings. `Listings`
has a table that grows and a reader that pages through it by cursor or by offset; `Query` is the set of
answers a `SELECT` with its order and limit may give.

## The runs

Every run finishes within about four minutes on two workers. Deadlock is not checked: all the
systems may rest once the bounded work is done. The numbers are distinct states. The type invariants
of `Rollout` and `OtaDelivery`, and `RollbackOfConfirmed`, are in no run: they are theorems.

| Run | Instance | What it shows |
|---|---|---|
| `command_queue_brokers` | 1 device, 2 commands, 2 brokers, 2 results, 1 crash; 1.2 million | `PublishedInOrder`, `AcceptedWasPublished`, `ChecksHold`, `TerminalRowsFrozen` for every interleaving of two loops, their sweeps, lapsing leases, deadlines and a device that answers twice |
| `command_queue_executions` | 1 device, 2 commands, 1 broker, 1 execution, 1 key, 1 drop, 1 crash where the executions have ended; 0.14 million | `KeepsPromise`: the queue implements `OrderedDelivery`; `OneRowPerKey`; under fairness `LeasesEnd` and `CompletedUnlessLost` |
| `command_queue_deadline` | 1 command, 1 drop | **violation** of `DeadlineReleasesQueue` |
| `rollout_lifecycle` | pool of 2 in 2 phases, 1 loop, pause, resume, abort, 2 rollbacks, timeouts; 1.1 million | `StartedPhasesHaveJobs`, `CompletedPhasesMetGate`, `OneUpgradePerDevice`, `OneLiveRollback`, `Irreversible` |
| `rollout_advance` | every plan of a pool of 3 (five ratio lists, two groupings), 2 loops, 1 failure | `GateHolds`, `CompletedCoversPool`, `RunsToCompletion` while nothing times out or is paused |
| `ota_delivery` | 1 target, 2 brokers, 1 crash, 1 drop, manual binding; 0.2 million | `DeliveredWasPublished`; `KeepsTargetLife`: the delivery implements `TargetLife`; `TargetsSettle`, `InstalledIsConfirmed` |
| `broker` | 2 devices, 3 connections (2 of a persistent device), queue of 2; a durable report, a stat and a message of the other device, with 1 fault, or two durable reports of one device and an oversized one, without; 0.13 million | `QueueConsistent`, `DurableBeforeAck`, `RegistryTellsTruth`, `NoFalseOffline`, and `ReportsRecorded` in the end |
| `plugins` | 2 managers, 3 builds of 2 versions, 1 event, 1 fault, 2 changes; 0.36 million | `StatesReadable`, `EffectsOnce`, `AnsweredByItsBuild`, and `EventsSettle` |
| `plugin_services` | 2 executions, 1 event, 2 installations, 2 changes; an upload of 3 chunks in 3 attempts; 1.8 million | `ControlIsCurrent`, `EndedByItsOwnSession`, `ArtifactsWhole` |
| `streams` | 2 sockets on each stream, 3 changes, slices of 2, 1 fault; 1.2 million | `StreamsSettle` |
| `stream_access` | 2 pages, 3 connections, room for 2, 2 re-checkers; 1 fault, or 2 access tokens; 0.5 million | `AccessSettles` |
| `api` | 2 tabs, 3 tokens, 1 reload or failure; 1 grant, 2 managers; streams of 6 bytes, bundles of 3; 2 devices, 2 builds, 2 uploads; lists of 4 rows; 1.8 million | `CredentialsSpentOnce`, `FramingFaithful`, `ContainerFaithful`, `EventsLinked`, `ListingsComplete` |

Why these bounds suffice: devices share nothing in the queue but the brokers, so one device with two
commands has every conflict of order, and two brokers every conflict of leases; a third command or
broker adds repetitions of the same pairs. (The theorems below drop the bounds altogether.) A pool
of three with quarter ratios has phases that add no device and phases that round up. Two phases are
enough for one to overtake the other; two rollbacks and one terminal job exercise every way the slot
can be claimed. In the broker, three connections let one session replace another while the other
device competes for the executor, whose limits (two at a time, two outstanding, three bytes) are all
reached. Two managers and two lease tokens let a lapsed lease be renewed by the
other; a circuit that opens at the first failure reaches every state of the breaker. Three attempts
of three chunks overtake each other in every way a body with a middle chunk allows. Two sockets let
one subscribe or leave during the push to the other. Room for two of three connections lets the
handshake of a page meet a hub that is still full of its old connections.

Some runs start from several states, each reachable, so that two sources of disturbance need not be
multiplied. The executions run and nothing of the broker fails, or they have ended and a broker may
crash (`MCCommandQueue`). A device has a report to send beside other messages and a fault to come, or
two reports that only the limits can stop (`Loads` in `MCBroker`). Lookups and connections may fail
while the last access token lasts, or tokens expire and nothing fails (`AccStarts` in `MCStreams`). The
archive is empty and nothing fails, or both devices have reported and a request may die (`MCApi`). The
account starts from nothing, logged out with faults to come, or logged in with faults to come and all three tokens
to spend. Streams of six bytes hold a frame with two
length bytes and the beginning of the next.

Fairness. Poll loops run from `setInterval`, every statement ends or fails, and failures are
bounded, so each loop's next statement is weakly fair. A loop alternates between sweeping and
leasing and other loops may be faster, so sweeps and leases are strongly fair. Timestamps pass.
Devices reconnect, subscribe, execute what they hold and send their heartbeat; in `OtaDelivery`
nothing makes a device answer a notice. `RunsToCompletion` assumes a device that can confirm its
firmware does so unless it fails.

In `BrokerProcess` the callbacks of aedes and the handlers run, buckets refill, and devices reconnect
and send again what was not acknowledged (MQTT QoS 1); nobody has to connect first, subscribe or
revoke. In `PluginManager` the steps of a dispatch, the consumer's interval, reconnection and the
timers are weakly fair; a lease ends unless its holder renews it. In the streams, timers fire,
queries answer or fail, listeners and pages reconnect, and notifications that are not lost arrive;
in `StreamAccess` a page whose access token has expired makes some REST request, which is what
refreshes it (`RestRefresh`). Crashes, faults and requests of people are never fair.

## What the violation shows

One disagreement between the code and what is said of it has a run of its own. The others are
described in the next section; their properties are stated with the exception in view, and name it.

**An accepted command cannot expire** (`command_queue_deadline`). The sweep does not clear
`broker_accepted_at`, and the table refuses a `delivery_failed` row that has it. One such row fails
the whole `UPDATE` in every sweep; the queue of its device, and every other deadline, waits for the
device's result. The tests expire queued rows only.

## Where the properties stop

While modelling, these behaviours of the code came up. The properties are stated so that they hold
beside them, and the definitions say where. Paths are below `src/packages`.

*Commands, OTA, rollouts.*

* A command the broker accepted and the device lost is not leased again (`lease.ts:101` asks for
  `queued`, or `leased` and lapsed), and the later commands of the device wait behind it.
  `core/src/queue/enqueue.ts:56` and `docs/en/command-queue.md:53` say without an exception that a
  command without a deadline is retried until the device completes it;
  `docs/en/plan-command-deadline.md:14` acknowledges the gap. `CompletedUnlessLost` is checked with
  a device that drops its connection or reboots: it promises completion unless an accepted command of
  the device was `Lost`, and claims nothing after that. A leased command of an execution that died,
  whose broker crashed, stays leased (`lease.ts:58`); it holds nothing up.
* `activatePendingPhase` (`rollout.ts:610`) asks for the state of the phase only. A loop past its
  scan activates a phase after an abort, against the comment at `rollout.ts:737`; and of two loops
  that scanned the rollout, one may time the phase out and the other, finding no active phase
  (`rollout.ts:457`), start the next behind an unmet gate, against `rollout.ts:19`. TLC confirmed
  both while the module was written. `GateHolds` is therefore checked where nothing times out or is
  paused. `resumeRollout` makes the rollout running in one statement and its phases active in others
  (`rollout.ts:691`): a loop in between takes it for one that waits and starts the next phase, and
  the phases may become active after an abort in between. `OneUpgradePerDevice` and `Irreversible`
  hold through all of this. The two `UPDATE`s of a timeout (`rollout.ts:538`) may be separated by a
  pause and a resume, which leaves a running rollout with a paused phase until it is paused and
  resumed again. A device that confirms after a rollback read the confirmed devices
  (`rollout.ts:800`) is not rolled back.
* A publisher slower than its lease has its target expired after the notice went out
  (`deploy.ts:337`); the device upgrades and the target stays expired.

*Broker.*

* aedes restores the subscriptions of a persistent session before it announces the client. If the
  session it replaces is still registered, `connection-registry.ts:122` writes the topics into the old
  entry, and the new one starts without them: the pollers take the device for one that is not
  subscribed, against `connection-registry.ts:19` ("restored sessions behave exactly like fresh
  ones"). `RegistryTellsTruth` asks that the topics of an entry are exactly what aedes has its client
  subscribed to, and exempts only clients that came while an older session was there (`overlapped`).
* A limit that refuses a durable report closes the session, and answers on their way are lost with it. A
  device that sends two reports again after every such error can starve itself. `ReportsRecorded`
  is checked with two durable reports of one device; it exempts a device the limits refuse over
  and over (`RefusedByLimit`) and one whose credentials are revoked again and again.
* The limiter takes a token for each element of a container (`dispatch.ts:241`), where
  `docs/en/protocol-log-packaging.md:62` speaks of publishes; no property depends on it.
* Status notifications are not awaited and may overtake each other; `shown` is what was asked for.
* Credentials revoked while a client authenticates let that session in until the next kick.

*Plugins.*

* An event routed to a version that no longer runs is deferred for ever, and its failures count
  against the circuit of its installation: `EventsSettle` excludes it (`Stranded`).
* Commands a handler staged are lost if the connection closes between the seal of the operation and
  its reading (`manager/events.ts:281`); a permanent release leaves a half-open probe to its time-out.
* A `startSession` that answers after the abort leaves an active session of a failed execution in the
  plugin's database; the state `cancelling` is written by nobody.
* A repeated upload of which two or more chunks were received is refused by the manager's progress
  check (`manager/actions.ts:686`), although `repository/artifacts.ts:1` calls uploads idempotent.

*Accounts.*

* `revokeAllForUser` (`tokens.ts:250`) does not see the successor of a token that is being rotated
  when it takes its snapshot, although `tokens.ts:171` says that reuse revokes the whole chain and
  the comment at `tokens.ts:179` argues that the gap is closed. `told.spared` records those
  rotations; `ReuseEndsFamily` excepts what descends from them and nothing else.
* A page reloaded during a refresh, a logout racing another tab's refresh, and two tabs without Web
  Locks replay a spent token, and reuse detection ends every session. `ReplayExplained` says that
  nothing else does. Any failed restore removes the token the tabs share (`AuthContext.tsx:85`).

*Streams.*

* The REST answer of `OtaJobPage` may arrive after a frame and show older data until the next poll;
  a new subscriber gets nothing until the next notification; calls of `resolveAndPush` for one device
  are not ordered. `OtaPagesCurrent` and `StatusCurrent` except these.
* A log event that is committed after one with a higher id may be passed by the mark; a baseline
  query that ends after its socket left leaves a stale mark. `LogsComplete` counts what was due.
* A failed lookup closes a member's socket with 4403 when it opens (`ota-stream.ts:522`,
  `command-stream.ts:427`), which `webSocketStream.ts:140` takes for lost access: the page never
  connects again, against `ws-access.ts:55` ("never kill on hiccups"). In `log-stream.ts:458` nothing
  catches the failure: it is modelled as a socket that stays open and unchecked until its token
  ends (the process may also die of the unhandled rejection). `LookupFails` is the step,
  `accCut` the pages cut off; `AccessRight` exempts these pages and sockets only.
* A push that finds no mark makes the newest event the mark (`PushBaseline`, in `pushEvents`), and what
  it passes over is sent to nobody: "lossy by design". The same happens to connections whose own
  baseline query failed when another one's (`log-stream.ts:99`) sets the mark (`Silenced`). The history
  variable `logDue` forgets these events, so that `LogsComplete` covers the doubled event and the one
  skipped by the mark's other moves, not these.
* Membership is cached for five seconds; code 4401 means both a full server and an expired token.

*Archive and lists.*

* An element that cannot be delimited (nested deeper than the scanner goes, or beginning with 0xc1)
  makes `container.ts:189` reject its whole bundle, although `docs/en/protocol-log-packaging.md:54`
  says that one bad element never invalidates its siblings, line 175 that malformed elements are dropped
  and counted, and `container.ts:15` that packets are bounded on their own. `ContainerFaithful` accepts,
  for a bundle with such an element only, either the rejection or the packets of the siblings.
* A request that dies between the import and the backfill, or a release uploaded with an ELF, leaves
  older events unlinked, and a later upload of the same artifact does not backfill
  (`api/src/api/logging.ts:161`), against `core/src/logging/artifact.ts:257`. Events stored after the
  backfill by an ingest that had looked before the import stay unlinked. `EventsLinked` speaks of
  what a finished backfill looked for.
* The backfill takes every undecoded event of a device whose *latest* report is the build, whatever
  build the event came in with. `EventsLinked` asks of such a link that the device was found on
  that build, and of an event whose artifact was known at ingest that it keeps exactly that one.
* Lists by offset may repeat rows when rows are added, and may skip jobs or rollouts created at the
  same moment. `ListingsComplete` asks that nothing else is skipped.

## What is proved

The theorems hold for every value of the constants: any sets of devices, brokers, connections,
messages, loops, requests, builds and events, and any bounds. They rest on the named assumptions of the
modules, which every run evaluates: bounds are natural numbers, functions from ids to their owners
(a device of an execution, a sender of a message, an upload of an attempt) have their types, null values
are no values, ratios and group sizes are natural numbers (`RolloutPlans`), and a device reports only states
the protocol has (`ReportsAreStates`).

Every invariant is proved from an inductive one, which TLC checked on the run of its module before
it was proved. A proof has one step per action and below it one per part of the invariant that the
action can disturb; what the statements of the code do to a row is said once, in lemmas.

### Command queue (`CommandQueueProofs`)

`TypeCorrect`, `OrderedPublication` (`PublishedInOrder`), `AcceptanceIsPublication`
(`AcceptedWasPublished`), `ConstraintsKept` (`ChecksHold`) and `TerminalForGood`
(`TerminalRowsFrozen`) follow from `Invariant`, `Spec => []IInv`. The order and the acceptance are not
inductive on their own. `IInv` adds: a row exists exactly below its device's next sequence number, and
one that does not exist is in no sweep's snapshot; a loop past its lease holds a command; whatever is in
an inbox, on an uplink or about to be marked was published; and a command that is leased, accepted,
completed, published or held by a loop has only terminal plain rows before it. The key point is that
this last fact outlives the lease: it was true when the row was leased, and terminal rows never
become pending again, so a loop that lost its lease may still publish without overtaking.

`TerminalForGood` uses the invariant in two places: an enqueue writes only rows that do not exist
yet, and the sweep, whose `UPDATE` is qualified by id alone, is stopped at a completed row only
because the result column would then break a CHECK constraint (`SweepFreezes`). Every other write
asks for a pending or leased row itself.

`KeysNameOneRow` (`OneRowPerKey`) and `QueueKeepsPromise` (`KeepsPromise`, the refinement of
`OrderedDelivery`) rest on one lemma: whatever transaction ran, the table saw an enqueue, a
publication, one completion, some failures, or nothing an observer of phases, executions, keys and
results can tell. Each of the first four is then shown to be the abstract action of that name, and the
last a stutter.

### OTA delivery (`OtaDeliveryProofs`)

`TypeCorrect`, `DeliveryIsPublication` (`DeliveredWasPublished`) and `DeliveryKeepsTargetLife`
(`KeepsTargetLife`, the refinement of `TargetLife`). The invariant adds that a loop in the middle of
its work has a target, that whatever it is about to mark and whatever a device works on was
published, and `Evidence`: behind everything that can confirm a target, however old the
reading, there is a report of its device.

### Rollouts (`RolloutPlanProofs`, `RolloutProofs`)

`PlansAddUp` and `PlansPartitionPool` are the arithmetic of plans: for any pool, ratios that are rounded
up and groups that add up give phases that are not empty, share no device and together are the
pool. A plan is computed by a fold, and what a fold computes needs induction; the library's
induction theorems take an operator as a parameter, which the provers cannot instantiate. The proofs
argue instead from the least element of a set of naturals (the first length for which the claim
fails), which needs none.

`RolloutInvariant` is the inductive invariant under every interleaving of loops, requests, timeouts
and crashes. It says which phase every upgrade belongs to, that it covers the phase's slice of the
plan, and what a loop or request that stopped between two statements knows (`Knows`): the job
of the phase it judges is still the phase's job, a gate it found met is still met, devices it found
confirmed are still confirmed, a rollback it found spent is still spent. From it follow
`RolloutTypes`, `PhasesHaveJobs`, `GatesAreMet`, `NoSecondUpgrade`, `RollbacksAreOfConfirmed`,
`AtMostOneLiveRollback` and `SettledStaysSettled`. Each of the model's many steps is first shown to
be one of four changes of the tables (`TablesChange`) by an actor that moves with what it may know
(`ActorMoves`); the invariant is preserved by each pair of them.

`PhasesInOrder` (`GateHolds`) and `CompletionCoversPool` (`CompletedCoversPool`) are claims about
loops that nothing disturbs, as in the run: their hypotheses are `Requests = {}` and
`TimeoutsHappen = FALSE`. With a timeout or a pause they fail, as "Where the properties stop" explains:
of two loops that scanned the rollout, one may time the phase out and the other start the next one
behind a gate that was not met (`rollout.ts:610`). Any number of loops may still crash and race. `LInv` adds that what a
loop has read of the phases is a state they have been in, and what was completed then is completed
now.

### Broker process (`BrokerProofs`)

`RegistryIsTrue` (`RegistryTellsTruth`) and `NeverFalselyOffline` (`NoFalseOffline`) follow from
`SessionsInvariant`: the registry has an entry for exactly the clients aedes has announced and not
yet ended, a connection waits for authentication at most once, topics are buffered only while there is no
entry, and only those a persistent session restores. What became of restored topics is `RestoredTopics`, an
invariant of its own: unless an older session of the device was still there, they are buffered
until the client is announced, and in its entry after that. `AcknowledgedIsRecorded` (`DurableBeforeAck`)
needs nothing but the answer gate.

`BooksAreKept` (`QueueConsistent`) and `WithinLimits` follow from `QueueBooks`. `QueueInv` adds to
the property that work waits in the queue of its own device, that a device runs one handler at a
time (which makes active devices and running handlers the same number), and that the sets of units
are finite. A counter is compared with a cardinality, so each operation is shown to move units and to
neither make nor lose any: an accepted message adds exactly its own (`AppendWeighs`), a drain pairs
the units of the work it starts off with the running ones and moves what is behind them down by one
place (`StartsWeigh`, `MovesDown`), a finished handler takes its own away. That a drain leaves nobody
waiting beside a free slot follows from the choice of its last turn. The limits hold because an enqueue
asks before it adds, and what a finish subtracts was there.

### Plugin tables and managers (`PluginManagerProofs`)

`PluginsInvariant` has two halves. About the tables: a revision of a key is written once and every
key has a newest one, which alone may be in force (`Descriptors`); and the rows in force for a
profile with a device are exactly what its installation's build declares (`InForceWhereBound`). The
lemmas `Registration`, `RegisteringEvery` and `DeprecatingUnbound` say what the three operators on
descriptors do for any rows: nothing written is lost or changes its shape, other profiles are left
alone, and what was in force for the same build stays. `ValuesAreReadable` (`StatesReadable`)
then holds because a rebinding clears what its device leaves behind, a migration deletes what lost
its row, a row that came back into force has the shape it always had, and a late completion
that is still current finds the row in force by its shape.

About the queue: a dispatch carries its event's build; while it is between the check of the
connection and the call, with its operation alive, the connection is open to that build; and from the
call to the seal the answer is that build's unless the operation has ended. `EventsTakeEffectOnce`
(`EffectsOnce`) and `AnswersAreTheBuilds` (`AnsweredByItsBuild`) follow, for any number of managers
that lease one event in turn, reconnect to another build, crash and restart.

### Debug sessions and uploads (`PluginServicesProofs`)

`DebugInvariant` gives `PermissionsStayCurrent` (`ControlIsCurrent`) and `OldSessionsEndNothing`
(`EndedByItsOwnSession`): an event that is about to complete an execution names it, and its session
has ended by then. `UploadsAreWhole` (`ArtifactsWhole`) rests on the row of an upload: without an
artifact it holds a proper beginning of the body in order, and an artifact of the current hour exists only
if the row says so. The two components are independent; the run puts them side by side, the
theorems are about `DebugSpec` and `UploadsSpec`, the specification of each.

### Credentials, archive and lists (`ApiProofs`)

`CredentialsAreSpentOnce` (`CredentialsSpentOnce`) follows from `CredentialBooks`, for any tabs, tokens,
requests, grants and managers. For plugin pages the invariant is that the row of a spent nonce
outlives its grant, so that a purge never makes one usable again (`RowsOutlive`). For refresh
tokens it follows every request through its statements: a token that another was rotated from is
revoked and has no second successor (`RowsDescend`); a request that claimed a row holds its lock until it
commits, and its successor is nobody else's until its answer is read (`LocksHeld`, `Successors`);
whatever is presented was issued, and the tab that has sent a refresh holds the Web Lock
(`Presented`, `OneSender`); a token that is presented when spent, or twice at a time, is one the
history excuses (`Excuses`); and a request that has taken the snapshot of the user's sessions saw an
ancestor of every usable descendant of its token, or that descendant itself (`ScansCover`). The last is
what `ReuseEndsFamily` needs and what no single statement shows. Descent is the least
set closed under "was rotated from" (`Lineage`), so that no induction is needed to argue about it. The
theorem starts from the initial states of the two modules; the run starts also from states in which the user
is logged in or has logged out, to reach further within its three tokens.

`EventsAreLinked` (`EventsLinked`) and `ListingsAreComplete` (`ListingsComplete`) are each on its
module's own specification. `ArchiveInv` says what an ingest between its lookup and its insert, and
a backfill between its reading and its update, know: a link the one carries is sound, and the
devices the other read are of its project and had its build. `ListInv` says of a cursor
that what was read is in order and has every old row before its last one; and of an offset that an old
row whose place is settled is in the list, or at least as many rows come before it as were read. Rows
stored meanwhile only add to those before it, so it is never passed over, whatever the page size.

### Only model-checked

* Everything that must eventually happen (`LeasesEnd`, `CompletedUnlessLost`, `RunsToCompletion`,
  `TargetsSettle`, `InstalledIsConfirmed`, `ReportsRecorded`, `EventsSettle`, `StreamsSettle`,
  `AccessSettles`): fairness and `ENABLED` are beyond the prover.
* `FramingFaithful` compares two folds over a stream of bytes,
  and `ContainerFaithful` a scan with a recursive definition of MessagePack values. What they compute
  for every input needs induction over data, and a recursive operator costs the prover its SMT backend.

## Plan

The model covers what it set out to cover and every invariant of the runs is a theorem but for the two
above. What could follow: `FramingFaithful`, along the argument of `RolloutPlanProofs`
(the least length for which two folds differ), and the refinement of `Rollout`'s view of a target by
`TargetLife`, which today is an agreement of two modules by inspection.

## Not modelled

* Log decoding, rendering and ELF parsing, the wire codecs and topic names: functions of bytes
  without state, whose specification would repeat them.
* Password hashing, signatures, TLS, HTTP plumbing, configuration, start-up order.
* Target configurations, cases and reports of the SoulInjector plugin, the reading of artifacts and
  of firmware downloads: single statements, or streams of one reader.
* The RPC contract and the schema validation of plugin messages.
* The pages of the web interface that only show what they load.

`PROJECT.json` lists each component with its status and reason.
