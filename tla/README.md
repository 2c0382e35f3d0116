# StreamSkope: a TLA+ model

StreamSkope is a desktop and web client for Kafka and NATS. Its state machines are
TypeScript classes that run on one event loop: nothing is preempted, and every `await` is a
place where any other call, timer or answer may come first. The hard parts are therefore
*asynchronous ownership* (who closes a connection that opened after its caller gave up),
*stale continuations* (state read before an `await` and used after it), *bounded cleanup*
(a five-second timer racing a late answer), *queues and leases at their limits*, and *durable
state written in several steps*.

All paths below are relative to the repository root. In the models one action is one
uninterrupted stretch of code between two awaits.

## 1. Inventory

### Kafka application (`src/features/kafka/application`)

| Component | State | Operations | What makes it correct |
| --- | --- | --- | --- |
| Session (`session.ts`, `session-lifecycle.ts`) | generation, active connection, snapshot, connection attempt, tracked closes, active or pending consumption, stop barrier | connect, disconnect, shutdown, startConsumption, stopConsumption | the newest operation wins; every opened connection is closed or serves; one stream at a time; "disconnected" is published only over a quiet session |
| Session requests (`session-requests.ts`) | one map of running requests per feature | list, read, alter, probe, test, cancel | a read never delivers across a reconnect; a mutation keeps its acknowledgement; cleanup failures reach the operation that awaits them |
| Connection scopes (`connection-scope.ts`) | none of its own: a captured connection and generation | before/after fences around reads and reviewed writes | a rejected admission stays unsent; an admitted write keeps its result |
| Reviewed writes (`reviewed-write-service.ts`, `acl-review-service.ts`, `offset-reset-service.ts`, `connect-offset.ts`, `topic-administration.ts`, ...) | one reviewed plan, its scope, whether it was used | review, apply | a plan is applied at most once, only on the connection and the state it was reviewed against |
| Replay and repair (`record-replay-service.ts`, `repair-journal.ts`, `repair-recovery.ts`) | plan, journal of intents and outcomes | plan, run, recover | a record is never sent twice; an unknown outcome is never reported as unsent |
| Record export (`record-export-service.ts`) | jobs, one artifact each | start, cancel, remove, recover | an artifact is complete or absent |
| Observation (`observation-service.ts`, `observation-watch.ts`, `record-sample`, `rollups`) | current watch, samples, history | start, stop, sample | one watch at a time; history belongs to one connection |
| Latency, analysis, locator, finite reads, correlation | one run each | start, cancel | at most one run; a cancelled run publishes nothing |
| Trust acquisition (`trust-acquisition-service.ts`, `trust-acquisition-lifecycle.ts`) | one pending acquisition | start, confirm, cancel | one tunnel, closed on every path |
| Rules (`rule-service.ts`, `live-rule-runtime.ts`) | rules, matches | save, evaluate | a live rule never runs against an older revision |
| Profiles, environments, preferences, query library, topic configuration | one stored document each | load, save, remove | a save never overwrites a newer one |

### Kafka engine and facade

| Component | State | Operations | What makes it correct |
| --- | --- | --- | --- |
| Engine (`engine/engine.ts`, `engine/adapters/platformatic`, `owned-kafka-resources.ts`) | clients, streams, admin resources | open, close, read | a resource is closed exactly once |
| Facade (`facade/facade.ts`, `consumption-facade.ts`, `command-admission.ts`, `feature-lifecycle.ts`) | external signals, idle waits, phase | every renderer command, shutdown | shutdown waits for every owner; a command admitted before it is drained |
| Message queue (`message-queue.ts`, `message-flush.ts`) | records waiting for delivery, their bytes | enqueue, flush, drop | byte and count limits; order |

### NATS (`src/features/nats`)

| Component | State | Operations | What makes it correct |
| --- | --- | --- | --- |
| Session (`application/session.ts`) | newest intents, connection and subscription snapshots with their revisions, profile reservations, a latched cleanup failure | connect, disconnect, startStream, stopStream, shutdown | what is shown is what the engine owns; brokers are never joined; a failed cleanup is latched; a viewer that keeps the newest revision converges |
| Record buffer (`application/record-buffer.ts`) | records and bytes, received, omitted and published counters, one flush timer | receive, flush, close | limits; every record is queued, published or omitted; none is stranded |
| Profile service, engine, facade | stored profiles; one client with its connection and subscription | | the engine owns what it opened until its close is confirmed |

### Platform (`src/platform`)

| Component | State | Operations | What makes it correct |
| --- | --- | --- | --- |
| Provider host (`node/provider-host.ts`, `providers/operation-ownership.ts`) | active provider, running operations | select, run, close | only one provider serves; a switch waits for the old one's cleanup |
| Accounted event queue (`node/accounted-provider-event-queue.ts`), SSE and Electron delivery | queued events, bytes, leases, pressure | push, take, acknowledge | limits; a lifecycle event is never dropped; a lease is returned once |
| Web gateway and HTTP host (`node/web-gateway.ts`, `node/provider-http-host.ts`) | sessions, streams | | |
| Passphrase vault (`node/vault/passphrase-vault.ts`) | locked or unlocked, key | create, unlock, change, lock | a failed change leaves the old passphrase valid |
| Plugin store (`node/plugins/store.ts`) | per plugin an installation record and the package directories beside it | activatePending, rollback, prepareInstall, commitInstall, discardInstall, install, remove, uninstall | after any crash the record points at packages that once loaded and whose files are in place or were moved beside it |
| Plugin runtime (`node/plugins/runtime.ts`, `transition.ts`, `change-authority.ts`, `installer.ts`) | backends, requests, the queue of changes, intents, consents, exits | start, install, retry, remove, their reviews, recovery, exit review, request, close | one backend serves a plugin; busy work stops only with consent; the newest intent commits; the host ends clean |
| Plugin acquisition and delivery | downloads, candidates, a cache | | |
| Stores, SSH session, browser runtime, export artifacts | files, one SSH session | | |

### The rest

`src/features/*/ui`, `src/platform/ui` and `src/platform/electron/renderer` present state and
forward commands; `src/platform/electron/preload` is the bridge between them and the main
process. `src/features/*/contracts` and `src/plugins` are types and parsers. `plugins/eda` and
`plugins/nsp` are plugins of that API; `vendors/` holds the capture agent, a Go program; `tools/`,
`website/`, `deployment/`, `aio-kafka/`, `aio-nats/` and `sandbox/` are build, documentation and
lab material. `PROJECT.json` lists every component with its status.

### How the parts interact

The UI sends commands to the facade, through Electron IPC or the web gateway. The facade checks
that the command is admitted, adds an abort signal of its own (it aborts on the next connect or
disconnect) and calls the application. The session opens a connection through a port and lends
it: streams, reads, probes and reviewed writes borrow it and are fenced with the generation
they saw. The NATS session does the same with intents in the place of generations and one
engine that owns every resource. Events flow back through the message queue and the accounted event queue to the
renderer, which acknowledges them.

A plugin is a package on disk and a backend in memory. The runtime admits one change at a time;
a change asks the store for a candidate package, loads a backend from it, asks the user when the
backend that serves is busy, drains that backend's requests, commits the selection in the store
and closes what it replaced. The store does one operation at a time, over files that a crash can
leave between any two steps.

## 2. What is modelled

### The Kafka session

| Module | Models |
| --- | --- |
| `KafkaSessionFields` | the fields the parts of the session share: generation, shutdown flag, snapshot, active connection, what became of each opened connection |
| `KafkaConsumption` | startConsumption, openConsumption, stopConsumption, the pump and the stop barrier |
| `KafkaSessionRequests` | the request registry: start, replacement, abort, fence, settlement |
| `KafkaSession` | connect, disconnect and shutdown, composed with the two above |
| `KafkaSessionProperties` | the properties |
| `ConnectionLease` | the abstract specification: a lease on the cluster, revoked by every call and granted once by the newest attempt |
| `KafkaSessionProofs` | the theorems: ownership and the lease; the stop barrier, "disconnected" and the reads |

*State.* An operation is named by the generation it takes, and a connection by the generation of
the attempt that opened it. `ops[g].phase` is the await at which `establishConnection`,
`completeDisconnect` or `completeShutdown` is suspended; the other fields of the record are the
promises it holds (`closes`, `stop`, `attempt`, `reqs`). `consumptions[k].phase` plays the same
part for `openConsumption` and `pumpConsumption`. `closures` is `connectionClosures`;
`consumptionStop` with `stop`, `previous` and `covered` is the stop barrier.

*Actions.* `Connect`, `Disconnect`, `Shutdown`, `StartConsumption`, `StopConsumption` and
`StartRequest` are the synchronous parts of the calls, everything up to their first await. The
other actions are the continuations: a cleanup settles or its timer fires (`CleanupSettles`,
`CleanupExpires`, `EndSettles`, `EndExpires`), the port answers (`OpenSucceeds`, `OpenFails`,
`TrackedConnectionCloses`, `LateConnectionCloses`, `CancelledConnectionCloses`), a stream opens,
ends or closes, a request settles.

*Abstractions.* Records, brokers and configuration are left out. The generation of consumptions
is folded into the identity of the consumption. A continuation that only runs microtasks after
the one before it is part of the same action, except where the code re-reads shared state after
it: the microtask of `closeCancelledConnection` is the phase "installing", and
`CallsDuringInstall` says whether a call can fall into it. An observer that throws on a failure
it is told of leaves the same rejected barrier as a refused close, so both are one outcome. The abort signal that
a caller may pass to a read is left out: the facade passes none.

### The NATS session

| Module | Models |
| --- | --- |
| `NatsSession` | `application/session.ts` over an abstract engine |
| `NatsSessionProperties` | the properties |
| `NatsSessionProofs` | the theorems |
| `NatsRecordBuffer` | `application/record-buffer.ts`, with its properties |
| `NatsRecordBufferProofs` | the theorems about the buffer |

*State.* A call is named by its number, which is also the intent it takes: `connectionIntent` and
`subscriptionIntent` are `#connectionIntent` and `#subscriptionIntent`, compared by
`OwnsConnection` and `OwnsSubscription` (`assertConnection`, `assertSubscription`) after every
await. `calls[i].phase` is the await at which the call is suspended. `revisions` are the counters
that a new snapshot takes its number from, `shown` the numbers of the two snapshots, and `viewed`
is what a workspace holds that drops every snapshot older than its own.

*Actions.* `Connect`, `Disconnect`, `Start`, `Stop` and `Shutdown` are the synchronous parts of the
calls. Each queues one microtask, and microtasks run in order before anything answers (`RunNext`).
The continuations follow: the profile resolves or not, the engine connects, subscribes, refuses,
loses a connection, fails a subscription, and settles each cleanup with success or failure.

*Abstractions.* The engine retires everything it owns when it is told to disconnect, and the call
succeeds only if all of it closes; the outcome of one engine call is therefore all or nothing, and
a close that failed stays failed, because the engine caches the rejected promise. When the engine
answers is left open, which allows more orders than the client library does. A listener that calls
the session from inside a publication is not modelled. A shutdown leaves the snapshots as they
were, so the properties about what is shown are stated for a session that is not closing.

The buffer reduces a record to its retained bytes. `flush()` publishes batch after batch without
yielding; each batch is a step, because a listener may close the buffer from within a publication,
and nothing else comes between two of them. `MaxCounter` is `Number.MAX_SAFE_INTEGER`, at which
`increment()` throws.

### The plugin store

`PluginStore` models `store.ts` and the parts of `runtime.ts` that drive it, for one plugin;
`PluginStoreMC` says that the versions are interchangeable, and `PluginStoreProofs` holds the theorems.
`entry` is the record in `state.json` (active, inactive, previous, pending) and `packages` what each
digest's directory holds. `aside` are the versions whose original files a repair has moved to a `.repair-`
directory, `trash` those with files in the `.remove-` directories of earlier removals, and `HeldOut` adds the
removal under way. Every file operation is a step (`op.at`), and `Crash` may come between any two: only
what is on disk is left. `Damage` makes a package fail its verification.

*Actions.* A start is `Boot`, `ActivatePending`, then `BackendStarts` or `RecoveryFails` and
`Rollback`. An installation is `PrepareInstall` or `Retry`, the staging steps `PublishStage`,
`MoveAside`, `PublishRepair` and their failures, `LoadCandidate`, and then `CommitInstall`, `Prune`
and `ActivateCandidate`, or `RejectCandidate`. A removal is `MoveOut`, `SaveRemoval` and `Erase`.
`InstallLater` and `RemoveLater` are `install()` and `remove()`, which leave their work to the next
start and which the application itself does not call.

*Abstractions.* `state.json` is written to a new file that is renamed over the old one
(`atomic-private-text-file.ts`), so saving the record is one step. Signatures and manifests are
reduced to "intact". The `.install-` directories, which nothing reads again, are left out. Three variables are
history: `proven`, the versions that a backend was once loaded from; `deferred`, those that `install()` left to the
next start to load; and `harmed`, those that were damaged, or moved out by a removal, since they were put in
place. With them the properties need no exception for a crash, a damage or a deferred operation that happened at
some time: what they allow of a version depends on what happened to that version.

### The plugin runtime

`PluginRuntime` models `runtime.ts`, `transition.ts`, `change-authority.ts`, the `apply` of
`installer.ts` and `retirePluginBackend`; `PluginRuntimeProofs` holds its theorems. A change is a record whose
phase follows the awaits of its transition, from `acquiring` and `queued` to `settled`. `tail` is the queue of `PluginTransitions`,
`intents` the newest intent of a plugin, `confirmations` the consent last given, `exits` and
`prompts` the state of an exit review, and `modules[p]` the backend that serves plugin `p`. A backend
is idle (loaded), active, closing or retired.

*Actions.* `Asked` admits changes: a start, an install, retry or remove with its intent, a recovery,
the reviews, an exit. `Begin` takes the head of the queue. `Reviewing` and `Changing` are the steps
of a change: prepare, wait for connections, review, load, tell the old backend to unload, drain
its requests, commit, retire, reject, each with the ways it fails. `Requesting` admits a request,
starts it one microtask later, ends it, and lets it start work that outlives it. `BeginClose`,
`CloseBackends`, `CloseBackend` and `Close` are the shutdown.

*Abstractions.* The store answers or fails, and `selected` is what it selected: what a package holds
is `PluginStore`'s. A backend is a plugin of the public API, and four things are assumed of it: it
warns of the requests it has begun and of its work, a backend told to unload starts no more work, a
load that fails closes what it made, and any hook may fail. The binding of a consent to the file
of a candidate package, the watchdog that reports a waiting change, `hostFor` (so requests that wait for the
host themselves) and the published snapshots are left out. What a consent allows is compared when the change is
reviewed and holds until its backend is told to unload. An update loads its candidate in between, and a request
that the user was warned of may begin work meanwhile: `StopsOnlyConfirmed` allows that and nothing else.

### Kafka replay and repair

| Module | Models |
| --- | --- |
| `KafkaRepairJournal` | `repair-journal.ts` and its stored document: the jobs of a host, their links, the serial mutation (load, validate, write, read back) and its failures |
| `KafkaRepair` | `record-replay-service.ts`, `repair-recovery-service.ts` and the reader of reconciliations, composed with the journal, over crashes of the host |
| `RepairLedger` | the abstract specification: what the history promises of every record |
| `KafkaRepairProperties`, `KafkaRepairMC` | the properties and the behaviours that TLC checks |
| `KafkaRepairProofs` | the theorems |

*State.* A plan and its job share an id. `plan[i].phase` follows the awaits of `prepare`,
`plan[i].target` the temporary connection to the destination, `plans` the retained plans oldest
first. `op` is the replay being applied (one per host), with the await its batch is in; `rec` the
recovery's pending task, `reader` its borrowed connection, `inval` the invalidation that drains both.
`disk` is the document that a restarted host finds, `next` the one a commit is writing, `writing` how
far that commit is, and `fenced` says that a commit of this owner failed. `sends` counts the
dispatches of every record and `broker` has what the broker did with it.

*Actions.* `Review`, `CheckFails`, `Publish`, `StartEviction` and their failures are a review; `Apply`
begins a replay, whose batch is `IntendRecord`, `Dispatch` or `HoldBack`, `WriteSettles`,
`RecordReceipt`, `RecordSettled` for each record, and `FinishJob` and `EndReplay`; `Recover` begins a
task, which lists, archives, reconciles or reviews a continuation. A commit is written (`WriteLands`)
before it is confirmed, and `Fail` may leave either document behind. `Crash` leaves `disk`, `sends` and
`broker`.

*Abstractions.* Of a record only its place in the replay is kept. The inputs name a saved
destination profile. `valid` joins the abort signal of a plan and the authority of its source; the late
close of a refused open is part of `OpenFails`; the journal's active set is the replay that has
begun; revisions and dates are left out. An observation is one await and the timer of a plan is `Expire`, which is
also what becomes of a plan whose authority was lost: `Cancel` is about the others. The pending task of the recovery
service is one field in the code and one variable here.

### Event delivery

| Module | Models |
| --- | --- |
| `EventQueue` | `accounted-provider-event-queue.ts` with the two policies of Kafka, as operators on a queue |
| `ReadPresentation` | `message-queue.ts`, `message-flush.ts` and what `consumption-facade.ts` keeps of a read without publishing |
| `EventTransport` | publishing: `provider-delivery.ts` over IPC, the event streams of `provider-http-host.ts`, and the route's recovery after a failed delivery |
| `EventDelivery` | the composition: commands, reads, arrivals, timers, the renderer |
| `EventDeliveryProperties`, `EventDeliveryMC` | the properties and the behaviours |
| `EventDeliveryProofs` | the theorems about the presentation of the reads, the queues and the leases |

*State.* `reads[r]` is a read with its bounded queue, counters and flush; `facade` is who presents, the
stops under way and the one continuation; `streams` is what the session promises. `clients[c]` is the
delivery of a window or an event stream with its accounted queue, `route` its subscription and
recovery, `toRenderer` and `toHost` are IPC under way, and `shown[c]` what a renderer was shown.

*Actions.* Publishing reaches the delivery, a failing delivery its route, and the route the reads,
within one synchronous call. An action therefore computes a *world* (the record of all variables)
from the world before it, by composing operators named after the functions they model, and ends in
`Becomes`. `MessageArrives`, `FlushTimer` and `StreamEnds` drive a read; `Receive`,
`AcknowledgementArrives` and `AcknowledgementTimesOut` the desktop; `WriteCompletes`, `SocketFills`,
`SocketDrains` and `WriteTimesOut` an event stream; `Recovered` is the answer to a failed delivery.

*Abstractions.* A record is its number and has one of two sizes. Activities and notifications are left
out, except the event that confirms a subscription, the connection's state and the activity of
a stop. An event larger than any limit and a send that throws fail on the path that a full queue takes.
The desktop starts with its window subscribed. Two reads meet, or one read has three records, or the world
does two more things, or two event streams share a read: `EventDeliveryMC` names
the five behaviours. `startRead` awaits `stopConsumption` and then `liveRules.prepare`, each followed by the same
check of the presentation and with nothing in between: `Clear` is both.

### The Kafka commands

| Module | Models |
| --- | --- |
| `KafkaCommands` | the facade's commands from admission to answer: `facade.ts`, `command-admission.ts`, `feature-lifecycle.ts`, `operation-ownership.ts`, `operational-preference-service.ts` |
| `KafkaCommandsProperties`, `KafkaCommandsMC` | the properties and the behaviours |
| `KafkaCommandsProofs` | the theorems |

*State.* `commands[c].phase` is the await that a command is in, listed in the module's head; it keeps the
intent it took, the preferences it was checked under and its answer. `session`, `reading` and `ranges`
are the session, the presented read and the record ranges as the facade sees them; `lifetime` is the
connection command that holds the connection, `active` the active profile, `prefs` the saved
preferences, `host` whether the facade is open, closing or closed.

*Actions.* `Submit` checks admission; `Dispatch` runs a command to its first await; `Idled`,
`ConnectSettles`, `Marked`, `EndSettles`, `StreamStarts`, `StartSettles`, `StopSettles`, `ChangePrepared` and
`ChangeSaved` continue it. A read takes the presentation when it is dispatched, and the connection that serves when
its stream starts, awaits later. `Shutdown`, `SessionShutDown`, `PluginsClose` and `Drained` close the facade.

*Abstractions.* Checks of the preferences leave in the order of admission, since they are
microtasks of one promise. One range job stands for exports, analyses, locators and replays. The
codecs' update stands for every change that does not ask a plugin first. The session is `KafkaSession`'s:
here it settles as it likes, except that a superseded connect never succeeds. A new read loads the preferences
once more before it takes the presentation; that await is part of its dispatch.

## 3. What is checked

With two workers every run finishes within about two minutes. The bounds leave room for slower
machines; where the models were also run with larger ones, "Why the bounds are enough" says so.

| Run | Bounds | Distinct states | What it shows |
| --- | --- | --- | --- |
| `session` | 3 operations, 3 streams, 2 requests, 4 calls | 75,419 | what serves is the newest operation's and every open connection has an owner (`ConnectionsAreOwned`); one stream at a time, and a stray or unconfirmed one is held by the barrier until its reason goes (`StreamsAreBarred`); "disconnected" is quiet (`DisconnectedIsQuiet`); reads never deliver across a reconnect (`ReadsStayCurrent`); the session implements `ConnectionLease`; all operations settle (`LifecycleSettles`) |
| `nats_session` | 3 calls and a shutdown | 151,801 | what is shown is what the engine owns, also after a shutdown (`ShownIsOwned`); profiles stay reserved and a failed cleanup is latched (`CleanupIsHeld`); `ViewerConverges`; `CallsSettle` |
| `nats_records` | queue of 3 records or 5 bytes, batch of 2 or 5, sizes 1, 2, 4, 5, 7 receipts | 608 | received is published, omitted or queued (`RecordsAddUp`); limits hold and nothing is stranded (`QueueIsSound`); `QueueDrains` |
| `plugin_store` | 3 versions, 2 deferrals, 2 crashes, 1 damage | 6,132,013, up to symmetry | no crash, in a repair or a removal either, loses a package that the record points at, and a version that nobody damaged or moved out is in place and intact (`PointersHavePackages`); the record points at versions that loaded, or that were left to the next start (`OnlyProvenIsRecorded`); what runs is recorded and keeps its files (`RunningStands`) |
| `plugin_changes` | 1 plugin, 4 changes of every kind, 2 backends, 1 request, or 2 beside removals, recoveries and reviews | 2,007,272 | one backend serves and none is lost (`BackendsAreOwned`), `NoRequestOutlivesItsBackend`, what an unloading backend still does is what the consent was given for (`StopsOnlyConfirmed`), the newest intent commits and what serves is what is selected (`ChangesAreCurrent`) |
| `plugin_shutdown` | 2 plugins, 3 changes, 2 backends, 1 request | 93,184 | changes settle, the close ends (`EverythingSettles`), and it ends clean (`HostEndsClean`) |
| `repair` | 2 records, 2 plans and a crash, or 1 plan and 2 crashes; three behaviours | 253,477 | a continuation sends only what was never sent (`UnsentIsUnsent`); replay and recovery never use the history at once (`OneHistoryUser`); a destination stays open under its replay (`DestinationOutlivesReplay`) and is given up after it (`DestinationsAreReleased`); the history implements `RepairLedger`; all work settles (`WorkSettles`) |
| `repair_late_plan` | 2 plans, an invalidation | violation | finding 1 |
| `delivery` | 2 reads, 3 records, 2 clients, 1 turn; five behaviours | 503,981 | `CostsAddUp` within the limits; a renderer that saw a read begin and end can account for every record (`LossIsAccounted`); a continuation lost nothing (`ContinuationIsLossless`); nothing waits for good (`NothingIsStuck`); a lease is completed by its own event (`LeaseIsShownFirst`); only the owner of the presentation publishes, and an end that was shown stands (`FinalStands`) |
| `delivery_orphan` | 1 read, 2 turns | violation | finding 2 |
| `commands` | up to 5 commands; five behaviours | 627,299 | preferences change only while nothing remote runs (`ProtectionIsInForce`); profile, ranges and session agree on the connection (`ConnectionIsShared`); the newest read and connection command prevail (`NewestReadPrevails`, `NewestCommandPrevails`); a closed facade is quiet (`ClosedIsQuiet`) and a closing one closes (`ShutdownSettles`) |
| `commands_late_read` | 4 commands of the 5 | violation | finding 3 |

*Why the bounds are enough.* The session compares a generation only with the newest one, so a
third operation already gives an attempt that was superseded by one that was superseded; a third
stream gives a barrier behind a barrier; four calls are enough for two of any kind to meet the others; it
was also run with five (982,107 states). The NATS session was also run with 4 calls without the liveness property (5,238,112
states). The buffer's sizes are the smallest, one that shares a batch, one that just fits the queue
with its envelope and one that fits the queue but no batch, and 7 receipts reach the limit of the
counter. Three versions are one that runs, one to roll back to and one to install; a second crash
hits the recovery from the first. Four changes are a start, an exit prompt, its answer and what
replaces the backend. Two requests give a backend work that was begun after its prompt, and two backends that are
busy with a consent for one of them; the model was also run with 3 backends, with 2 requests beside every kind of
change (7,356,768 states) and with two plugins (540,220 states). Two records and two plans give a replay that stops in the
middle and its continuation; a second crash meets the recovery from the first. With one plan
retained, the second review evicts the first. A queue of two records overflows at the third, the
limits of the accounted queue are reached by events, bytes and records each, and one record fits no
batch. With a second turn in the disturbed read event delivery has 2,431,517 states, the commands with reads
replaced twice and ended by a shutdown as well 799,815, and the repair with a crash in every behaviour 455,440; all
of them passed. Four commands are what serves, what uses it, what replaces it and what meets both; in two of
the five behaviours a connection or a read outlives its replacement, which the proofs turned up.
`MaxOps`, `MaxCons`, `MaxReqs`, `MaxCalls`, `MaxCounter`, `MaxDeferrals`, `MaxCrashes`, `MaxDamages`,
`MaxChanges`, `MaxBackends`, `Offered`, `Beside`, `MaxRequests`, `MaxReads`, `MaxClients`, `MaxCommands` and the `Bounds`
of the last three models are the only bounds; they stand in the guards of the actions that begin
something. In every model the program may stop being used, so deadlock is not checked: what must
still happen is stated as liveness, or, for event delivery, as the invariant that whatever waits has
something under way (`NothingIsStuck`).

*Fairness.* The Kafka session's `TimerFairness` is the five-second timer and the resumption of a
settled wait: with it alone disconnect and shutdown settle. `PortFairness` (the Kafka port answers an
open and a direct close) and `StreamFairness` (the adapter answers) are premises of the clause that
needs them, not assumptions of the run. The NATS session has no timer: `FairSpec` says that microtasks run
and that the profile store and the engine answer. The buffer's only fairness is its timer. In the
plugin runtime every change has at most one pending step, which hooks, the store and downloads answer
in the end; requests end; the steps of a close are taken. In `KafkaRepair` every await of a review, a
replay, a recovery task, an invalidation and a commit settles and a plan's timer fires: reads and
writes of the destination have deadlines of their own. The caller, the broker and crashes owe
nothing. In `KafkaCommands` one weak fairness over `Progress` says that some pending step is taken: the
session's waits are bounded by its five-second timers, and range jobs and requests have deadlines.

### Two known limits of the session

`session.ts:1009`: `establishConnection` checks that it is current, awaits `closeCancelledConnection`
and installs its connection without checking again. A connect or disconnect called in that microtask
would be overtaken and the connection forgotten. The window is one promise continuation wide, and only
a callback of the attempt's own cleanup could call in it. `CallsDuringInstall = FALSE` says that none
does; the run and the theorems about ownership assume it, and with TRUE ownership fails.

`session.ts:1018`: when an attempt is aborted by its caller and then superseded by a disconnect while
its fresh connection is closing, the error that carried the refused close is replaced by that of being
superseded, and the disconnect reports success. Nothing refers to that connection any more (it is "leaked" in
the model), so no later disconnect closes or reports it either; `DisconnectedIsQuiet` speaks of tracked closes.

### Findings

1. `record-replay-service.ts:186`. A review that has to evict the oldest plan awaits its close and then
   publishes its own plan without looking at its abort signal. An invalidation in that await cancels
   only the plans of before, and succeeds while the new plan holds its destination open until its
   two-minute timer (`repair_late_plan`). `website/docs/reference/replay.md:33` says that temporary
   connections close on source change.
2. `consumption-facade.ts:446`. `startRead` publishes the loading state and starts the stream without
   checking that it still presents the read. The publication may fail the delivery, whose route stops the
   reads in the same call; that stop is confirmed before the stream exists, and the stream starts
   behind it (`delivery_orphan`).
3. `facade.ts:749`. `connect` invalidates the reads once and then waits for the old connection's record
   ranges. A read asked for in that await runs on the old connection and stays presented on the
   new one (`commands_late_read`). The release notes say that connection changes discard old
   callbacks.

Three things were noticed and are not counted as findings: two reviews that run at once can exceed the limit of
retained plans by one; after a destination's close has failed, replays stay blocked until a restart,
as documented; a connect that is superseded in its idle wait still clears the active profile.

## 4. What is proved

| Theorem | Statement | Assumes |
| --- | --- | --- |
| `SessionTyped` | every step keeps the types | bounds are naturals |
| `OwnershipInvariant`, `ConnectionsStayOwned` | `ConnectionsAreOwned`: the serving connection is the newest one's, and every open one has an owner | `~CallsDuringInstall` |
| `SessionImplementsLease` | the session implements `ConnectionLease` | `~CallsDuringInstall` |
| `BarrierInvariant`, `StreamsStayBarred` | `StreamsAreBarred`: streams exclude each other, and whatever a stop left is held by the barrier until its reason goes | `~CallsDuringInstall` |
| `DisconnectedStaysQuiet` | `DisconnectedIsQuiet`: "disconnected" has no close, no barrier and no request under way | `~CallsDuringInstall` |
| `ReadsAreFenced` | `ReadsStayCurrent` (an action property): a read delivers on its own connection and generation or not at all | bounds are naturals |
| `RecordsKeepAddingUp`, `FlushProgresses` | `RecordsAddUp`; a flush is due and ends | `LimitsAssumption` |
| `QueueStaysSound` | `QueueIsSound`: `queuedBytes` is the sum of what is queued, within the limit, and all of it can leave | `LimitsAssumption` |
| `OwnedInvariant`, `SnapshotsShowWhatIsOwned` | `ShownIsOwned` of the NATS session: "connected", "streaming" and "disconnected" say what the engine owns, and a shutdown that succeeds left nothing | `MaxCalls` is a natural |
| `CleanupStaysHeld` | `CleanupIsHeld`: a profile stays reserved while its connection may be in use, and a failed cleanup is latched | `MaxCalls` is a natural |
| `ViewersConverge` | `ViewerConverges`: a workspace that drops older snapshots shows the session's state, whenever superseded results arrive | `MaxCalls` is a natural |
| `StoreTyped` | the record, the packages and the operation under way keep their types | `StoreAssumption` |
| `StartSelectsProven` | `OnlyProvenIsRecorded`: the record points only at versions that loaded, or that `install()` left to the next start | `StoreAssumption` |
| `RecordHasItsPackages`, `RunningVersionStands` | `PointersHavePackages` and `RunningStands`, over any number of crashes, in repairs and removals too, and of damaged packages | `StoreAssumption` |
| `RuntimeInvariant`, `BackendsStayOwned` | `BackendsAreOwned`: one backend serves a plugin, and none is open that no change or plugin owns | `RuntimeAssumption` |
| `RequestsEndFirst` | `NoRequestOutlivesItsBackend`: a backend is closed and retired only without requests | `RuntimeAssumption` |
| `StopsStayConfirmed` | `StopsOnlyConfirmed`: what still runs on a backend that is told to unload is what the user was warned of, for this operation on this backend, by the newest prompt | `RuntimeAssumption` |
| `ChangesStayCurrent` | `ChangesAreCurrent`: the newest intent commits, what serves is selected, an exit stands only while its review does | `RuntimeAssumption` |
| `HostEndsCleanly` | `HostEndsClean`: a closed host has no change, no request and no open backend | `RuntimeAssumption` |
| `RepairInvariant`, `HistoryHasOneUser`, `UnsentStaysUnsent` | `OneHistoryUser` and `UnsentIsUnsent`, for any number of records, plans, jobs, crashes and failed commits | `JournalAssumption`, `RepairAssumption` |
| `DestinationStaysOpen` | `DestinationOutlivesReplay`: whatever expires, is evicted or invalidated, the destination of a running replay is open | `JournalAssumption`, `RepairAssumption` |
| `RepairImplementsLedger` | `ImplementsLedger`: the replays, the recovery and the broker implement `RepairLedger` | `JournalAssumption`, `RepairAssumption` |
| `PresentationInvariant`, `ContinuationStaysLossless` | `ContinuationIsLossless`: a read that can be continued lost nothing, for any number of reads, records and event streams | `PresentationAssumption`, `ClientsAssumption` |
| `DeliveryInvariant`, `CostsAlwaysAddUp` | `CostsAddUp`: a queue's costs are those of its entries and within the limits, for any limits and sizes | `QueueAssumption`, `PresentationAssumption`, `ClientsAssumption` |
| `NothingGetsStuck` | `NothingIsStuck`: whatever waits, something under way ends the wait | the same |
| `LeaseIsAlwaysShownFirst` | `LeaseIsShownFirst` (an action property): a late acknowledgement completes no lease but its own | the same |
| `CommandsInvariant`, `ProtectionStaysInForce`, `ConnectionStaysShared`, `NewestReadStays`, `ClosedStaysQuiet` | `ProtectionIsInForce`, `ConnectionIsShared`, `NewestReadPrevails` and `ClosedIsQuiet`, for any number and mix of commands | `CommandsAssumption`, `BoundsAssumption` |
| `NewestCommandConnects` | `NewestCommandPrevails` (an action property): the session begins to connect only for the newest dispatched command of an open facade | `CommandsAssumption`, `BoundsAssumption` |

*The Kafka session.* Ownership is not inductive: nothing in it says that an attempt which has not settled
still owns what it opened, or that a generation not yet taken owns nothing. `AttemptOwnsConnection`
says both, and `OwnershipInv` joins them. Each action has a lemma. The refinement follows from it: an
installation is a `Grant` because the attempt is current and nothing serves; every call is a
`Revoke`; all else stutters. The assumption that no call falls into the installation is needed, as
the first known limit shows.

*The streams.* That a barrier holds what a stop left behind is the least local property of the session: a
stop awaits the stop before it, and the promise that replaces `consumptionStop` speaks for a
whole chain. `BarrierInv` says what the chain is. A pending stop either works on its own consumption (`Leads`)
or follows an earlier one of the same connection (`Follows`), and the stop that it follows holds everything
left before it (`ChainHolds`); the barrier holds everything left at all (`BarrierHolds`). A stop that failed has a
cause that still exists (`FailureHasCause`), a late stream is never behind a barrier that a close of the
connection may lift (`LateIsUncovered`), and a covered barrier goes with its connection (`ClosedIsReleased`).
What a consumption may do beside the barrier is `ConsumerIsCurrent` and `WorkIsStopped`; what the newest
connect or disconnect may do beside it is `NewestWaits`. "Disconnected" is then quiet because its
attempt reaches "finishing" only past the barrier, all closes and all requests. The fence of the reads
needs only that the requests of a class are begun in order and the older ones aborted (`RequestsInOrder`).

*The NATS session.* No property of the engine's resources is inductive by itself, because what closes a
resource is whichever call came later, and that call may fail, be superseded, or be the cleanup of a loss.
`OwnedInv` says instead what the *newest* calls know: in each phase of the newest connect or disconnect
what it waits for covers everything the engine owns (`ConnectionIsKnown`), and the newest start or stop
covers every subscription (`SubscriptionIsKnown`). A superseded call changes nothing that is owned by others, so its
steps are one argument (`Aside`); a resource that is open is the newest one's or is about to be retired by a microtask
(`OpenIsCurrent`), and microtasks run in the order of their calls (`InOrder`). Profiles follow from
what a call waits for (`ReleasesAreCovered`): it releases those whose connections it saw closed. A failed
cleanup is latched because a connection is only shown while a subscription intent is there to know of it
(`SubscriptionIsSet`): nothing but a loss takes it away, and a loss is not shown as "connected".
For the viewers `ViewerInv` adds the order of the results that are still to come: the current stop or disconnect
reserved a revision newer than what is viewed, a superseded one an older revision, unless the subscription has
ended and both say the same. The proof found an error of the model: a superseded connect that
fails only rethrows, where the model had it revoke the opening of its successor.

*The buffer.* `Inv` joins the types, `RecordsAddUp`, `EveryRecordFitsABatch` and `NothingStranded` with
the bound on the queue's length. `omitted` and `published` cannot overflow, since they are parts of
`received`, which is checked: so the `increment` in `close()` never throws. That `queuedBytes` is the
sum of the queue is an induction over data. `Bytes` is a recursive function, and the library's induction theorems
take a predicate, which no prover here can instantiate; but that `<` is well-founded on the naturals is a
statement about sets, and from it `SetInduction` follows, an induction over the members of a set. With it the proofs show
that the sums exist, are unique, and split where the queue is cut (`BytesSplit`), so evicting, receiving
and publishing move the same bytes (`BytesAppend`).

*The store.* `HasTarget` says that a start and a staging operation have a version to work on, which
typing needs. `Proven` adds to `OnlyProvenIsRecorded` that a loaded candidate is proven. `StandsInv` carries the
packages through the steps of an operation. `Kept` says that what is damaged was harmed, that what is staged is not
intact, and that a repair has put aside the version that it works on; `Moved`, that a removal has moved out
everything the record points at, until the record is gone; `Running`, that the version that runs is recorded except
while a candidate takes over from it. A repair that fails to rename the original back, and a removal that fails to
rename the directory back, leave the only copy where they put it, and nothing cleans it up while the record points
at it: that is what the second half of `PointersHavePackages` says.

*The plugin runtime.* `RuntimeInv` has three parts beside the types. `QueueInv` says that the tail holds what was
admitted and has not settled, and that only its head runs (`QueueFits`), what a change of each kind is in each
of its phases (`Fits`), and that a queued intent is the newest of its plugin (`IntentsFit`). `ServingInv` says what
a backend is that serves, that is a candidate or that is being closed (`BackendsFit`), and what the running change
knows of them (`RunFits`): until it commits, what serves is what it found. `modules` and
`selected` agree except while the running change retires the backend that it replaced (`IsReplacing`); and
until the start has resolved, starts alone run, one at a time (`StartupFits`). `RequestInv` carries a check over an
await: what was found idle or was drained stays so (`StaysQuiet`), because admission and dispatch
both ask whether a change is under way on the plugin (`ChangeBlocks`), so no request can begin between the check
and the unload. `ConsentInv` is proved from it: an answer is given for the newest prompt and taken out when the
change begins to review (`confirmations`), so from then on what runs on the backend is within the warning (`Warned`),
which requests that end only shrink. Steps of different plugins do not meet: what a step of a change leaves alone is one relation
(`Touches`), and two lemmas carry the invariant over every such step. Here and in event delivery the proofs found
definitions of the model that were ambiguous, a `CASE` with two guards true at once, of which TLC silently takes
the first.

*Repair.* `UnsentIsUnsent` speaks of one document, the one on the disk. It is not inductive: a crash may
put the document of a commit in its place, and a replay dispatches what it checked two awaits earlier.
`RepairInv` therefore says the shape of *both* `disk` and `next` (`HistoryInv`): every job's chain has its
root (`Rooted`), one last job (`OneLeaf`), jobs that take over the records one after the other (`InTurn`), and
nothing that a fresh or last job has still to send was sent (`FreshIsUnsent`, `SuffixIsUnsent`). `ReplayInv`
adds that the running replay writes at the end of its chain and that what it intends was not sent.
`KafkaRepairProofs` proves the types, that each change of a document keeps its shape, and that every
action makes one of these changes. `PlanInv` is the other half of the machine, the
retained plans: a published plan that may still be applied has an open destination, unless its close
failed or a review is about to evict it, and a replay runs beside no review; so nothing can
close the destination under it.

*The ledger.* A commit is several steps, but the disk changes in one of them. `MoveInv` says which step
of the ledger the commit under way will be, should it land: an intent, a receipt, a withdrawal, an archived chain, or
nothing. `SentInv` says that a dispatched record is pending and was sent once, and that a receipt
is the broker's answer or "unknown". With them `WriteLands` is exactly one step of the ledger, `Dispatch` is
a `Send`, the broker's decision a `Decide`, and every other step stutters.

*Event delivery.* An action of `EventDelivery` computes a world, and publishing may stop the reads in the middle
of it, so the proof reasons about worlds and not about actions. `Told` is all that publishing can do to the
reads and to the facade, however many streams it reaches and whichever of them fail: the reads keep their records, and at most one
stop begins or is joined. `Moves` is all that a flush can do: records leave the queue of one read, and nothing is
lost where nothing was queued. `PresentationInv` holds through both. It says that what a stop stops has had the
presentation and has it no more (`StopsFit`), that nothing stops the read that has it (`ActiveFits`), that
a read which can be continued has nothing left to lose (`ContinuationFits`), and that every read that began has an
intent of its own (`IntentsDiffer`): so whoever owns the newest intent when the continuation is set is the last
that was presented. Publishing and a whole flush are loops; the model has them as recursive functions, whose existence
and values are inductions over the members of a set, as for the buffer.

*The queues.* `DeliveryInv` is `Good` of the world at rest; `Good` is also what a world keeps in the middle of
an action, and every helper of the publication has a lemma that it is preserved. It has four parts.
`Delivering`: every entry carries the costs of its event and the queue those of its entries (`QueueFits`), an
open delivery with something to send is sending it (`Sends`), and on the desktop the numbers rise from what
was acknowledged over what is under way to what waits (`Ordered`), so that an acknowledgement is never that of
an event under way. `Flows`: the records of the active read have a flush to come or the facade is paused; the
read whose flush runs is excepted until it ends (`loose`). `Answered`: a route that refuses everyone for a
stop has that stop in its list, or it is the stop being answered. `ReadsFit` types the counters. That nothing
is stuck needs all of them, because a publication may fail the delivery which paused the facade, and the
failure has to release the pause and to begin the stop in the same call. The costs are sums over sequences:
sums split where a queue is cut, and lose what an eviction takes out, by the same induction over a set.

*The commands.* `CommandsInv` says of each phase what a command in it is (`KindFits`), for which command
the session connects and is connected (`SessionFits`), that a change of the preferences runs alone
(`ChangesRunAlone`), that a presented read that has a connection has one that was once made (`ReadFits`), and that after the
shutdown took over nothing begins (`HostFits`). Two properties were stated too strongly, which
four commands do not show: the proof did not go through, and TLC found both counterexamples
with five. A read that outlived its connection (finding 3) is not held to the preferences of the new one, so
`ProtectionIsInForce` speaks of a read that the connection serves; and a connection may survive two connects
that were asked for after it, so `ConnectionIsShared` compares a range job with what the session serves.

*Only model-checked.* All liveness, which is out of the prover's reach, and what a renderer was shown:
`LossIsAccounted` and `FinalStands`, which follow each record and each state through the queue, the lease and
the transport, with replacement and trimming on the way.

## 5. Not modelled

The components that are `not_modelled` in `PROJECT.json` fall in three groups.

*Machines that are planned.* The NATS engine as a refinement of the one inside `NatsSession`; connection
scopes with the other reviewed writes (a plan applied once is modelled for replays); the composition of
endpoints in the provider host (its admission is part of `KafkaCommands`).

*Small machines.* Record export's artifacts, passphrase vault, observation, trust acquisition, rules,
latency, plugin acquisition: one or two awaits each, and mostly data.

*Not state machines, or not part of the running program.* Contracts, parsers and validation; React views;
composition roots; the broker adapters; the plugins of the API; the capture agent, a Go program; build
material, tests, labs, website. They are most of the repository's lines, which is why the definitions
stand for a small share of it.

Within what is modelled: structured patches of records and replays without a saved profile; the policies of NATS
and of control providers in event delivery; HTTP itself and the gateway's sessions; bodies of the facade's
other commands, its catalog and locators; host capabilities given to a plugin's backend. Across
the models, records, topics, certificates, wording and diagnostics are abstracted.

## 6. Plan

1. *Done.* Kafka session with its requests and streams; NATS session and buffer; plugin store and
   runtime; replay, journal and recovery with their ledger; event delivery over both transports; the
   commands of the facade.
2. *Theorems.* Done for both sessions, the store, the runtime, the repair, the commands, the presentation of
   reads and the queues of event delivery. Left: what a renderer was shown (`LossIsAccounted`, `FinalStands`).
3. *NATS engine.* A detailed engine shown to implement the one inside `NatsSession`.
4. *Reviewed writes.* `ReviewedWrite` over the connection scope, as a client of `ConnectionLease`.
