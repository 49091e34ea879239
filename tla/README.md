# Verification of app-core

TLA+ models of the parts of app-core whose correctness depends on order: on how
threads, processes and messages interleave, and on where a crash or a failed
write falls. Each module is written from the Rust source under `src/crates/`;
`PROJECT.json` maps every definition to the lines it models, lists the runs, the
theorems, the hazards the properties are aimed at, and for every checked property
a plausible slip in the code (a definition marked *Slip* in the modules) under
which TLC finds the property violated.

## The system

app-core is a Rust workspace of 22 crates: a runtime that hosts applications,
executes their commands, supervises their services and threads, replicates their
events to followers, elects leaders, updates their artifacts and exposes all of it
over HTTP, a gateway and peer RPC.

| Part (crate) | State it keeps | Operations | What is hard | What makes it correct |
|---|---|---|---|---|
| Command dispatch (core, api) | lifecycle, idempotency store (map and append-only file), events, audit | pre_dispatch, handler, post_dispatch; store get, insert, remove, load | handlers run outside the lock; crash between steps; torn or failed writes; ttl | one handler per key at a time, one result and one emission of events per key, the file can be reopened |
| Operational journal (core) | hash-chained file, records in memory, last hash | append, compaction, open | an append or compaction that fails before or after its effect, torn tails | the file opens again with the newest records |
| Shared file lease (provider) | state file, epoch sidecar, OS lock | acquire, heartbeat, release, check_fence, load | two writes per acquire, skewed clocks | one holder, epochs never reused |
| Coordination store (provider) | metadata file, handle | open, migrate, backup, restore | a restore in two lock sections, crashes | the store can always be opened, and serves the latest schema |
| Manifests (contracts, types, provider) | a manifest under construction, its file, providers created from it | builder calls, validate, encode, decode, advertise, create | any order of calls, parts and files of others | what is in hand can be written and read back, and keeps its contract |
| Replication (sync) | outbox, log, checkpoint, processed table | enqueue, flush with retries, apply, acknowledge, snapshot | lost and late answers, overlapping requests, crash in the append loop | nothing acknowledged is lost, no gaps, the outbox drains |
| Control plane (control-plane) | lease slot per service, registrations, heartbeats, file | acquire/renew, release, register, heartbeat, discover, backup, restore | requests executed after they were given up; restore | one leader at a time, an epoch has one holder |
| Capability routing (capabilities, control-plane) | directory of peers, handlers, the call in progress | register, heartbeat, discover, resolve, handle, invoke | the choice is stale when it is used | the answer is the provider's, who was allowed to do it |
| Scheduler (scheduler) | tasks, active counter, shutdown flag | schedule, cancel, shutdown, coordinator, workers | atomics read outside the lock; spawn failure | concurrency bound, one run per task, shutdown is final and completes |
| Placement (scheduler) | none; reads health, mode, leases and load | select | limits and ties | the best core that can do it, whatever the order |
| Supervisor (supervisor) | service records, restart executor queue, adapters, threads, watchdog atomics | start, stop, restart, reconcile, schedule_restart, shutdown, evaluate | threads that do not stop; several lock sections; verdicts from stale reads | one instance per service, no orphaned thread, restarts paid for, failures answered, stalls reported |
| Artifact update (update) | active, previous and pending pointers, staged and installed files | apply, prepare, stage, commit, rollback, recover | a crash or failure at each file operation | always back to a healthy artifact |
| File storage (storage) | root, pending and previous trees, snapshots | write, delete, seal, rekey, backup, restore, recover | crash between renames, writers after a failed restore | the last good tree survives |
| Secret keyring, tokens (security), HTTP API (api) | key files, active pointer, tokens, requests in progress, audit | rotate, revoke, recover, issue, verify, query, command | crash between writes, keys rotated under way, panics | a superseded key signs nothing, what is dispatched was granted and is audited |
| Gateway (gateway) | workers per tenant, capabilities, pending requests, server thread, replay store | connect, prune, route, answer, start, stop, admit | late, duplicate and foreign answers; replaced connections | an answer comes from the connection asked, the tables agree |
| Peer RPC (peer-rpc) | nonce stores, attempts | call, retry, cancel, validate, record, dispatch | repetition and delay against expiry and capacity | an envelope is dispatched once |
| Argument parser (args), DNT container (dnt), transport, ops, bin | parsed data, counters | parse, encode, send | pure or I/O | round trips |

Dispatch is reached from HTTP handlers that hold the controller lock for each
half; the supervisor drives services through its restart executor and is watched
by the watchdog, which the health endpoint evaluates; the API and the gateway
verify tokens signed with the keyring's active key; the resolver picks a provider
from what the control plane told it, asks the leadership guard and calls the peer.
The sync client, the control-plane client and peer RPC share the HTTP transport,
whose failures (no answer, a late answer, a lost or repeated request) are
environment actions of the models that use it. All durable state is files, replaced
by rename or appended to.

## Modules and runs

A module models one part. Where parts meet in the code they meet in one module or
by INSTANCE: `CommandDispatch` drives `RuntimeLifecycle` and `IdempotencyStore`,
`HttpApi` works on `SecretKeyring` and `RuntimeTokens`, `Supervision` on
`ServiceGraph`. A part that shares no state
with another is checked beside it in one run: the MC module has a variable `focus`,
chosen at the start, and only the part it names takes steps. The states of such
parts add up instead of multiplying, and every property is checked as if its part
had a run of its own.

### Command dispatch: `RuntimeLifecycle`, `IdempotencyStore`, `CommandDispatch`

`IdempotencyStore` is the store: `seen` is the map, `durable` what `load_entries`
would read back, `fileState` how the file ends. Its operations come in two forms,
one that succeeds and one that reports an error with or without its effect.
`CommandDispatch` is `pre_dispatch` (reject, replay, reserve), the handler, and
`post_dispatch` (resolve or release, then events and audit), each half atomic
because `dispatch_command_request` holds the controller lock for it. A request
is an element of `Requests` with a key and a payload; a retry is another request
with the same key. Crash, restart, panic of the handler and a clock for the ttl
are actions. `IdempotentKeys` states the promise without any of this: a key is
free, busy or done with one result. `DispatchRefinement` maps the one onto the
other (`KeepsPromise`) for stores that keep completed records.

- `dispatch_crash`: three requests on one key, one with another payload, two
  crashes, a ttl equal to the slowest handler (the boundary of `>` in
  `is_expired`): `SingleFlight`, `StoreReopens`.
- `dispatch_io`: two keys in one file, two failed writes and a crash, records
  kept: `EventsOncePerKey`, `RepliesAgree`, and the refinement `KeepsPromise`.

What these do not say, because the code does not ensure it: events may be lost
when the process dies after storing the result; a handler slower than the ttl
may run beside its own retry; a panicking handler blocks its key until the ttl or
a restart; after a failed append the next append may join the torn line, and the
file then does not load (`fileState = "corrupt"`), so `StoreReopens` is checked
with crashes and without writes that fail and are survived.

### Coordination: `SharedLease`, `ServiceLeadership`, `CapabilityRouting`, `CoordinationStore`, `Manifests`

`SharedLease` is one resource, its two files and its lock. `acquire` is two steps,
the sidecar and the state file, with the lock held in between; each write may fail
before or after it took effect and the process may die there. Each process has a
clock of its own within `MaxDrift`; the policy's `ClockSkew` is assumed to cover the
drift where exclusion is claimed.

`ServiceLeadership` is the lease slot of one service, the client of each core with
its retries, and the guard a core asks before it writes. Requests given up by their
client may be executed later, in any order; the control plane's file may be restored
from a backup. After a restore two cores may believe they lead until the leases
granted before it have run out, and epochs are granted again; `ExclusiveLeader` is
claimed from then on (`safeFrom`), `EpochIdentifiesHolder` only without a restore.
One clock serves all: the guard has no allowance for skew, so nothing could be
claimed with clocks that differ.

`CapabilityRouting` is presence and routing: registrations and heartbeats at the
control plane with their retention and limit, the directory a core discovers and
keeps while the control plane is away, and the resolver, which chooses in one step
(catalogue, visibility, health, leadership) and invokes in a later one, here or over
peer RPC. What the guard said when the provider was chosen is what counts: the code
does not ask again.

`CoordinationStore` is the metadata file with its forward migrations; a restore is
two lock sections, and a thread may fail or the process die between them.

`Manifests` is the application's manifest, built by calls that each validate, and
the installation's, validated when its builder is done; both are written to `file`
and read back, as are files of someone else. From them come the capabilities a core
advertises and the providers a host creates.

- `coordination`: two processes with a skew of one tick, four epochs and two faults
  (`OneBeliever`, `EpochsGrow`); two cores, three epochs, one answer lost and one
  restore (`ExclusiveLeader`, `EpochIdentifiesHolder`); a host and three peers, one
  of another cluster, one without an endpoint, and a command for the leader, a
  private query and a stream (`CompletedByTheProvider`); two threads, two faults,
  files of every schema version (`CoordinationReopens`); three calls on a manifest
  (`ManifestsKeepTheirContract`).

Reading the resolver for this model: `handle_local` answers `accepted` for a remote
provider that nobody invoked; `CompletedByTheProvider` leaves that answer out.

### Replication: `Replication`

Leader processes (`Clients`) that share an outbox file and flush its head with
`MaxAttempts` attempts; requests (`Handlers`) at the follower, whose steps are its
lock sections: the processed table, the checkpoint, and the log with the
checkpoint write at its end. The append loop may fail or die after any event.
Batches are values with a range, events and the hash they chain to; `MCReplication`
gives a row of chained batches, and a fork: a recovery batch that overlaps its
predecessors and one that contradicts them.

- `sync_faults`: two requests at once over the fork, with a late answer, a crash
  and a failed write: `CheckpointBacked`, `AppendsWholeBatches`.
- `sync_live`: two leader processes, requests lost, one answer late, a crash, one
  request served at a time, under fairness: `NothingLost`,
  `CheckpointCoversAcknowledged`, `OutboxDrains`.
- `sync_retry` (a violation): `apply_sync_message` is documented to apply batches
  idempotently, but a batch whose answer was lost is refused when it is sent again,
  by the processed table, before the checkpoint is asked. Nothing is lost; the
  leader keeps the batch and reports an error until the follower restarts or its
  bounded table forgets the batch.

With two requests at once the checkpoint may be set back, since it is read in one
lock section and written in another; `CheckpointCoversAcknowledged` is therefore
claimed only for requests served one at a time. A batch that ends at or before the
checkpoint is accepted unread, so what is claimed for a fork is that events in the
log stay, not that the later sender's events are in it.

### Scheduler and placement: `TaskScheduler`, `Placement`

`TaskScheduler` is the callers, the coordinator and the worker threads. A section
under the mutex is a step, except the coordinator's scan, into which
`TaskHandle::cancel` may fall; the atomics `active` and `shutdown` are steps of
their own. `Placement` is the engine as a function of the request and of candidates
whose health, mode, leases and load change between decisions: the constraints in their
order, the score, the sort by id (any arrangement of the candidates that ascends) and
`max_by` as the recursion over the sorted list that it is; `PlacedWhereItFits` states
which core may be chosen by a definition of its own (`Fits`), apart from the order of
the constraints, the sort and the recursion.

- `scheduler_safety`: two callers, three tasks of which two fit, three threads:
  `RunningIsExecuting` (which includes the bound on concurrency), `ShutdownIsFinal`;
  and two cores with equal scores within reach: `PlacedWhereItFits`.
- in `local_services`: `ShutdownCompletes`, `DueTasksRun`, with equal priorities; a
  steady supply of urgent tasks may starve others. Callbacks do not call the
  scheduler: one that shuts it down would wait for itself.

### Supervision: `Supervision`, `ServiceGraph`, `ManagedThread`, `Watchdog`

`Supervision` is the supervisor with one reconcile thread, one operator thread
(start, stop, restart, shutdown) and the executor's workers over services
behind `CallbackManagedService`. Every section under a lock is a step:
`schedule_restart` has three, a dispatch two, the adapter's stop waits outside its
lock. The executor's queue is bounded. Time is relative (ages of attempts, the wait
of a scheduled restart). `ServiceGraph` is the validation of the dependencies and
the order in which services are started and, reversed, stopped: the depth-first
`visit` as a function of the path, the name and the walk so far. `Retention` is the
filter both use (`retain`, `filter`), by position. `ManagedThread` is
the adapter of a cancellable thread: start, stop with its wait outside the lock,
threads that end, panic or ignore the request. `Watchdog` is four atomics, one load
or store a step.

- `supervision`: the adapter over four threads and one caller (`OneInstance`,
  `LiveThreadsAreOwned`); the watchdog with two probes (`StallIsDetected`, and
  `StoppingSticks` once no call is left that looked before `mark_stopping`); the
  supervisor over `db` and `web`, which depends on it, with a budget of one restart
  in a window of two ticks, a queue of one and two disturbances
  (`RestartsArePaidFor`, `FailureIsAnswered`).
- `quarantine` (a violation): health.rs says that a quarantined service's automatic
  lifecycle actions are disabled; a stop that orphans and quarantines a service
  between the list of due restarts and their dispatch is followed by the dispatch.
  The orphaned adapter refuses the worker's stop, so nothing is started twice.

Calls of `ManagedThread` that overlap can create a second thread while another
caller waits in stop (the runtime is out of the state meanwhile), although the
crate's README says that concurrent calls fail; its properties are claimed for calls
one after the other.

### On disk: `ArtifactUpdate`, `FileStorage`, `OperationalJournal`

`ArtifactUpdate` is the store's directory as a record, one file operation a step; an
operation that reports an error may have had its effect, and the process may die
between any two. One updater at a time is assumed: the store takes no lock.
`FileStorage` is the data root, the two siblings a restore goes through and the
snapshots, each a function from paths to what is stored; operations run under the
lock file, one file operation a step. `owed` is what the root may be, given what was
acknowledged. Sealed objects are records of data, key and context.
`OperationalJournal` is the file as a sequence of records with the prefix each hash
stands for, its compaction by count and by bytes, and the audit log and event bus
that write through it.

- `local_services`: four artifacts, two with one build id, one not genuine, three
  faults (`PointersResolve`, `RecoversToHealthy`, `AppliedIsKept`); two paths, one
  snapshot, two keys, three writes and two faults (`LastGoodRootSurvives`); a journal
  of two records with five appends of three kinds and two faults (`JournalReopens`);
  and the scheduler's liveness.
- `restore` (a violation): `recover_restore` is documented never to discard the last
  good root. A restore that fails between its two renames, followed by a write of a
  caller that does not open the storage again, leaves a root with that one file; the
  next recovery takes it for the restored one and deletes the previous tree.
  `local_services` therefore assumes `OneCaller`: who gets an error opens again
  before it goes on.

`JournalReopens` is checked with `GoesOn = FALSE`: a process that appends again after
a failed append whose line had reached the file repeats the sequence number, and the
chain does not validate at the next open.

### Network: `Gateway`, `GatewayRuntime`, `GatewayAdmission`, `PeerRpc`, `SecretKeyring`, `RuntimeTokens`, `HttpApi`

`Gateway` is the sockets of workers and clients with their generations, the pruner,
and the tasks that route a request to a worker and its answer back, for clients and
the mesh relay; what runs between two awaits or under the tenants' lock is a step.
`GatewayRuntime` is the owner of the listener's thread. `GatewayAdmission` is the
configuration, the identity read from a request, the credential bound to it and the
replay store. `PeerRpc` is a client with its attempts, a network that loses, repeats
and delays, the host's checks in their order and the three nonce stores.
`SecretKeyring` is one file per key and the active pointer; an operation may stop
after any of its writes. `RuntimeTokens` is issue and verification as predicates.
`HttpApi` authorises, dispatches and audits requests while keys change.

- `network`: two connections of one worker, one client, two requests that may share
  an id, one pending (`AnswersComeFromTheWorkerAsked`, `TablesAreAccounted`); three
  servers under one host thread (`OwnsItsServer`); four credentials, twelve arrivals,
  six configurations, a store that forgets exactly when credentials expire
  (`AdmittedAsIssued`); two calls of two attempts over each of the three stores,
  clocks that agree (`DispatchedAtMostOnce`); three keys, one that expires and one
  too short (`SupersededNeverSigns`), and two requests over every pair of routes
  (`DispatchedAsGranted`).

With two host threads a second stop during the first one's wait reports Stopped while
the server lives; `OwnsItsServer` is claimed for one. With clocks that differ a nonce
may expire before its envelope does at the host; `DispatchedAtMostOnce` is claimed
for `Skew = 0`.

Types are part of the inductive invariants: `TypeOK` (with a prefix where modules meet)
in the component, or the first conjuncts of the invariant in the proofs' module.

## Bounds

Every bound is a constant named `Max...` and appears in a guard. They are chosen
so that each hazard happens: a second crash during the recovery from the first
(dispatch), a takeover and a takeover of the takeover (leases: three epochs or
more), an overlap of three batches with a queue shorter than the batches (sync),
more tasks than fit and more workers than slots (scheduler), a fault in the rollback
of an update whose commit failed (update), a failed restore followed by a fault of
its recovery (storage), a compaction after a torn append (journal), a connection
replaced while its request waits and an id used again (gateway), an envelope repeated
at the tick its nonce expires (peer RPC), a restart scheduled by two callers and a
stop between list and dispatch (supervisor). The theorems below remove the bounds
where they apply.
`CHECK_DEADLOCK FALSE` stands where the system may stop: all requests answered,
all budgets spent, a scheduler shut down. Symmetry is used in safety runs only.

## Fairness

- `Replication!FairSpec`: weak fairness of each client's and each handler's next
  step. Both are threads that run to the end of a bounded loop; the follower's
  locks are held for one step. Losses are bounded, so that what is claimed is
  progress once the network works again.
- The scheduler in `MCLocalServices`: weak fairness of the coordinator, whose wait
  ends after `poll_interval` at the latest, and of the clock; strong fairness of
  workers and callers, which queue for a mutex that parking_lot hands over eventually.
  Callbacks return: a callback that hangs occupies its slot for ever in the code too.
- The watchdog in `MCSupervision`: probes finish, the clock advances, and a cycle
  that has recorded its progress goes on. Nothing is assumed of the work inside a
  cycle: that it may hang is the point.
- The supervisor in `MCSupervision`: weak fairness of the reconcile thread, which
  runs periodically, of each worker of the executor, of an operator's call once it
  was made, and of the clock. Nothing obliges the operator to call, nor a service to
  recover.

## Proofs

| Module | Theorem (property) | Hypotheses | For every |
|---|---|---|---|
| `CommandDispatchProofs` | `TypeCorrect` | | set of requests, keys, payloads, clock, number of crashes and failed writes, file-backed or not |
| | `NoConcurrentExecution` (`SingleFlight`) | `TimelyHandlers` | |
| | `AllRepliesAgree` (`RepliesAgree`), `EventsEmittedOnce` (`EventsOncePerKey`), `PromiseKept` (`KeepsPromise`) | `RecordsKept` | |
| | `CrashesLeaveAReadableStore` (`StoreReopens`) | no write fails and is survived | |
| `CoordinationProofs` | `LeaseTypeCorrect`, `EpochsNeverReused` (`EpochsGrow`), `FenceIsSound` | | set of processes, policy, number of faults |
| | `MutualExclusion` (`OneBeliever`) | drift within the skew | |
| | `OneLeader` (`ExclusiveLeader`), `EpochsIdentifyHolders` (`EpochIdentifiesHolder`) | `LeadershipAssumption`: types | set of cores, term, number of lost answers and restores |
| | `ProvidersCompleteTheirCalls` (`CompletedByTheProvider`) | `RoutingAssumption`: types | set of cores, descriptors, handlers, retention |
| | `ManifestsHoldTheirContract` (`ManifestsKeepTheirContract`) | `ManifestAssumption`: files decode to all fields | set of parts, files, number of calls |
| `ReplicationProofs` | `LogBacksCheckpoint` (`CheckpointBacked`), `OutboxIsDurable` (`NothingLost`), `BatchesApplyWhole` (`AppendsWholeBatches`) | | set of batches, leader processes, requests at once, number of losses, crashes and failures |
| | `CheckpointIsLastAccepted` (`CheckpointCoversAcknowledged`) | one request at a time | |
| | `EnvelopesDispatchedOnce` (`DispatchedAtMostOnce`) | `PeerAssumption`: clocks agree, windows cover the envelope's life | set of calls, number of attempts, repetitions and delays, each store |
| `TaskSchedulerProofs` | `SchedulerInvariant`, `CallbacksAreMarkedAndBounded` (`RunningIsExecuting`), `ShutdownLeavesNothing` (`ShutdownIsFinal`) | | finite sets of tasks and threads, callers, limits |
| | `PlacementFits` (`PlacedWhereItFits`) | `PlacementAssumption`: types, ids are unique | sequence of cores, profiles, requests, candidates in any order |
| `SupervisionProofs` | `OrderIsTopological` | `NamesAssumption`: names are unique | set of services and dependencies between them |
| | `SupervisionInvariant`, `RestartsPaid` (`RestartsArePaidFor`) | `GraphAssumption`: the graph was validated; `SupervisionAssumption`: types | graph, budget, window, backoff, queue, set of workers, number of disturbances |
| | `OneThread` (`OneInstance`), `ThreadsStayOwned` (`LiveThreadsAreOwned`) | calls one after the other | set of threads the factory may create |
| | `StoppingIsFinal` (`StoppingSticks`) | | set of probes, stall timeout |
| `ArtifactUpdateProofs` | `StorePointersResolve`, `RecoveryIsHealthy`, `AppliedVersionsKept`, `InstalledFilesStay` | | set of artifacts and builds, number of failed operations, damaged files and crashes |
| | `JournalSurvives` (`JournalReopens`) | `GoesOn = FALSE` | retention by count and bytes, records, number of faults |
| `NodeProofs` | `RotationIsFinal` (`SupersededNeverSigns`) | | set of keys, number of interruptions |
| | `OnlyGrantsAreDispatched` (`DispatchedAsGranted`) | | set of requests, grants and keys |
| | `OwnerKeepsItsServer` (`OwnsItsServer`) | one host thread | set of servers |
| | `CredentialsOpenOneConnection` (`AdmittedAsIssued`) | the store's ttl covers the credentials' | set of credentials, arrivals, configurations |
| | `AnswersAreTheWorkersAsked` (`AnswersComeFromTheWorkerAsked`), `GatewayTablesAreAccounted` (`TablesAreAccounted`) | finitely many sockets | set of workers, clients, requests, ids, capabilities |
| | `StoreAlwaysReopens` (`CoordinationReopens`) | files found were written by a release | number of schema versions, threads and faults |
| | `InterruptedRestoresLoseNothing` (`LastGoodRootSurvives`) | `OneCaller` | finite set of paths, snapshots, keys, number of faults |

The hypotheses on constants are named where the constants are declared: an `ASSUME`, or
a definition `...Assumption` that the theorem takes as its hypothesis and the MC module
assumes, so that TLC evaluates it. Each of the others marks a
disagreement or a limit described with its run above.

**Induction over data.** The library states induction with an operator as a
parameter, which the provers do not instantiate. `DataInduction` states it with sets
and functions instead: a set of naturals that has 0 and every successor has them all
(`SetInduction`, from a least element, from the library's minimal element of a
well-founded relation), and a base and a function for every step have a function
that follows them (`Recursion`). A recursive definition `f[i \in S] == e` is a CHOOSE;
that some function satisfies its equation is proved with `Recursion`, and the fact
about what it computes with `SetInduction`. So for the filter
(`RetainedFacts`: the elements at the positions kept, in their order), for `max_by`
(`GreatestDef`, `GreatestFacts`) and, with the number of names not on the path as the
measure, for the depth-first walk.

**Dispatch.** `SingleFlight` is not inductive: it needs that a request in flight
owns the record of its key (`Reserved`: the record is Pending, created when the
request started) and that it has not outlived the ttl (`OnTime`). This is
`FlightInv`; it needs `TimelyHandlers`, that the ttl covers the slowest handler.
`RepliesAgree` and `EventsOncePerKey` need in addition that a result once served
or emitted is kept (`KeptInv`): it is the record of its key in the map, or, while
the process is down, in the file, unless the file is corrupt and no process will
ever serve again. This needs `RecordsKept`: no ttl, and a file if the process
restarts. A dispatch that fails after its insert took effect in the file only is
why memory and file are related by two clauses rather than by equality.
The refinement is a step simulation under the same invariant: every action changes
the record behind each slot by a `RecordStep` (reserve, resolve, release, nothing), a
crash included, which may free every busy key at once; a file that became corrupt
halts the abstract specification for good. `StoreReopens` needs only that
the file of a live process ends with a whole line (`ReopenInv`), since `Open` cuts
what a crash left.

**Lease.** `IInv` relates the sidecar to everything published: no lease has an
epoch above it, and the process between its two writes holds the lock with exactly
that epoch. `OneBeliever` follows with the assumption that drift stays within the
skew, from the bound between a believer's clock and the lease's expiration.

**Replication.** A request reads the checkpoint in one lock section and appends in
another, so the log is not related to the checkpoint it read by equality but by
growth: all that a request was placed by stays in the log (`Placed`), and what is
answered with success is in it (`Accepted`). With that `CheckpointBacked` is
inductive. `NothingLost` adds the leader's side: a client that waits for a handler
waits for one that works on its batch (`Exchanges`), so an acknowledgement is of
something in the log (`Kept`), and every event there comes from a batch the leader
built (`Sourced`); that a sequence is in the log then means that the batch's own
event is, when batches do not contradict each other (`OneStream`). With one request
at a time the checkpoint does not move between the two sections (`Advances`). The
proof of the types showed why `TypeOK` cannot claim the processed table's bound: the
table is looked up in one section and recorded in a later one, so overlapping requests
of one batch record it twice, and when the second entry of the queue becomes the oldest
it evicts nothing (receiver.rs:228-237).

**Peer RPC.** The store must know a nonce for as long as its envelope could be
accepted again (`SpentKnown`); this is inductive with one envelope per nonce,
stamped no later than now, and tries that count down. Each store keeps it in its own
way: by window, by ttl, and the bounded one by refusing when full. A command without
a key is tried once, which gives the second half.

**Leadership.** A lease that a core may write with, in its guard or in an answer
under way, is the slot's, or the slot has its renewal (`HeldLeasesBacked`); two cores
that both may write would both be the slot's holder. Late releases and restores break
this for leases granted before them, which expire by `safeFrom` (`Term`). Epochs:
`last_epoch` bounds everything granted until something is restored.

**Routing and manifests.** What the resolver checked of a provider goes with the call
(`CallOK`); since it is not asked again, the invariant is about the call and not
about the directory, whose entries were heard of within the retention when they were
discovered; the one chosen is the first of the candidates in the directory's order
(`FirstIsOne`). A manifest in
hand is valid as a whole although each call validates only what it changes: the lemmas
show for every call which conjuncts of `ValidApplication` the changed field occurs in.

**Scheduler.** A marked task has its callback on exactly one thread that has not
finished, or in the coordinator's selection (`MarksOK`). The bound on concurrency rests
on `available` being read when `active` could only fall (`CountOK`); selecting the
smallest needs that no two tasks share a place in the order of registration (`OrderOK`).
A shutdown returns only after the coordinator left, and it leaves with nothing
registered or running (`StopOK`).

**Placement.** The invariant adds to `PlacedWhereItFits` the types of what cores report
and that a lease has one holder (`LeasesOK`), without which an eligible leader need not
be alone. That a decision is right is a fact about functions: the constraints fail
nowhere exactly when `Fits` holds (`EligibleWhenItFits`); a sorted arrangement of the
candidates exists, so the CHOOSE of `SortedById` is one (`SortedPlaces` takes the ids
from their order with `Retained` and counts them); score and then id is a total order
(`OutranksIsTotal`, `OutranksIsTransitive`), and the recursion keeps the greatest of what
it has seen (`GreatestFacts`).

**Service graph and restarts.** A walk that reports no cycle has every name it
came to in its order, each once and after what it needs (`Sound`, `Covers`), by
induction on the number of names not on the path; it meets a name on its path only if no ranking of the services decreases along the dependencies (`Frees`), and the
positions in an order without a cycle are such a ranking. `RestartsArePaidFor` is an account:
a restart of a service that may still be handed to the workers stands in its record or in the
round's list (`Waiting`), or was paid by the reconcile thread or the operator, who has
not written it yet (`RoundOwes`, `OperatorOwes`); each of these claims has a paid
attempt of its own (`Paid`). A completion, a cancellation or a stop only gives claims
up; the step that hands a restart over ends the claim at the same time as it spends the
attempt, which is why `Handed` is left out of `Waiting` until the record says so.

**Managed thread and watchdog.** With one caller, every live thread is the runtime of
the state or the one being stopped (`LiveThreadsAreOwned`), and while a stop waits the
state has no runtime (`TakenOut`); with the types this is inductive, and gives
`OneInstance`. For the watchdog, the state `Settled` (Stopping, and nobody between his
look and his store) is closed under every step.

**Update.** `RecoversToHealthy` speaks of one place only; what makes it true is that
at every moment the active artifact passed a health check or is the one the pending
receipt names (`Reversible`), and that every receipt, on disk or in the process,
replaces a healthy artifact that resolves and is not older than any reported one
(`Sound`). The receipt is on disk before the switch (`Activating`), what happens
between recovery and the switch happens to a healthy artifact (`Settled`), and an
update is reported as applied only when no receipt is left that would undo it
(`Ending`). That `Same` compares build ids is enough because two descriptors that
both resolve under one build id are equal (`SameResolved`).

**Journal and storage.** The memory of an open journal is what its lines yield
(`JournalInv`); a compaction keeps a suffix of the records and chains it anew, and the
lemmas say that such a suffix loads and is never empty. The storage's root exists
while the storage is in use, but for the moment between the renames of a restore, when
both siblings are good (`RestoreOK`); once recovery looked for a root, a missing one
has no sibling (`PromoteOK`).

**Keyring, API, gateway, coordination store.** The keyring's invariant says what the
holder of the lock has read and written so far (`OperationOK`): the key it is about to
deprecate is stored, and a superseded one stays deprecated or becomes revoked. The
API's says that a token carries what it was granted for (`TokensOK`) and that the audit
of a query is empty until it is answered. The gateway's tables are keyed by the task
that made the entry, for the connection it was routed to (`RoutesOK`), so an answer
accepted under an id used again is still the asked worker's; the count and the
capabilities are functions of the set of workers (`WorkersOK`). For its owner, a stop
under way has taken the server out of the state (`StopsAlone`). A credential that opened
a connection is in the replay store for as long as it verifies (`Used`). The
coordination store's file was always written by a release, and is the latest once an
open store's restores came to their end (`HandleOK`).

Left to TLC: liveness (`OutboxDrains`, `ShutdownCompletes`, `DueTasksRun`,
`StallIsDetected`, `FailureIsAnswered`), since the prover has no fairness or ENABLED.
Every invariant and action property of a passing run is a theorem.

## Not modelled

`PROJECT.json` lists every part with the reason. In short: cryptography, encodings,
cron expressions, HTTP parsing and log wording are abstracted or left out; the DNT
container is a codec and its ciphers; the argument parser is a sequential function of
strings; observability is counters and sinks that may lose; the builder, buses and
plugins are filled once at construction; the job provider is a trait without an
implementation; snapshots of the replication log are offered to hosts and called by
no code here; transports are the lossy exchange the models above have.

## Plan

1. Done: dispatch with its abstract specification, leases, leadership, presence and
   capability routing, coordination store and manifests, replication, scheduler and
   placement, supervisor with its adapters and watchdog, artifact update, storage,
   journal, keyring, tokens and API, gateway, peer RPC; theorems for all of them.
2. Compositions that share state: `Supervision` over `ManagedThread` in place of the
   callback adapter, two host threads over `GatewayRuntime`, the resolver over the
   leadership of `ServiceLeadership`.
3. Snapshots in `Replication`.
