# A verification development for proxa

proxa runs containers the way a small orchestrator does: an operator stores
services (a task definition and a replica count) over an HTTP API, a reconciler
compares them with the containers of a Docker daemon and closes the gap, probes
watch the replicas, and an ingress routes traffic to the healthy ones. This
directory models the parts of it that carry concurrent state, checks them with
TLC on small instances, and proves every safety property of the passing runs with
TLAPS for all instances.

## The system

| Component | State it keeps | Operations | Interacts with |
|---|---|---|---|
| reconciler (`internal/reconciler`) | none between ticks; within a tick the rows and the containers it read and the actions it still has to apply | tick: push routes, list, diff, apply actions, list again, publish backends, track probes, persist statuses; `Poke` | store, runtime, probe manager, ingress, audit log |
| probe manager (`internal/probe`) | one entry per tracked container: spec hash, history of results, snapshot, goroutine | `Track`, `Untrack`, `Snapshot`, `TrackedIDs`, shutdown; one probe loop per entry | reconciler calls it, loops call the runtime |
| container runtime (`internal/runtime/docker`) | the daemon's containers | pull, create, start, stop, remove, rename, inspect, list | reconciler, probes, API |
| service store (`internal/store/sqlite`) | table rows | put (whole-row upsert), get, list, delete | API handlers and reconciler write the same rows |
| HTTP API (`internal/server`) | none | upsert, scale, delete of services, projects, host containers | store, `Poke` |
| ingress (`internal/ingress`) | route table, backend pool per service, L4 forwarders with their listeners, sticky UDP sources | `UpdateRoutes`, `UpdateBackends`, `Pick`, `Start`, `Stop`, accept and read loops | filled by the reconciler, read by requests |
| event bus and hooks (`internal/events`, `internal/plugin`) | subscriber channels, hook queues and workers | subscribe, register, publish, close | nothing yet: the server constructs neither, so that its hazards are latent |
| audit log (`internal/events/store.go`) | the table events | `Append`, `Tail` | handlers append, the panel reads |
| host containers and log streams (`internal/server`) | none; each request makes several calls of the daemon | start, stop, restart, remove of containers that are not Proxa's; logs by replica or by name | runtime, audit log |
| init, migrations, auth (`internal/cli/init.go`, `internal/store/sqlite`, `internal/auth`) | `proxa.db` and its schema, `secrets.key`, `token`, subject and policy | `proxa init`, `Migrate`, `RequireAuth`; `Authorize`, which only the log stream asks | init and server share the directory |
| spec hash (`internal/hash`) | none | `Hash` | reconciler, store |
| parser, CLI client, web UI, TLS, cluster, secrets | files | one-shot operations | see `components` in PROJECT.json |

What is hard here:

* a tick lasts minutes (image pulls, health deadlines), and everything it acts
  on was read at its start: edits, exits, probe results and restarts fall
  between any two of its runtime calls;
* every runtime call can fail, and a rollout is five to seven of them;
* the reconciler keeps nothing on disk: after a restart it only has the labels;
* API and reconciler write the same rows, whole;
* probe loops, `Track`, `Untrack` and shutdown run concurrently;
* publishers, subscribers and `Close` share channels, and a send on a closed
  channel ends the process;
* a request reads the route table, the pool and the backend one after the other
  while the reconciler swaps, refills and forgets them;
* routes are checked in one transaction and stored in another;
* an L4 forwarder may be stopped, or its successor started, before it has bound;
* `init` and the server migrate one database, and either may die at any step;
* the operator's requests inspect a container and then act on it by name.

What makes each part correct: the reconciler ends up with what the rows ask for,
never takes a working replica away before its successor works, and never runs two
writers of a stateful slot; the probe manager runs one loop per container and
never shows a result of another check; the ingress answers a request in one way,
with a backend that was published as healthy, and keeps a host with its project;
the store loses no edit; receivers see events in order, `Close` loses none and a hook that blocks holds
nobody else up; a port leads to the service the table names; the schema is that of a version and the
token on disk works; the operator's requests leave Proxa's containers alone.

## Modules

| Module | What it is |
|---|---|
| `Reconciler` | the reconciler of one project against rows, containers, probes and ingress |
| `ReconcilerProofs` | its theorems |
| `ProbeRegister` | what the probe manager promises: a register per container |
| `ProbeManager` | the manager, its loops and its shutdown at the granularity of the mutex |
| `ProbeManagerProofs` | its theorems, among them that it implements `ProbeRegister` |
| `Routes` | pure: route conflicts, accepted tables, lookup |
| `Ingress` | handlers, reconciler, table, pools and requests around `Routes` |
| `IngressProofs` | its theorems about routes |
| `BalancingProofs` | its theorems about pools and requests |
| `Forwarding` | the L4 forwarders: binding, serving, stopping, sticky sources, shutdown |
| `ForwardingProofs` | its theorems |
| `Events` | the bus and the hook registry: channels, publishers, workers, close |
| `EventsProofs` | its theorems |
| `Access` | pure: the policy decision |
| `Bootstrap` | `init`, the server's migration and authentication on one data directory |
| `BootstrapProofs` | its theorems |
| `Operations` | actions on host containers, the audit log, log streams |
| `OperationsProofs` | its theorems |
| `MCReconciler`, `MCProbeManager`, `MCIngress`, `MCForwarding`, `MCEvents`, `MCBootstrap`, `MCOperations` | instances for TLC |

`map` in PROJECT.json names the source lines of every definition. A definition
whose comment begins "Wrong form of" is no part of the model: it is a plausible
mistake in the definition that follows it, kept to show that a property notices.

### Reconciler

`row` is the services table, `ctr` the daemon's containers (labels, name, state),
`probes` the entries of the probe manager, `table` and `pool` what the ingress
has been told. The locals of the goroutine are `pc`, `desired` and `actual` (what
it read), `todo` (actions not applied), `cur` and `new`.

A tick is `PushRoutes`, `Plan` (list rows and containers, `Compute`), one action
at a time, `EndTick`/`Relist`, `PushBackends`, `TrackProbes` and `Persist`. An
action is one step for each runtime call that changes something:
`ApplyRemove`; `ApplyCreate`, `CreateStart`; start-first is `SfCreate`,
`SfStart`, then `SfHealthy` or `SfTimeout`, `SfDiscard` or `SfRemoveOld`,
`SfRename`; stop-first is `SpStop`, `SpRemove`, `SpCreate`, `SpStart`, `SpWait`.
Each has its failing form where the code handles an error, enabled while
`budget.fault` lasts and the call is in `FaultAt`. `Compute` keeps the one
nondeterminism of the code: if two live containers share a slot, whichever is
listed last stays in `actualMap`.

Around the tick: `ApiUpsert`, `ApiScale`, `ApiDelete`, `ContainerExits`,
`ProbeResult`, `ProbeLoopReturns` (a first inspect that fails ends the loop) and
`ServerRestarts`, which loses locals, probes and ingress and keeps rows and
containers.

Where several source steps are one step of the model, nothing in between is
visible: `Plan` reads rows and containers together because only the rows are
written by the API and only the containers change by themselves, so a change
between the two reads is one before or after both; tracking and persisting go
service by service over disjoint state, and a failure in the middle is a set of
services that were not written. The health deadline is not a clock:
`DeadlinePassed` says a new container may be given up once it has been probed and
failed, which is what the code's deadline, at least two probe intervals, ensures.

### ProbeManager

An entry is an object with an identity (`Objs`), so that the loop of an entry
that was replaced can still be told from its successor. `Track` is
`TrackNew`, or `TrackChanged` (cancel, unlock, wait), `TrackReplace` and
`TrackGo`; `Untrack` is `Untrack`, `UntrackCancel`, `UntrackDone`; a loop is
`LoopStart`, `LoopReturns`, `Record`, `LoopTick`, `LoopExit`; `Shutdown` cancels the manager's
context and `RunReturns` is its `wg.Wait`. There is one caller at a time, the
reconciler goroutine. `ProbeRegister` is what `Reconciler` takes the manager for;
`ImplementsRegister` is the refinement, with `Reg` as the mapping.

### Routes and Ingress

Paths are sequences of characters, so that prefixes, trailing wildcards and
lengths mean what they mean in `matchPath` and in the sort of `BuildRouter`.
`RoutesConflict` is the check of the handlers, `Clash` and `Accepts` that of
`BuildRouter`; they differ, and that is a finding below.

`handler` holds the API calls in flight: `UpsertBegin`, one `UpsertCheck` for each
project listed, `ScaleGet`, `HandlerPut`, `Delete`. `tick` is the reconciler as the
routing sees it: `TickBegin`, one `Collect` per project, `UpdateRoutes`, and for each
project `ReadProject`, `PushBackends` and `EndProject`, which writes rows back as
they were read. What the backend lists contain is left open (`Lists`): that is the
matter of `Reconciler`. A request is `Lookup`, `GetPool`, `Pick`, `Answered`. Pools
have an identity, because a request may hold one the registry has forgotten; a
pool nothing refers to is garbage. `forwarders` is the map of L4 forwarders, which
only fills once `Run` has begun. `released`, `published`, `picks` and `fresh` are
history and no guard reads them.

### Forwarding

`Ingress` has only the map of forwarders; here `fwd` is every forwarder ever
started, with what its goroutine has done (`starting`, `bound`, `serving`,
`returned`) and its listener, because `UpdateRoutes` neither waits for a start nor
for a stop. `Listen` may find the port taken; `Stop` closes the listener it can
see, which may be none yet; `LoopEnds` is guarded by the context alone, as the
loops are. A table gives each (protocol, port) a service and a pool is a set of
healthy backends. Connections are `Accept`, `Pick`, `Dial`, `Hangup`; `Datagram`
uses or makes the entry of its source, and `Clock` ages entries. `early` and
`moved` are history: the two ways a port comes to lead elsewhere.

### Events

The bus and the hook registry publish alike, so one model has both:
`PublishBegin` is the copy under the read lock, `Send` one send without it, in any
order. `Unsubscribe` takes a channel out and closes it in one critical section;
`CloseBegin`, `CloseNext` and `CloseWaited` are `registry.Close`. `Send` on a
closed channel sets `down`, after which nothing moves: the process has ended.
Neither `NewBus` nor `NewRegistry` has a caller at this commit (the server uses the
audit log alone): what is said here is what a first hook or subscriber will meet.

### Access and Bootstrap

`Access` is `Authorize` of the policy engine. `Bootstrap` has any number of inits
and one server as processes with a program counter. `Migrate` is `ReadVersion`
(outside a transaction), then for each version `ApplyMigration`, which takes
SQLite's write lock or fails on a table that is there, and `CommitMigration`. An
init goes on with `StatKey`, `KeyCreate`, `KeyWrite` (a file is created, then
written), `PutSubject`, `TokenCreate`, `TokenWrite`, `PutPolicy`. `Die` is an error
or a kill at any point. A request of the API is `Send`, `ReadSubject` (a copy of the
row), `Authenticate` (the comparison with the copy) and `Answer`; only a log stream
has `Decide` in between, because `handlers_logs.go:62` is the one caller of
`Authorize`. The dashboard's requests over the Unix socket need no token
(`RequireAuthOrUnix`) and are left out.
Tokens and keys are values of `Secrets`; a new one is one not in use anywhere,
and the digest is taken as injective. Whether an init ran `alone` is history.

### Operations

`ctr` is the daemon's containers with their names, which the environment creates,
starts, stops, removes and renames; what the reconciler does with them is the
matter of `Reconciler`. `Inspect` is the handler's check, `Call` the daemon's call
with the caller's words again, `Stamp` and `Insert` the two halves of `Append`.
`TailEvents` is the query of `Tail`. `ResolveReplica` and `InspectForLogs` resolve
a log stream and `StreamLogs` opens it.

## Runs

| Run | Instance | What it shows |
|---|---|---|
| `rollout_safety` | 1 service, 1 replica, 3 containers, images that work, fail and flap, the strategy implied or stated; 2 edits, an exit, a fault at any call, a restart | `TypeOK`, `RolloutInv`, `KeepsServing`, `NoNeedlessTeardown` |
| `stop_first` | 1 stateful service, 2 replicas, 4 containers, same budget | `OneContainerPerSlot`; `HealthyCoversSlots` in histories without fault or restart |
| `convergence` | specs whose images work, probed or trusted, either strategy; 2 edits, an exit | `CoverInv`, `Converges` |
| `probe_manager` | 2 containers, 3 entries, 3 checks, history of 2 | `TypeOK`, `OneLoopPerContainer`, `ImplementsRegister`, `CallsReturn`, `ShutdownCompletes` |
| `routing` | 3 services of 2 projects, one host and one port, 2 handlers; 3 edits, one failed list | `TypeOK`, `OneRoute`, `MostSpecific`, `KeepsHost`, `RoutesPublished` |
| `balancing` | 1 service, 2 strategies, 2 requests, 3 containers; lists that are empty, partly ill, changed or all healthy; a cursor that wraps at 5 | `FreshBackends`, `Rotates` |
| `forwarding` | one port for TCP or UDP, 2 services, 2 forwarders per key, one connection, one UDP source; 3 edits, 2 changes of the pools | `TypeOK`, `StraysExplained`, `StickyExpires`, `PortsOpen`, `ShutdownEnds` |
| `events` | 1 subscriber, 2 hooks, 2 publishers, 2 events, buffers of 1 | `TypeOK`, `InOrder`, `PanicsOnlyInRace`, `CloseDrains`, `BlocksOnlyItself` |
| `bootstrap` | 2 inits, 2 schema versions, 1 request, 2 deaths, 1 needless init | `TypeOK`, `SchemaWhole`, `TokenWorks`, `JudgedAsStored`, `KeyKept`, `Recovers` |
| `operations` | 3 containers, 2 replicas, 2 handlers, 1 stream, 2 requests, 2 moments; an operator's container with a replica's name | `TypeOK`, `HandsOff`, `AuditTrail`, `RightReplica` |
| `lost_update`, `stored_routes` | as small as the counterexample needs | findings |

Why the bounds are enough to be interesting. Two edits allow an upgrade in the
middle of an upgrade, a scale-down under a rollout, and a delete followed by a new
upsert; three edits of routes allow a host to be taken, given up and taken by
another project while a check is under way, and a port to be taken, left and taken
again while its first forwarder has not bound. Container ids are reused once nothing
refers to them, so three ids hold the old, the new and a stray container of a
slot; four cover two slots. A history of two is the smallest in which a streak
can be broken and also saturate. Three entries hold a current, a replaced and a
fresh one. Three pools are the registry's, and one for each request that still
holds a forgotten one. The cursor counts modulo 5, which neither 2 nor 3 healthy
backends divide, as 3 does not divide 2^64: where it wraps, the rotation shifts once,
and `Rotates` counts anew from there. The globs of `routing` are exact ones, "/a/*",
"/a*" and the catch-all, so that each way of outranking an exact path occurs. A buffer of one is the smallest that holds an event and is full.
Two deaths cut the same init, or an init and the server, short. Eight secrets are
more than can be in use at once, which `BootstrapAssumption` asks for. Two moments
let times and rows of the audit log disagree; of its operations `start` and
`restart` differ from `stop` only in the state they leave. Symmetry is used only
over container ids, request names and handlers, in runs without liveness.

Faults and crashes are left out of `convergence` on purpose: with them it fails
(see "Disagreements without a run").

Deadlock is checked except in `probe_manager` (the manager shuts down), `events`
(the process may end, and the events run out) and `operations` (requests and time
run out).

### Fairness

* `Reconciler`: weak fairness of the tick's steps (`Run` loops on a ticker, and
  every runtime call returns) and of each probe loop (its own goroutine and ticker).
  None of edits, exits, faults or restarts.
* `ProbeManager`: weak fairness of the caller, of the loops and of `Run`'s return,
  and strong fairness of a loop's exit: `select` between a ready ticker and a
  cancelled context picks at random, so the ticker is not taken for ever.
* `Ingress`: weak fairness of the reconciler and of `Run`, both started by
  `runServer`. API calls and requests may hang.
* `Forwarding`: weak fairness of `Run`, of the reconciler's `UpdateRoutes`, of each
  forwarder's goroutine, of picking and dialling (dials time out), and of the end of
  a connection once the context is done, which is when the code closes it. None of
  edits, pools, accepts, datagrams or the end of a connection before.
* `Events`: weak fairness of `Close`, of each worker where it does not wait for its
  hook, and of the sends. None of the return of OnEvent, which `hook.go:33` allows
  to block: `BlocksOnlyItself` holds although a hook hangs, and that `Close` returns
  does not.
* `Bootstrap`: weak fairness of the steps of a process, of an operator who runs init
  again while none has succeeded, and of a service manager that starts the server
  again. None of deaths, needless inits or requests.

## Findings

* `lost_update`: the status is persisted with the row read at the start of the
  tick, so an edit or a delete during the tick is undone.
* `stored_routes`: routes are stored that `BuildRouter` rejects, and a rejected
  table freezes the routing of every project.

PROJECT.json quotes for each the sentence of the repository it contradicts.

### Disagreements without a run

Met while modelling; the model has the behaviour, and no run is spent on it.

* A restart between creating the "-new" container and removing the old one leaves
  two in the slot, of which `Compute` sees one (`diff.go:72`): the service need
  never converge. The same holds after a rename that failed (`strategy.go:130`).
* The container a rollback keeps is probed with the new spec's check
  (`reconciler.go:285`) and may be removed by it, against SC-007 of the spec.
* A probe cancelled by `Untrack` is logged as a transition of a container that is
  no longer tracked (`manager.go:212`, against the comment at `:80`).
* A stopped forwarder's loop does not return before the whole ingress shuts down
  and spins on the closed listener until then (`l4.go:95`, against the comment at
  `l4.go:67`).
* A forwarder that cannot bind, because a former one or another program has the
  port, returns, and its entry in the map keeps later ticks from trying again
  (`l4.go:81`, `certmagic_ingress.go:187`). `Forwarding` has the first case only.
* "/a/*" and "/a*" are longer than the exact "/a" and answer for it
  (`router.go:147`), against the comment above it, "LookupL7 picks the most specific
  match"; `MostSpecific` names the exception.
* With `retries` above 32, the cap of the history (`probe/result.go:19`), the streak
  never reaches them and a failing container is never rotated.
* The policy engine is asked for the logs of a service and for nothing else
  (`handlers_logs.go:62`; `routes.go:9` mounts `RequireAuth` alone), against
  `internal/auth/auth.go:1`: "consumed together by the API middleware: authenticate,
  then authorize". As long as the one subject is an admin no answer depends on it.
* `Close` of the hook registry waits for each worker without a bound
  (`hook.go:130`), against `hook.go:47`: "waits for in-flight Hooks to finish
  (best-effort, bounded)". A hook that never returns blocks it for ever.
* A subscription that ends, or `Close`, between a publisher's copy of the channels
  and its send makes the send panic and ends the process (`bus.go:49`,
  `hook.go:109`), against "Non-blocking; returns immediately after the event is
  queued" (`hook.go:44`). `PanicsOnlyInRace` confines it to that race.
* The append of an audit event is given the request's context and its error is
  ignored (`host_containers_api.go:133`), against FR-006 of `specs/008-container-ui`:
  "Every successful write emits an event row".
* Migrations read the version outside a transaction and hold no lock across it
  (`migrations.go:36`), against FR-008 of `specs/007-architectural-foundations`:
  "MUST hold an exclusive lock during migrations". `SchemaWhole` and `Recovers` show
  what the transactions save: the loser of the race fails, and starts again.
* A log stream's replica is an index into the containers found, not a label
  (`handlers_logs.go:164`), while the headers name the replica asked for.
* `WatchServices` misses an update within the resolution of `updated_at`
  (`watch.go:82`); it has no caller.

## What is proved

TLAPS checks every proof below for all values of the constants, under the named
assumptions of the modules that declare them: the types of the constants, sentinels
that are no ordinary values, and three facts about the outside. A backend list names
a container once (`pushBackends` takes it from the daemon's list), an id of the
daemon is no container's name, and there are more secrets than can be in use. TLC
evaluates the assumptions in each run. Each inductive invariant was checked by TLC
on the instances of the runs before it was proved.

* **Reconciler.** `RolloutInv` is inductive: `TypeOK`; `PlanInv` (each planned action
  still fits its slot and carries the desired spec); `CurrentInv` (at each step of a
  strategy, `cur` and `new` are the containers that step assumes); `ProbeInv` (a
  probe marked healthy has passed). `KeepsServing` and `NoNeedlessTeardown` follow
  step by step, because what a removal relies on was established several runtime
  calls earlier. `NoTwoWriters` proves `OneContainerPerSlot` if every spec is
  stop-first; with start-first it is false by design.
  `HealthyCoversSlots` holds whatever the strategies. `Aggregate` only compares
  numbers, so that a stray container could stand in for a missing one. `CoverInv`
  excludes it while nothing was refused or restarted: two containers share a slot
  only in the four steps of start-first that overlap them (`SlotInv`); a "-new" name
  is gone when its action is (`NameInv`), so that a create in an occupied slot fails;
  what an unwanted slot holds is in the plan, none hidden by another in `actualMap`
  (`LeavingInv`); hence the last list has one probed container per slot, in wanted
  slots (`RelistedInv`). As many containers as slots, no two in one, fill them all.
* **ProbeManager.** `LoopInv`: a loop that may still run belongs to the map's entry
  or to the entry the caller is waiting for. `OneLoopPerContainer` follows, and the
  refinement of `ProbeRegister`: every step of the manager is a step of the
  register or changes nothing of it.
* **Ingress, routes.** `LookupIsUnique`: in an accepted table two best matches are the
  same route, because globs of one length that match one path agree character by
  character. With `Accepts(table)` this gives `OneRoute`. `MostSpecific` is a fact
  about globs: of two that match a path, the longer one with a star is the narrower,
  and an exact one is outranked only by itself with "*" or "/*" appended. (The attempt
  to prove it with "/*" alone showed that "p*", which `Validate` lets pass, is a second
  exception.) `KeepsHost` needs more: a table is collected project by project while
  rows change. `RoutingInv` therefore says that a host missing from what was collected
  of a project was missing from its rows at some time since the tick began.
* **Ingress, pools.** `BalancingInv`. For `FreshBackends`: a pool belongs to one
  service, as do the requests that hold it (`OwnerInv`), the registry's pool has what
  was published last (`PublishedInv`), and a request has seen published whatever its
  pool now holds (`FreshInv`), be it refilled under it or forgotten. For `Rotates`:
  `RotationInv`, the picks of a pool are 1 for the last d healthy backends before the
  cursor and 0 for the others. It rests on lemmas about `%`, on the n-th healthy
  backend being well defined (`PlacesOf`, a counting argument) and on the step of the
  rotation (`AdvanceRotates`). (The attempt showed that a property that ignores the
  wrap of the cursor holds only for healthy counts that divide its span.)
* **Forwarding.** `ForwardingInv`: a forwarder that listens, or is about to, and was
  neither stopped before it had bound nor had its key moved, is the one in the map
  and has the table's service (`CurrentInv`); the forwarders of a key are started in
  sequence (`StartedInv`). This gives `StraysExplained`. `StickyInv`: the time a source
  keeps its backend and the age of a backend that left the pool add up to no more
  than the sticky time, which gives `StickyExpires`.
* **Operations.** `OperationsInv`. `HandsOff`: ids are used once (`BornInv`), so the
  container that passed the check is no managed one as long as it exists
  (`CheckedInv`); what a name leads to afterwards is the exception the property names.
  `RightReplica`: a replica's stream is opened by id (`StreamInv`). `AuditTrail`: a
  ticket belongs to one request and then to one event (`TicketInv`), and who was
  answered before another began has an earlier time and row (`OrderInv`); that `Tail`
  then lists them in order is a lemma about ranks in a finite set.
* **Events.** `CopyInv`: channels in the maps are open, and a closed one in a
  publisher's copy means there was a race; this gives `PanicsOnlyInRace`. `DrainInv`
  ties each worker to its channel and to how far `Close` has come, from which
  `CloseDrains` follows. `OrderInv`: an event belongs to one publisher, has not been
  sent to what is still to be sent to, and while it is being sent no other begins
  after it; `InOrder` is a part of it that is not inductive without the rest.
* **Bootstrap.** `SchemaInv`: versions have no gap, a process in a transaction holds
  the write lock and is at the version it found; this gives `SchemaWhole`.
  `AloneInv` says how far an init that runs alone has come and what it has written,
  `UsableInv` what it has left behind; `TokenWorks` and `KeyKept` follow.
  `RequestInv`: a request in flight has lived through the hash that is stored and the
  one it has read, from which `JudgedAsStored` follows: the moment of the read is
  the moment at which the verdict was right. That there always is a secret not in use is a counting
  argument over the assumption on `Secrets`.

Only model-checked: `Converges`, `CallsReturn`, `ShutdownCompletes`,
`RoutesPublished`, `PortsOpen`, `ShutdownEnds`, `BlocksOnlyItself` and `Recovers`, because
liveness under fairness is out of the prover's reach. Every other property of a
passing run is a theorem.

## What is not modelled

Parsing of task files and the checks of one file, hashing as a function on bytes,
password hashing, the sandbox of paths, single API calls of the command line, the
pages of the web UI and certificate management (delegated to certmagic) are pure
syntax, primitives or pure I/O; a probe is one request or one exec, abstracted to
its outcome. Jobs, nodes, cluster, secrets and snapshots have no behaviour yet, and
`WatchServices` has no caller. SQLite is taken as one database with one writer at a
time that waits: that the pragmas reach one connection of the pool only
(`sqlite.go:70`) is below the model. Which requests meet a container already
removed but still in a pool (`strategy.go:124`) needs `Reconciler` composed with the
request path of `Ingress`, whose product is out of TLC's reach at useful bounds.

## Plan

1. Theorems about pure operators that only their uses cover so far: that `Compute`
   of a plan that was carried out is empty (a tick that changes nothing is the last).
2. An abstract specification of the bus: each subscriber sees a subsequence of
   what is published, with `Events` shown to implement it.
3. `Validate` of one task file as pure operators.
