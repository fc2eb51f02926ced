------------------------------ MODULE Reconciler ------------------------------
(***************************************************************************)
(* The reconciler of one project (internal/reconciler): a single goroutine *)
(* that reads the desired services, lists the containers, computes the     *)
(* actions that close the gap and applies them one runtime call at a time, *)
(* then wires probes, publishes ingress backends and persists statuses.    *)
(*                                                                         *)
(* Around it move the actors whose steps interleave with a tick: the API   *)
(* writing service rows, probe goroutines recording results, containers    *)
(* exiting, the runtime refusing calls, and the server process dying and   *)
(* being started again on the same daemon and the same database.           *)
(***************************************************************************)
EXTENDS Naturals, FiniteSets

CONSTANTS
  Services,      \* service names, as numbers in name order
  MaxReplicas,   \* bound on replicas of one service
  Ids,           \* container ids
  Specs,         \* task definitions the API may store
  Images, Checks,
  NoHealth,      \* the empty [health] block, a member of Checks
  Retries,       \* effective retries of a check, defaulted to 3 by the code
  Outcomes,      \* what probing a running image with a check can answer
  HistoryCap,    \* historyCap of internal/probe
  Budget,        \* how many edits, exits, faults and crashes a run may see
  FaultAt,       \* the runtime and store calls a fault may hit
  NoContainer, NoRow, Untracked, NoId, NoSpec

VARIABLES
  row,      \* the services table: the row of each service, or NoRow
  ctr,      \* the daemon's containers, stopped ones included
  probes,   \* probe.Manager entries: container id -> entry
  table,    \* services the ingress routes to
  pool,     \* ingress backends of each service
  pc,       \* where the reconciler goroutine is
  desired,  \* its ListServices result, taken at the start of the tick
  actual,   \* its latest ListContainers result, while it is in use
  todo,     \* actions of this tick not applied yet
  cur,      \* the action being applied
  new,      \* the container the current action created
  budget    \* what is left of Budget

store == <<row>>
ingress == <<table, pool>>
locals == <<pc, desired, actual, todo, cur, new>>
vars == <<row, ctr, probes, table, pool, pc, desired, actual, todo, cur, new, budget>>

Replicas == 0 .. MaxReplicas - 1
Slots == Services \X Replicas
Statuses == {"pending", "reconciling", "healthy", "degraded", "failed", "stopped"}
Strategies == {"", "start-first", "stop-first"}
Kinds == {"edit", "exit", "fault", "crash"}
Calls == {"list", "create", "start", "stop", "remove", "rename", "inspect", "put"}

TaskDef == [image: Images, health: Checks, stateful: BOOLEAN,
            strategy: Strategies, routed: BOOLEAN]

ASSUME ServicesAssumption == Services \subseteq Nat
ASSUME BoundsAssumption == MaxReplicas \in Nat /\ HistoryCap \in Nat \ {0}
ASSUME SpecsAssumption == Specs \subseteq TaskDef /\ NoHealth \in Checks
ASSUME RetriesAssumption == Retries \in [Checks -> Nat \ {0}]
ASSUME OutcomesAssumption ==
  Outcomes \in [Images \X Checks -> (SUBSET BOOLEAN) \ {{}}]
ASSUME BudgetAssumption == Budget \in [Kinds -> Nat] /\ FaultAt \subseteq Calls

-----------------------------------------------------------------------------
(* Specs, containers, actions. *)

\* Wrong form of Hash: the strategy counts.
HashOfAll(spec) == [image |-> spec.image, health |-> spec.health,
                    stateful |-> spec.stateful, routed |-> spec.routed,
                    strategy |-> spec.strategy]

\* The spec hash leaves out replicas, strategy and schedule, so that scaling
\* or changing the strategy never tears a container down.
Hash(spec) == [image |-> spec.image, health |-> spec.health,
               stateful |-> spec.stateful, routed |-> spec.routed]

\* The probe-relevant part of a spec, by which Track detects a change. A check
\* stands for all that manager.go:377 hashes, the exposed ports among it; checks
\* that differ only in what it leaves out (via, redirects) are one check.
HashSpec(spec) == spec.health

\* Wrong form of SelectStrategy: stateful is forgotten.
SelectExplicit(spec) == IF spec.strategy # "" THEN spec.strategy ELSE "start-first"

\* The explicit strategy, else stop-first exactly for stateful services.
SelectStrategy(spec) ==
  IF spec.strategy # "" THEN spec.strategy
  ELSE IF spec.stateful THEN "stop-first" ELSE "start-first"

HashSet == {Hash(s) : s \in Specs}

\* A managed container: its labels, its name ("canonical", or "new" for the
\* "-new" suffix) and its state. "created" was never started.
Container == [svc: Services, replica: Replicas, hash: HashSet,
              name: {"canonical", "new"},
              state: {"created", "running", "exited"}]

Row == [spec: Specs, replicas: 0 .. MaxReplicas, status: Statuses]

\* passed is a history component: some probe succeeded since Track, or there
\* is nothing to probe. alive is FALSE once probeLoop returned early.
Entry == [check: Checks, ok: BOOLEAN, streak: 0 .. HistoryCap,
          passed: BOOLEAN, alive: BOOLEAN]

Backend == [id: Ids, healthy: BOOLEAN]

\* Fields an action does not use hold the zero value, as in the Go struct.
Action == [type: {"create", "remove", "replace"}, svc: Services,
           replica: Replicas, spec: Specs \cup {NoSpec}, id: Ids \cup {NoId}]

NoAction == [type |-> "none"]

NoContainers == [i \in Ids |-> NoContainer]
NoRows == [s \in Services |-> NoRow]

ASSUME SentinelsAssumption ==
  /\ NoContainer \notin Container
  /\ NoRow \notin Row
  /\ Untracked \notin Entry
  /\ NoId \notin Ids
  /\ NoSpec \notin Specs

\* Wrong form of IsActive: an exited container fills its slot.
IsActiveOrExited(state) == state \in {"running", "created", "exited"}

\* A container fills its slot when it runs, and also before it was started.
IsActive(state) == state \in {"running", "created"}

\* Every container the daemon lists, stopped ones included.
Listed(cs) == {i \in Ids : cs[i] # NoContainer}
SlotOf(c) == <<c.svc, c.replica>>
Active(cs) == {i \in Listed(cs) : IsActive(cs[i].state)}

WantedBy(d, k) == d[k[1]] # NoRow /\ k[2] < d[k[1]].replicas

-----------------------------------------------------------------------------
(* Compute: the pure diff. *)

\* Containers whose failure streak has reached the retries of the service's
\* desired check. Services without a row have no retries and are skipped.
ProbeUnhealthySet(d, cs) ==
  {i \in Listed(cs) :
     /\ d[cs[i].svc] # NoRow
     /\ probes[i] # Untracked
     /\ ~probes[i].ok
     /\ probes[i].streak >= Retries[d[cs[i].svc].spec.health]}

\* Wrong form of Occupants: an unhealthy container keeps its slot.
OccupantsAll(cs, bad, k) == {i \in Active(cs) : SlotOf(cs[i]) = k}

\* The containers that compete for a slot of actualMap. The map keeps the last
\* one the daemon listed, and the others are invisible to the diff.
Occupants(cs, bad, k) == {i \in Active(cs) \ bad : SlotOf(cs[i]) = k}

ActualMaps(cs, bad) ==
  {m \in [Slots -> Ids \cup {NoId}] :
     \A k \in Slots : IF Occupants(cs, bad, k) = {} THEN m[k] = NoId
                      ELSE m[k] \in Occupants(cs, bad, k)}

RemoveOf(cs, i) == [type |-> "remove", svc |-> cs[i].svc,
                    replica |-> cs[i].replica, spec |-> NoSpec, id |-> i]
CreateOf(d, k) == [type |-> "create", svc |-> k[1], replica |-> k[2],
                   spec |-> d[k[1]].spec, id |-> NoId]
ReplaceOf(d, k, i) == [type |-> "replace", svc |-> k[1], replica |-> k[2],
                       spec |-> d[k[1]].spec, id |-> i]

\* The actions for desired rows d and listed containers cs, where m is the
\* actualMap. Dead and unhealthy containers go and free their slot; a wanted
\* slot is filled, or replaced on hash drift; an unwanted one is emptied.
Compute(d, cs, bad, m) ==
  LET Wanted == {k \in Slots : WantedBy(d, k)}
  IN  {RemoveOf(cs, i) : i \in {j \in Listed(cs) : j \notin Active(cs) \/ j \in bad}}
      \cup {CreateOf(d, k) : k \in {w \in Wanted : m[w] = NoId}}
      \cup {ReplaceOf(d, k, m[k]) :
              k \in {w \in Wanted : m[w] # NoId /\ cs[m[w]].hash # Hash(d[w[1]].spec)}}
      \cup {RemoveOf(cs, m[k]) : k \in {w \in Slots \ Wanted : m[w] # NoId}}

\* The sort by service and replica. Equal keys may come in either order.
Before(a, b) == a.svc < b.svc \/ (a.svc = b.svc /\ a.replica <= b.replica)

\* Wrong form of Aggregate: healthy replicas are compared with the listed ones.
AggregateListed(n, snaps) ==
  IF n = 0 /\ snaps = {} THEN "stopped"
  ELSE IF \A i \in snaps : probes[i].ok THEN "healthy"
  ELSE "degraded"

\* The status of a service from its replica count and its snapshots.
Aggregate(n, snaps) ==
  LET total == Cardinality(snaps)
      healthy == Cardinality({i \in snaps : probes[i].ok})
  IN  IF n = 0 /\ total = 0 THEN "stopped"
      ELSE IF healthy = n /\ healthy = total THEN "healthy"
      ELSE IF healthy = 0 THEN "failed"
      ELSE IF healthy < n \/ healthy < total THEN "degraded"
      ELSE "reconciling"

-----------------------------------------------------------------------------
(* Helpers of the steps. *)

Spend(kind) == budget[kind] > 0 /\ budget' = [budget EXCEPT ![kind] = @ - 1]

\* The runtime or the store answers this call with an error and no effect.
Fault(call) == call \in FaultAt /\ Spend("fault")

NoFault == budget' = budget

\* probe.Manager.Track. Same probe spec: nothing. Otherwise a fresh entry: an
\* empty [health] block is trusted, a probed container starts out not healthy.
Track(ps, i, spec) ==
  IF ps[i] # Untracked /\ ps[i].check = HashSpec(spec) THEN ps[i]
  ELSE LET trusted == spec.health = NoHealth
       IN  [check |-> HashSpec(spec), ok |-> trusted, streak |-> 0,
            passed |-> trusted, alive |-> TRUE]

\* Ids stand for the daemon's never-repeated ids: one is taken again only when
\* nothing refers to it but an entry of the probe manager, which the code never
\* consults for an id that is not listed.
Referenced ==
  {a.id : a \in todo} \cup {new} \cup Listed(actual)
    \cup (IF cur = NoAction THEN {} ELSE {cur.id})
    \cup UNION {{b.id : b \in pool[s]} : s \in Services}
Fresh(i) == ctr[i] = NoContainer /\ i \notin Referenced

\* A name belongs to one container at a time, stopped ones included.
NameTaken(cs, svc, replica, name) ==
  \E i \in Listed(cs) : SlotOf(cs[i]) = <<svc, replica>> /\ cs[i].name = name

\* PullImage and CreateContainer for the current action.
CreateContainer(a, i, name) ==
  /\ Fresh(i)
  /\ ~NameTaken(ctr, a.svc, a.replica, name)
  /\ ctr' = [ctr EXCEPT ![i] = [svc |-> a.svc, replica |-> a.replica,
                                hash |-> Hash(a.spec), name |-> name,
                                state |-> "created"]]
  /\ probes' = [probes EXCEPT ![i] = Untracked]
  /\ new' = i

\* The call fails: the name is taken, or the image or the daemon refuses it.
CreateFails(a, name) ==
  \/ NameTaken(ctr, a.svc, a.replica, name) /\ NoFault
  \/ Fault("create")

StartContainer(i) ==
  /\ ctr[i].state \in {"created", "exited"}
  /\ ctr' = [ctr EXCEPT ![i].state = "running"]

RemoveContainer(i) == ctr[i] # NoContainer /\ ctr' = [ctr EXCEPT ![i] = NoContainer]

\* The action is over, applied or failed: the loop continues with the next one.
Done == pc' = "act" /\ cur' = NoAction /\ new' = NoId

-----------------------------------------------------------------------------
(* A tick. *)

Routed == {s \in Services : row[s] # NoRow /\ row[s].spec.routed}

\* A tick begins: ListProjects, then pushRoutes. A project whose services
\* cannot be listed is left out of the table that replaces the current one.
PushRoutes ==
  /\ pc = "idle" /\ pc' = "plan"
  /\ \/ table' = Routed /\ NoFault
     \/ table' = {} /\ Fault("list")
  /\ UNCHANGED <<row, ctr, probes, pool, desired, actual, todo, cur, new>>

\* reconcileProject up to its first action: ListServices, ListContainers and
\* Compute. Edits touch only the rows, read first, and commute with exits and
\* probe results, which touch only what is read later: one step does it all.
Plan ==
  /\ pc = "plan"
  /\ LET bad == ProbeUnhealthySet(row, ctr)
     IN  \E m \in ActualMaps(ctr, bad) :
           LET acts == Compute(row, ctr, bad, m)
           IN  /\ todo' = acts
               /\ IF acts = {} THEN pc' = "track" /\ actual' = ctr
                  ELSE pc' = "act" /\ UNCHANGED actual
  /\ desired' = row
  /\ NoFault
  /\ UNCHANGED <<row, ctr, probes, table, pool, cur, new>>

\* One of the two lists fails, which ends the tick.
PlanFails ==
  /\ pc = "plan" /\ pc' = "idle"
  /\ Fault("list")
  /\ UNCHANGED <<row, ctr, probes, table, pool, desired, actual, todo, cur, new>>

Ready(a) == pc = "act" /\ cur = NoAction /\ a \in todo /\ \A b \in todo : Before(a, b)

Take(a) == todo' = todo \ {a}

\* Apply of a remove: force-remove the container. Its probe stays tracked.
ApplyRemove(a) ==
  /\ Ready(a) /\ a.type = "remove"
  /\ Take(a) /\ Done
  /\ \/ RemoveContainer(a.id) /\ NoFault
     \/ Fault("remove") /\ UNCHANGED ctr
  /\ UNCHANGED <<row, probes, table, pool, desired, actual>>

\* applyCreate, first half: the container under its canonical name.
ApplyCreate(a) ==
  /\ Ready(a) /\ a.type = "create"
  /\ Take(a)
  /\ \/ /\ \E i \in Ids : CreateContainer(a, i, "canonical")
        /\ pc' = "start" /\ cur' = a /\ NoFault
     \/ CreateFails(a, "canonical") /\ Done /\ UNCHANGED <<ctr, probes>>
  /\ UNCHANGED <<row, table, pool, desired, actual>>

\* Second half. A start that fails leaves the created container behind.
CreateStart ==
  /\ pc = "start"
  /\ \/ StartContainer(new) /\ NoFault
     \/ Fault("start") /\ UNCHANGED ctr
  /\ Done
  /\ UNCHANGED <<row, probes, table, pool, desired, actual, todo>>

-----------------------------------------------------------------------------
(* StartFirst.Apply. *)

SfCreate(a) ==
  /\ Ready(a) /\ a.type = "replace" /\ SelectStrategy(a.spec) = "start-first"
  /\ Take(a)
  /\ \/ /\ \E i \in Ids : CreateContainer(a, i, "new")
        /\ pc' = "sfStart" /\ cur' = a /\ NoFault
     \/ CreateFails(a, "new") /\ Done /\ UNCHANGED <<ctr, probes>>
  /\ UNCHANGED <<row, table, pool, desired, actual>>

\* Start and Track the new container; a failed start discards it.
SfStart ==
  /\ pc = "sfStart"
  /\ \/ /\ StartContainer(new) /\ NoFault
        /\ probes' = [probes EXCEPT ![new] = Track(probes, new, cur.spec)]
        /\ pc' = "sfWait"
     \/ Fault("start") /\ pc' = "sfDiscard" /\ UNCHANGED <<ctr, probes>>
  /\ UNCHANGED <<row, table, pool, desired, actual, todo, cur, new>>

\* Wrong form of SfHealthy: a tracked container counts as healthy.
SfTracked ==
  /\ pc = "sfWait"
  /\ probes[new] # Untracked
  /\ probes' = [probes EXCEPT ![cur.id] = Untracked]
  /\ pc' = "sfRemoveOld"
  /\ UNCHANGED <<row, ctr, table, pool, desired, actual, todo, cur, new, budget>>

\* waitForFirstHealthy sees HealthOK: promote, beginning with Untrack(old).
SfHealthy ==
  /\ pc = "sfWait"
  /\ probes[new].ok
  /\ probes' = [probes EXCEPT ![cur.id] = Untracked]
  /\ pc' = "sfRemoveOld"
  /\ UNCHANGED <<row, ctr, table, pool, desired, actual, todo, cur, new, budget>>

\* The deadline spans several probe intervals, so a probe loop that runs has
\* answered by then; a loop that returned early never answers.
DeadlinePassed(i) == ~probes[i].ok /\ (probes[i].streak > 0 \/ ~probes[i].alive)

\* The deadline passes without a healthy snapshot: untrack and discard the new.
SfTimeout ==
  /\ pc = "sfWait"
  /\ DeadlinePassed(new)
  /\ probes' = [probes EXCEPT ![new] = Untracked]
  /\ pc' = "sfDiscard"
  /\ UNCHANGED <<row, ctr, table, pool, desired, actual, todo, cur, new, budget>>

\* Remove the new container; an error here is dropped.
SfDiscard ==
  /\ pc = "sfDiscard"
  /\ \/ RemoveContainer(new) /\ NoFault
     \/ Fault("remove") /\ UNCHANGED ctr
  /\ Done
  /\ UNCHANGED <<row, probes, table, pool, desired, actual, todo>>

\* Wrong form of SfRemoveOld: the old container is left to the next diff.
SfRemoveOldLater ==
  /\ pc = "sfRemoveOld" /\ Done /\ NoFault
  /\ UNCHANGED <<row, ctr, probes, table, pool, desired, actual, todo>>

\* Remove the old container. On an error the new one stays under its "-new" name.
SfRemoveOld ==
  /\ pc = "sfRemoveOld"
  /\ \/ /\ RemoveContainer(cur.id) /\ NoFault
        /\ pc' = "sfRename" /\ UNCHANGED <<cur, new>>
     \/ Fault("remove") /\ Done /\ UNCHANGED ctr
  /\ UNCHANGED <<row, probes, table, pool, desired, actual, todo>>

\* Rename the new container to the canonical name; an error is only logged. The
\* name is free: while the old one held "-new", no new one could be created.
SfRename ==
  /\ pc = "sfRename"
  /\ \/ /\ ~NameTaken(ctr, cur.svc, cur.replica, "canonical")
        /\ ctr' = [ctr EXCEPT ![new].name = "canonical"] /\ NoFault
     \/ Fault("rename") /\ UNCHANGED ctr
  /\ Done
  /\ UNCHANGED <<row, probes, table, pool, desired, actual, todo>>

-----------------------------------------------------------------------------
(* StopFirst.Apply. *)

\* StopContainer and waitForExit. Stopping what never ran changes nothing, and
\* the wait then ends at its timeout.
SpStop(a) ==
  /\ Ready(a) /\ a.type = "replace" /\ SelectStrategy(a.spec) = "stop-first"
  /\ Take(a)
  /\ \/ /\ ctr' = [ctr EXCEPT ![a.id].state = IF @ = "running" THEN "exited" ELSE @]
        /\ pc' = "spRemove" /\ cur' = a /\ NoFault /\ UNCHANGED new
     \/ Fault("stop") /\ Done /\ UNCHANGED ctr
  /\ UNCHANGED <<row, probes, table, pool, desired, actual>>

SpRemove ==
  /\ pc = "spRemove"
  /\ probes' = [probes EXCEPT ![cur.id] = Untracked]
  /\ \/ RemoveContainer(cur.id) /\ NoFault /\ pc' = "spCreate" /\ UNCHANGED <<cur, new>>
     \/ Fault("remove") /\ Done /\ UNCHANGED ctr
  /\ UNCHANGED <<row, table, pool, desired, actual, todo>>

SpCreate ==
  /\ pc = "spCreate"
  /\ \/ /\ \E i \in Ids : CreateContainer(cur, i, "canonical")
        /\ pc' = "spStart" /\ NoFault /\ UNCHANGED cur
     \/ CreateFails(cur, "canonical") /\ Done /\ UNCHANGED <<ctr, probes>>
  /\ UNCHANGED <<row, table, pool, desired, actual, todo>>

SpStart ==
  /\ pc = "spStart"
  /\ \/ /\ StartContainer(new) /\ NoFault
        /\ probes' = [probes EXCEPT ![new] = Track(probes, new, cur.spec)]
        /\ pc' = "spWait" /\ UNCHANGED <<cur, new>>
     \/ Fault("start") /\ Done /\ UNCHANGED <<ctr, probes>>
  /\ UNCHANGED <<row, table, pool, desired, actual, todo>>

\* Healthy or past the deadline, the replacement stays.
SpWait ==
  /\ pc = "spWait"
  /\ probes[new].ok \/ DeadlinePassed(new)
  /\ Done
  /\ UNCHANGED <<row, ctr, probes, table, pool, desired, actual, todo, budget>>

-----------------------------------------------------------------------------
(* The end of a tick: updateProbesAndStatus. *)

EndTick ==
  /\ pc' = "idle" /\ desired' = NoRows /\ actual' = NoContainers
  /\ todo' = {} /\ cur' = NoAction /\ new' = NoId

\* The second ListContainers, after the actions. An error ends the tick.
Relist ==
  /\ pc = "act" /\ cur = NoAction /\ todo = {}
  /\ \/ pc' = "track" /\ actual' = ctr /\ NoFault /\ UNCHANGED <<desired, todo, cur, new>>
     \/ Fault("list") /\ EndTick
  /\ UNCHANGED <<row, ctr, probes, table, pool>>

\* Pass 1: the active containers of each service that has a row.
IdsByService(s) == {i \in Active(actual) : actual[i].svc = s /\ desired[s] # NoRow}

\* Pass 2, pushBackends: replicas that inspect with an address, healthy unless
\* their probe says otherwise. lost are the replicas whose Inspect failed.
PushBackends(lost) ==
  pool' = [s \in Services |->
             IF desired[s] = NoRow \/ ~desired[s].spec.routed THEN pool[s]
             ELSE {[id |-> i, healthy |-> probes[i] = Untracked \/ probes[i].ok] :
                     i \in {j \in IdsByService(s) \ lost :
                              ctr[j] # NoContainer /\ ctr[j].state = "running"}}]

\* Pass 3: Track the active containers with the desired spec, then Untrack the
\* tracked ones that are listed and not among them.
WireProbes ==
  probes' = [i \in Ids |->
               IF \E s \in Services : i \in IdsByService(s)
               THEN Track(probes, i, desired[actual[i].svc].spec)
               ELSE IF i \in Listed(actual) THEN Untracked
               ELSE probes[i]]

TrackProbes ==
  /\ pc = "track"
  /\ \/ PushBackends({}) /\ NoFault
     \/ \E lost \in SUBSET Active(actual) : PushBackends(lost) /\ Fault("inspect")
  /\ WireProbes
  /\ pc' = "persist"
  /\ UNCHANGED <<row, ctr, table, desired, actual, todo, cur, new>>

NewStatus(s) ==
  Aggregate(desired[s].replicas, {i \in IdsByService(s) : probes[i] # Untracked})

\* Pass 4: PutService of the whole row read at the start of the tick, with the
\* new status, when the status changed. failed are the rows whose write failed.
PersistStatus(failed) ==
  row' = [s \in Services |->
            IF desired[s] = NoRow \/ s \in failed \/ NewStatus(s) = desired[s].status
            THEN row[s]
            ELSE [desired[s] EXCEPT !.status = NewStatus(s)]]

Persist ==
  /\ pc = "persist"
  /\ \/ PersistStatus({}) /\ NoFault
     \/ \E failed \in SUBSET Services : PersistStatus(failed) /\ Fault("put")
  /\ EndTick
  /\ UNCHANGED <<ctr, probes, table, pool>>

-----------------------------------------------------------------------------
(* The other actors. *)

\* PUT of a service: the handler stores a fresh row, status pending.
ApiUpsert(s) ==
  /\ Spend("edit")
  /\ \E spec \in Specs, n \in 0 .. MaxReplicas :
       row' = [row EXCEPT ![s] = [spec |-> spec, replicas |-> n, status |-> "pending"]]
  /\ UNCHANGED <<ctr, probes, table, pool, pc, desired, actual, todo, cur, new>>

\* Scaling reads the row and writes it back, so that its status stays. The two
\* are one step here: a scale that writes a former row back is an upsert of it,
\* and Ingress has both steps, where routes that were given up come back.
ApiScale(s) ==
  /\ Spend("edit")
  /\ row[s] # NoRow
  /\ \E n \in 0 .. MaxReplicas : row' = [row EXCEPT ![s].replicas = n]
  /\ UNCHANGED <<ctr, probes, table, pool, pc, desired, actual, todo, cur, new>>

ApiDelete(s) ==
  /\ Spend("edit")
  /\ row[s] # NoRow
  /\ row' = [row EXCEPT ![s] = NoRow]
  /\ UNCHANGED <<ctr, probes, table, pool, pc, desired, actual, todo, cur, new>>

\* A workload exits by itself.
ContainerExits(i) ==
  /\ Spend("exit")
  /\ ctr[i] # NoContainer /\ ctr[i].state = "running"
  /\ ctr' = [ctr EXCEPT ![i].state = "exited"]
  /\ UNCHANGED <<row, probes, table, pool, pc, desired, actual, todo, cur, new>>

Probed(i) == probes[i] # Untracked /\ probes[i].check # NoHealth /\ probes[i].alive

\* What a probe of container i answers.
Answers(i) ==
  IF ctr[i] # NoContainer /\ ctr[i].state = "running"
  THEN Outcomes[<<ctr[i].hash.image, probes[i].check>>]
  ELSE {FALSE}

\* Wrong form of RecordResult: the history is never cut.
RecordUncut(e, healthy) ==
  [e EXCEPT !.ok = healthy, !.streak = IF healthy THEN 0 ELSE @ + 1,
            !.passed = @ \/ healthy]

\* recordResult: the failure streak is counted in a history of HistoryCap.
RecordResult(e, healthy) ==
  [e EXCEPT !.ok = healthy,
            !.streak = IF healthy THEN 0 ELSE IF @ < HistoryCap THEN @ + 1 ELSE @,
            !.passed = @ \/ healthy]

ProbeResult(i) ==
  /\ Probed(i)
  /\ \E healthy \in Answers(i) :
       probes' = [probes EXCEPT ![i] = RecordResult(@, healthy)]
  /\ UNCHANGED <<row, ctr, table, pool, pc, desired, actual, todo, cur, new, budget>>

\* probeLoop cannot inspect the container before its first probe, and returns.
ProbeLoopReturns(i) ==
  /\ Fault("inspect")
  /\ Probed(i) /\ ~probes[i].ok /\ probes[i].streak = 0
  /\ probes' = [probes EXCEPT ![i].alive = FALSE]
  /\ UNCHANGED <<row, ctr, table, pool, pc, desired, actual, todo, cur, new>>

\* The server process ends, by a crash or by a shutdown that cancels every
\* later call, and starts again: rows and containers stay, memory is lost.
ServerRestarts ==
  /\ Spend("crash")
  /\ probes' = [i \in Ids |-> Untracked]
  /\ table' = {} /\ pool' = [s \in Services |-> {}]
  /\ EndTick
  /\ UNCHANGED <<row, ctr>>

-----------------------------------------------------------------------------
Init ==
  /\ row = NoRows /\ ctr = NoContainers
  /\ probes = [i \in Ids |-> Untracked]
  /\ table = {} /\ pool = [s \in Services |-> {}]
  /\ pc = "idle" /\ desired = NoRows /\ actual = NoContainers
  /\ todo = {} /\ cur = NoAction /\ new = NoId
  /\ budget = Budget

ReconcilerStep ==
  \/ PushRoutes \/ Plan \/ PlanFails
  \/ \E a \in todo : ApplyRemove(a) \/ ApplyCreate(a) \/ SfCreate(a) \/ SpStop(a)
  \/ CreateStart
  \/ SfStart \/ SfHealthy \/ SfTimeout \/ SfDiscard \/ SfRemoveOld \/ SfRename
  \/ SpRemove \/ SpCreate \/ SpStart \/ SpWait
  \/ Relist \/ TrackProbes \/ Persist

Environment ==
  \/ \E s \in Services : ApiUpsert(s) \/ ApiScale(s) \/ ApiDelete(s)
  \/ \E i \in Ids : ContainerExits(i) \/ ProbeResult(i) \/ ProbeLoopReturns(i)
  \/ ServerRestarts

Next == ReconcilerStep \/ Environment

Spec == Init /\ [][Next]_vars

\* The reconciler goroutine keeps running and every probe loop keeps probing.
Fairness == WF_vars(ReconcilerStep) /\ \A i \in Ids : WF_vars(ProbeResult(i))
FairSpec == Spec /\ Fairness

-----------------------------------------------------------------------------
(* Properties. *)

\* Every variable holds a value of its kind.
TypeOK ==
  /\ row \in [Services -> Row \cup {NoRow}]
  /\ ctr \in [Ids -> Container \cup {NoContainer}]
  /\ probes \in [Ids -> Entry \cup {Untracked}]
  /\ table \subseteq Services
  /\ pool \in [Services -> SUBSET Backend]
  /\ pc \in {"idle", "plan", "act", "start", "sfStart", "sfWait", "sfDiscard", "sfRemoveOld",
             "sfRename", "spRemove", "spCreate", "spStart", "spWait", "track", "persist"}
  /\ desired \in [Services -> Row \cup {NoRow}]
  /\ actual \in [Ids -> Container \cup {NoContainer}]
  /\ todo \subseteq Action
  /\ cur \in Action \cup {NoAction}
  /\ new \in Ids \cup {NoId}
  /\ budget \in [Kinds -> Nat]

\* A running container whose image passes every health check.
Sound(i) ==
  /\ ctr[i] # NoContainer /\ ctr[i].state = "running"
  /\ \A h \in Checks \ {NoHealth} : Outcomes[<<ctr[i].hash.image, h>>] = {TRUE}

\* The reconciler force-removes container i, other than the one it is trying
\* out, although its own snapshot of the rows wants the slot filled.
TearsDown(i) ==
  /\ Sound(i) /\ ctr'[i] = NoContainer /\ i # new
  /\ WantedBy(desired, SlotOf(ctr[i]))

DesiredSpec(i) == desired[ctr[i].svc].spec

\* FR-007 of specs/002: under start-first a working container of a wanted slot
\* is removed only once another container of that slot has passed a probe -
\* through server restarts, refused calls, rollbacks and probe rotation.
KeepsServing ==
  [][\A i \in Ids : TearsDown(i) /\ SelectStrategy(DesiredSpec(i)) = "start-first" =>
       \E j \in Ids \ {i} : /\ ctr[j] # NoContainer /\ SlotOf(ctr[j]) = SlotOf(ctr[i])
                            /\ probes[j] # Untracked /\ probes[j].passed]_vars

\* hash.go: "Scaling replicas up/down or switching deploy strategy must NOT
\* trigger a tear-down of existing containers whose per-container spec is
\* unchanged". A working container that matches its desired spec stays.
NoNeedlessTeardown ==
  [][\A i \in Ids : TearsDown(i) =>
       LET have == ctr[i].hash  want == DesiredSpec(i)
       IN  \/ have.image # want.image \/ have.health # want.health
           \/ have.stateful # want.stateful \/ have.routed # want.routed]_vars

\* SC-006 of specs/002, for services that only ever use stop-first: no replica
\* slot has two containers, so no two writers, whatever fails or restarts.
OneContainerPerSlot ==
  \A i, j \in Listed(ctr) : SlotOf(ctr[i]) = SlotOf(ctr[j]) => i = j

\* The spec an action carries is the snapshot's, for a slot the snapshot wants.
CarriesDesired(a) ==
  /\ a.spec \in Specs
  /\ WantedBy(desired, <<a.svc, a.replica>>)
  /\ a.spec = desired[a.svc].spec

\* The container an action removes or replaces exists, in the action's slot.
TargetsSlot(a) ==
  a.id \in Ids /\ ctr[a.id] # NoContainer /\ SlotOf(ctr[a.id]) = <<a.svc, a.replica>>

\* Planned actions stay applicable until their turn: nothing else removes their
\* targets, no two share one, a removal in a wanted slot hits no working
\* container, and a replacement hits a container of another spec.
PlanInv ==
  /\ \A a \in todo :
       /\ a.type \in {"create", "replace"} => CarriesDesired(a)
       /\ a.type \in {"remove", "replace"} => TargetsSlot(a)
       /\ a.type = "remove" => ~Sound(a.id) \/ ~WantedBy(desired, <<a.svc, a.replica>>)
       /\ a.type = "replace" => ctr[a.id].hash # Hash(a.spec)
  /\ \A a, b \in todo : a.type # "create" /\ b.type # "create" /\ a.id = b.id => a = b

Creating == {"start", "sfStart", "spStart"}
Replacing == {"sfStart", "sfWait", "sfDiscard", "sfRemoveOld", "sfRename",
              "spRemove", "spCreate", "spStart", "spWait"}
HoldsOld == {"sfStart", "sfWait", "sfDiscard", "sfRemoveOld", "spRemove"}
HoldsNew == {"start", "sfStart", "sfWait", "sfDiscard", "sfRemoveOld", "sfRename",
             "spStart", "spWait"}

\* The action under way: the old and the new container are two containers of
\* its slot, neither is a target of a later action, the old one goes only after
\* the new one passed (start-first) or after it was stopped (stop-first).
CurrentInv ==
  /\ pc \in {"idle", "plan", "act", "track", "persist"} => cur = NoAction /\ new = NoId
  /\ pc \in {"start"} \cup Replacing => cur \in Action /\ CarriesDesired(cur)
  /\ pc \in HoldsOld =>
       /\ TargetsSlot(cur) /\ \A a \in todo : a.type # "create" => a.id # cur.id
       /\ ctr[cur.id].hash # Hash(cur.spec)
  /\ pc \in HoldsNew =>
       /\ new \in Ids /\ ctr[new] # NoContainer
       /\ SlotOf(ctr[new]) = <<cur.svc, cur.replica>>
       /\ \A a \in todo : a.type # "create" => a.id # new
  /\ pc \in HoldsNew \cap HoldsOld => new # cur.id
  /\ pc \in Creating => ctr[new].state = "created" /\ probes[new] = Untracked
  /\ pc \in {"sfWait", "sfRemoveOld", "spWait"} => probes[new] # Untracked
  /\ pc = "sfRemoveOld" => probes[new].passed
  /\ pc = "spRemove" => ctr[cur.id].state # "running"

\* A healthy snapshot was earned, and a container that always passes never
\* collects a failure.
ProbeInv ==
  \A i \in Ids : probes[i] # Untracked =>
    /\ probes[i].ok => probes[i].passed
    /\ Sound(i) => probes[i].ok \/ probes[i].streak = 0

\* The inductive invariant behind KeepsServing and NoNeedlessTeardown: what the
\* reconciler's plan and its current action assume still holds when they run.
RolloutInv == TypeOK /\ PlanInv /\ CurrentInv /\ ProbeInv

\* What the reconciler drives a service to: its replicas, each once, running,
\* with the desired hash, probed healthy, published, and reported healthy.
ServiceConverged(s) ==
  LET mine == {i \in Listed(ctr) : ctr[i].svc = s}
  IN  IF row[s] = NoRow THEN mine = {} /\ s \notin table
      ELSE /\ {ctr[i].replica : i \in mine} = 0 .. row[s].replicas - 1
           /\ Cardinality(mine) = row[s].replicas
           /\ \A i \in mine : ctr[i].state = "running" /\ ctr[i].hash = Hash(row[s].spec)
           /\ row[s].status = IF row[s].replicas = 0 THEN "stopped" ELSE "healthy"
           /\ row[s].spec.routed =>
                s \in table /\ pool[s] = {[id |-> i, healthy |-> TRUE] : i \in mine}

\* Reconciliation converges: once edits, exits and faults cease, every service
\* reaches what its row asks for and stays there.
Converges == <>[](\A s \in Services : ServiceConverged(s))

\* The end of a tick changes the row of service s, to healthy.
ReportsHealthy(s) ==
  Persist /\ row'[s] # row[s] /\ row'[s] # NoRow /\ row'[s].status = "healthy"

\* No runtime call has been refused and the server has not been restarted.
Undisturbed == \A kind \in {"fault", "crash"} : budget[kind] = Budget[kind]

\* Status rows tell the truth about slots: unless a refused call or a restart has
\* left a slot with two containers, the reconciler writes "healthy" only when
\* every wanted slot had an active container in the list it aggregated.
HealthyCoversSlots ==
  [][Undisturbed => \A s \in Services : ReportsHealthy(s) =>
       \A r \in 0 .. row'[s].replicas - 1 :
          \E i \in Active(actual) : SlotOf(actual[i]) = <<s, r>>]_vars

-----------------------------------------------------------------------------
(* What a comment promises and the code does not keep. *)

\* reconciler.go: the end of a tick "persists a fresh Service.Status": the
\* reconciler never changes what the API stored as the desired state.
EditsSurvive ==
  [][ReconcilerStep => \A s \in Services :
        /\ row[s] = NoRow => row'[s] = NoRow
        /\ row[s] # NoRow => /\ row'[s] # NoRow /\ row'[s].spec = row[s].spec
                             /\ row'[s].replicas = row[s].replicas]_vars

-----------------------------------------------------------------------------
(* Slots, while nothing disturbs: what HealthyCoversSlots rests on. *)

Overlapping == {"sfStart", "sfWait", "sfDiscard", "sfRemoveOld"}

\* A slot has two containers only while start-first replaces one by the other.
SlotInv ==
  \A i, j \in Listed(ctr) : i # j /\ SlotOf(ctr[i]) = SlotOf(ctr[j]) =>
    pc \in Overlapping /\ {i, j} = {new, cur.id}

\* A container has the "-new" name only until it is promoted or discarded.
NameInv ==
  \A i \in Listed(ctr) :
    ctr[i].name = "canonical" \/ (i = new /\ pc \in Overlapping \cup {"sfRename"})

\* What the snapshot of the rows does not want is still to be removed.
LeavingInv ==
  pc \notin {"idle", "plan", "track", "persist"} =>
    \A i \in Listed(ctr) :
      WantedBy(desired, SlotOf(ctr[i])) \/ \E a \in todo : a.type = "remove" /\ a.id = i

\* The last list has one container in a slot, in wanted slots, and all probed.
RelistedInv ==
  pc \in {"track", "persist"} =>
    /\ \A i \in Listed(actual) : WantedBy(desired, SlotOf(actual[i]))
    /\ \A i, j \in Listed(actual) : SlotOf(actual[i]) = SlotOf(actual[j]) => i = j
    /\ pc = "persist" => \A i \in Active(actual) : probes[i] # Untracked

TidyInv == SlotInv /\ NameInv /\ LeavingInv /\ RelistedInv

\* While no call was refused and the server was not restarted, edits that move a
\* service between start-first and stop-first in the middle of a replacement do
\* not put two containers into a slot, other than the pair start-first is
\* exchanging, nor leave a "-new" name or an unwanted container behind.
CoverInv == (\A kind \in Kinds : budget[kind] <= Budget[kind]) /\ (Undisturbed => TidyInv)

=============================================================================
