------------------------------ MODULE Ingress ------------------------------
(***************************************************************************)
(* The routing layer between the operator and a request: API handlers that *)
(* check and store routes in separate transactions, the reconciler that    *)
(* collects them project by project and publishes a table and the backend  *)
(* pools, and request goroutines that read both without holding anything.  *)
(* An L4 forwarder is here only as a member of the set UpdateRoutes keeps; *)
(* its listener is not part of this module.                                *)
(***************************************************************************)
EXTENDS Routes, FiniteSets

CONSTANTS
  Services,   \* the services the API may store, a subset of Service
  Choices,    \* the sets of routes an upsert may carry
  Ids,        \* container ids
  Lists,      \* the backend lists the reconciler may publish
  Paths,      \* the paths requests ask for
  Handlers,   \* API handler goroutines
  Requests,   \* request goroutines
  Pools,      \* addresses of BackendPools, as numbers
  Budget,     \* how many edits and how many failed lists a run may see
  CursorSpan, \* the cursor counts modulo this (2^64 in the code)
  NoRow, NoPool, NoService, NoBackend

VARIABLES
  stored,    \* the routes of each stored service, or NoRow
  handler,   \* the API handlers
  tick,      \* the reconciler: where it is and what it has read
  table,     \* the published Router: a set of entries
  running,   \* whether Run has begun: l4Ctx is set and requests are served
  forwarders, \* the L4 forwarders: the entries they were started for
  registry,  \* poolRegistry: the pool of each service, or NoPool
  pool,      \* the BackendPools in memory
  req,       \* the requests
  budget,
  released,  \* history: hosts a project did without, or whose rows could not
             \* be listed, since the tick began
  published  \* history: the backends last published for each service

ingress == <<table, running, forwarders>>
vars == <<stored, handler, tick, ingress, registry, pool, req, budget, released, published>>

Backend == [id: Ids, healthy: BOOLEAN]

\* The rows of the store, one for each service.
Rows == Choices \cup {{}, NoRow}

Handler == [pc: {"idle", "check", "put"}, svc: Services \cup {NoService},
            routes: Choices \cup {{}}, todo: SUBSET Projects]

\* pushRoutes is at "collect"; reconcileProject of one project at "publish",
\* with the rows it read; projects are those still to come in either loop.
Tick == [pc: {"idle", "collect", "project", "publish"}, projects: SUBSET Projects,
         entries: SUBSET Entry, desired: [Services -> Rows], pushed: SUBSET Services]

\* picks counts the round-robin picks of each container since the last Replace
\* or the cursor's last wrap, less those of the container with the fewest.
Pool == [backends: Lists, cursor: 0 .. CursorSpan - 1, picks: [Ids -> Nat]]

\* fresh collects what was published healthy for svc while the request ran.
Request == [pc: {"idle", "found", "pooled", "sent"}, svc: Services \cup {NoService},
            lb: Strategies, pool: Pools \cup {NoPool}, to: Ids \cup {NoBackend},
            fresh: SUBSET Ids]

ASSUME IngressAssumption ==
  /\ Services \subseteq Service /\ \A c \in Choices : c \subseteq Route
  /\ Lists \subseteq Seq(Backend) /\ <<>> \in Lists /\ Paths \subseteq Seq(Chars)
  /\ \A list \in Lists : \A j, k \in DOMAIN list : list[j].id = list[k].id => j = k
  /\ CursorSpan \in Nat \ {0} /\ Budget \in [{"edit", "fault"} -> Nat]
  /\ NoService \notin Services /\ NoRow \notin Choices \cup {{}}
  /\ NoPool \notin Pools /\ NoBackend \notin Ids /\ Pools \subseteq Nat

NoRoutes == [s \in Services |-> NoRow]
IdleHandler == [pc |-> "idle", svc |-> NoService, routes |-> {}, todo |-> {}]
IdleTick == [pc |-> "idle", projects |-> {}, entries |-> {}, desired |-> NoRoutes,
             pushed |-> {}]
IdleRequest == [pc |-> "idle", svc |-> NoService, lb |-> "", pool |-> NoPool,
                to |-> NoBackend, fresh |-> {}]

-----------------------------------------------------------------------------
(* Helpers. *)

In(p) == {s \in Services : ProjectOf(s) = p}

\* The entries of services S in rows st.
EntriesOf(st, S) ==
  UNION {{[svc |-> s, route |-> r] : r \in st[s]} : s \in {t \in S : st[t] # NoRow}}

\* ListProjects returns rows in order: the least project comes next.
First(ps) == CHOOSE p \in ps : \A q \in ps : p <= q

\* Project p has an HTTP route for the host among entries es.
Serves(es, p, host) ==
  \E e \in es : ProjectOf(e.svc) = p /\ e.route.l4 = "" /\ e.route.host = host

\* The projects and the hosts they do without.
Without(st) ==
  {ph \in Projects \X Hosts : ~Serves(EntriesOf(st, In(ph[1])), ph[1], ph[2])}

Spend(kind) == budget[kind] > 0 /\ budget' = [budget EXCEPT ![kind] = @ - 1]

\* PutService: the whole row, whether or not there is one.
PutService(s, routes) ==
  /\ stored' = [stored EXCEPT ![s] = routes]
  /\ released' = released \cup Without(stored')

-----------------------------------------------------------------------------
(* API handlers. *)

\* handleUpsertService up to ValidateAgainstStore, which has nothing to check
\* when there are no routes.
UpsertBegin(h, s, routes) ==
  /\ handler[h] = IdleHandler /\ Spend("edit")
  /\ handler' = [handler EXCEPT ![h] =
       [pc |-> IF routes = {} THEN "put" ELSE "check", svc |-> s,
        routes |-> routes, todo |-> Projects]]
  /\ UNCHANGED <<stored, tick, ingress, registry, pool, req, released, published>>

\* The services of project p, other than s, have a route in conflict.
ConflictsIn(p, s, routes) ==
  \E e \in EntriesOf(stored, In(p) \ {s}), r \in routes :
     RoutesConflict(r, e.route, ProjectOf(s), p)

\* One ListServices of the check; a conflict is answered with an error.
UpsertCheck(h) ==
  /\ handler[h].pc = "check"
  /\ LET p == First(handler[h].todo)
         todo == handler[h].todo \ {p}
     IN  handler' = [handler EXCEPT ![h] =
           IF ConflictsIn(p, handler[h].svc, handler[h].routes) THEN IdleHandler
           ELSE [@ EXCEPT !.todo = todo, !.pc = IF todo = {} THEN "put" ELSE "check"]]
  /\ UNCHANGED <<stored, tick, ingress, registry, pool, req, budget, released, published>>

\* Wrong form of ScaleGet: a missing row is not noticed.
ScaleGetAny(h, s) ==
  /\ handler[h] = IdleHandler /\ Spend("edit")
  /\ handler' = [handler EXCEPT ![h] =
       [pc |-> "put", svc |-> s, routes |-> stored[s], todo |-> {}]]
  /\ UNCHANGED <<stored, tick, ingress, registry, pool, req, released, published>>

\* handleScaleService reads the row and keeps its routes.
ScaleGet(h, s) ==
  /\ handler[h] = IdleHandler /\ Spend("edit") /\ stored[s] # NoRow
  /\ handler' = [handler EXCEPT ![h] =
       [pc |-> "put", svc |-> s, routes |-> stored[s], todo |-> {}]]
  /\ UNCHANGED <<stored, tick, ingress, registry, pool, req, released, published>>

HandlerPut(h) ==
  /\ handler[h].pc = "put"
  /\ PutService(handler[h].svc, handler[h].routes)
  /\ handler' = [handler EXCEPT ![h] = IdleHandler]
  /\ UNCHANGED <<tick, ingress, registry, pool, req, budget, published>>

Delete(s) ==
  /\ Spend("edit") /\ stored[s] # NoRow
  /\ PutService(s, NoRow)
  /\ UNCHANGED <<handler, tick, ingress, registry, pool, req, published>>

-----------------------------------------------------------------------------
(* The reconciler. *)

TickBegin ==
  /\ tick.pc = "idle"
  /\ tick' = [IdleTick EXCEPT !.pc = "collect", !.projects = Projects]
  /\ released' = Without(stored)
  /\ UNCHANGED <<stored, handler, ingress, registry, pool, req, budget, published>>

\* pushRoutes, one project: a failed list leaves its routes out.
Collect ==
  /\ tick.pc = "collect" /\ tick.projects # {}
  /\ LET p == First(tick.projects)
     IN  \/ /\ tick' = [tick EXCEPT !.projects = @ \ {p},
                                    !.entries = @ \cup EntriesOf(stored, In(p))]
            /\ UNCHANGED <<budget, released>>
         \/ /\ tick' = [tick EXCEPT !.projects = @ \ {p}] /\ Spend("fault")
            /\ released' = released \cup ({p} \X Hosts)
  /\ UNCHANGED <<stored, handler, ingress, registry, pool, req, published>>

\* The L4 routes a forwarder can be started for, and what tells them apart.
Forwarded(es) == {e \in es : e.route.l4 # "" /\ e.route.port > 0}
L4Key(e) == <<e.route.l4, e.route.port>>
Keys(es) == {L4Key(e) : e \in es}

\* Wrong form of Forwarders: start what the previous table did not have.
ForwardersNew(es) ==
  {f \in forwarders : L4Key(f) \in Keys(Forwarded(es))}
    \cup {e \in Forwarded(es) : running /\ L4Key(e) \notin Keys(Forwarded(table))}

\* The forwarders UpdateRoutes leaves behind: those whose key is gone stop, and
\* new keys get one once Run has begun. One that stays is not told its route.
Forwarders(es) ==
  {f \in forwarders : L4Key(f) \in Keys(Forwarded(es))}
    \cup {e \in Forwarded(es) : running /\ L4Key(e) \notin Keys(forwarders)}

\* UpdateRoutes: the new table in one swap, then its forwarders; or the table
\* and the forwarders there were. (The hosts the TLS provider may ask a
\* certificate for are those of the table.)
UpdateRoutes ==
  /\ tick.pc = "collect" /\ tick.projects = {}
  /\ table' = IF Accepts(tick.entries) THEN tick.entries ELSE table
  /\ forwarders' = IF Accepts(tick.entries) THEN Forwarders(tick.entries) ELSE forwarders
  /\ tick' = [IdleTick EXCEPT !.pc = "project", !.projects = Projects]
  /\ UNCHANGED <<stored, handler, running, registry, pool, req, budget, released, published>>

\* reconcileProject reads the rows again; a failed list skips the project.
ReadProject ==
  /\ tick.pc = "project" /\ tick.projects # {}
  /\ LET p == First(tick.projects)
     IN  \/ /\ tick' = [tick EXCEPT !.pc = "publish", !.projects = @ \ {p}, !.pushed = {},
                   !.desired = [s \in Services |-> IF s \in In(p) THEN stored[s] ELSE NoRow]]
            /\ UNCHANGED budget
         \/ tick' = [tick EXCEPT !.projects = @ \ {p}] /\ Spend("fault")
  /\ UNCHANGED <<stored, handler, ingress, registry, pool, req, released, published>>

HealthyIn(list) == {list[k].id : k \in {j \in DOMAIN list : list[j].healthy}}

\* Some service or request refers to pool o.
InUse(o, reg, reqs) ==
  (\E s \in Services : reg[s] = o) \/ (\E r \in Requests : reqs[r].pool = o)

NewPool(list) == [backends |-> list, cursor |-> 0, picks |-> [i \in Ids |-> 0]]

\* The garbage collector: a pool nothing refers to is gone.
Reachable(pools, reg, reqs) ==
  [o \in Pools |-> IF InUse(o, reg, reqs) THEN pools[o] ELSE NewPool(<<>>)]

\* Wrong form of UpdateBackends: no backends, nothing to do.
UpdateBackendsSome(s, list) ==
  IF list = <<>> THEN UNCHANGED <<registry, pool>>
  ELSE \E o \in Pools :
         /\ registry[s] = o \/ (registry[s] = NoPool /\ ~InUse(o, registry, req))
         /\ registry' = [registry EXCEPT ![s] = o]
         /\ pool' = [pool EXCEPT ![o] = NewPool(list)]

\* UpdateBackends: an empty list forgets the pool, another one replaces the
\* backends of the pool or makes a new one (at the least free address).
UpdateBackends(s, list) ==
  \/ /\ list = <<>>
     /\ registry' = [registry EXCEPT ![s] = NoPool]
     /\ pool' = Reachable(pool, registry', req)
  \/ /\ list # <<>> /\ registry[s] # NoPool
     /\ pool' = [pool EXCEPT ![registry[s]] = [NewPool(list) EXCEPT !.cursor = pool[registry[s]].cursor]]
     /\ UNCHANGED registry
  \/ /\ list # <<>> /\ registry[s] = NoPool
     /\ \E o \in Pools :
          /\ ~InUse(o, registry, req) /\ \A q \in Pools : ~InUse(q, registry, req) => o <= q
          /\ pool' = [pool EXCEPT ![o] = NewPool(list)]
          /\ registry' = [registry EXCEPT ![s] = o]

\* pushBackends, for each service of the project that has routes. What the list
\* holds is the containers' and the probes' business.
PushBackends(s, list) ==
  /\ tick.pc = "publish" /\ s \notin tick.pushed
  /\ tick.desired[s] # NoRow /\ tick.desired[s] # {}
  /\ UpdateBackends(s, list)
  /\ tick' = [tick EXCEPT !.pushed = @ \cup {s}]
  /\ published' = [published EXCEPT ![s] = list]
  /\ req' = [r \in Requests |->
               IF req[r].svc = s THEN [req[r] EXCEPT !.fresh = @ \cup HealthyIn(list)]
               ELSE req[r]]
  /\ UNCHANGED <<stored, handler, ingress, budget, released>>

\* The end of a project: the rows whose status changed are written back as they
\* were read.
EndProject ==
  /\ tick.pc = "publish"
  /\ \A s \in Services : tick.desired[s] # NoRow /\ tick.desired[s] # {} => s \in tick.pushed
  /\ \E changed \in SUBSET {s \in Services : tick.desired[s] # NoRow} :
       /\ stored' = [s \in Services |-> IF s \in changed THEN tick.desired[s] ELSE stored[s]]
       /\ released' = released \cup Without(stored')
  /\ tick' = [tick EXCEPT !.pc = "project", !.desired = NoRoutes, !.pushed = {}]
  /\ UNCHANGED <<handler, ingress, registry, pool, req, budget, published>>

TickEnd ==
  /\ tick.pc = "project" /\ tick.projects = {}
  /\ tick' = IdleTick
  /\ UNCHANGED <<stored, handler, ingress, registry, pool, req, budget, released, published>>

-----------------------------------------------------------------------------
(* The ingress. *)

\* Run begins: L4 routes may be forwarded and requests come in.
Run ==
  /\ ~running /\ running' = TRUE
  /\ UNCHANGED <<stored, handler, tick, table, forwarders, registry, pool, req, budget,
                 released, published>>

-----------------------------------------------------------------------------
(* Requests: ServeHTTP. *)

\* Load the table once and look the service up; without one the answer is 404.
Lookup(r, host, path) ==
  /\ running /\ req[r] = IdleRequest
  /\ \E e \in LookupL7(table, host, path) :
       req' = [req EXCEPT ![r] = [IdleRequest EXCEPT
                 !.pc = "found", !.svc = e.svc, !.lb = e.route.lb,
                 !.fresh = HealthyIn(published[e.svc])]]
  /\ UNCHANGED <<stored, handler, tick, ingress, registry, pool, budget, released, published>>

\* pools.Get; without a pool the answer is 503.
GetPool(r) ==
  /\ req[r].pc = "found"
  /\ req' = [req EXCEPT ![r] =
       IF registry[req[r].svc] = NoPool THEN IdleRequest
       ELSE [@ EXCEPT !.pc = "pooled", !.pool = registry[req[r].svc]]]
  /\ UNCHANGED <<stored, handler, tick, ingress, registry, pool, budget, released, published>>

\* The indices of the healthy backends, in order.
HealthyIndices(list) == {k \in DOMAIN list : list[k].healthy}

\* The n-th of them, counting from 0.
Nth(list, n) ==
  CHOOSE k \in HealthyIndices(list) :
    Cardinality({j \in HealthyIndices(list) : j < k}) = n

Levelled(picks, ids) ==
  LET least == CHOOSE n \in {picks[i] : i \in ids} : \A i \in ids : n <= picks[i]
  IN  [i \in Ids |-> IF i \in ids THEN picks[i] - least ELSE 0]

\* Wrong form of PickFrom: round-robin rotates over all backends, and takes
\* the first healthy one when it hits one that is not.
PickFromAll(p, lb, k) ==
  LET at == (p.cursor % Len(p.backends)) + 1
  IN  IF lb = "round-robin" /\ p.backends[at].healthy THEN k = at
      ELSE k = Nth(p.backends, 0)

\* Pick may return the k-th backend of pool p.
PickFrom(p, lb, k) ==
  /\ k \in HealthyIndices(p.backends)
  /\ lb = "round-robin" =>
       k = Nth(p.backends, p.cursor % Cardinality(HealthyIndices(p.backends)))

\* The pool after round-robin took its k-th backend.
Advanced(p, k) ==
  [p EXCEPT !.cursor = (p.cursor + 1) % CursorSpan,
            !.picks = IF p.cursor + 1 = CursorSpan THEN NewPool(<<>>).picks
                      ELSE Levelled([p.picks EXCEPT ![p.backends[k].id] = @ + 1],
                                    HealthyIn(p.backends))]

\* Pick: a healthy backend, or 503. Round-robin advances the cursor.
Pick(r) ==
  /\ req[r].pc = "pooled"
  /\ LET o == req[r].pool
         list == pool[o].backends
     IN  \/ /\ HealthyIndices(list) = {}
            /\ req' = [req EXCEPT ![r] = IdleRequest]
            /\ pool' = Reachable(pool, registry, req')
         \/ \E k \in DOMAIN list :
              /\ HealthyIndices(list) # {} /\ PickFrom(pool[o], req[r].lb, k)
              /\ req' = [req EXCEPT ![r].pc = "sent", ![r].to = list[k].id, ![r].pool = NoPool]
              /\ pool' = Reachable(
                   IF req[r].lb = "round-robin" THEN [pool EXCEPT ![o] = Advanced(@, k)]
                   ELSE pool, registry, req')
  /\ UNCHANGED <<stored, handler, tick, ingress, registry, budget, released, published>>

\* The reverse proxy has its answer, or an error answered with 503.
Answered(r) ==
  /\ req[r].pc = "sent"
  /\ req' = [req EXCEPT ![r] = IdleRequest]
  /\ UNCHANGED <<stored, handler, tick, ingress, registry, pool, budget, released, published>>

-----------------------------------------------------------------------------
Init ==
  /\ stored = NoRoutes
  /\ handler = [h \in Handlers |-> IdleHandler]
  /\ tick = IdleTick
  /\ table = {} /\ running = FALSE /\ forwarders = {}
  /\ registry = [s \in Services |-> NoPool]
  /\ pool = [o \in Pools |-> NewPool(<<>>)]
  /\ req = [r \in Requests |-> IdleRequest]
  /\ budget = Budget
  /\ released = Projects \X Hosts
  /\ published = [s \in Services |-> <<>>]

Api ==
  \/ \E h \in Handlers, s \in Services :
       (\E routes \in Choices : UpsertBegin(h, s, routes)) \/ ScaleGet(h, s)
  \/ \E h \in Handlers : UpsertCheck(h) \/ HandlerPut(h)
  \/ \E s \in Services : Delete(s)

Reconcile ==
  \/ TickBegin \/ Collect \/ UpdateRoutes \/ ReadProject \/ EndProject \/ TickEnd
  \/ \E s \in Services, list \in Lists : PushBackends(s, list)

Serve ==
  \E r \in Requests :
    \/ \E host \in Hosts, path \in Paths : Lookup(r, host, path)
    \/ GetPool(r) \/ Pick(r) \/ Answered(r)

Next == Api \/ Reconcile \/ Run \/ Serve

Spec == Init /\ [][Next]_vars

\* Run is called and the reconciler keeps ticking. (A call of the API need never
\* end.)
FairSpec == Spec /\ WF_vars(Reconcile) /\ WF_vars(Run)

-----------------------------------------------------------------------------
(* Properties. *)

\* Every variable holds a value of its kind.
TypeOK ==
  /\ stored \in [Services -> Rows]
  /\ handler \in [Handlers -> Handler]
  /\ tick \in Tick
  /\ table \subseteq Entry /\ running \in BOOLEAN /\ forwarders \subseteq Entry
  /\ registry \in [Services -> Pools \cup {NoPool}]
  /\ pool \in [Pools -> Pool]
  /\ req \in [Requests -> Request]
  /\ budget \in [{"edit", "fault"} -> Nat]
  /\ released \subseteq Projects \X Hosts
  /\ published \in [Services -> Lists]

\* FR-017, against every race of handlers, stale write-backs and the collecting
\* reconciler: a host that one project serves goes over to another project only
\* if the first did without it, or could not be listed, during the tick.
KeepsHost ==
  [][\A e \in table, f \in table' :
       /\ e.route.l4 = "" /\ f.route.l4 = "" /\ e.route.host = f.route.host
       /\ ProjectOf(e.svc) # ProjectOf(f.svc)
       => <<ProjectOf(e.svc), e.route.host>> \in released]_vars

\* Whatever table is live, a request has one route at most: the answer does not
\* depend on the order in which BuildRouter met the services.
OneRoute ==
  \A host \in Hosts, path \in Paths :
    \A e, f \in LookupL7(table, host, path) : e = f

\* Glob g matches fewer paths than glob h.
Narrower(g, h) ==
  /\ \A path \in Paths : MatchPath(g, path) => MatchPath(h, path)
  /\ \E path \in Paths : MatchPath(h, path) /\ ~MatchPath(g, path)

\* Glob g is glob h and a star, or a slash and a star.
Extends(g, h) == \E end \in {<<"*">>, <<"/", "*">>} : g = h \o end

\* "so LookupL7 picks the most specific match": no other route of the table that
\* matches is narrower, but for one case: "p/*" and "p*" outrank the exact p,
\* because they are longer.
MostSpecific ==
  \A host \in Hosts, path \in Paths :
    \A e \in LookupL7(table, host, path), f \in Matching(table, host, path) :
      Narrower(f.route.path, e.route.path) => Extends(e.route.path, f.route.path)

\* FR-012, FR-013: a request goes to a container that the reconciler published
\* as healthy for its service, before it and last or while it ran - although
\* the pool may be forgotten, remade and refilled under it.
FreshBackends ==
  \A r \in Requests : req[r].pc = "sent" => req[r].to \in req[r].fresh

\* "strict rotation": between two updates of a pool, or two wraps of its 64-bit
\* cursor, concurrent round-robin requests are spread evenly over its healthy
\* backends.
Rotates ==
  \A o \in Pools, i, j \in Ids :
    {i, j} \subseteq HealthyIn(pool[o].backends) => pool[o].picks[i] <= pool[o].picks[j] + 1

\* Once edits and failed lists cease, the live table is what is stored, if that
\* can be a table at all, and every L4 port in it has its forwarder: no rejected
\* or partial table stays, nor one that was published before Run.
RoutesPublished ==
  <>[](LET es == EntriesOf(stored, Services)
       IN  Accepts(es) => table = es /\ Keys(forwarders) = Keys(Forwarded(es)))

-----------------------------------------------------------------------------
(* What a document promises and the code does not keep. *)

\* specs/003 route.md: at reconcile time "no extra validation (the StateStore is
\* the authoritative source of routes; if it round-trips JSON correctly it's
\* already valid)". What the handlers store is always accepted by BuildRouter.
StoredRoutesBuild == Accepts(EntriesOf(stored, Services))

-----------------------------------------------------------------------------
(* What the proofs carry along. *)

\* Routes lead to services.
EntriesInv == \A e \in table \cup tick.entries : e.svc \in Services

\* A pool belongs to one service, and so do the requests that hold it.
OwnerInv ==
  /\ \A s, t \in Services : registry[s] = registry[t] /\ registry[s] # NoPool => s = t
  /\ \A r \in Requests :
       /\ req[r].pc # "idle" => req[r].svc \in Services
       /\ req[r].pc = "pooled" <=> req[r].pool # NoPool
       /\ \A s \in Services :
            registry[s] = req[r].pool /\ req[r].pool # NoPool => req[r].svc = s

\* What was published last for a service is in its pool.
PublishedInv ==
  \A s \in Services : registry[s] # NoPool => pool[registry[s]].backends = published[s]

\* A request has seen published what it may pick from.
FreshInv ==
  \A r \in Requests : req[r].pc # "idle" =>
    /\ HealthyIn(published[req[r].svc]) \subseteq req[r].fresh
    /\ req[r].pool # NoPool => HealthyIn(pool[req[r].pool].backends) \subseteq req[r].fresh

\* How many picks ago number k of n was due, when number c is the next.
Behind(k, c, n) == IF k < c THEN c - k ELSE c - k + n

\* One more pick than the others have the last d backends before the cursor.
InRotation(p, d) ==
  LET healthy == HealthyIndices(p.backends)
      n == Cardinality(healthy)
  IN  \A k \in healthy :
        p.picks[p.backends[k].id] =
          IF Behind(Cardinality({j \in healthy : j < k}), p.cursor % n, n) <= d THEN 1 ELSE 0

RotationInv ==
  \A o \in Pools : HealthyIndices(pool[o].backends) # {} =>
    \E d \in 0 .. Cardinality(HealthyIndices(pool[o].backends)) - 1 : InRotation(pool[o], d)

BalancingInv ==
  EntriesInv /\ OwnerInv /\ PublishedInv /\ FreshInv /\ FreshBackends /\ RotationInv
=============================================================================
