----------------------------- MODULE Forwarding -----------------------------
(***************************************************************************)
(* The L4 side of the ingress: UpdateRoutes starts a forwarder for every   *)
(* (protocol, port) that appears and stops those that are gone, without    *)
(* waiting for either, while each forwarder binds its port, accepts and    *)
(* serves in goroutines of its own (ingress/l4.go). Module Ingress has the *)
(* tables and the pools in detail; here a table gives each key a service,  *)
(* and a pool is the set of its healthy backends.                          *)
(***************************************************************************)
EXTENDS Naturals, FiniteSets

CONSTANTS
  Keys,      \* l4Key: records [proto, port]
  Services,
  Tables,    \* what routes ask for: functions from Keys to services or NoService
  Backends,
  Conns,     \* goroutines for TCP connections
  Sources,   \* addresses that send datagrams
  Sticky,    \* ticks of the clock a source keeps its backend (30 s in the code)
  MaxStarts, \* forwarders started for one key in a run: enough for the edits
  Budget,    \* edits of the routes and changes of the pools in a run
  NoService, NoBackend

VARIABLES
  routes,    \* the routes of the stored services
  table,     \* the table of the last UpdateRoutes
  l4,        \* i.l4: which forwarder of each key is the current one, 0 for none
  running,   \* Run has set l4Ctx
  cancelled, \* l4Ctx is cancelled
  fwd,       \* the forwarders ever started, and their listeners
  conn,      \* TCP connections
  udpRoute,  \* the backend each source is bound to, and for how long
  pool,      \* the healthy backends of each service
  budget,
  age,       \* history: ticks since a backend left the pool of a service
  early,     \* history: forwarders stopped before they had a listener to close
  moved      \* history: forwarders whose key passed to another service

history == <<age, early, moved>>
ingress == <<table, l4, running, cancelled>>
vars == <<routes, ingress, fwd, conn, udpRoute, pool, budget, history>>

Fwd == Keys \X (1 .. MaxStarts)
Names == Services \cup {NoService}

\* starting: not bound yet; bound: Listen has returned, Stop does not see the
\* listener yet; serving: in the accept or read loop.
Forwarder == [pc: {"unborn", "starting", "bound", "serving", "returned"},
              svc: Names, listener: {"none", "open", "closed"}]
Conn == [pc: {"none", "accepted", "dialing", "open"}, svc: Names,
         to: Backends \cup {NoBackend}]
StickyEntry == [to: Backends \cup {NoBackend}, left: 0 .. Sticky]

ASSUME ForwardingAssumption ==
  /\ Keys \subseteq [proto: {"tcp", "udp"}, port: Nat \ {0}]
  /\ Tables \subseteq [Keys -> Names] /\ Sticky \in Nat \ {0}
  /\ MaxStarts \in Nat /\ Budget \in [{"edit", "pool"} -> Nat]
  /\ Budget["edit"] <= 2 * MaxStarts
  /\ NoService \notin Services /\ NoBackend \notin Backends

Unborn == [pc |-> "unborn", svc |-> NoService, listener |-> "none"]
NoConn == [pc |-> "none", svc |-> NoService, to |-> NoBackend]
NoEntry == [to |-> NoBackend, left |-> 0]

Spend(kind) == budget[kind] > 0 /\ budget' = [budget EXCEPT ![kind] = @ - 1]
Listens(f) == fwd[f].listener = "open"
Proto(f) == f[1].proto

-----------------------------------------------------------------------------
(* The control plane. *)

\* An upsert, or a delete, changes the stored routes.
Edit(t) ==
  /\ t # routes /\ Spend("edit") /\ routes' = t
  /\ UNCHANGED <<ingress, fwd, conn, udpRoute, pool, history>>

Run ==
  /\ ~running /\ running' = TRUE
  /\ UNCHANGED <<routes, table, l4, cancelled, fwd, conn, udpRoute, pool, budget, history>>

\* The forwarders UpdateRoutes stops, and the keys it starts one for.
Gone == {f \in Fwd : l4[f[1]] = f[2] /\ routes[f[1]] = NoService}
Fresh == {k \in Keys : running /\ routes[k] # NoService /\ l4[k] = 0}

\* The next forwarder of key k has this number.
NextOf(k) == Cardinality({n \in 1 .. MaxStarts : fwd[<<k, n>>].pc # "unborn"}) + 1

\* Wrong form of Stop: the loop will notice.
StopNothing(f) == fwd[f]

\* Stop closes the listener if Start has stored it, and nothing else.
Stop(f) ==
  IF fwd[f].pc = "serving" THEN [fwd[f] EXCEPT !.listener = "closed"] ELSE fwd[f]

\* Wrong form of Current: a stopped forwarder is not deleted from the map.
CurrentKept(k) == IF k \in Fresh THEN NextOf(k) ELSE l4[k]

\* What the map i.l4 holds for key k in the end.
Current(k) ==
  IF k \in Fresh THEN NextOf(k) ELSE IF routes[k] = NoService THEN 0 ELSE l4[k]

\* UpdateRoutes, called by every tick of the reconciler: under the lock, stop
\* what is gone and start what is new; what stays keeps its service.
UpdateRoutes ==
  /\ \A k \in Fresh : NextOf(k) <= MaxStarts
  /\ table' = routes
  /\ l4' = [k \in Keys |-> Current(k)]
  /\ fwd' = [f \in Fwd |->
       IF f \in Gone THEN Stop(f)
       ELSE IF f[1] \in Fresh /\ f[2] = NextOf(f[1])
            THEN [Unborn EXCEPT !.pc = "starting", !.svc = routes[f[1]]]
       ELSE fwd[f]]
  /\ early' = early \cup {f \in Gone : fwd[f].pc \in {"starting", "bound"}}
  /\ moved' = moved \cup {f \in Fwd : f[2] = l4[f[1]] /\ routes[f[1]] \notin {NoService, fwd[f].svc}}
  /\ UNCHANGED <<routes, running, cancelled, conn, udpRoute, pool, budget, age>>

\* The reconciler publishes the healthy backends of service s.
UpdateBackends(s, b) ==
  /\ b # pool[s] /\ Spend("pool") /\ pool' = [pool EXCEPT ![s] = b]
  /\ age' = [age EXCEPT ![s] = [i \in Backends |-> IF i \in b THEN 0 ELSE @[i]]]
  /\ UNCHANGED <<routes, ingress, fwd, conn, udpRoute, early, moved>>

Cancel ==
  /\ running /\ ~cancelled /\ cancelled' = TRUE
  /\ UNCHANGED <<routes, table, l4, running, fwd, conn, udpRoute, pool, budget, history>>

-----------------------------------------------------------------------------
(* A forwarder: startTCP, startUDP. *)

\* net.Listen fails while another forwarder holds the port; Start returns the
\* error, and the map keeps the forwarder. (Errors from outside, such as a port
\* another program holds, are left out: after one the port stays closed.)
Listen(f) ==
  /\ fwd[f].pc = "starting"
  /\ fwd' = [fwd EXCEPT ![f] =
       IF \E g \in Fwd : g[1] = f[1] /\ Listens(g) THEN [@ EXCEPT !.pc = "returned"]
       ELSE [@ EXCEPT !.pc = "bound", !.listener = "open"]]
  /\ UNCHANGED <<routes, ingress, conn, udpRoute, pool, budget, history>>

\* The listener becomes visible to Stop, and the loop begins.
Serve(f) ==
  /\ fwd[f].pc = "bound"
  /\ fwd' = [fwd EXCEPT ![f].pc = "serving"]
  /\ UNCHANGED <<routes, ingress, conn, udpRoute, pool, budget, history>>

\* The goroutine that closes the listener when the context is done.
CloseOnDone(f) ==
  /\ cancelled /\ fwd[f].pc = "serving" /\ Listens(f)
  /\ fwd' = [fwd EXCEPT ![f].listener = "closed"]
  /\ UNCHANGED <<routes, ingress, conn, udpRoute, pool, budget, history>>

\* Wrong form of LoopEnds: every error is taken for a passing one.
LoopEndsNever(f) ==
  /\ cancelled /\ fwd[f].pc = "serving" /\ fwd[f].listener = "none"
  /\ fwd' = [fwd EXCEPT ![f].pc = "returned"]
  /\ UNCHANGED <<routes, ingress, conn, udpRoute, pool, budget, history>>

\* Accept or ReadFrom fails on a closed listener. The loop returns only when
\* the context is done; otherwise it logs and tries again.
LoopEnds(f) ==
  /\ cancelled /\ fwd[f].pc = "serving" /\ fwd[f].listener = "closed"
  /\ fwd' = [fwd EXCEPT ![f].pc = "returned"]
  /\ UNCHANGED <<routes, ingress, conn, udpRoute, pool, budget, history>>

-----------------------------------------------------------------------------
(* TCP: handleTCPConn. *)

Accept(f, c) ==
  /\ Proto(f) = "tcp" /\ fwd[f].pc = "serving" /\ Listens(f) /\ conn[c] = NoConn
  /\ conn' = [conn EXCEPT ![c] = [NoConn EXCEPT !.pc = "accepted", !.svc = fwd[f].svc]]
  /\ UNCHANGED <<routes, ingress, fwd, udpRoute, pool, budget, history>>

\* Wrong form of Pick: the answer of an empty pool is not looked at.
PickNil(c) ==
  /\ conn[c].pc = "accepted"
  /\ \E b \in IF pool[conn[c].svc] = {} THEN {NoBackend} ELSE pool[conn[c].svc] :
       conn' = [conn EXCEPT ![c].pc = "dialing", ![c].to = b]
  /\ UNCHANGED <<routes, ingress, fwd, udpRoute, pool, budget, history>>

\* Get and Pick; without a healthy backend the connection is dropped.
Pick(c) ==
  /\ conn[c].pc = "accepted"
  /\ \/ pool[conn[c].svc] = {} /\ conn' = [conn EXCEPT ![c] = NoConn]
     \/ \E b \in pool[conn[c].svc] :
          conn' = [conn EXCEPT ![c].pc = "dialing", ![c].to = b]
  /\ UNCHANGED <<routes, ingress, fwd, udpRoute, pool, budget, history>>

\* The dial succeeds or gives up after five seconds.
Dial(c) ==
  /\ conn[c].pc = "dialing"
  /\ conn' = [conn EXCEPT ![c] = NoConn] \/ conn' = [conn EXCEPT ![c].pc = "open"]
  /\ UNCHANGED <<routes, ingress, fwd, udpRoute, pool, budget, history>>

\* Either side closes, or the context is done. A stopped forwarder ends none.
Hangup(c) ==
  /\ conn[c].pc = "open"
  /\ conn' = [conn EXCEPT ![c] = NoConn]
  /\ UNCHANGED <<routes, ingress, fwd, udpRoute, pool, budget, history>>

-----------------------------------------------------------------------------
(* UDP: pickUDPBackend and the clock. *)

\* Wrong form of Stuck: every datagram starts the time again.
StuckAgain(e) == [e EXCEPT !.left = Sticky]

\* An entry that has not expired is used as it is.
Stuck(e) == e

\* A datagram from src: the entry of the source, or a healthy backend that
\* becomes its entry, or none.
Datagram(f, src) ==
  /\ Proto(f) = "udp" /\ fwd[f].pc = "serving" /\ Listens(f)
  /\ LET e == udpRoute[f][src]
     IN  \/ e.left > 0 /\ udpRoute' = [udpRoute EXCEPT ![f][src] = Stuck(e)]
         \/ e.left = 0 /\ \E b \in pool[fwd[f].svc] :
              udpRoute' = [udpRoute EXCEPT ![f][src] = [to |-> b, left |-> Sticky]]
  /\ UNCHANGED <<routes, ingress, fwd, conn, pool, budget, history>>

\* Time passes. Entries that expire stay in the map and are not used again.
Clock ==
  /\ udpRoute' = [f \in Fwd |-> [src \in Sources |->
       LET e == udpRoute[f][src] IN IF e.left <= 1 THEN NoEntry ELSE [e EXCEPT !.left = @ - 1]]]
  /\ age' = [s \in Services |-> [b \in Backends |->
       IF b \in pool[s] THEN 0 ELSE IF age[s][b] < Sticky THEN age[s][b] + 1 ELSE Sticky]]
  /\ UNCHANGED <<routes, ingress, fwd, conn, pool, budget, early, moved>>

-----------------------------------------------------------------------------
NoRoutes == [k \in Keys |-> NoService]

Init ==
  /\ routes = NoRoutes /\ table = NoRoutes
  /\ l4 = [k \in Keys |-> 0] /\ running = FALSE /\ cancelled = FALSE
  /\ fwd = [f \in Fwd |-> Unborn]
  /\ conn = [c \in Conns |-> NoConn]
  /\ udpRoute = [f \in Fwd |-> [src \in Sources |-> NoEntry]]
  /\ pool = [s \in Services |-> {}] /\ budget = Budget
  /\ age = [s \in Services |-> [b \in Backends |-> Sticky]]
  /\ early = {} /\ moved = {}

Step(f) == Listen(f) \/ Serve(f) \/ CloseOnDone(f) \/ LoopEnds(f)

Next ==
  \/ \E t \in Tables : Edit(t)
  \/ \E s \in Services, b \in SUBSET Backends : UpdateBackends(s, b)
  \/ Run \/ UpdateRoutes \/ Cancel \/ Clock
  \/ \E f \in Fwd : Step(f) \/ (\E c \in Conns : Accept(f, c))
                             \/ (\E src \in Sources : Datagram(f, src))
  \/ \E c \in Conns : Pick(c) \/ Dial(c) \/ Hangup(c)

Spec == Init /\ [][Next]_vars

\* Goroutines run, the reconciler ticks, dials time out, and a connection is
\* dropped once the context is done (it need never end before).
FairSpec ==
  /\ Spec /\ WF_vars(Run) /\ WF_vars(UpdateRoutes)
  /\ \A f \in Fwd : WF_vars(Step(f))
  /\ \A c \in Conns : WF_vars(Pick(c) \/ Dial(c)) /\ WF_vars(cancelled /\ Hangup(c))

-----------------------------------------------------------------------------
(* Properties. *)

\* Every variable holds a value of its kind, and what is dialled is a backend.
TypeOK ==
  /\ routes \in [Keys -> Names] /\ table \in [Keys -> Names]
  /\ l4 \in [Keys -> 0 .. MaxStarts] /\ running \in BOOLEAN /\ cancelled \in BOOLEAN
  /\ fwd \in [Fwd -> Forwarder] /\ conn \in [Conns -> Conn]
  /\ udpRoute \in [Fwd -> [Sources -> StickyEntry]]
  /\ pool \in [Services -> SUBSET Backends] /\ budget \in [{"edit", "pool"} -> Nat]
  /\ age \in [Services -> [Backends -> 0 .. Sticky]]
  /\ early \subseteq Fwd /\ moved \subseteq Fwd
  /\ \A c \in Conns : conn[c].pc \in {"dialing", "open"} => conn[c].to \in Backends
  /\ \A f \in Fwd, src \in Sources : udpRoute[f][src].left > 0 => udpRoute[f][src].to \in Backends

\* FR-007, FR-008: a port leads to the service the published table names. It
\* leads elsewhere in two cases only: its forwarder was stopped before it had
\* bound and listens nevertheless, or the key passed from one service to
\* another without leaving the table.
StraysExplained ==
  \A f \in Fwd : Listens(f) /\ fwd[f].svc # table[f[1]] => f \in early \cup moved

\* R-004: a source stays with its backend for 30 s, so no datagram goes to a
\* backend that left the pool that long ago.
StickyExpires ==
  \A f \in Fwd, src \in Sources :
    udpRoute[f][src].left > 0 => age[fwd[f].svc][udpRoute[f][src].to] < Sticky

\* Once the routes no longer change, every port in them is listened on for
\* good, unless the ingress shuts down: by its own forwarder, or by a former one
\* in the cases StraysExplained names. Holds if only Proxa binds these ports.
PortsOpen ==
  <>[](cancelled \/ \A k \in Keys : routes[k] # NoService => \E n \in 1 .. MaxStarts : Listens(<<k, n>>))

\* Shutdown ends every loop, whether its forwarder was stopped, is just binding
\* or leaked, and every connection.
ShutdownEnds ==
  cancelled ~> /\ \A f \in Fwd : fwd[f].pc \in {"unborn", "returned"} /\ ~Listens(f)
               /\ \A c \in Conns : conn[c] = NoConn

-----------------------------------------------------------------------------
(* What the proofs carry along. *)

\* A forwarder that was started, and a connection, has a service.
ServiceInv ==
  /\ \A f \in Fwd : fwd[f].pc # "unborn" => fwd[f].svc \in Services
  /\ \A c \in Conns : conn[c].pc # "none" => conn[c].svc \in Services

\* The forwarders of a key are started one after the other; the map names one of
\* them.
StartedInv ==
  \A k \in Keys : \E m \in 0 .. MaxStarts :
    /\ l4[k] <= m
    /\ \A n \in 1 .. MaxStarts : fwd[<<k, n>>].pc # "unborn" <=> n <= m

\* A forwarder that listens or is about to, and was not stopped too early or
\* moved, is the one in the map and has the service of the table.
CurrentInv ==
  \A f \in Fwd :
    /\ Listens(f) => fwd[f].pc \in {"bound", "serving"}
    /\ (fwd[f].pc \in {"starting", "bound"} \/ Listens(f)) /\ f \notin early \cup moved =>
         l4[f[1]] = f[2] /\ fwd[f].svc = table[f[1]]

\* The time a source keeps its backend runs down as fast as a backend that left
\* the pool grows old.
StickyInv ==
  /\ \A s \in Services : \A b \in pool[s] : age[s][b] = 0
  /\ \A f \in Fwd, src \in Sources :
       LET e == udpRoute[f][src]
       IN  e.left > 0 => fwd[f].pc # "unborn" /\ age[fwd[f].svc][e.to] + e.left <= Sticky

ForwardingInv == TypeOK /\ ServiceInv /\ StartedInv /\ CurrentInv /\ StickyInv
=============================================================================
