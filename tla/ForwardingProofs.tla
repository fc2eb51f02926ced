--------------------------- MODULE ForwardingProofs ---------------------------
(***************************************************************************)
(* Theorems about Forwarding, for any keys, services, backends, numbers of *)
(* forwarders, connections and sources, and any length of stickiness. The  *)
(* inductive invariant is ForwardingInv.                                   *)
(***************************************************************************)
EXTENDS Forwarding, FiniteSetTheorems, TLAPS

-----------------------------------------------------------------------------
(* Forwarders and their numbers. *)

\* A forwarder is a key and a number.
LEMMA FwdPair ==
  /\ \A k \in Keys, n \in 1 .. MaxStarts : <<k, n>> \in Fwd
  /\ \A f \in Fwd : f = <<f[1], f[2]>> /\ f[1] \in Keys /\ f[2] \in 1 .. MaxStarts
BY DEF Fwd

\* The next forwarder of a key is one that was never started.
LEMMA NextIsUnborn ==
  ASSUME TypeOK, StartedInv, NEW k \in Keys
  PROVE  /\ NextOf(k) \in Nat \ {0} /\ l4[k] < NextOf(k)
         /\ \A n \in 1 .. MaxStarts : fwd[<<k, n>>].pc # "unborn" <=> n < NextOf(k)
<1> USE ForwardingAssumption
<1>1. PICK m \in 0 .. MaxStarts :
        /\ l4[k] <= m
        /\ \A n \in 1 .. MaxStarts : fwd[<<k, n>>].pc # "unborn" <=> n <= m
  BY DEF StartedInv
<1>2. {n \in 1 .. MaxStarts : fwd[<<k, n>>].pc # "unborn"} = 1 .. m
  BY <1>1
<1>3. Cardinality(1 .. m) = m
  BY FS_Interval
<1>4. NextOf(k) = m + 1
  BY <1>2, <1>3 DEF NextOf
<1>5. l4[k] \in 0 .. MaxStarts
  BY DEF TypeOK
<1> QED
  BY <1>1, <1>4, <1>5

\* The sentinels are of the kinds they stand in for.
LEMMA Sentinels ==
  /\ Unborn \in Forwarder /\ Unborn.pc = "unborn" /\ Unborn.listener = "none"
  /\ NoConn \in Conn /\ NoConn.pc = "none"
  /\ NoEntry \in StickyEntry /\ NoEntry.left = 0
BY ForwardingAssumption DEF Unborn, Forwarder, NoConn, Conn, NoEntry, StickyEntry, Names

-----------------------------------------------------------------------------
(* The invariant, step by step. *)

\* At the start there is no forwarder and no connection.
LEMMA InitForwarding == Init => ForwardingInv
<1> SUFFICES ASSUME Init PROVE ForwardingInv
  OBVIOUS
<1> USE ForwardingAssumption
<1>1. TypeOK
  <2>1. routes \in [Keys -> Names] /\ table \in [Keys -> Names] /\ l4 \in [Keys -> 0 .. MaxStarts]
    BY DEF Init, NoRoutes, Names
  <2>2. fwd \in [Fwd -> Forwarder] /\ conn \in [Conns -> Conn]
    BY Sentinels DEF Init
  <2>3. udpRoute \in [Fwd -> [Sources -> StickyEntry]]
    BY Sentinels DEF Init
  <2>4. age \in [Services -> [Backends -> 0 .. Sticky]] /\ pool \in [Services -> SUBSET Backends]
    BY DEF Init
  <2>5. running \in BOOLEAN /\ cancelled \in BOOLEAN /\ early \subseteq Fwd /\ moved \subseteq Fwd
    BY DEF Init
  <2>6. \A c \in Conns : conn[c].pc = "none"
    BY Sentinels DEF Init
  <2>7. \A f \in Fwd, src \in Sources : udpRoute[f][src].left = 0
    BY Sentinels DEF Init
  <2>8. budget \in [{"edit", "pool"} -> Nat]
    BY DEF Init
  <2> QED
    BY <2>1, <2>2, <2>3, <2>4, <2>5, <2>6, <2>7, <2>8 DEF TypeOK
<1>2. ServiceInv
  BY Sentinels DEF Init, ServiceInv
<1>3. StartedInv
  <2> SUFFICES ASSUME NEW k \in Keys
               PROVE  /\ l4[k] <= 0
                      /\ \A n \in 1 .. MaxStarts : fwd[<<k, n>>].pc # "unborn" <=> n <= 0
    BY DEF StartedInv
  <2> QED
    BY FwdPair, Sentinels DEF Init
<1>4. CurrentInv
  BY Sentinels DEF Init, CurrentInv, Listens
<1>5. StickyInv
  <2>1. \A s \in Services : pool[s] = {}
    BY DEF Init
  <2>2. \A f \in Fwd, src \in Sources : ~(udpRoute[f][src].left > 0)
    BY Sentinels DEF Init
  <2> QED
    BY <2>1, <2>2 DEF StickyInv
<1> QED
  BY <1>1, <1>2, <1>3, <1>4, <1>5 DEF ForwardingInv

\* What one forwarder does by itself leaves its service and all others alone,
\* and never makes it listen unless it was about to.
LEMMA StepForwarding ==
  ASSUME ForwardingInv, NEW f \in Fwd, Step(f)
  PROVE  ForwardingInv'
<1> USE ForwardingAssumption
<1>0. TypeOK /\ fwd[f] \in Forwarder /\ fwd \in [Fwd -> Forwarder]
  BY DEF ForwardingInv, TypeOK
<1>1. UNCHANGED <<routes, ingress, conn, udpRoute, pool, budget, history>>
  BY DEF Step, Listen, Serve, CloseOnDone, LoopEnds
<1>2. PICK new \in Forwarder :
        /\ fwd' = [fwd EXCEPT ![f] = new] /\ new.svc = fwd[f].svc
        /\ new.pc # "unborn" /\ fwd[f].pc # "unborn"
        /\ new.listener = "open" => new.pc \in {"bound", "serving"}
        /\ new.pc \in {"starting", "bound"} \/ new.listener = "open" =>
             fwd[f].pc \in {"starting", "bound"} \/ Listens(f)
  <2>1. CASE Listen(f)
    <3>1. CASE \E g \in Fwd : g[1] = f[1] /\ Listens(g)
      <4> DEFINE new == [fwd[f] EXCEPT !.pc = "returned"]
      <4>1. fwd' = [fwd EXCEPT ![f] = new] /\ fwd[f].pc = "starting"
        BY <1>0, <2>1, <3>1 DEF Listen
      <4>2. new \in Forwarder /\ new.pc = "returned" /\ new.svc = fwd[f].svc /\ new.listener = fwd[f].listener
        BY <1>0 DEF Forwarder
      <4>3. new.listener # "open"
        BY <4>1, <4>2 DEF ForwardingInv, CurrentInv, Listens
      <4> HIDE DEF new
      <4> QED
        BY <4>1, <4>2, <4>3
    <3>2. CASE ~\E g \in Fwd : g[1] = f[1] /\ Listens(g)
      <4> DEFINE new == [fwd[f] EXCEPT !.pc = "bound", !.listener = "open"]
      <4>1. fwd' = [fwd EXCEPT ![f] = new] /\ fwd[f].pc = "starting"
        BY <1>0, <2>1, <3>2 DEF Listen
      <4>2. new \in Forwarder /\ new.pc = "bound" /\ new.svc = fwd[f].svc
        BY <1>0 DEF Forwarder
      <4> HIDE DEF new
      <4> QED
        BY <4>1, <4>2
    <3> QED
      BY <3>1, <3>2
  <2>2. CASE Serve(f)
    <3> DEFINE new == [fwd[f] EXCEPT !.pc = "serving"]
    <3>1. fwd' = [fwd EXCEPT ![f] = new] /\ fwd[f].pc = "bound"
      BY <1>0, <2>2 DEF Serve
    <3>2. new \in Forwarder /\ new.pc = "serving" /\ new.svc = fwd[f].svc
      BY <1>0 DEF Forwarder
    <3> HIDE DEF new
    <3> QED
      BY <3>1, <3>2
  <2>3. CASE CloseOnDone(f)
    <3> DEFINE new == [fwd[f] EXCEPT !.listener = "closed"]
    <3>1. fwd' = [fwd EXCEPT ![f] = new] /\ fwd[f].pc = "serving"
      BY <1>0, <2>3 DEF CloseOnDone
    <3>2. new \in Forwarder /\ new.pc = "serving" /\ new.svc = fwd[f].svc /\ new.listener = "closed"
      BY <1>0, <3>1 DEF Forwarder
    <3> HIDE DEF new
    <3> QED
      BY <3>1, <3>2
  <2>4. CASE LoopEnds(f)
    <3> DEFINE new == [fwd[f] EXCEPT !.pc = "returned"]
    <3>1. fwd' = [fwd EXCEPT ![f] = new] /\ fwd[f].pc = "serving" /\ fwd[f].listener = "closed"
      BY <1>0, <2>4 DEF LoopEnds
    <3>2. new \in Forwarder /\ new.pc = "returned" /\ new.svc = fwd[f].svc /\ new.listener = "closed"
      BY <1>0, <3>1 DEF Forwarder
    <3> HIDE DEF new
    <3> QED
      BY <3>1, <3>2
  <2> QED
    BY <2>1, <2>2, <2>3, <2>4 DEF Step
<1>3. \A g \in Fwd : fwd'[g] = IF g = f THEN new ELSE fwd[g]
  BY <1>0, <1>2
<1>4. TypeOK'
  BY <1>0, <1>1, <1>2 DEF TypeOK, ingress, history
<1>5. ServiceInv'
  BY <1>1, <1>2, <1>3 DEF ForwardingInv, ServiceInv
<1>6. StartedInv'
  <2>1. \A g \in Fwd : fwd'[g].pc # "unborn" <=> fwd[g].pc # "unborn"
    BY <1>2, <1>3
  <2> QED
    BY <1>1, <2>1, FwdPair DEF ForwardingInv, StartedInv, ingress
<1>7. CurrentInv'
  BY <1>1, <1>2, <1>3 DEF ForwardingInv, CurrentInv, Listens, ingress, history
<1>8. StickyInv'
  <2>1. \A g \in Fwd : fwd'[g].svc = fwd[g].svc /\ (fwd'[g].pc # "unborn" <=> fwd[g].pc # "unborn")
    BY <1>2, <1>3
  <2> QED
    BY <1>1, <2>1 DEF ForwardingInv, StickyInv, history
<1> QED
  BY <1>4, <1>5, <1>6, <1>7, <1>8 DEF ForwardingInv

\* Connections concern nobody else, and are dialled to backends of the pool.
LEMMA ConnForwarding ==
  ASSUME ForwardingInv, NEW c \in Conns,
         (\E f \in Fwd : Accept(f, c)) \/ Pick(c) \/ Dial(c) \/ Hangup(c)
  PROVE  ForwardingInv'
<1> USE ForwardingAssumption
<1>0. conn \in [Conns -> Conn] /\ conn[c] \in Conn /\ TypeOK
  BY DEF ForwardingInv, TypeOK
<1>1. UNCHANGED <<routes, ingress, fwd, udpRoute, pool, budget, history>>
  BY DEF Accept, Pick, Dial, Hangup
<1>2. PICK new \in Conn :
        /\ conn' = [conn EXCEPT ![c] = new] /\ (new.pc # "none" => new.svc \in Services)
        /\ new.pc \in {"dialing", "open"} => new.to \in Backends
  <2>1. CASE conn' = [conn EXCEPT ![c] = NoConn]
    BY <2>1, Sentinels
  <2>2. CASE \E f \in Fwd : Accept(f, c)
    <3>1. PICK f \in Fwd : Accept(f, c)
      BY <2>2
    <3> DEFINE new == [NoConn EXCEPT !.pc = "accepted", !.svc = fwd[f].svc]
    <3>2. conn' = [conn EXCEPT ![c] = new] /\ fwd[f].pc # "unborn"
      BY <3>1 DEF Accept
    <3>3. fwd[f].svc \in Services
      BY <3>2 DEF ForwardingInv, ServiceInv
    <3>4. new \in Conn /\ new.pc = "accepted" /\ new.svc = fwd[f].svc
      BY <3>3, Sentinels DEF NoConn, Conn, Names
    <3> HIDE DEF new
    <3> QED
      BY <3>2, <3>3, <3>4
  <2>3. CASE Pick(c) /\ conn' # [conn EXCEPT ![c] = NoConn]
    <3>1. conn[c].svc \in Services /\ pool[conn[c].svc] \subseteq Backends
      BY <1>0, <2>3 DEF Pick, ForwardingInv, ServiceInv, TypeOK
    <3>2. PICK b \in pool[conn[c].svc] : conn' = [conn EXCEPT ![c].pc = "dialing", ![c].to = b]
      BY <2>3 DEF Pick
    <3> DEFINE new == [conn[c] EXCEPT !.pc = "dialing", !.to = b]
    <3>3. conn' = [conn EXCEPT ![c] = new]
      BY <1>0, <3>2
    <3>4. new \in Conn /\ new.svc = conn[c].svc /\ new.to = b
      BY <1>0, <3>1 DEF Conn
    <3> HIDE DEF new
    <3> QED
      BY <3>1, <3>3, <3>4
  <2>4. CASE Dial(c) /\ conn' # [conn EXCEPT ![c] = NoConn]
    <3> DEFINE new == [conn[c] EXCEPT !.pc = "open"]
    <3>1. conn' = [conn EXCEPT ![c] = new] /\ conn[c].pc = "dialing"
      BY <1>0, <2>4 DEF Dial
    <3>2. new \in Conn /\ new.svc = conn[c].svc /\ new.to = conn[c].to
      BY <1>0 DEF Conn
    <3>3. conn[c].svc \in Services /\ conn[c].to \in Backends
      BY <1>0, <3>1 DEF TypeOK, ForwardingInv, ServiceInv
    <3> HIDE DEF new
    <3> QED
      BY <3>1, <3>2, <3>3
  <2> QED
    BY <2>1, <2>2, <2>3, <2>4 DEF Hangup
<1>3. \A d \in Conns : conn'[d] = IF d = c THEN new ELSE conn[d]
  BY <1>0, <1>2
<1>4. TypeOK'
  <2>1. conn' \in [Conns -> Conn]
    BY <1>0, <1>2
  <2>2. \A d \in Conns : conn'[d].pc \in {"dialing", "open"} => conn'[d].to \in Backends
    BY <1>0, <1>2, <1>3 DEF TypeOK
  <2> QED
    BY <1>0, <1>1, <2>1, <2>2 DEF TypeOK, ingress, history
<1>5. ServiceInv'
  BY <1>1, <1>2, <1>3 DEF ForwardingInv, ServiceInv
<1>6. StartedInv' /\ CurrentInv'
  BY <1>1 DEF ForwardingInv, StartedInv, CurrentInv, Listens, ingress, history
<1>7. StickyInv'
  BY <1>1 DEF ForwardingInv, StickyInv, history
<1> QED
  BY <1>4, <1>5, <1>6, <1>7 DEF ForwardingInv

\* A datagram makes an entry for a backend that is in the pool, or uses one.
LEMMA DatagramForwarding ==
  ASSUME ForwardingInv, NEW f \in Fwd, NEW src \in Sources, Datagram(f, src)
  PROVE  ForwardingInv'
<1> USE ForwardingAssumption
<1>0. /\ TypeOK /\ udpRoute \in [Fwd -> [Sources -> StickyEntry]]
      /\ udpRoute[f] \in [Sources -> StickyEntry]
  BY DEF ForwardingInv, TypeOK
<1>1. UNCHANGED <<routes, ingress, fwd, conn, pool, budget, history>> /\ fwd[f].pc = "serving"
  BY DEF Datagram
<1>2. fwd[f].svc \in Services
  BY <1>1 DEF ForwardingInv, ServiceInv
<1>3. PICK new \in StickyEntry :
        /\ udpRoute' = [udpRoute EXCEPT ![f][src] = new]
        /\ new.left > 0 => new.to \in Backends /\ age[fwd[f].svc][new.to] + new.left <= Sticky
  <2>1. CASE udpRoute' = [udpRoute EXCEPT ![f][src] = udpRoute[f][src]]
    BY <1>0, <2>1 DEF ForwardingInv, TypeOK, StickyInv
  <2>2. CASE udpRoute' # [udpRoute EXCEPT ![f][src] = udpRoute[f][src]]
    <3>1. PICK b \in pool[fwd[f].svc] :
            udpRoute' = [udpRoute EXCEPT ![f][src] = [to |-> b, left |-> Sticky]]
      BY <2>2 DEF Datagram, Stuck
    <3>2. b \in Backends /\ age[fwd[f].svc][b] = 0
      BY <1>0, <1>2 DEF TypeOK, ForwardingInv, StickyInv
    <3> DEFINE entry == [to |-> b, left |-> Sticky]
    <3>3. entry \in StickyEntry /\ entry.to = b /\ entry.left = Sticky
      BY <3>2 DEF StickyEntry
    <3>4. udpRoute' = [udpRoute EXCEPT ![f][src] = entry]
      BY <3>1
    <3>5. entry.to \in Backends /\ age[fwd[f].svc][entry.to] + entry.left <= Sticky
      <4>1. age[fwd[f].svc][entry.to] = 0
        BY <3>2
      <4> QED
        BY <3>2, <3>3, <4>1
    <3> HIDE DEF entry
    <3> QED
      BY <3>3, <3>4, <3>5
  <2> QED
    BY <2>1, <2>2
<1>4. \A g \in Fwd, i \in Sources :
        udpRoute'[g][i] = IF g = f /\ i = src THEN new ELSE udpRoute[g][i]
  BY <1>0, <1>3
<1>5. TypeOK'
  <2>1. udpRoute' \in [Fwd -> [Sources -> StickyEntry]]
    BY <1>0, <1>3
  <2>2. \A g \in Fwd, i \in Sources : udpRoute'[g][i].left > 0 => udpRoute'[g][i].to \in Backends
    BY <1>0, <1>3, <1>4 DEF TypeOK
  <2> QED
    BY <1>0, <1>1, <2>1, <2>2 DEF TypeOK, ingress, history
<1>6. ServiceInv' /\ StartedInv' /\ CurrentInv'
  BY <1>1 DEF ForwardingInv, ServiceInv, StartedInv, CurrentInv, Listens, ingress, history
<1>7. StickyInv'
  <2>1. \A s \in Services : \A b \in pool'[s] : age'[s][b] = 0
    BY <1>1 DEF ForwardingInv, StickyInv, history
  <2>2. ASSUME NEW g \in Fwd, NEW i \in Sources, udpRoute'[g][i].left > 0
        PROVE  /\ fwd'[g].pc # "unborn"
               /\ age'[fwd'[g].svc][udpRoute'[g][i].to] + udpRoute'[g][i].left <= Sticky
    <3>1. fwd' = fwd /\ age' = age
      BY <1>1 DEF history
    <3>2. CASE g = f /\ i = src
      BY <1>1, <1>3, <1>4, <2>2, <3>1, <3>2
    <3>3. CASE ~(g = f /\ i = src)
      BY <1>4, <2>2, <3>1, <3>3 DEF ForwardingInv, StickyInv
    <3> QED
      BY <3>2, <3>3
  <2> QED
    BY <2>1, <2>2 DEF StickyInv
<1> QED
  BY <1>5, <1>6, <1>7 DEF ForwardingInv

\* Time passes for entries and for backends.
LEMMA ClockForwarding == ForwardingInv /\ Clock => ForwardingInv'
<1> SUFFICES ASSUME ForwardingInv, Clock PROVE ForwardingInv'
  OBVIOUS
<1> USE ForwardingAssumption
<1>0. /\ TypeOK /\ udpRoute \in [Fwd -> [Sources -> StickyEntry]]
      /\ age \in [Services -> [Backends -> 0 .. Sticky]] /\ pool \in [Services -> SUBSET Backends]
  BY DEF ForwardingInv, TypeOK
<1>1. UNCHANGED <<routes, ingress, fwd, conn, pool, budget, early, moved>>
  BY DEF Clock
<1>2. ASSUME NEW s \in Services, NEW b \in Backends
      PROVE  /\ age'[s][b] \in 0 .. Sticky /\ (b \in pool[s] => age'[s][b] = 0)
             /\ age'[s][b] <= age[s][b] + 1
  <2>1. age[s][b] \in 0 .. Sticky
    BY <1>0
  <2>2. age'[s][b] = IF b \in pool[s] THEN 0 ELSE IF age[s][b] < Sticky THEN age[s][b] + 1 ELSE Sticky
    BY DEF Clock
  <2> QED
    BY <2>1, <2>2
<1>3. ASSUME NEW f \in Fwd, NEW src \in Sources
      PROVE  /\ udpRoute'[f][src] \in StickyEntry
             /\ udpRoute'[f][src].left > 0 =>
                  /\ udpRoute'[f][src].to = udpRoute[f][src].to
                  /\ udpRoute'[f][src].left = udpRoute[f][src].left - 1 /\ udpRoute[f][src].left > 0
  <2> DEFINE e == udpRoute[f][src]
  <2>1. e \in StickyEntry
    BY <1>0
  <2>2. udpRoute'[f][src] = IF e.left <= 1 THEN NoEntry ELSE [e EXCEPT !.left = @ - 1]
    BY DEF Clock
  <2> HIDE DEF e
  <2>3. CASE e.left <= 1
    BY <2>2, <2>3, Sentinels
  <2>4. CASE ~(e.left <= 1)
    <3>1. e.left \in 0 .. Sticky /\ e.left > 1
      BY <2>1, <2>4 DEF StickyEntry
    <3>2. /\ [e EXCEPT !.left = e.left - 1] \in StickyEntry
          /\ [e EXCEPT !.left = e.left - 1].left = e.left - 1
          /\ [e EXCEPT !.left = e.left - 1].to = e.to
      BY <2>1, <3>1 DEF StickyEntry
    <3>3. udpRoute'[f][src] = [e EXCEPT !.left = e.left - 1]
      BY <2>2, <2>4
    <3> QED
      BY <3>1, <3>2, <3>3 DEF e
  <2> QED
    BY <2>3, <2>4
<1>4. TypeOK'
  <2>1. udpRoute' \in [Fwd -> [Sources -> StickyEntry]]
    BY <1>3 DEF Clock
  <2>2. age' \in [Services -> [Backends -> 0 .. Sticky]]
    BY <1>2 DEF Clock
  <2>3. \A f \in Fwd, src \in Sources : udpRoute'[f][src].left > 0 => udpRoute'[f][src].to \in Backends
    BY <1>0, <1>3 DEF TypeOK
  <2> QED
    BY <1>0, <1>1, <2>1, <2>2, <2>3 DEF TypeOK, ingress
<1>5. ServiceInv' /\ StartedInv' /\ CurrentInv'
  BY <1>1 DEF ForwardingInv, ServiceInv, StartedInv, CurrentInv, Listens, ingress
<1>6. StickyInv'
  <2>1. \A s \in Services : \A b \in pool'[s] : age'[s][b] = 0
    BY <1>0, <1>1, <1>2
  <2>2. ASSUME NEW f \in Fwd, NEW src \in Sources, udpRoute'[f][src].left > 0
        PROVE  /\ fwd'[f].pc # "unborn"
               /\ age'[fwd'[f].svc][udpRoute'[f][src].to] + udpRoute'[f][src].left <= Sticky
    <3> DEFINE s == fwd[f].svc
               b == udpRoute[f][src].to
               n == udpRoute[f][src].left
    <3>1. fwd' = fwd /\ udpRoute'[f][src].to = b /\ udpRoute'[f][src].left = n - 1 /\ n > 0
      BY <1>1, <1>3, <2>2
    <3>2. fwd[f].pc # "unborn" /\ age[s][b] + n <= Sticky
      BY <3>1 DEF ForwardingInv, StickyInv
    <3>3. s \in Services /\ b \in Backends /\ n \in 0 .. Sticky
      BY <1>0, <3>1, <3>2 DEF ForwardingInv, ServiceInv, TypeOK, StickyEntry
    <3>4. age'[s][b] \in 0 .. Sticky /\ age[s][b] \in 0 .. Sticky /\ age'[s][b] <= age[s][b] + 1
      BY <1>0, <1>2, <3>3
    <3> HIDE DEF s, b, n
    <3>5. age'[s][b] + (n - 1) <= Sticky
      BY <3>2, <3>3, <3>4
    <3> QED
      BY <3>1, <3>2, <3>5 DEF s, b, n
  <2> QED
    BY <2>1, <2>2 DEF StickyInv
<1> QED
  BY <1>4, <1>5, <1>6 DEF ForwardingInv

\* Publishing a pool makes its backends young and no other older.
LEMMA BackendsForwarding ==
  ASSUME ForwardingInv, NEW s \in Services, NEW b \in SUBSET Backends, UpdateBackends(s, b)
  PROVE  ForwardingInv'
<1> USE ForwardingAssumption
<1>0. /\ TypeOK /\ age \in [Services -> [Backends -> 0 .. Sticky]]
      /\ pool \in [Services -> SUBSET Backends]
  BY DEF ForwardingInv, TypeOK
<1>1. /\ UNCHANGED <<routes, ingress, fwd, conn, udpRoute, early, moved>>
      /\ pool' = [pool EXCEPT ![s] = b]
      /\ age' = [age EXCEPT ![s] = [i \in Backends |-> IF i \in b THEN 0 ELSE age[s][i]]]
  BY <1>0 DEF UpdateBackends
<1>2. \A t \in Services, i \in Backends :
        age'[t][i] = IF t = s /\ i \in b THEN 0 ELSE age[t][i]
  BY <1>0, <1>1
<1>3. \A t \in Services, i \in Backends : age'[t][i] \in 0 .. Sticky /\ age'[t][i] <= age[t][i]
  BY <1>0, <1>2
<1>4. TypeOK'
  <2>1. age' \in [Services -> [Backends -> 0 .. Sticky]]
    <3>1. [i \in Backends |-> IF i \in b THEN 0 ELSE age[s][i]] \in [Backends -> 0 .. Sticky]
      BY <1>0
    <3> QED
      BY <1>0, <1>1, <3>1
  <2>2. budget' \in [{"edit", "pool"} -> Nat]
    BY <1>0 DEF UpdateBackends, Spend, TypeOK
  <2>3. pool' \in [Services -> SUBSET Backends]
    BY <1>0, <1>1
  <2> QED
    BY <1>0, <1>1, <2>1, <2>2, <2>3 DEF TypeOK, ingress
<1>5. ServiceInv' /\ StartedInv' /\ CurrentInv'
  BY <1>1 DEF ForwardingInv, ServiceInv, StartedInv, CurrentInv, Listens, ingress
<1>6. StickyInv'
  <2>1. ASSUME NEW t \in Services, NEW i \in pool'[t] PROVE age'[t][i] = 0
    <3>1. i \in Backends /\ (t = s => i \in b) /\ (t # s => i \in pool[t])
      BY <1>0, <1>1
    <3> QED
      BY <1>2, <3>1 DEF ForwardingInv, StickyInv
  <2>2. ASSUME NEW f \in Fwd, NEW src \in Sources, udpRoute'[f][src].left > 0
        PROVE  /\ fwd'[f].pc # "unborn"
               /\ age'[fwd'[f].svc][udpRoute'[f][src].to] + udpRoute'[f][src].left <= Sticky
    <3> DEFINE t == fwd[f].svc
               i == udpRoute[f][src].to
               n == udpRoute[f][src].left
    <3>1. fwd' = fwd /\ udpRoute' = udpRoute /\ n > 0
      BY <1>1, <2>2
    <3>2. fwd[f].pc # "unborn" /\ age[t][i] + n <= Sticky
      BY <3>1 DEF ForwardingInv, StickyInv
    <3>3. t \in Services /\ i \in Backends /\ n \in 0 .. Sticky
      BY <1>0, <3>1, <3>2 DEF ForwardingInv, ServiceInv, TypeOK, StickyEntry
    <3>4. age'[t][i] \in 0 .. Sticky /\ age[t][i] \in 0 .. Sticky /\ age'[t][i] <= age[t][i]
      BY <1>0, <1>3, <3>3
    <3> HIDE DEF t, i, n
    <3>5. age'[t][i] + n <= Sticky
      BY <3>2, <3>3, <3>4
    <3> QED
      BY <3>1, <3>2, <3>5 DEF t, i, n
  <2> QED
    BY <2>1, <2>2 DEF StickyInv
<1> QED
  BY <1>4, <1>5, <1>6 DEF ForwardingInv

\* UpdateRoutes stops, starts or leaves each forwarder; one it starts has never
\* been one before.
LEMMA UpdateOf ==
  ASSUME ForwardingInv, UpdateRoutes, NEW f \in Fwd
  PROVE  /\ fwd'[f] \in Forwarder
         /\ \/ /\ f \in Gone /\ fwd'[f].pc = fwd[f].pc /\ fwd'[f].svc = fwd[f].svc
               /\ fwd[f].pc = "serving" => fwd'[f].listener = "closed"
               /\ fwd[f].pc # "serving" => fwd'[f] = fwd[f]
            \/ /\ f \notin Gone /\ f[1] \in Fresh /\ f[2] = NextOf(f[1]) /\ fwd[f].pc = "unborn"
               /\ fwd'[f].pc = "starting" /\ fwd'[f].svc = routes[f[1]] /\ routes[f[1]] \in Services
               /\ fwd'[f].listener = "none"
            \/ /\ f \notin Gone /\ ~(f[1] \in Fresh /\ f[2] = NextOf(f[1]))
               /\ fwd'[f] = fwd[f]
<1> USE ForwardingAssumption
<1>0. /\ TypeOK /\ StartedInv /\ fwd[f] \in Forwarder /\ f = <<f[1], f[2]>>
      /\ f[1] \in Keys /\ f[2] \in 1 .. MaxStarts
  BY FwdPair DEF ForwardingInv, TypeOK
<1>1. fwd'[f] = IF f \in Gone THEN Stop(f)
                ELSE IF f[1] \in Fresh /\ f[2] = NextOf(f[1])
                     THEN [Unborn EXCEPT !.pc = "starting", !.svc = routes[f[1]]]
                ELSE fwd[f]
  BY DEF UpdateRoutes
<1>2. CASE f \in Gone
  <2>1. CASE fwd[f].pc = "serving"
    <3>1. fwd'[f] = [fwd[f] EXCEPT !.listener = "closed"]
      BY <1>1, <1>2, <2>1 DEF Stop
    <3> QED
      BY <1>0, <1>2, <2>1, <3>1 DEF Forwarder
  <2>2. CASE fwd[f].pc # "serving"
    BY <1>0, <1>1, <1>2, <2>2 DEF Stop
  <2> QED
    BY <2>1, <2>2
<1>3. CASE f \notin Gone /\ f[1] \in Fresh /\ f[2] = NextOf(f[1])
  <2>1. routes[f[1]] \in Services
    BY <1>0, <1>3 DEF Fresh, TypeOK, Names
  <2>2. fwd[f].pc = "unborn"
    <3>1. \A n \in 1 .. MaxStarts : fwd[<<f[1], n>>].pc # "unborn" <=> n < NextOf(f[1])
      BY <1>0, NextIsUnborn
    <3> QED
      BY <1>0, <1>3, <3>1
  <2>3. fwd'[f] = [Unborn EXCEPT !.pc = "starting", !.svc = routes[f[1]]]
    BY <1>1, <1>3
  <2>4. /\ fwd'[f] \in Forwarder /\ fwd'[f].pc = "starting" /\ fwd'[f].svc = routes[f[1]]
        /\ fwd'[f].listener = "none"
    BY <2>1, <2>3 DEF Unborn, Forwarder, Names
  <2> QED
    BY <1>3, <2>1, <2>2, <2>4
<1>4. CASE f \notin Gone /\ ~(f[1] \in Fresh /\ f[2] = NextOf(f[1]))
  BY <1>0, <1>1, <1>4
<1> QED
  BY <1>2, <1>3, <1>4

\* UpdateRoutes keeps the invariant.
LEMMA UpdateForwarding == ForwardingInv /\ UpdateRoutes => ForwardingInv'
<1> SUFFICES ASSUME ForwardingInv, UpdateRoutes PROVE ForwardingInv'
  OBVIOUS
<1> USE ForwardingAssumption
<1>0. TypeOK /\ ServiceInv /\ StartedInv /\ CurrentInv /\ StickyInv
  BY DEF ForwardingInv
<1>1. /\ UNCHANGED <<routes, running, cancelled, conn, udpRoute, pool, budget, age>>
      /\ table' = routes /\ l4' = [k \in Keys |-> Current(k)]
      /\ early' = early \cup {f \in Gone : fwd[f].pc \in {"starting", "bound"}}
      /\ moved' = moved \cup {f \in Fwd : f[2] = l4[f[1]] /\ routes[f[1]] \notin {NoService, fwd[f].svc}}
      /\ \A k \in Fresh : NextOf(k) <= MaxStarts
  BY DEF UpdateRoutes
<1>2. ASSUME NEW k \in Keys
      PROVE  /\ l4[k] \in 0 .. MaxStarts /\ l4'[k] \in 0 .. MaxStarts
             /\ k \in Fresh => l4'[k] = NextOf(k) /\ l4[k] = 0
             /\ k \notin Fresh => l4'[k] \in {0, l4[k]}
             /\ k \notin Fresh /\ routes[k] # NoService => l4'[k] = l4[k]
  <2>1. l4[k] \in 0 .. MaxStarts /\ NextOf(k) \in Nat /\ l4'[k] = Current(k)
    BY <1>0, <1>1, NextIsUnborn DEF TypeOK
  <2>2. k \in Fresh => NextOf(k) <= MaxStarts /\ l4[k] = 0
    BY <1>1 DEF Fresh
  <2> QED
    BY <2>1, <2>2 DEF Current
<1>3. TypeOK'
  <2>1. fwd' \in [Fwd -> Forwarder]
    BY UpdateOf DEF UpdateRoutes
  <2>2. l4' \in [Keys -> 0 .. MaxStarts]
    BY <1>1, <1>2
  <2>3. early' \subseteq Fwd /\ moved' \subseteq Fwd
    BY <1>0, <1>1 DEF TypeOK, Gone
  <2> QED
    BY <1>0, <1>1, <2>1, <2>2, <2>3 DEF TypeOK
<1>4. ServiceInv'
  <2>1. ASSUME NEW f \in Fwd, fwd'[f].pc # "unborn" PROVE fwd'[f].svc \in Services
    BY <1>0, <2>1, UpdateOf DEF ServiceInv
  <2> QED
    BY <1>0, <1>1, <2>1 DEF ServiceInv
<1>5. StartedInv'
  <2> SUFFICES ASSUME NEW k \in Keys
               PROVE  \E m \in 0 .. MaxStarts :
                        /\ l4'[k] <= m
                        /\ \A n \in 1 .. MaxStarts : fwd'[<<k, n>>].pc # "unborn" <=> n <= m
    BY DEF StartedInv
  <2>1. PICK m \in 0 .. MaxStarts :
          /\ l4[k] <= m
          /\ \A n \in 1 .. MaxStarts : fwd[<<k, n>>].pc # "unborn" <=> n <= m
    BY <1>0 DEF StartedInv
  <2>2. \A n \in 1 .. MaxStarts : <<k, n>> \in Fwd /\ <<k, n>>[1] = k /\ <<k, n>>[2] = n
    BY FwdPair
  <2>3. CASE k \in Fresh
    <3>1. NextOf(k) \in 1 .. MaxStarts /\ l4'[k] = NextOf(k)
      BY <1>0, <1>1, <1>2, <2>3, NextIsUnborn
    <3>2. \A n \in 1 .. MaxStarts : fwd[<<k, n>>].pc # "unborn" <=> n < NextOf(k)
      BY <1>0, NextIsUnborn
    <3>3. \A n \in 1 .. MaxStarts : <<k, n>> \notin Gone
      BY <2>2, <2>3 DEF Gone, Fresh
    <3>4. ASSUME NEW n \in 1 .. MaxStarts PROVE fwd'[<<k, n>>].pc # "unborn" <=> n <= NextOf(k)
      <4>1. <<k, n>> \in Fwd /\ <<k, n>>[1] = k /\ <<k, n>>[2] = n /\ <<k, n>> \notin Gone
        BY <2>2, <3>3
      <4>2. CASE n = NextOf(k)
        <5>1. fwd'[<<k, n>>].pc = "starting"
          BY <2>3, <4>1, <4>2, UpdateOf
        <5> QED
          BY <3>1, <4>2, <5>1
      <4>3. CASE n # NextOf(k)
        <5>1. fwd'[<<k, n>>] = fwd[<<k, n>>]
          BY <4>1, <4>3, UpdateOf
        <5> QED
          BY <3>1, <3>2, <4>3, <5>1
      <4> QED
        BY <4>2, <4>3
    <3> QED
      BY <3>1, <3>4
  <2>4. CASE k \notin Fresh
    <3>1. \A n \in 1 .. MaxStarts : fwd'[<<k, n>>].pc = fwd[<<k, n>>].pc
      BY <2>2, <2>4, UpdateOf
    <3>2. l4'[k] <= m
      BY <1>2, <2>1, <2>4
    <3> QED
      BY <2>1, <3>1, <3>2
  <2> QED
    BY <2>3, <2>4
<1>6. CurrentInv'
  <2> SUFFICES ASSUME NEW f \in Fwd
               PROVE  /\ fwd'[f].listener = "open" => fwd'[f].pc \in {"bound", "serving"}
                      /\ /\ fwd'[f].pc \in {"starting", "bound"} \/ fwd'[f].listener = "open"
                         /\ f \notin early' \cup moved'
                         => l4'[f[1]] = f[2] /\ fwd'[f].svc = table'[f[1]]
    BY DEF CurrentInv, Listens
  <2>0. f[1] \in Keys /\ f[2] \in 1 .. MaxStarts
    BY FwdPair
  <2>1. /\ fwd[f].listener = "open" => fwd[f].pc \in {"bound", "serving"}
        /\ (fwd[f].pc \in {"starting", "bound"} \/ fwd[f].listener = "open") /\ f \notin early \cup moved =>
             l4[f[1]] = f[2] /\ fwd[f].svc = table[f[1]]
    BY <1>0 DEF CurrentInv, Listens
  <2>2. CASE f \in Gone
    <3>1. fwd[f].pc \in {"starting", "bound"} => f \in early'
      BY <1>1, <2>2
    <3> QED
      BY <2>1, <2>2, <3>1, UpdateOf
  <2>3. CASE f \notin Gone /\ f[1] \in Fresh /\ f[2] = NextOf(f[1])
    BY <1>1, <1>2, <2>0, <2>3, UpdateOf
  <2>4. CASE f \notin Gone /\ ~(f[1] \in Fresh /\ f[2] = NextOf(f[1]))
    <3>1. fwd'[f] = fwd[f]
      BY <2>4, UpdateOf
    <3>2. ASSUME fwd[f].pc \in {"starting", "bound"} \/ fwd[f].listener = "open", f \notin early' \cup moved'
          PROVE  l4'[f[1]] = f[2] /\ fwd[f].svc = table'[f[1]]
      <4>1. l4[f[1]] = f[2]
        BY <1>1, <2>1, <3>2
      <4>2. routes[f[1]] # NoService
        BY <2>4, <4>1 DEF Gone
      <4>3. routes[f[1]] = fwd[f].svc
        BY <1>1, <3>2, <4>1, <4>2
      <4>4. f[1] \notin Fresh
        BY <2>0, <4>1 DEF Fresh
      <4> QED
        BY <1>1, <1>2, <2>0, <4>1, <4>2, <4>3, <4>4
    <3> QED
      BY <2>1, <3>1, <3>2
  <2> QED
    BY <2>2, <2>3, <2>4
<1>7. StickyInv'
  <2>1. ASSUME NEW f \in Fwd, NEW src \in Sources, udpRoute'[f][src].left > 0
        PROVE  /\ fwd'[f].pc # "unborn"
               /\ age'[fwd'[f].svc][udpRoute'[f][src].to] + udpRoute'[f][src].left <= Sticky
    <3>1. udpRoute' = udpRoute /\ age' = age
      BY <1>1
    <3>2. /\ fwd[f].pc # "unborn"
          /\ age[fwd[f].svc][udpRoute[f][src].to] + udpRoute[f][src].left <= Sticky
      BY <1>0, <2>1, <3>1 DEF StickyInv
    <3>3. fwd'[f].pc = fwd[f].pc /\ fwd'[f].svc = fwd[f].svc
      BY <3>2, UpdateOf
    <3> QED
      BY <3>1, <3>2, <3>3
  <2> QED
    BY <1>0, <1>1, <2>1 DEF StickyInv
<1> QED
  BY <1>3, <1>4, <1>5, <1>6, <1>7 DEF ForwardingInv

\* Edits of the stored routes, the start and the end of the ingress.
LEMMA OtherForwarding ==
  ASSUME ForwardingInv, (\E t \in Tables : Edit(t)) \/ Run \/ Cancel \/ UNCHANGED vars
  PROVE  ForwardingInv'
<1> USE ForwardingAssumption
<1>1. UNCHANGED <<table, l4, fwd, conn, udpRoute, pool, history>>
  BY DEF Edit, Run, Cancel, vars, ingress
<1>2. routes' \in [Keys -> Names] /\ budget' \in [{"edit", "pool"} -> Nat]
  BY DEF Edit, Run, Cancel, vars, Spend, ForwardingInv, TypeOK
<1>3. running' \in BOOLEAN /\ cancelled' \in BOOLEAN
  BY DEF Edit, Run, Cancel, vars, ingress, ForwardingInv, TypeOK
<1>4. TypeOK'
  BY <1>1, <1>2, <1>3 DEF ForwardingInv, TypeOK, history
<1>5. ServiceInv' /\ StartedInv' /\ CurrentInv'
  BY <1>1 DEF ForwardingInv, ServiceInv, StartedInv, CurrentInv, Listens, history
<1>6. StickyInv'
  BY <1>1 DEF ForwardingInv, StickyInv, history
<1> QED
  BY <1>4, <1>5, <1>6 DEF ForwardingInv

\* Every step keeps it.
LEMMA NextForwarding == ForwardingInv /\ [Next]_vars => ForwardingInv'
BY StepForwarding, ConnForwarding, DatagramForwarding, ClockForwarding, BackendsForwarding,
   UpdateForwarding, OtherForwarding DEF Next

\* The invariant holds always.
LEMMA AlwaysForwarding == Spec => []ForwardingInv
BY InitForwarding, NextForwarding, PTL DEF Spec

-----------------------------------------------------------------------------
(* Theorems. *)

\* Every variable holds a value of its kind; in particular whatever is dialled,
\* or a source is bound to, is a backend.
THEOREM TypeCorrect == Spec => []TypeOK
<1>1. ForwardingInv => TypeOK
  BY DEF ForwardingInv
<1> QED
  BY <1>1, AlwaysForwarding, PTL

\* A port leads to another service than the table says only if its forwarder was
\* stopped before it had bound, or its key changed hands within the table.
THEOREM PortsLeadWhereTold == Spec => []StraysExplained
<1>1. ForwardingInv => StraysExplained
  BY DEF ForwardingInv, CurrentInv, StraysExplained
<1> QED
  BY <1>1, AlwaysForwarding, PTL

\* No datagram goes to a backend that left the pool longer ago than a source may
\* keep it.
THEOREM StickinessExpires == Spec => []StickyExpires
<1>1. ForwardingInv => StickyExpires
  <2> SUFFICES ASSUME ForwardingInv, NEW f \in Fwd, NEW src \in Sources, udpRoute[f][src].left > 0
               PROVE  age[fwd[f].svc][udpRoute[f][src].to] < Sticky
    BY DEF StickyExpires
  <2>1. /\ fwd[f].svc \in Services /\ udpRoute[f][src].to \in Backends
        /\ udpRoute[f][src] \in StickyEntry
    BY DEF ForwardingInv, StickyInv, ServiceInv, TypeOK
  <2>2. age[fwd[f].svc][udpRoute[f][src].to] \in 0 .. Sticky
    BY <2>1 DEF ForwardingInv, TypeOK
  <2>3. age[fwd[f].svc][udpRoute[f][src].to] + udpRoute[f][src].left <= Sticky
    BY DEF ForwardingInv, StickyInv
  <2> QED
    BY <2>1, <2>2, <2>3, ForwardingAssumption DEF StickyEntry
<1> QED
  BY <1>1, AlwaysForwarding, PTL
=============================================================================
