--------------------------- MODULE OperationsProofs ---------------------------
(***************************************************************************)
(* Theorems about Operations, for any ids, names, numbers of replicas, of  *)
(* handlers, of viewers and of requests, and any limits of Tail. The       *)
(* inductive invariant is OperationsInv.                                   *)
(***************************************************************************)
EXTENDS Operations, FiniteSetTheorems, TLAPS

-----------------------------------------------------------------------------
(* The Docker daemon. *)

\* What a step may do to the containers that were: an id that has been used is
\* not given to another container, and a container keeps its labels.
Keeps ==
  /\ born \subseteq born'
  /\ \A i \in born : Exists(i)' => Exists(i) /\ ctr'[i].slot = ctr[i].slot

\* The daemon's containers are well kept.
DockerOK ==
  /\ ctr \in [Ids -> Container \cup {NoContainer}] /\ born \subseteq Ids
  /\ BornInv

\* A container that exists has a slot, a name and a state.
LEMMA ContainerOf ==
  ASSUME DockerOK, NEW i \in Ids, Exists(i)
  PROVE  /\ ctr[i] \in Container /\ ctr[i].slot \in Slots \cup {Host}
         /\ ctr[i].name \in Names /\ ctr[i].state \in States /\ i \in born
BY DEF DockerOK, Exists, Container, BornInv

\* Whoever is found exists, and goes by the words he was found with.
LEMMA FindFinds ==
  ASSUME NEW ref
  PROVE  /\ Find(ref) \in Ids \cup {NoId}
         /\ Find(ref) # NoId =>
              /\ Find(ref) \in Ids /\ Exists(Find(ref))
              /\ ref \in {Find(ref), ctr[Find(ref)].name}
<1>1. CASE \E i \in Ids : Exists(i) /\ ref \in {i, ctr[i].name}
  <2> DEFINE Fits(i) == Exists(i) /\ ref \in {i, ctr[i].name}
  <2>1. Find(ref) = CHOOSE i \in Ids : Fits(i)
    BY <1>1 DEF Find
  <2>2. \E i \in Ids : Fits(i)
    BY <1>1
  <2> HIDE DEF Fits
  <2>3. Find(ref) \in Ids /\ Fits(Find(ref))
    BY <2>1, <2>2
  <2> QED
    BY <2>3 DEF Fits
<1>2. CASE ~\E i \in Ids : Exists(i) /\ ref \in {i, ctr[i].name}
  BY <1>2 DEF Find
<1> QED
  BY <1>1, <1>2

\* By its id a container finds itself or nobody: an id is no name.
LEMMA FindById ==
  ASSUME DockerOK, NEW i \in Ids, Find(i) # NoId
  PROVE  Find(i) = i
<1>1. Find(i) \in Ids /\ Exists(Find(i)) /\ i \in {Find(i), ctr[Find(i)].name}
  BY FindFinds
<1>2. ctr[Find(i)].name \in Names
  BY <1>1, ContainerOf
<1> QED
  BY <1>1, <1>2, DistinctAssumption

\* A container that is put where none was before, or changed in its name or its
\* state, or taken away.
LEMMA PutKeeps ==
  ASSUME DockerOK, NEW i \in Ids, NEW new \in Container \cup {NoContainer},
         ctr' = [ctr EXCEPT ![i] = new],
         born \subseteq born', born' \subseteq Ids,
         new # NoContainer => i \in born' /\ (i \in born => Exists(i) /\ new.slot = ctr[i].slot)
  PROVE  Keeps /\ DockerOK'
<1>1. ctr' \in [Ids -> Container \cup {NoContainer}]
  BY DEF DockerOK
<1>2. \A j \in Ids : ctr'[j] = IF j = i THEN new ELSE ctr[j]
  BY DEF DockerOK
<1>3. BornInv'
  BY <1>2 DEF DockerOK, BornInv, Exists
<1>4. Keeps
  BY <1>2 DEF DockerOK, Keeps, Exists
<1> QED
  BY <1>1, <1>3, <1>4 DEF DockerOK

\* Nothing done is well done.
LEMMA SameKeeps ==
  ASSUME DockerOK, UNCHANGED docker
  PROVE  Keeps /\ DockerOK'
BY DEF DockerOK, Keeps, docker, BornInv, Exists

\* What others do to containers.
LEMMA EnvironmentKeeps ==
  ASSUME DockerOK, NEW i \in Ids, Environment(i)
  PROVE  Keeps /\ DockerOK' /\ UNCHANGED <<req, stream, now, log, history>>
<1>0. UNCHANGED <<req, stream, now, log, history>>
  BY DEF Environment, Create, Turn, Remove, Rename
<1>1. ASSUME NEW slot \in Slots \cup {Host}, NEW name \in Names, Create(i, slot, name)
      PROVE  Keeps /\ DockerOK'
  <2> DEFINE new == [slot |-> slot, name |-> name, state |-> "created"]
  <2>1. new \in Container
    BY DEF Container, States
  <2>2. /\ ctr' = [ctr EXCEPT ![i] = new] /\ born' = born \cup {i} /\ i \notin born
    BY <1>1 DEF Create
  <2> HIDE DEF new
  <2>3. born' \subseteq Ids
    BY <2>2 DEF DockerOK
  <2> QED
    BY <2>1, <2>2, <2>3, PutKeeps
<1>2. ASSUME NEW state \in States, Turn(i, state)
      PROVE  Keeps /\ DockerOK'
  <2>1. Exists(i) /\ ctr' = [ctr EXCEPT ![i].state = state] /\ born' = born
    BY <1>2 DEF Turn
  <2> DEFINE new == [ctr[i] EXCEPT !.state = state]
  <2>2. new \in Container /\ new.slot = ctr[i].slot /\ i \in born
    BY <2>1, ContainerOf DEF Container
  <2>3. ctr' = [ctr EXCEPT ![i] = new]
    BY <2>1
  <2> HIDE DEF new
  <2>4. born' \subseteq Ids
    BY <2>1 DEF DockerOK
  <2> QED
    BY <2>1, <2>2, <2>3, <2>4, PutKeeps
<1>3. CASE Remove(i)
  <2>1. ctr' = [ctr EXCEPT ![i] = NoContainer] /\ born' = born /\ born' \subseteq Ids
    BY <1>3 DEF Remove, DockerOK
  <2> QED
    BY <1>0, <2>1, PutKeeps
<1>4. CASE Rename(i)
  <2>1. /\ Exists(i) /\ Managed(i) /\ born' = born
        /\ ctr' = [ctr EXCEPT ![i].name = BaseName(ctr[i].slot)]
    BY <1>4 DEF Rename
  <2>2. ctr[i] \in Container /\ i \in born /\ BaseName(ctr[i].slot) \in Names
    BY <2>1, ContainerOf DEF Managed, Names
  <2> DEFINE new == [ctr[i] EXCEPT !.name = BaseName(ctr[i].slot)]
  <2>3. new \in Container /\ new.slot = ctr[i].slot
    BY <2>2 DEF Container
  <2>4. ctr' = [ctr EXCEPT ![i] = new]
    BY <2>1
  <2> HIDE DEF new
  <2>5. born' \subseteq Ids
    BY <2>1 DEF DockerOK
  <2> QED
    BY <1>0, <2>1, <2>2, <2>3, <2>4, <2>5, PutKeeps
<1>5. HostNames \subseteq Names
  BY DEF Names
<1> QED
  BY <1>0, <1>1, <1>2, <1>3, <1>4, <1>5 DEF Environment

\* What the operator's requests do to containers.
LEMMA ResultKeeps ==
  ASSUME DockerOK, NEW i \in Ids, Exists(i), NEW op \in Ops,
         ctr' = Result(op, i), born' = born
  PROVE  Keeps /\ DockerOK'
<1>0. ctr[i] \in Container /\ i \in born /\ born' \subseteq Ids /\ ctr[i].state \in States
  BY ContainerOf DEF DockerOK
<1>1. ASSUME NEW state \in States, ctr' = [ctr EXCEPT ![i].state = state]
      PROVE  Keeps /\ DockerOK'
  <2> DEFINE new == [ctr[i] EXCEPT !.state = state]
  <2>1. new \in Container /\ new.slot = ctr[i].slot
    BY <1>0 DEF Container
  <2>2. ctr' = [ctr EXCEPT ![i] = new]
    BY <1>1
  <2> HIDE DEF new
  <2> QED
    BY <1>0, <2>1, <2>2, PutKeeps
<1>2. op \in {"start", "stop", "restart", "remove", "removeForce"}
  BY OperationsAssumption
<1>3. CASE op \in {"start", "restart"}
  BY <1>1, <1>3 DEF Result, States
<1>4. CASE op = "stop"
  <2>1. ctr' = [ctr EXCEPT ![i].state = IF ctr[i].state = "running" THEN "exited" ELSE ctr[i].state]
    BY <1>0, <1>4 DEF Result, DockerOK
  <2> QED
    BY <1>0, <1>1, <2>1 DEF States
<1>5. CASE op \in {"remove", "removeForce"}
  <2>1. ctr' = [ctr EXCEPT ![i] = NoContainer]
    BY <1>5 DEF Result
  <2> QED
    BY <1>0, <2>1, PutKeeps
<1> QED
  BY <1>2, <1>3, <1>4, <1>5

-----------------------------------------------------------------------------
(* The invariant, step by step. *)

LEMMA OperationsDocker ==
  ASSUME OperationsInv
  PROVE  DockerOK
BY DEF OperationsInv, TypeOK, DockerOK

\* The rows of the table are events.
LEMMA RowsAreEvents ==
  ASSUME TypeOK, NEW i \in DOMAIN log
  PROVE  /\ log[i] \in Event /\ log[i].ticket \in Tickets /\ log[i].ticket \in Nat
         /\ log[i].ts \in 0 .. MaxTime /\ log[i].target \in Refs
         /\ DOMAIN log = 1 .. Len(log) /\ Len(log) \in Nat
<1>1. log \in Seq(Event) /\ DOMAIN log = 1 .. Len(log) /\ Len(log) \in Nat
  BY DEF TypeOK
<1>2. log[i] \in Event
  BY <1>1
<1> QED
  BY <1>1, <1>2 DEF Event, Tickets

\* At the start there is nothing.
LEMMA InitOperations == Init => OperationsInv
<1> SUFFICES ASSUME Init PROVE OperationsInv
  OBVIOUS
<1> USE OperationsAssumption
<1>1. TypeOK
  BY DEF Init, TypeOK
<1>2. /\ \A i \in Ids : ctr[i] = NoContainer
      /\ \A h \in Handlers : req[h] = NoRequest
      /\ \A v \in Viewers : stream[v] = NoStream
      /\ \A n \in Tickets : did[n] = NoAct /\ before[n] = {}
      /\ DOMAIN log = {}
  BY DEF Init
<1>3. BornInv /\ CheckedInv /\ HandsOff
  BY <1>2 DEF BornInv, Exists, CheckedInv, HandsOff
<1>4. TicketInv
  BY <1>2 DEF TicketInv
<1>5. OrderInv
  BY <1>2 DEF OrderInv
<1>6. StreamInv /\ RightReplica
  BY <1>2 DEF StreamInv, RightReplica
<1> QED
  BY <1>1, <1>3, <1>4, <1>5, <1>6 DEF OperationsInv

\* Whatever happens to containers, a stream comes from where it came from.
LEMMA StreamsKept ==
  ASSUME OperationsInv, Keeps, stream' = stream
  PROVE  StreamInv' /\ RightReplica'
<1>1. ASSUME NEW v \in Viewers, stream[v] # NoStream, stream[v].want # Host,
             ctr'[stream[v].id] # NoContainer
      PROVE  ctr[stream[v].id] # NoContainer /\ ctr'[stream[v].id].slot = ctr[stream[v].id].slot
  BY <1>1 DEF OperationsInv, StreamInv, Keeps, Exists
<1>2. StreamInv'
  BY <1>1 DEF OperationsInv, StreamInv, Keeps, Exists, Managed
<1>3. RightReplica'
  BY <1>1 DEF OperationsInv, RightReplica, Exists
<1> QED
  BY <1>2, <1>3

\* Whatever happens to containers, what a request looked at is not Proxa's.
LEMMA CheckedKept ==
  ASSUME OperationsInv, Keeps, NEW h \in Handlers, req[h] # NoRequest
  PROVE  /\ req[h].id \in born'
         /\ ctr'[req[h].id] # NoContainer => ctr'[req[h].id].slot = Host
BY DEF OperationsInv, CheckedInv, Keeps, Exists, Managed

LEMMA EnvironmentOperations ==
  ASSUME OperationsInv, NEW i \in Ids, Environment(i)
  PROVE  OperationsInv'
<1>1. Keeps /\ DockerOK' /\ UNCHANGED <<req, stream, now, log, history>>
  BY OperationsDocker, EnvironmentKeeps
<1>2. TypeOK' /\ BornInv'
  BY <1>1 DEF OperationsInv, TypeOK, DockerOK, history
<1>3. CheckedInv'
  BY <1>1, CheckedKept DEF CheckedInv, Exists, Managed
<1>4. HandsOff' /\ TicketInv'
  BY <1>1 DEF OperationsInv, HandsOff, TicketInv, history
<1>5. OrderInv'
  BY <1>1 DEF OperationsInv, OrderInv, Newer, history
<1>6. StreamInv' /\ RightReplica'
  BY <1>1, StreamsKept
<1> QED
  BY <1>2, <1>3, <1>4, <1>5, <1>6 DEF OperationsInv

\* The clock goes forward.
LEMMA ClockOperations ==
  ASSUME OperationsInv, Clock
  PROVE  OperationsInv'
<1>1. /\ now' = now + 1 /\ now < MaxTime /\ UNCHANGED <<docker, req, stream, log, history>>
      /\ now \in 0 .. MaxTime
  BY DEF Clock, OperationsInv, TypeOK
<1>2. Keeps /\ DockerOK'
  BY <1>1, SameKeeps, OperationsDocker
<1>3. TypeOK' /\ BornInv'
  BY <1>1, <1>2, OperationsAssumption DEF OperationsInv, TypeOK, DockerOK, history
<1>4. CheckedInv'
  BY <1>1, <1>2, CheckedKept DEF CheckedInv, Exists, Managed
<1>5. HandsOff' /\ TicketInv'
  BY <1>1 DEF OperationsInv, HandsOff, TicketInv, history
<1>6. OrderInv'
  <2>1. \A i \in DOMAIN log : log[i].ts \in 0 .. MaxTime
    BY RowsAreEvents DEF OperationsInv
  <2>2. \A h \in Handlers : req[h] # NoRequest => req[h].at \in 0 .. MaxTime
    BY DEF OperationsInv, TypeOK, Request
  <2>3. \A i \in DOMAIN log : log[i].ts <= now'
    BY <1>1, <2>1, OperationsAssumption DEF OperationsInv, OrderInv
  <2>4. \A h \in Handlers : req[h] # NoRequest /\ req[h].pc = "stamped" => req[h].at <= now'
    BY <1>1, <2>2, OperationsAssumption DEF OperationsInv, OrderInv
  <2> QED
    BY <1>1, <2>3, <2>4 DEF OperationsInv, OrderInv, Newer, history
<1>7. StreamInv' /\ RightReplica'
  BY <1>1, <1>2, StreamsKept
<1> QED
  BY <1>3, <1>4, <1>5, <1>6, <1>7 DEF OperationsInv

\* A ticket is new, and whoever still waits was not answered before.
LEMMA NewTicketIsNew ==
  ASSUME OperationsInv, NewTicket
  PROVE  /\ count \in Nat /\ count' = count + 1 /\ count' \in Tickets
         /\ before' \in [Tickets -> SUBSET Tickets]
         /\ \A n \in Tickets \ {count'} : before'[n] = before[n]
         /\ before'[count'] \subseteq 1 .. count
         /\ \A h \in Handlers : req[h] # NoRequest => req[h].ticket \notin before'[count']
<1> USE OperationsAssumption
<1>1. count \in 0 .. MaxRequests /\ before \in [Tickets -> SUBSET Tickets]
  BY DEF OperationsInv, TypeOK
<1>2. count' = count + 1 /\ count' \in Tickets /\ 1 .. count \subseteq Tickets /\ count \in Nat
  BY <1>1 DEF NewTicket, Tickets
<1> DEFINE answered == (1 .. count) \ {req[h].ticket : h \in {g \in Handlers : req[g] # NoRequest}}
<1>3. before' = [before EXCEPT ![count'] = answered]
  BY DEF NewTicket
<1>4. /\ answered \subseteq 1 .. count
      /\ \A h \in Handlers : req[h] # NoRequest => req[h].ticket \notin answered
  OBVIOUS
<1> HIDE DEF answered
<1>5. answered \in SUBSET Tickets
  BY <1>2, <1>4
<1>6. before'[count'] = answered /\ \A n \in Tickets \ {count'} : before'[n] = before[n]
  BY <1>1, <1>2, <1>3
<1>7. before' \in [Tickets -> SUBSET Tickets]
  BY <1>1, <1>3, <1>5
<1> QED
  BY <1>2, <1>4, <1>6, <1>7

\* Taking a ticket, for a request or for a stream, leaves the others' in order.
LEMMA TicketTaken ==
  ASSUME OperationsInv, NewTicket, UNCHANGED <<log, did, now>>,
         \A h \in Handlers : req'[h] = req[h] \/ (req'[h].ticket = count' /\ req'[h].pc = "checked"),
         \A g, h \in Handlers : req'[g] # req[g] /\ req'[h] # req[h] => g = h
  PROVE  TicketInv' /\ OrderInv'
<1>1. /\ count \in Nat /\ count' = count + 1 /\ count' \in Tickets
      /\ \A n \in Tickets \ {count'} : before'[n] = before[n]
      /\ before'[count'] \subseteq 1 .. count
      /\ \A h \in Handlers : req[h] # NoRequest => req[h].ticket \notin before'[count']
  BY NewTicketIsNew
<1>2. \A h \in Handlers : req[h] # NoRequest =>
        req[h].ticket \in Tickets /\ req[h].ticket \in Nat /\ req[h].ticket <= count
  BY DEF OperationsInv, TypeOK, TicketInv, Request, Tickets
<1>3. \A i \in DOMAIN log :
        log[i].ticket \in Tickets /\ log[i].ticket \in Nat /\ log[i].ticket <= count
  BY RowsAreEvents DEF OperationsInv, TicketInv
<1>4. \A n \in Tickets : before'[n] \subseteq 1 .. count
  BY <1>1 DEF OperationsInv, OrderInv
<1>5. \A h \in Handlers, n \in Tickets : req[h] # NoRequest => req[h].ticket \notin before'[n]
  BY <1>1 DEF OperationsInv, OrderInv
<1>6. TicketInv'
  <2>1. ASSUME NEW h \in Handlers, req'[h] # NoRequest
        PROVE  /\ req'[h].ticket <= count'
               /\ req'[h].pc # "checked" => did'[req'[h].ticket] # NoAct
               /\ \A i \in DOMAIN log' : log'[i].ticket # req'[h].ticket
    BY <1>1, <1>2, <1>3, <2>1 DEF OperationsInv, TicketInv
  <2>2. ASSUME NEW h \in Handlers, req'[h] # NoRequest, NEW g \in Handlers \ {h},
               req'[g] # NoRequest
        PROVE  req'[g].ticket # req'[h].ticket
    <3>1. CASE req'[g] = req[g] /\ req'[h] = req[h]
      BY <2>2, <3>1 DEF OperationsInv, TicketInv
    <3>2. CASE req'[g] = req[g] /\ req'[h] # req[h]
      BY <1>1, <1>2, <2>2, <3>2
    <3>3. CASE req'[g] # req[g] /\ req'[h] = req[h]
      BY <1>1, <1>2, <2>2, <3>3
    <3> QED
      BY <2>2, <3>1, <3>2, <3>3
  <2>3. ASSUME NEW i \in DOMAIN log'
        PROVE  /\ log'[i].ticket <= count' /\ did'[log'[i].ticket] # NoAct
               /\ \A j \in DOMAIN log' : log'[i].ticket = log'[j].ticket => i = j
    BY <1>1, <1>3 DEF OperationsInv, TicketInv
  <2> QED
    BY <2>1, <2>2, <2>3 DEF TicketInv
<1>7. OrderInv'
  <2>1. \A n \in Tickets : before'[n] \subseteq 1 .. count'
    BY <1>1, <1>4
  <2>2. \A h \in Handlers, n \in Tickets : req'[h] # NoRequest => req'[h].ticket \notin before'[n]
    BY <1>1, <1>4, <1>5
  <2>3. \A i \in DOMAIN log : before'[log[i].ticket] = before[log[i].ticket]
    BY <1>1, <1>3
  <2>4. \A h \in Handlers : req'[h] # NoRequest /\ req'[h].pc = "stamped" =>
          req'[h] = req[h] /\ before'[req[h].ticket] = before[req[h].ticket]
    BY <1>1, <1>2
  <2> QED
    BY <2>1, <2>2, <2>3, <2>4 DEF OperationsInv, OrderInv, Newer
<1> QED
  BY <1>6, <1>7

\* A request is let in for a container that is not Proxa's.
LEMMA InspectOperations ==
  ASSUME OperationsInv, NEW h \in Handlers, NEW op \in Ops, NEW ref \in Refs, Inspect(h, op, ref)
  PROVE  OperationsInv'
<1> USE OperationsAssumption
<1>1. /\ req[h] = NoRequest /\ ~Refused(op, Find(ref)) /\ NewTicket
      /\ UNCHANGED <<docker, stream, now, log, did>>
  BY DEF Inspect
<1>2. Keeps /\ DockerOK' /\ ctr' = ctr /\ born' = born
  BY <1>1, SameKeeps, OperationsDocker DEF docker
<1>3. Find(ref) \in Ids /\ Exists(Find(ref)) /\ ~Managed(Find(ref)) /\ Find(ref) \in born
  BY <1>1, FindFinds, OperationsDocker, ContainerOf DEF Refused
<1> DEFINE new == [pc |-> "checked", ticket |-> count', op |-> op, ref |-> ref, id |-> Find(ref), at |-> 0]
<1>4. /\ count' \in Tickets /\ count' \in 0 .. MaxRequests
      /\ before' \in [Tickets -> SUBSET Tickets]
  BY <1>1, NewTicketIsNew DEF Tickets
<1>5. new \in Request /\ new.ticket = count' /\ new.pc = "checked" /\ new.id = Find(ref)
  BY <1>3, <1>4 DEF Request
<1>6. req' = [req EXCEPT ![h] = new]
  BY DEF Inspect
<1> HIDE DEF new
<1>7. /\ req \in [Handlers -> Request \cup {NoRequest}]
      /\ \A g \in Handlers : req'[g] = IF g = h THEN new ELSE req[g]
  BY <1>6 DEF OperationsInv, TypeOK
<1>8. TypeOK' /\ BornInv'
  BY <1>1, <1>2, <1>4, <1>5, <1>6, <1>7 DEF OperationsInv, TypeOK, DockerOK
<1>9. CheckedInv'
  <2>1. \A g \in Handlers : req[g] # NoRequest =>
          req[g].id \in born /\ (ctr[req[g].id] # NoContainer => ctr[req[g].id].slot = Host)
    BY DEF OperationsInv, CheckedInv, Exists, Managed
  <2> QED
    BY <1>2, <1>3, <1>5, <1>7, <2>1 DEF CheckedInv, Exists, Managed
<1>10. HandsOff'
  BY <1>1 DEF OperationsInv, HandsOff
<1>11. TicketInv' /\ OrderInv'
  BY <1>1, <1>5, <1>7, TicketTaken
<1>12. StreamInv' /\ RightReplica'
  BY <1>1, <1>2, StreamsKept
<1> QED
  BY <1>8, <1>9, <1>10, <1>11, <1>12 DEF OperationsInv

\* What a request does before it writes: another program counter, another time,
\* or the end.
LEMMA CallFailsOperations ==
  ASSUME OperationsInv, NEW h \in Handlers, CallFails(h)
  PROVE  OperationsInv'
<1>1. /\ req' = [req EXCEPT ![h] = NoRequest] /\ UNCHANGED <<docker, stream, now, log, history>>
      /\ req \in [Handlers -> Request \cup {NoRequest}]
  BY DEF CallFails, OperationsInv, TypeOK
<1>2. Keeps /\ DockerOK' /\ ctr' = ctr /\ born' = born
  BY <1>1, SameKeeps, OperationsDocker DEF docker
<1>3. \A g \in Handlers : req'[g] = IF g = h THEN NoRequest ELSE req[g]
  BY <1>1
<1>4. TypeOK' /\ BornInv'
  BY <1>1, <1>2 DEF OperationsInv, TypeOK, DockerOK, history
<1>5. CheckedInv'
  BY <1>2, <1>3 DEF OperationsInv, CheckedInv, Exists, Managed
<1>6. HandsOff' /\ TicketInv'
  BY <1>1, <1>3 DEF OperationsInv, HandsOff, TicketInv, history
<1>7. OrderInv'
  BY <1>1, <1>3 DEF OperationsInv, OrderInv, Newer, history
<1>8. StreamInv' /\ RightReplica'
  BY <1>1, <1>2, StreamsKept
<1> QED
  BY <1>4, <1>5, <1>6, <1>7, <1>8 DEF OperationsInv

\* The call acts on what the words mean now; that is Proxa's only if it is not
\* what was looked at.
LEMMA CallOperations ==
  ASSUME OperationsInv, NEW h \in Handlers, Call(h)
  PROVE  OperationsInv'
<1> DEFINE i == Find(req[h].ref)
           op == req[h].op
           act == [managed |-> Managed(i), swapped |-> i # req[h].id,
                   unforced |-> op = "remove" /\ ctr[i].state = "running"]
           new == [req[h] EXCEPT !.pc = "acted"]
<1>1. /\ req[h] # NoRequest /\ req[h].pc = "checked" /\ i # NoId /\ DaemonAgrees(op, i)
      /\ ctr' = Result(op, i) /\ did' = [did EXCEPT ![req[h].ticket] = act]
      /\ req' = [req EXCEPT ![h].pc = "acted"]
      /\ UNCHANGED <<born, stream, now, log, count, before>>
  BY DEF Call
<1>2. /\ req \in [Handlers -> Request \cup {NoRequest}] /\ req[h] \in Request
      /\ req[h].ticket \in Tickets /\ op \in Ops /\ req[h].id \in Ids
      /\ did \in [Tickets -> Act \cup {NoAct}]
  BY <1>1 DEF OperationsInv, TypeOK, Request
<1>3. i \in Ids /\ Exists(i)
  BY <1>1, FindFinds
<1>4. Keeps /\ DockerOK'
  BY <1>1, <1>2, <1>3, OperationsDocker, ResultKeeps
<1>5. /\ new \in Request /\ new.ticket = req[h].ticket /\ new.id = req[h].id /\ new.pc = "acted"
      /\ req' = [req EXCEPT ![h] = new]
  BY <1>1, <1>2 DEF Request
<1>6. act \in Act /\ act # NoAct
  <2>1. \A a, b, c \in BOOLEAN : [managed |-> a, swapped |-> b, unforced |-> c] \in Act
    BY DEF Act
  <2>2. /\ Managed(i) \in BOOLEAN /\ (i # req[h].id) \in BOOLEAN
        /\ (op = "remove" /\ ctr[i].state = "running") \in BOOLEAN
    BY DEF Managed
  <2>3. act \in Act
    BY <2>1, <2>2, Zenon
  <2> QED
    BY <2>3, DistinctAssumption
<1>7. (act.managed => act.swapped) /\ ~act.unforced
  <2>1. ~act.unforced
    BY <1>1 DEF DaemonAgrees
  <2>2. i = req[h].id => ~Managed(i)
    BY <1>1, <1>3 DEF OperationsInv, CheckedInv
  <2> QED
    BY <2>1, <2>2
<1> HIDE DEF i, op, act, new
<1>8. /\ \A g \in Handlers : req'[g] = IF g = h THEN new ELSE req[g]
      /\ \A n \in Tickets : did'[n] = IF n = req[h].ticket THEN act ELSE did[n]
  BY <1>1, <1>2, <1>5
<1>9. TypeOK' /\ BornInv'
  <2>1. req' \in [Handlers -> Request \cup {NoRequest}] /\ did' \in [Tickets -> Act \cup {NoAct}]
    BY <1>1, <1>2, <1>5, <1>6
  <2> QED
    BY <1>1, <1>4, <2>1 DEF OperationsInv, TypeOK, DockerOK
<1>10. CheckedInv'
  <2>1. \A g \in Handlers : req'[g] # NoRequest => req[g] # NoRequest /\ req'[g].id = req[g].id
    BY <1>1, <1>5, <1>8
  <2> QED
    BY <1>4, <2>1, CheckedKept DEF CheckedInv, Exists, Managed
<1>11. HandsOff'
  BY <1>7, <1>8 DEF OperationsInv, HandsOff
<1>12. TicketInv'
  <2>1. \A g \in Handlers : req'[g] # NoRequest =>
          /\ req[g] # NoRequest /\ req'[g].ticket = req[g].ticket /\ req[g].ticket \in Tickets
          /\ g # h => req'[g] = req[g]
    BY <1>1, <1>2, <1>5, <1>8 DEF Request
  <2>2. \A n \in Tickets : did[n] # NoAct => did'[n] # NoAct
    BY <1>6, <1>8
  <2>3. did'[req[h].ticket] # NoAct
    BY <1>2, <1>6, <1>8
  <2>4. \A k \in DOMAIN log : log[k].ticket \in Tickets
    BY RowsAreEvents DEF OperationsInv
  <2>5. \A g \in Handlers : req'[g] # NoRequest /\ req'[g].pc # "checked" => did'[req'[g].ticket] # NoAct
    BY <2>1, <2>2, <2>3 DEF OperationsInv, TicketInv
  <2>6. \A k \in DOMAIN log : did'[log[k].ticket] # NoAct
    BY <2>2, <2>4 DEF OperationsInv, TicketInv
  <2> QED
    BY <1>1, <2>1, <2>5, <2>6 DEF OperationsInv, TicketInv
<1>13. OrderInv'
  <2>1. \A g \in Handlers : req'[g] # NoRequest =>
          /\ req[g] # NoRequest /\ req'[g].ticket = req[g].ticket
          /\ req'[g].pc = "stamped" => req'[g] = req[g]
    BY <1>1, <1>5, <1>8
  <2> QED
    BY <1>1, <2>1 DEF OperationsInv, OrderInv, Newer
<1>14. StreamInv' /\ RightReplica'
  BY <1>1, <1>4, StreamsKept
<1> QED
  BY <1>9, <1>10, <1>11, <1>12, <1>13, <1>14 DEF OperationsInv

\* The time of an event is taken after every event there is.
LEMMA StampOperations ==
  ASSUME OperationsInv, NEW h \in Handlers, Stamp(h)
  PROVE  OperationsInv'
<1> DEFINE new == [req[h] EXCEPT !.pc = "stamped", !.at = now]
<1>1. /\ req[h] # NoRequest /\ req[h].pc = "acted"
      /\ req' = [req EXCEPT ![h].pc = "stamped", ![h].at = now]
      /\ UNCHANGED <<docker, stream, now, log, history>>
  BY DEF Stamp
<1>2. /\ req \in [Handlers -> Request \cup {NoRequest}] /\ req[h] \in Request
      /\ now \in 0 .. MaxTime
  BY <1>1 DEF OperationsInv, TypeOK
<1>3. /\ new \in Request /\ new.ticket = req[h].ticket /\ new.id = req[h].id
      /\ new.pc = "stamped" /\ new.at = now
  BY <1>2 DEF Request
<1>4. req' = [req EXCEPT ![h] = new]
  BY <1>1, <1>2 DEF Request
<1> HIDE DEF new
<1>5. \A g \in Handlers : req'[g] = IF g = h THEN new ELSE req[g]
  BY <1>2, <1>4
<1>6. Keeps /\ DockerOK' /\ ctr' = ctr /\ born' = born
  BY <1>1, SameKeeps, OperationsDocker DEF docker
<1>7. TypeOK' /\ BornInv'
  BY <1>1, <1>2, <1>3, <1>4, <1>6 DEF OperationsInv, TypeOK, DockerOK, history
<1>8. \A g \in Handlers : req'[g] # NoRequest =>
        /\ req[g] # NoRequest /\ req'[g].ticket = req[g].ticket /\ req'[g].id = req[g].id
        /\ req'[g].pc # "checked" <=> req[g].pc # "checked"
        /\ g # h => req'[g] = req[g]
  BY <1>1, <1>3, <1>5
<1>9. CheckedInv'
  BY <1>6, <1>8, CheckedKept DEF CheckedInv, Exists, Managed
<1>10. HandsOff' /\ TicketInv'
  <2>1. HandsOff'
    BY <1>1 DEF OperationsInv, HandsOff, history
  <2>2. did' = did /\ count' = count /\ log' = log
    BY <1>1 DEF history
  <2>3. \A g \in Handlers : req'[g] # NoRequest =>
          /\ req'[g].ticket <= count
          /\ req'[g].pc # "checked" => did[req'[g].ticket] # NoAct
          /\ \A i \in DOMAIN log : log[i].ticket # req'[g].ticket
    BY <1>8 DEF OperationsInv, TicketInv
  <2>4. \A g \in Handlers : req'[g] # NoRequest =>
          \A f \in Handlers \ {g} : req'[f] # NoRequest => req'[f].ticket # req'[g].ticket
    BY <1>8 DEF OperationsInv, TicketInv
  <2> QED
    BY <2>1, <2>2, <2>3, <2>4 DEF OperationsInv, TicketInv
<1>11. OrderInv'
  <2>1. req'[h].at = now /\ now <= now
    BY <1>2, <1>3, <1>5 DEF Request
  <2>2. count' = count /\ log' = log /\ before' = before /\ now' = now
    BY <1>1 DEF history
  <2>3. \A g \in Handlers, n \in Tickets : req'[g] # NoRequest => req'[g].ticket \notin before[n]
    BY <1>8 DEF OperationsInv, OrderInv
  <2>4. \A g \in Handlers, i \in DOMAIN log :
          req'[g] # NoRequest /\ req'[g].pc = "stamped" /\ log[i].ticket \in before[req'[g].ticket]
            => log[i].ts <= req'[g].at
    BY <1>8, <2>1 DEF OperationsInv, OrderInv
  <2>5. \A g \in Handlers : req'[g] # NoRequest /\ req'[g].pc = "stamped" => req'[g].at <= now
    BY <1>8, <2>1 DEF OperationsInv, OrderInv
  <2> QED
    BY <2>2, <2>3, <2>4, <2>5 DEF OperationsInv, OrderInv, Newer
<1>12. StreamInv' /\ RightReplica'
  BY <1>1, <1>6, StreamsKept
<1> QED
  BY <1>7, <1>9, <1>10, <1>11, <1>12 DEF OperationsInv

\* The event comes last, and no event there is belongs to its ticket or to one
\* that began after it was answered.
LEMMA InsertOperations ==
  ASSUME OperationsInv, NEW h \in Handlers, Insert(h)
  PROVE  OperationsInv'
<1> DEFINE e == [ticket |-> req[h].ticket, target |-> req[h].ref, ts |-> req[h].at]
<1>1. /\ req[h] # NoRequest /\ req[h].pc = "stamped" /\ req' = [req EXCEPT ![h] = NoRequest]
      /\ UNCHANGED <<docker, stream, now, history>> /\ (log' = Append(log, e) \/ log' = log)
  BY DEF Insert
<1>2. /\ req \in [Handlers -> Request \cup {NoRequest}] /\ req[h] \in Request
      /\ log \in Seq(Event)
  BY <1>1 DEF OperationsInv, TypeOK
<1>3. /\ e \in Event /\ e.ticket = req[h].ticket /\ e.ts = req[h].at
      /\ e.ticket \in Tickets /\ e.ts \in 0 .. MaxTime
  BY <1>2 DEF Request, Event
<1> HIDE DEF e
<1>4. \A g \in Handlers : req'[g] # NoRequest => g # h /\ req'[g] = req[g]
  BY <1>1, <1>2
<1>5. Keeps /\ DockerOK' /\ ctr' = ctr /\ born' = born
  BY <1>1, SameKeeps, OperationsDocker DEF docker
<1>6. /\ now' = now /\ stream' = stream /\ count' = count /\ did' = did /\ before' = before
  BY <1>1 DEF history
<1>7. PICK n \in Nat :
        /\ DOMAIN log' = 1 .. n /\ Len(log) \in Nat /\ DOMAIN log = 1 .. Len(log)
        /\ \A k \in DOMAIN log' :
             \/ k \in DOMAIN log /\ log'[k] = log[k]
             \/ k = Len(log) + 1 /\ log'[k] = e
  <2>1. CASE log' = log
    BY <1>2, <2>1
  <2>2. CASE log' = Append(log, e)
    BY <1>2, <1>3, <2>2
  <2> QED
    BY <1>1, <2>1, <2>2
<1>8. TypeOK' /\ BornInv'
  <2>1. log' \in Seq(Event)
    BY <1>1, <1>2, <1>3
  <2>2. req' \in [Handlers -> Request \cup {NoRequest}]
    BY <1>1, <1>2
  <2> QED
    BY <1>5, <1>6, <2>1, <2>2 DEF OperationsInv, TypeOK, DockerOK
<1>9. CheckedInv'
  BY <1>4, <1>5, CheckedKept DEF CheckedInv, Exists, Managed
<1>10. HandsOff'
  BY <1>6 DEF OperationsInv, HandsOff
<1>11. TicketInv'
  <2>1. \A g \in Handlers : req'[g] # NoRequest =>
          /\ req'[g].ticket <= count
          /\ req'[g].pc # "checked" => did[req'[g].ticket] # NoAct
          /\ \A f \in Handlers \ {g} : req'[f] # NoRequest => req'[f].ticket # req'[g].ticket
    BY <1>4 DEF OperationsInv, TicketInv
  <2>2. \A k \in DOMAIN log : log[k].ticket # e.ticket
    BY <1>1, <1>3 DEF OperationsInv, TicketInv
  <2>3. \A g \in Handlers : req'[g] # NoRequest =>
          /\ e.ticket # req'[g].ticket
          /\ \A k \in DOMAIN log : log[k].ticket # req'[g].ticket
    BY <1>1, <1>3, <1>4 DEF OperationsInv, TicketInv
  <2>4. e.ticket <= count /\ did[e.ticket] # NoAct
    BY <1>1, <1>3 DEF OperationsInv, TicketInv
  <2>5. \A k \in DOMAIN log' :
          /\ log'[k].ticket <= count /\ did[log'[k].ticket] # NoAct
          /\ \A g \in Handlers : req'[g] # NoRequest => log'[k].ticket # req'[g].ticket
    BY <1>7, <2>3, <2>4 DEF OperationsInv, TicketInv
  <2>6. \A j, k \in DOMAIN log' : log'[j].ticket = log'[k].ticket => j = k
    BY <1>7, <2>2 DEF OperationsInv, TicketInv
  <2> QED
    BY <1>6, <2>1, <2>5, <2>6 DEF TicketInv
<1>12. OrderInv'
  <2>1. \A g \in Handlers, n1 \in Tickets : req'[g] # NoRequest => req'[g].ticket \notin before[n1]
    BY <1>4 DEF OperationsInv, OrderInv
  <2>2. e.ts <= now
    BY <1>1, <1>3 DEF OperationsInv, OrderInv
  <2>3. \A k \in DOMAIN log' : log'[k].ts <= now
    BY <1>7, <2>2 DEF OperationsInv, OrderInv
  <2>4. \A n1 \in Tickets : e.ticket \notin before[n1]
    BY <1>1, <1>3 DEF OperationsInv, OrderInv
  <2>5. \A g \in Handlers : req'[g] # NoRequest => req'[g].ticket \in Tickets
    BY <1>2, <1>4 DEF Request
  <2>6. \A g \in Handlers, k \in DOMAIN log' :
          req'[g] # NoRequest /\ req'[g].pc = "stamped" /\ log'[k].ticket \in before[req'[g].ticket]
            => log'[k].ts <= req'[g].at
    BY <1>4, <1>7, <2>4, <2>5 DEF OperationsInv, OrderInv
  <2>7. \A g \in Handlers : req'[g] # NoRequest /\ req'[g].pc = "stamped" => req'[g].at <= now
    BY <1>4 DEF OperationsInv, OrderInv
  <2>8. ASSUME NEW i \in DOMAIN log', NEW j \in DOMAIN log',
               log'[i].ticket \in before[log'[j].ticket]
        PROVE  log'[j].ts > log'[i].ts \/ (log'[j].ts = log'[i].ts /\ j > i)
    <3>1. log'[j].ticket \in Tickets
      BY <1>3, <1>7, RowsAreEvents DEF OperationsInv
    <3>2. i \in DOMAIN log /\ log'[i] = log[i] /\ log[i].ts \in 0 .. MaxTime
      BY <1>7, <2>4, <2>8, <3>1, RowsAreEvents DEF OperationsInv
    <3>3. CASE j \in DOMAIN log /\ log'[j] = log[j]
      BY <2>8, <3>2, <3>3 DEF OperationsInv, OrderInv, Newer
    <3>4. CASE j = Len(log) + 1 /\ log'[j] = e
      <4>1. log[i].ts <= e.ts
        BY <1>1, <1>3, <2>8, <3>2, <3>4 DEF OperationsInv, OrderInv
      <4>2. j > i
        BY <1>7, <3>2, <3>4
      <4> QED
        BY <1>3, <3>2, <3>4, <4>1, <4>2, OperationsAssumption
    <3> QED
      BY <1>7, <3>3, <3>4
  <2>9. \A i, j \in DOMAIN log' : log'[i].ticket \in before[log'[j].ticket] => Newer(j, i)'
    BY <2>8 DEF Newer
  <2>10. \A n1 \in Tickets : before[n1] \subseteq 1 .. count
    BY DEF OperationsInv, OrderInv
  <2> QED
    BY <1>6, <2>1, <2>3, <2>6, <2>7, <2>9, <2>10 DEF OrderInv
<1>13. StreamInv' /\ RightReplica'
  BY <1>5, <1>6, StreamsKept
<1> QED
  BY <1>8, <1>9, <1>10, <1>11, <1>12, <1>13 DEF OperationsInv

-----------------------------------------------------------------------------
(* Streams. *)

LEMMA IntervalFrom0 ==
  ASSUME NEW n \in Nat
  PROVE  IsFiniteSet(0 .. n - 1) /\ Cardinality(0 .. n - 1) = n
<1>1. n - 1 \in Int /\ 0 \in Int
  OBVIOUS
<1>2. IsFiniteSet(0 .. n - 1) /\ Cardinality(0 .. n - 1) = IF 0 > n - 1 THEN 0 ELSE n - 1 - 0 + 1
  BY <1>1, FS_Interval
<1> QED
  BY <1>2

LEMMA PairOfTwo ==
  ASSUME NEW a, NEW b, a # b
  PROVE  Cardinality({a, b}) = 2
<1>1. IsFiniteSet({a}) /\ Cardinality({a}) = 1
  BY FS_Singleton
<1>2. Cardinality({a} \cup {b}) = IF b \in {a} THEN Cardinality({a}) ELSE Cardinality({a}) + 1
  BY <1>1, FS_AddElement
<1>3. {a} \cup {b} = {a, b}
  OBVIOUS
<1> QED
  BY <1>1, <1>2, <1>3

\* At index r of the sorted list: the replica is r, or one is missing before it,
\* or there are two of one.
LEMMA IndexIsReplica ==
  ASSUME DockerOK, NEW r \in Slots, NEW i \in AtIndex(r)
  PROVE  LET s == ctr[i].slot
         IN  /\ i \in Ids /\ Exists(i) /\ Managed(i) /\ s \in Slots
             /\ s > r => \E t \in 0 .. s - 1 : Held(t) = 0
             /\ s < r => \E t \in 0 .. s : Held(t) > 1
<1> USE OperationsAssumption
<1> DEFINE s == ctr[i].slot
           Before == {j \in Mine : ctr[j].slot < s}
           UpTo == {j \in Mine : ctr[j].slot <= s}
<1>1. /\ i \in Mine /\ Cardinality(Before) <= r /\ r < Cardinality(UpTo)
  BY DEF AtIndex
<1>2. \A j \in Mine : j \in Ids /\ Exists(j) /\ Managed(j) /\ ctr[j].slot \in Slots
  BY ContainerOf DEF Mine, Managed
<1>3. IsFiniteSet(Mine)
  BY DistinctAssumption, FS_Subset DEF Mine
<1>4. IsFiniteSet(Before) /\ IsFiniteSet(UpTo)
  <2>1. Before \in SUBSET Mine /\ UpTo \in SUBSET Mine
    OBVIOUS
  <2> HIDE DEF Before, UpTo
  <2> QED
    BY <1>3, <2>1, FS_Subset
<1>5. s \in Slots /\ s \in Nat /\ r \in Nat /\ s < Replicas
  BY <1>1, <1>2 DEF Slots
<1>6. \A t \in 0 .. s : t \in Slots /\ IsFiniteSet({j \in Mine : ctr[j].slot = t}) /\ Held(t) \in Nat
  <2> SUFFICES ASSUME NEW t \in 0 .. s
               PROVE  t \in Slots /\ IsFiniteSet({j \in Mine : ctr[j].slot = t}) /\ Held(t) \in Nat
    OBVIOUS
  <2>1. t \in Slots
    BY <1>5 DEF Slots
  <2> DEFINE At == {j \in Mine : ctr[j].slot = t}
  <2>2. At \in SUBSET Mine
    OBVIOUS
  <2>3. Held(t) = Cardinality(At)
    BY DEF Held
  <2> HIDE DEF At
  <2>4. IsFiniteSet(At)
    BY <1>3, <2>2, FS_Subset
  <2>5. Held(t) \in Nat
    BY <2>3, <2>4, FS_CardinalityType
  <2> QED
    BY <2>1, <2>4, <2>5 DEF At
<1>7. ASSUME s > r, \A t \in 0 .. s - 1 : Held(t) # 0
      PROVE  FALSE
  <2> DEFINE f == [j \in Before |-> ctr[j].slot]
  <2>1. f \in [Before -> 0 .. s - 1]
    BY <1>2, <1>5 DEF Slots
  <2>2. \A t \in 0 .. s - 1 : \E j \in Before : f[j] = t
    <3> SUFFICES ASSUME NEW t \in 0 .. s - 1 PROVE \E j \in Before : f[j] = t
      OBVIOUS
    <3>1. {j \in Mine : ctr[j].slot = t} # {}
      BY <1>7, FS_EmptySet DEF Held
    <3>2. PICK j \in Mine : ctr[j].slot = t
      BY <3>1
    <3>3. j \in Before
      BY <1>5, <3>2
    <3> QED
      BY <3>2, <3>3
  <2>3. f \in Surjection(Before, 0 .. s - 1)
    BY <2>1, <2>2 DEF Surjection
  <2> HIDE DEF f, Before
  <2>4. Cardinality(0 .. s - 1) <= Cardinality(Before)
    BY <1>4, <2>3, FS_Surjection
  <2>5. Cardinality(0 .. s - 1) = s
    BY <1>5, IntervalFrom0
  <2>6. Cardinality(Before) \in Nat
    BY <1>4, FS_CardinalityType
  <2> QED
    BY <1>1, <1>5, <1>7, <2>4, <2>5, <2>6
<1>8. ASSUME s < r, \A t \in 0 .. s : ~(Held(t) > 1)
      PROVE  FALSE
  <2> DEFINE f == [j \in UpTo |-> ctr[j].slot]
  <2>1. f \in [UpTo -> 0 .. s]
    BY <1>2, <1>5 DEF Slots
  <2>2. ASSUME NEW j \in UpTo, NEW k \in UpTo, f[j] = f[k]
        PROVE  j = k
    <3> SUFFICES ASSUME j # k PROVE FALSE
      OBVIOUS
    <3> DEFINE t == ctr[j].slot
               At == {l \in Mine : ctr[l].slot = t}
    <3>1. t \in 0 .. s
      BY <2>1
    <3>2. {j, k} \in SUBSET At
      BY <2>2
    <3>3. IsFiniteSet(At) /\ Held(t) = Cardinality(At) /\ Held(t) \in Nat
      BY <1>6, <3>1 DEF Held
    <3> HIDE DEF At, t
    <3>4. Cardinality({j, k}) <= Cardinality(At)
      BY <3>2, <3>3, FS_Subset
    <3>5. Cardinality({j, k}) = 2
      BY PairOfTwo
    <3> QED
      BY <1>8, <3>1, <3>3, <3>4, <3>5
  <2>3. f \in Injection(UpTo, 0 .. s)
    BY <2>1, <2>2 DEF Injection, IsInjective
  <2> HIDE DEF f, UpTo
  <2>4. Cardinality(0 .. s) = s + 1 /\ IsFiniteSet(0 .. s)
    <3>1. s + 1 \in Nat /\ (s + 1) - 1 = s
      BY <1>5
    <3>2. IsFiniteSet(0 .. (s + 1) - 1) /\ Cardinality(0 .. (s + 1) - 1) = s + 1
      BY <3>1, IntervalFrom0
    <3> QED
      BY <3>1, <3>2
  <2>5. Cardinality(UpTo) <= Cardinality(0 .. s)
    BY <2>3, <2>4, FS_Injection
  <2>6. Cardinality(UpTo) \in Nat
    BY <1>4, FS_CardinalityType
  <2> QED
    BY <1>1, <1>5, <1>8, <2>4, <2>5, <2>6
<1>9. i \in Ids /\ Exists(i) /\ Managed(i)
  BY <1>1, <1>2
<1> QED
  BY <1>5, <1>7, <1>8, <1>9

\* A step that leaves all but one stream alone, and that one from the right
\* replica, leaves the invariants of streams.
LEMMA StreamPut ==
  ASSUME OperationsInv, UNCHANGED docker, NEW v \in Viewers, NEW new \in Stream \cup {NoStream},
         stream' = [stream EXCEPT ![v] = new],
         new # NoStream /\ new.want # Host =>
           /\ new.ref = new.id /\ new.id \in born
           /\ Exists(new.id) =>
                /\ Managed(new.id)
                /\ ctr[new.id].slot > new.want => \E t \in 0 .. ctr[new.id].slot - 1 : new.held[t] = 0
                /\ ctr[new.id].slot < new.want => \E t \in 0 .. ctr[new.id].slot : new.held[t] > 1
  PROVE  stream' \in [Viewers -> Stream \cup {NoStream}] /\ StreamInv' /\ RightReplica'
<1>1. stream \in [Viewers -> Stream \cup {NoStream}] /\ ctr' = ctr /\ born' = born
  BY DEF OperationsInv, TypeOK, docker
<1>2. \A w \in Viewers : stream'[w] = IF w = v THEN new ELSE stream[w]
  BY <1>1
<1>3. StreamInv'
  BY <1>1, <1>2 DEF OperationsInv, StreamInv, Exists, Managed
<1>4. RightReplica'
  <2> SUFFICES ASSUME NEW w \in Viewers, stream'[w] # NoStream, stream'[w].want # Host,
                      ctr[stream'[w].id] # NoContainer
               PROVE  LET r == stream'[w].want
                          s == ctr[stream'[w].id].slot
                      IN  /\ s > r => \E t \in 0 .. s - 1 : stream'[w].held[t] = 0
                          /\ s < r => \E t \in 0 .. s : stream'[w].held[t] > 1
    BY <1>1 DEF RightReplica, Exists
  <2>1. CASE w = v
    BY <1>2, <2>1 DEF Exists
  <2>2. CASE w # v
    BY <1>2, <2>2 DEF OperationsInv, RightReplica, Exists
  <2> QED
    BY <2>1, <2>2
<1> QED
  BY <1>1, <1>3, <1>4

\* The other invariants, in a step of a viewer that takes a ticket.
LEMMA ViewerTicket ==
  ASSUME OperationsInv, NewTicket, UNCHANGED <<docker, req, now, log, did>>,
         stream' \in [Viewers -> Stream \cup {NoStream}], StreamInv', RightReplica'
  PROVE  OperationsInv'
<1>1. Keeps /\ DockerOK' /\ req' = req /\ now' = now /\ log' = log /\ did' = did
  BY SameKeeps, OperationsDocker DEF docker
<1>2. count' \in Tickets /\ before' \in [Tickets -> SUBSET Tickets]
  BY NewTicketIsNew
<1>3. count' \in 0 .. MaxRequests
  BY <1>2, OperationsAssumption DEF Tickets
<1>4. TypeOK' /\ BornInv'
  BY <1>1, <1>2, <1>3 DEF OperationsInv, TypeOK, DockerOK
<1>5. CheckedInv'
  BY <1>1, CheckedKept DEF CheckedInv, Exists, Managed
<1>6. HandsOff'
  BY <1>1 DEF OperationsInv, HandsOff
<1>7. TicketInv' /\ OrderInv'
  BY <1>1, TicketTaken
<1> QED
  BY <1>4, <1>5, <1>6, <1>7 DEF OperationsInv

\* And in one that takes none.
LEMMA ViewerStep ==
  ASSUME OperationsInv, UNCHANGED <<docker, req, now, log, history>>,
         stream' \in [Viewers -> Stream \cup {NoStream}], StreamInv', RightReplica'
  PROVE  OperationsInv'
<1>1. /\ Keeps /\ DockerOK' /\ req' = req /\ now' = now /\ log' = log
      /\ did' = did /\ count' = count /\ before' = before
  BY SameKeeps, OperationsDocker DEF docker, history
<1>2. TypeOK' /\ BornInv'
  BY <1>1 DEF OperationsInv, TypeOK, DockerOK
<1>3. CheckedInv'
  BY <1>1, CheckedKept DEF CheckedInv, Exists, Managed
<1>4. HandsOff' /\ TicketInv'
  BY <1>1 DEF OperationsInv, HandsOff, TicketInv
<1>5. OrderInv'
  BY <1>1 DEF OperationsInv, OrderInv, Newer
<1> QED
  BY <1>2, <1>3, <1>4, <1>5 DEF OperationsInv

LEMMA LogsOperations ==
  ASSUME OperationsInv, NEW v \in Viewers, Logs(v)
  PROVE  OperationsInv'
<1> USE OperationsAssumption
<1>0. DockerOK /\ stream \in [Viewers -> Stream \cup {NoStream}]
  BY OperationsDocker DEF OperationsInv, TypeOK
<1>1. ASSUME NEW r \in Slots, ResolveReplica(v, r)
      PROVE  OperationsInv'
  <2> DEFINE held == [s \in Slots |-> Held(s)]
  <2>1. PICK i \in AtIndex(r) :
          stream' = [stream EXCEPT ![v] = [pc |-> "resolved", want |-> r, ref |-> i, id |-> i,
                                           held |-> held]]
    BY <1>1 DEF ResolveReplica
  <2>2. NewTicket /\ UNCHANGED <<docker, req, now, log, did>>
    BY <1>1 DEF ResolveReplica
  <2>3. LET s == ctr[i].slot
        IN  /\ i \in Ids /\ Exists(i) /\ Managed(i) /\ s \in Slots
            /\ s > r => \E t \in 0 .. s - 1 : Held(t) = 0
            /\ s < r => \E t \in 0 .. s : Held(t) > 1
    BY <1>0, IndexIsReplica
  <2>4. i \in born
    BY <1>0, <2>3, ContainerOf
  <2>5. held \in [Slots -> Nat]
    <3> SUFFICES ASSUME NEW s \in Slots PROVE Held(s) \in Nat
      OBVIOUS
    <3>1. {j \in Mine : ctr[j].slot = s} \in SUBSET Ids
      BY DEF Mine
    <3>2. IsFiniteSet({j \in Mine : ctr[j].slot = s})
      BY <3>1, FS_Subset, DistinctAssumption
    <3> QED
      BY <3>2, FS_CardinalityType DEF Held
  <2>6. \A t \in 0 .. ctr[i].slot : held[t] = Held(t)
    BY <2>3 DEF Slots
  <2>7. \A t \in 0 .. ctr[i].slot - 1 : t \in 0 .. ctr[i].slot
    BY <2>3 DEF Slots
  <2> HIDE DEF held
  <2> DEFINE new == [pc |-> "resolved", want |-> r, ref |-> i, id |-> i, held |-> held]
  <2>8. new \in Stream /\ new.want = r /\ new.ref = i /\ new.id = i /\ new.held = held
    BY <2>3, <2>5 DEF Stream, Refs
  <2>9. stream' = [stream EXCEPT ![v] = new]
    BY <2>1
  <2> HIDE DEF new
  <2>10. /\ ctr[new.id].slot > new.want => \E t \in 0 .. ctr[new.id].slot - 1 : new.held[t] = 0
         /\ ctr[new.id].slot < new.want => \E t \in 0 .. ctr[new.id].slot : new.held[t] > 1
    BY <2>3, <2>6, <2>7, <2>8
  <2>11. stream' \in [Viewers -> Stream \cup {NoStream}] /\ StreamInv' /\ RightReplica'
    BY <2>2, <2>3, <2>4, <2>8, <2>9, <2>10, StreamPut
  <2> QED
    BY <2>2, <2>11, ViewerTicket
<1>2. ASSUME NEW ref \in Refs, InspectForLogs(v, ref)
      PROVE  OperationsInv'
  <2>1. /\ NewTicket /\ UNCHANGED <<docker, req, now, log, did>> /\ Find(ref) # NoId
    BY <1>2 DEF InspectForLogs
  <2> DEFINE new == [pc |-> "resolved", want |-> Host, ref |-> ref, id |-> Find(ref),
                     held |-> [s \in Slots |-> 0]]
  <2>2. Find(ref) \in Ids
    BY <2>1, FindFinds
  <2>3. new \in Stream /\ new.want = Host
    BY <2>2 DEF Stream
  <2>4. stream' = [stream EXCEPT ![v] = new]
    BY <1>2 DEF InspectForLogs
  <2> HIDE DEF new
  <2>5. stream' \in [Viewers -> Stream \cup {NoStream}] /\ StreamInv' /\ RightReplica'
    BY <2>1, <2>3, <2>4, StreamPut
  <2> QED
    BY <2>1, <2>5, ViewerTicket
<1>3. CASE StreamLogs(v)
  <2> DEFINE i == Find(stream[v].ref)
             new == IF i = NoId THEN NoStream ELSE [stream[v] EXCEPT !.pc = "open", !.id = i]
  <2>1. stream[v] # NoStream /\ UNCHANGED <<docker, req, now, log, history>>
    BY <1>3 DEF StreamLogs
  <2>2. stream' = [stream EXCEPT ![v] = new]
    BY <1>0, <1>3 DEF StreamLogs
  <2>3. i \in Ids \cup {NoId} /\ stream[v] \in Stream
    BY <1>0, <2>1, FindFinds
  <2>4. new \in Stream \cup {NoStream}
    BY <2>3 DEF Stream
  <2>5. ASSUME new # NoStream, new.want # Host
        PROVE  new = [stream[v] EXCEPT !.pc = "open"] /\ stream[v].want # Host
    <3>1. i # NoId /\ new = [stream[v] EXCEPT !.pc = "open", !.id = i]
      BY <2>5
    <3>2. stream[v].want # Host
      BY <2>3, <2>5, <3>1 DEF Stream
    <3>3. stream[v].ref = stream[v].id /\ stream[v].id \in Ids
      BY <2>1, <2>3, <3>2 DEF OperationsInv, StreamInv, Stream
    <3>4. i = stream[v].id
      BY <1>0, <3>1, <3>3, FindById
    <3> QED
      BY <2>3, <3>1, <3>2, <3>4 DEF Stream
  <2> HIDE DEF new, i
  <2>6. ASSUME new # NoStream, new.want # Host
        PROVE  /\ new.ref = stream[v].ref /\ new.id = stream[v].id /\ new.want = stream[v].want
               /\ new.held = stream[v].held /\ stream[v].want # Host
    BY <2>3, <2>5, <2>6 DEF Stream
  <2>7. ASSUME new # NoStream, new.want # Host
        PROVE  /\ new.ref = new.id /\ new.id \in born
               /\ Exists(new.id) =>
                    /\ Managed(new.id)
                    /\ ctr[new.id].slot > new.want => \E t \in 0 .. ctr[new.id].slot - 1 : new.held[t] = 0
                    /\ ctr[new.id].slot < new.want => \E t \in 0 .. ctr[new.id].slot : new.held[t] > 1
    BY <2>1, <2>6, <2>7 DEF OperationsInv, StreamInv, RightReplica
  <2>8. stream' \in [Viewers -> Stream \cup {NoStream}] /\ StreamInv' /\ RightReplica'
    BY <2>1, <2>2, <2>4, <2>7, StreamPut
  <2> QED
    BY <2>1, <2>8, ViewerStep
<1>4. CASE StreamEnds(v)
  <2>1. stream' = [stream EXCEPT ![v] = NoStream] /\ UNCHANGED <<docker, req, now, log, history>>
    BY <1>4 DEF StreamEnds
  <2>2. stream' \in [Viewers -> Stream \cup {NoStream}] /\ StreamInv' /\ RightReplica'
    BY <2>1, StreamPut
  <2> QED
    BY <2>1, <2>2, ViewerStep
<1> QED
  BY <1>1, <1>2, <1>3, <1>4 DEF Logs

\* Every step keeps the invariant.
LEMMA NextOperations == OperationsInv /\ [Next]_vars => OperationsInv'
<1> SUFFICES ASSUME OperationsInv, [Next]_vars PROVE OperationsInv'
  OBVIOUS
<1>1. CASE UNCHANGED vars
  <2>1. UNCHANGED <<docker, req, now, log, history>> /\ stream' = stream
    BY <1>1 DEF vars
  <2>2. Keeps
    BY <2>1, SameKeeps, OperationsDocker
  <2>3. StreamInv' /\ RightReplica' /\ stream' \in [Viewers -> Stream \cup {NoStream}]
    BY <2>1, <2>2, StreamsKept DEF OperationsInv, TypeOK
  <2> QED
    BY <2>1, <2>3, ViewerStep
<1>2. ASSUME NEW h \in Handlers, HostContainerAction(h)
      PROVE  OperationsInv'
  BY <1>2, InspectOperations, CallFailsOperations, CallOperations, StampOperations, InsertOperations
     DEF HostContainerAction
<1> QED
  BY <1>1, <1>2, EnvironmentOperations, LogsOperations, ClockOperations DEF Next

\* The invariant holds always.
LEMMA AlwaysOperations == Spec => []OperationsInv
BY InitOperations, NextOperations, PTL DEF Spec

-----------------------------------------------------------------------------
(* Tail. *)

\* How many of the rows are newer.
Rank(rows, i) == Cardinality({j \in rows : Newer(j, i)})

\* Rows are in one order: by time, and within a time by position.
LEMMA NewerIsTotal ==
  ASSUME TypeOK
  PROVE  \A i, j, k \in DOMAIN log :
           /\ ~Newer(i, i) /\ (i # j => Newer(i, j) \/ Newer(j, i))
           /\ Newer(i, j) /\ Newer(j, k) => Newer(i, k)
<1>1. \A i \in DOMAIN log : log[i].ts \in Int /\ i \in Int
  BY RowsAreEvents, OperationsAssumption
<1> QED
  BY <1>1 DEF Newer

\* Of the rows there are, every rank has exactly one.
LEMMA RanksAreDistinct ==
  ASSUME TypeOK, NEW rows \in SUBSET DOMAIN log
  PROVE  /\ IsFiniteSet(rows) /\ Cardinality(rows) \in Nat
         /\ \A i \in rows : Rank(rows, i) \in 0 .. Cardinality(rows) - 1
         /\ \A i, j \in rows : Newer(i, j) => Rank(rows, i) < Rank(rows, j)
         /\ \A i, j \in rows : Rank(rows, i) = Rank(rows, j) => i = j
         /\ \A n \in 0 .. Cardinality(rows) - 1 : \E i \in rows : Rank(rows, i) = n
<1> DEFINE Above(i) == {j \in rows : Newer(j, i)}
<1>1. IsFiniteSet(rows) /\ Cardinality(rows) \in Nat
  <2>1. DOMAIN log = 1 .. Len(log) /\ Len(log) \in Nat
    BY DEF TypeOK
  <2>2. IsFiniteSet(1 .. Len(log))
    BY <2>1, FS_Interval
  <2>3. IsFiniteSet(rows)
    BY <2>1, <2>2, FS_Subset
  <2> QED
    BY <2>3, FS_CardinalityType
<1>2. \A i \in rows : /\ Above(i) \in SUBSET rows /\ i \notin Above(i)
                      /\ IsFiniteSet(Above(i)) /\ Cardinality(Above(i)) \in Nat
                      /\ Rank(rows, i) = Cardinality(Above(i))
  <2> SUFFICES ASSUME NEW i \in rows
               PROVE  /\ Above(i) \in SUBSET rows /\ i \notin Above(i)
                      /\ IsFiniteSet(Above(i)) /\ Cardinality(Above(i)) \in Nat
                      /\ Rank(rows, i) = Cardinality(Above(i))
    OBVIOUS
  <2>1. Above(i) \in SUBSET rows /\ i \notin Above(i) /\ Rank(rows, i) = Cardinality(Above(i))
    BY NewerIsTotal DEF Rank
  <2> HIDE DEF Above
  <2>2. IsFiniteSet(Above(i))
    BY <1>1, <2>1, FS_Subset
  <2> QED
    BY <2>1, <2>2, FS_CardinalityType
<1>3. ASSUME NEW i \in rows, NEW j \in rows, Newer(i, j)
      PROVE  Rank(rows, i) < Rank(rows, j)
  <2>1. Above(i) \in SUBSET Above(j) /\ i \in Above(j) /\ i \notin Above(i)
    BY <1>2, <1>3, NewerIsTotal
  <2> HIDE DEF Above
  <2>2. Cardinality(Above(i)) <= Cardinality(Above(j)) /\ Cardinality(Above(i)) # Cardinality(Above(j))
    BY <1>2, <2>1, FS_Subset
  <2> QED
    BY <1>2, <2>2
<1>4. \A i, j \in rows : Rank(rows, i) = Rank(rows, j) => i = j
  <2> SUFFICES ASSUME NEW i \in rows, NEW j \in rows, Rank(rows, i) = Rank(rows, j), i # j
               PROVE  FALSE
    OBVIOUS
  <2>1. Newer(i, j) \/ Newer(j, i)
    BY NewerIsTotal
  <2>2. Rank(rows, i) \in Nat /\ Rank(rows, j) \in Nat
    BY <1>2
  <2>3. Rank(rows, i) < Rank(rows, j) \/ Rank(rows, j) < Rank(rows, i)
    BY <1>3, <2>1
  <2> QED
    BY <2>2, <2>3
<1>5. \A i \in rows : Rank(rows, i) \in 0 .. Cardinality(rows) - 1
  <2> SUFFICES ASSUME NEW i \in rows PROVE Rank(rows, i) \in 0 .. Cardinality(rows) - 1
    OBVIOUS
  <2>1. Above(i) \in SUBSET rows /\ Above(i) # rows
    BY <1>2
  <2> HIDE DEF Above
  <2>2. Cardinality(Above(i)) <= Cardinality(rows) /\ Cardinality(Above(i)) # Cardinality(rows)
    BY <1>1, <2>1, FS_Subset
  <2> QED
    BY <1>1, <1>2, <2>2
<1> HIDE DEF Above
<1>6. \A n \in 0 .. Cardinality(rows) - 1 : \E i \in rows : Rank(rows, i) = n
  <2> DEFINE size == Cardinality(rows)
             f == [i \in rows |-> Rank(rows, i)]
  <2>1. f \in Injection(rows, 0 .. size - 1)
    BY <1>4, <1>5 DEF Injection, IsInjective
  <2>2. \A i \in rows : f[i] = Rank(rows, i)
    OBVIOUS
  <2> HIDE DEF f
  <2>3. IsFiniteSet(0 .. size - 1) /\ Cardinality(0 .. size - 1) = size
    BY <1>1, IntervalFrom0
  <2>4. f \in Surjection(rows, 0 .. size - 1)
    BY <2>1, <2>3, FS_Injection
  <2> QED
    BY <2>2, <2>4 DEF Surjection
<1> QED
  BY <1>1, <1>3, <1>4, <1>5, <1>6

\* At place k of an answer stands the row that k - 1 are newer than.
LEMMA TailByRank ==
  ASSUME TypeOK, NEW target, NEW since \in Nat, NEW limit \in Nat,
         NEW k \in DOMAIN TailEvents(target, since, limit)
  PROVE  /\ k \in 1 .. Cardinality(Selected(target, since)) /\ k <= Clamp(limit)
         /\ TailEvents(target, since, limit)[k] \in Selected(target, since)
         /\ Rank(Selected(target, since), TailEvents(target, since, limit)[k]) = k - 1
         /\ \A n \in 1 .. k : n \in DOMAIN TailEvents(target, since, limit)
<1> USE OperationsAssumption
<1> DEFINE rows == Selected(target, since)
           Places == {n \in 1 .. Clamp(limit) : n <= Cardinality(rows)}
           Fits(i) == Rank(rows, i) = k - 1
<1>1. rows \in SUBSET DOMAIN log
  BY DEF Selected
<1>2. TailEvents(target, since, limit) =
        [n \in Places |-> CHOOSE i \in rows : Rank(rows, i) = n - 1]
  BY DEF TailEvents, Rank
<1>3. Clamp(limit) \in Nat
  BY DEF Clamp
<1>4. k \in Places /\ Cardinality(rows) \in Nat
  BY <1>1, <1>2, RanksAreDistinct
<1>5. TailEvents(target, since, limit)[k] = CHOOSE i \in rows : Fits(i)
  BY <1>2, <1>4
<1>6. k - 1 \in 0 .. Cardinality(rows) - 1
  BY <1>3, <1>4
<1>7. \E i \in rows : Fits(i)
  BY <1>1, <1>6, RanksAreDistinct
<1>8. \A n \in 1 .. k : n \in Places
  BY <1>3, <1>4
<1>9. \A n \in 1 .. k : n \in DOMAIN TailEvents(target, since, limit)
  BY <1>2, <1>8
<1>10. k \in 1 .. Cardinality(rows) /\ k <= Clamp(limit)
  BY <1>3, <1>4
<1> HIDE DEF Fits, rows
<1>11. TailEvents(target, since, limit)[k] \in rows /\ Fits(TailEvents(target, since, limit)[k])
  BY <1>5, <1>7
<1> QED
  BY <1>9, <1>10, <1>11 DEF Fits, rows

-----------------------------------------------------------------------------
(* Theorems. *)

\* Every variable holds a value of its kind; in particular no stream and no
\* request names a container that never was.
THEOREM TypeCorrect == Spec => []TypeOK
<1>1. OperationsInv => TypeOK
  BY DEF OperationsInv
<1> QED
  BY <1>1, AlwaysOperations, PTL

\* handleHostContainerAction and handleHostContainerRemove act on a container of
\* Proxa's only if its name passed to it after the inspection, and take no
\* running container away without force.
THEOREM ActionsKeepHandsOff == Spec => []HandsOff
<1>1. OperationsInv => HandsOff
  BY DEF OperationsInv
<1> QED
  BY <1>1, AlwaysOperations, PTL

\* resolveReplicaContainer: a stream comes from another replica than was asked
\* for only if one was missing before it or had two containers.
THEOREM StreamsComeFromTheRightReplica == Spec => []RightReplica
<1>1. OperationsInv => RightReplica
  BY DEF OperationsInv
<1> QED
  BY <1>1, AlwaysOperations, PTL

\* Append and Tail: an event stands for an action that took place, is written
\* once, and whatever Tail is asked for it gives the newest first: who began
\* when another had been answered is given before it.
THEOREM AuditTrailIsInOrder == Spec => []AuditTrail
<1>1. OperationsInv => AuditTrail
  <2> SUFFICES ASSUME OperationsInv PROVE AuditTrail
    OBVIOUS
  <2>0. TypeOK
    BY DEF OperationsInv
  <2>1. \A i, j \in DOMAIN log :
          did[log[i].ticket] # NoAct /\ (log[i].ticket = log[j].ticket => i = j)
    BY DEF OperationsInv, TicketInv
  <2>2. ASSUME NEW target, NEW since \in 0 .. MaxTime, NEW limit \in 0 .. MaxLimit,
               NEW k \in DOMAIN TailEvents(target, since, limit), NEW i \in Selected(target, since),
               log[TailEvents(target, since, limit)[k]].ticket \in before[log[i].ticket]
        PROVE  \E j \in 1 .. k - 1 : TailEvents(target, since, limit)[j] = i
    <3> DEFINE rows == Selected(target, since)
               tail == TailEvents(target, since, limit)
               j == Rank(rows, i) + 1
    <3>1. rows \in SUBSET DOMAIN log
      BY DEF Selected
    <3>2. since \in Nat /\ limit \in Nat
      BY OperationsAssumption
    <3>3. /\ k \in 1 .. Cardinality(rows) /\ tail[k] \in rows /\ Rank(rows, tail[k]) = k - 1
          /\ \A n \in 1 .. k : n \in DOMAIN tail
      BY <2>0, <3>2, TailByRank
    <3>4. Newer(i, tail[k])
      BY <2>2, <3>1, <3>3 DEF OperationsInv, OrderInv
    <3>5. /\ Rank(rows, i) < Rank(rows, tail[k])
          /\ Cardinality(rows) \in Nat /\ Rank(rows, i) \in 0 .. Cardinality(rows) - 1
      BY <2>0, <3>1, <3>3, <3>4, RanksAreDistinct
    <3>6. j \in 1 .. k - 1 /\ j \in 1 .. k /\ j - 1 = Rank(rows, i)
      BY <3>3, <3>5
    <3> HIDE DEF j
    <3>7. tail[j] \in rows /\ Rank(rows, tail[j]) = j - 1
      BY <2>0, <3>2, <3>3, <3>6, TailByRank
    <3>8. tail[j] = i
      <4>1. \A a, b \in rows : Rank(rows, a) = Rank(rows, b) => a = b
        BY <2>0, <3>1, RanksAreDistinct
      <4>2. Rank(rows, tail[j]) = Rank(rows, i) /\ i \in rows
        BY <3>6, <3>7
      <4> HIDE DEF rows, tail
      <4> QED
        BY <3>7, <4>1, <4>2
    <3> QED
      BY <3>6, <3>8
  <2> QED
    BY <2>1, <2>2 DEF AuditTrail
<1> QED
  BY <1>1, AlwaysOperations, PTL
=============================================================================
