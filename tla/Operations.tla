----------------------------- MODULE Operations -----------------------------
(***************************************************************************)
(* The operator's side of the HTTP API: actions on host containers, which  *)
(* must leave Proxa's own containers alone, the audit log they write, and  *)
(* the log streams of services and containers. Every handler makes several *)
(* calls of the Docker daemon, and containers come, go and change names    *)
(* between them. Here the reconciler is part of the environment: module    *)
(* Reconciler has it in detail. One service has all managed containers.    *)
(***************************************************************************)
EXTENDS Integers, Sequences, FiniteSets

CONSTANTS
  Ids,        \* Docker's ids, each used once
  Replicas,   \* how many replicas the service has at most
  HostNames,  \* names the operator gives to containers of his own
  Ops,        \* what the handlers may be asked to do
  Handlers,   \* requests that act on a container at one time
  Viewers,    \* requests that stream logs
  MaxRequests, MaxTime, \* requests and ticks of the clock in a run
  DefaultLimit, MaxLimit, \* of Tail: 50 and 1000 in the code
  Host, NoContainer, NoId, NoRequest, NoStream, NoAct, AnyTarget

VARIABLES
  ctr,     \* Docker's containers
  born,    \* the ids that have been used
  req,     \* requests that act on a container
  stream,  \* requests that stream logs
  now,     \* the wall clock, in milliseconds; it is not set back
  log,     \* the table events; an event's id is its position
  count,   \* history: requests so far
  did,     \* history: what each request did
  before   \* history: the requests answered before each request began

docker == <<ctr, born>>
history == <<count, did, before>>
vars == <<docker, req, stream, now, log, history>>

ASSUME OperationsAssumption ==
  /\ Replicas \in Nat /\ MaxRequests \in Nat /\ MaxTime \in Nat
  /\ DefaultLimit \in Nat \ {0} /\ MaxLimit \in Nat /\ DefaultLimit <= MaxLimit
  /\ Ops \subseteq {"start", "stop", "restart", "remove", "removeForce"}
  /\ Host \notin Nat /\ NoId \notin Ids

Slots == 0 .. Replicas - 1
BaseName(s) == <<s, "">>
NextName(s) == <<s, "next">>
Names == HostNames \cup {BaseName(s) : s \in Slots} \cup {NextName(s) : s \in Slots}
Refs == Ids \cup Names
States == {"created", "running", "exited"}
Tickets == 1 .. MaxRequests

Container == [slot: Slots \cup {Host}, name: Names, state: States]
Request == [pc: {"checked", "acted", "stamped"}, ticket: Tickets, op: Ops, ref: Refs,
            id: Ids, at: 0 .. MaxTime]
Stream == [pc: {"resolved", "open"}, want: Slots \cup {Host}, ref: Refs, id: Ids,
           held: [Slots -> Nat]]
Event == [ticket: Tickets, target: Refs, ts: 0 .. MaxTime]
\* An action that took place: on a container of Proxa's, on another one than was
\* inspected, the removal of a running one without force.
Act == [managed: BOOLEAN, swapped: BOOLEAN, unforced: BOOLEAN]

\* An id is not a name, and what stands for nothing is not something.
ASSUME DistinctAssumption ==
  /\ IsFiniteSet(Ids) /\ Ids \cap Names = {}
  /\ NoContainer \notin Container /\ NoRequest \notin Request
  /\ NoStream \notin Stream /\ NoAct \notin Act

-----------------------------------------------------------------------------
(* The Docker daemon. *)

Exists(i) == ctr[i] # NoContainer

\* managedFromLabels.
Managed(i) == ctr[i].slot # Host

\* Inspect and every other call take an id or a name.
Find(ref) ==
  IF \E i \in Ids : Exists(i) /\ ref \in {i, ctr[i].name}
  THEN CHOOSE i \in Ids : Exists(i) /\ ref \in {i, ctr[i].name} ELSE NoId

Taken(name) == \E i \in Ids : Exists(i) /\ ctr[i].name = name

\* A container appears under a name that is free.
Create(i, slot, name) ==
  /\ i \notin born /\ ~Taken(name)
  /\ born' = born \cup {i}
  /\ ctr' = [ctr EXCEPT ![i] = [slot |-> slot, name |-> name, state |-> "created"]]
  /\ UNCHANGED <<req, stream, now, log, history>>

\* A container starts, by someone else's hand, or exits by itself.
Turn(i, state) ==
  /\ Exists(i) /\ state \in {"running", "exited"} \ {ctr[i].state}
  /\ (state = "exited" => ctr[i].state = "running")
  /\ ctr' = [ctr EXCEPT ![i].state = state]
  /\ UNCHANGED <<born, req, stream, now, log, history>>

Remove(i) ==
  /\ Exists(i) /\ ctr' = [ctr EXCEPT ![i] = NoContainer]
  /\ UNCHANGED <<born, req, stream, now, log, history>>

\* The end of a rollout: the new container takes the name of its slot.
Rename(i) ==
  /\ Exists(i) /\ Managed(i) /\ ctr[i].name = NextName(ctr[i].slot)
  /\ ~Taken(BaseName(ctr[i].slot))
  /\ ctr' = [ctr EXCEPT ![i].name = BaseName(ctr[i].slot)]
  /\ UNCHANGED <<born, req, stream, now, log, history>>

-----------------------------------------------------------------------------
(* handleHostContainerAction and handleHostContainerRemove. *)

\* The number of a request that is let in.
NewTicket ==
  /\ count < MaxRequests /\ count' = count + 1
  /\ before' = [before EXCEPT ![count'] =
       (1 .. count) \ {req[h].ticket : h \in {g \in Handlers : req[g] # NoRequest}}]

\* Wrong form of Refused: labels are not looked at.
RefusedRunning(op, i) ==
  i = NoId \/ (op = "remove" /\ ctr[i].state = "running")

\* 404, 409 for a managed container, 409 for a running one without force.
Refused(op, i) ==
  i = NoId \/ Managed(i) \/ (op = "remove" /\ ctr[i].state = "running")

\* The container is inspected, and a request that is refused changes nothing.
\* What follows uses the caller's words again.
Inspect(h, op, ref) ==
  /\ req[h] = NoRequest /\ ~Refused(op, Find(ref)) /\ NewTicket
  /\ req' = [req EXCEPT ![h] = [pc |-> "checked", ticket |-> count', op |-> op, ref |-> ref,
                                id |-> Find(ref), at |-> 0]]
  /\ UNCHANGED <<docker, stream, now, log, did>>

\* What the daemon makes of the call. Starting what runs, and stopping what
\* does not, succeed and change nothing.
Result(op, i) ==
  CASE op \in {"start", "restart"} -> [ctr EXCEPT ![i].state = "running"]
    [] op = "stop" -> [ctr EXCEPT ![i].state = IF @ = "running" THEN "exited" ELSE @]
    [] op \in {"remove", "removeForce"} -> [ctr EXCEPT ![i] = NoContainer]

\* RemoveContainer passes force on, and the daemon refuses without it.
DaemonAgrees(op, i) == op = "remove" => ctr[i].state # "running"

\* The call fails if the container is gone, or if the daemon refuses.
CallFails(h) ==
  /\ req[h] # NoRequest /\ req[h].pc = "checked"
  /\ req' = [req EXCEPT ![h] = NoRequest]
  /\ UNCHANGED <<docker, stream, now, log, history>>

Call(h) ==
  /\ req[h] # NoRequest /\ req[h].pc = "checked"
  /\ LET i == Find(req[h].ref)
         op == req[h].op
     IN  /\ i # NoId /\ DaemonAgrees(op, i)
         /\ ctr' = Result(op, i)
         /\ did' = [did EXCEPT ![req[h].ticket] =
              [managed |-> Managed(i), swapped |-> i # req[h].id,
               unforced |-> op = "remove" /\ ctr[i].state = "running"]]
         /\ req' = [req EXCEPT ![h].pc = "acted"]
  /\ UNCHANGED <<born, stream, now, log, count, before>>

-----------------------------------------------------------------------------
(* The audit log: emitHostContainerEvent, Append and Tail. *)

\* Append takes the time before it takes a position in the table.
Stamp(h) ==
  /\ req[h] # NoRequest /\ req[h].pc = "acted"
  /\ req' = [req EXCEPT ![h].pc = "stamped", ![h].at = now]
  /\ UNCHANGED <<docker, stream, now, log, history>>

\* The row is inserted, for what the caller named; or, the client gone or the
\* database busy, it is not, and the answer is the same.
Insert(h) ==
  /\ req[h] # NoRequest /\ req[h].pc = "stamped"
  /\ \/ log' = Append(log, [ticket |-> req[h].ticket, target |-> req[h].ref, ts |-> req[h].at])
     \/ UNCHANGED log
  /\ req' = [req EXCEPT ![h] = NoRequest]
  /\ UNCHANGED <<docker, stream, now, history>>

Clock ==
  /\ now < MaxTime /\ now' = now + 1
  /\ UNCHANGED <<docker, req, stream, log, history>>

\* A limit out of range is the default.
Clamp(limit) == IF limit \in 1 .. MaxLimit THEN limit ELSE DefaultLimit

\* Wrong form of Newer: the time alone.
NewerByTime(i, j) == log[i].ts > log[j].ts \/ (log[i].ts = log[j].ts /\ i < j)

\* ORDER BY ts DESC, id DESC.
Newer(i, j) == log[i].ts > log[j].ts \/ (log[i].ts = log[j].ts /\ i > j)

\* WHERE target = ? AND ts >= ?
Selected(target, since) ==
  {i \in DOMAIN log : target \in {AnyTarget, log[i].target} /\ log[i].ts >= since}

\* Positions in the log, the newest first.
TailEvents(target, since, limit) ==
  LET rows == Selected(target, since)
      rank(i) == Cardinality({j \in rows : Newer(j, i)})
  IN  [k \in {n \in 1 .. Clamp(limit) : n <= Cardinality(rows)} |->
         CHOOSE i \in rows : rank(i) = k - 1]

-----------------------------------------------------------------------------
(* Log streams. *)

Mine == {i \in Ids : Exists(i) /\ Managed(i)}
Held(s) == Cardinality({i \in Mine : ctr[i].slot = s})

\* Wrong form of AtIndex: the order of the daemon's list.
AtIndexUnsorted(r) == IF r < Cardinality(Mine) THEN Mine ELSE {}

\* resolveReplicaContainer: the containers that may come at index r when the
\* list is sorted by replica; the sort decides nothing between equals.
AtIndex(r) ==
  {i \in Mine : /\ Cardinality({j \in Mine : ctr[j].slot < ctr[i].slot}) <= r
                /\ r < Cardinality({j \in Mine : ctr[j].slot <= ctr[i].slot})}

\* handleStreamServiceLogs up to the headers, which name the replica asked for;
\* a container that is neither running nor created is a 503.
ResolveReplica(v, r) ==
  /\ stream[v] = NoStream
  /\ \E i \in AtIndex(r) :
       /\ ctr[i].state \in {"running", "created"}
       /\ stream' = [stream EXCEPT ![v] = [pc |-> "resolved", want |-> r, ref |-> i, id |-> i,
                                           held |-> [s \in Slots |-> Held(s)]]]
  /\ NewTicket /\ UNCHANGED <<docker, req, now, log, did>>

\* Wrong form of InspectForLogs: no 404.
InspectForLogsUnchecked(v, ref) ==
  /\ stream[v] = NoStream
  /\ stream' = [stream EXCEPT ![v] = [pc |-> "resolved", want |-> Host, ref |-> ref, id |-> Find(ref),
                                      held |-> [s \in Slots |-> 0]]]
  /\ NewTicket /\ UNCHANGED <<docker, req, now, log, did>>

\* handleHostContainerLogs up to the headers: the container, managed or not, is
\* inspected; the stream is opened with the caller's words.
InspectForLogs(v, ref) ==
  /\ stream[v] = NoStream /\ Find(ref) # NoId
  /\ stream' = [stream EXCEPT ![v] = [pc |-> "resolved", want |-> Host, ref |-> ref, id |-> Find(ref),
                                      held |-> [s \in Slots |-> 0]]]
  /\ NewTicket /\ UNCHANGED <<docker, req, now, log, did>>

\* StreamLogs opens the daemon's stream; for a container that is gone the error
\* goes into the body.
StreamLogs(v) ==
  /\ stream[v] # NoStream /\ stream[v].pc = "resolved"
  /\ LET i == Find(stream[v].ref)
     IN  stream' = [stream EXCEPT ![v] = IF i = NoId THEN NoStream
                                         ELSE [@ EXCEPT !.pc = "open", !.id = i]]
  /\ UNCHANGED <<docker, req, now, log, history>>

\* The end of the log, or the client has left.
StreamEnds(v) ==
  /\ stream[v] # NoStream /\ stream[v].pc = "open"
  /\ stream' = [stream EXCEPT ![v] = NoStream]
  /\ UNCHANGED <<docker, req, now, log, history>>

-----------------------------------------------------------------------------
Init ==
  /\ ctr = [i \in Ids |-> NoContainer] /\ born = {}
  /\ req = [h \in Handlers |-> NoRequest] /\ stream = [v \in Viewers |-> NoStream]
  /\ now = 0 /\ log = <<>> /\ count = 0
  /\ did = [n \in Tickets |-> NoAct] /\ before = [n \in Tickets |-> {}]

Environment(i) ==
  \/ \E name \in HostNames : Create(i, Host, name)
  \/ \E s \in Slots, name \in Names : name \in {BaseName(s), NextName(s)} /\ Create(i, s, name)
  \/ \E state \in States : Turn(i, state)
  \/ Remove(i) \/ Rename(i)

HostContainerAction(h) ==
  \/ \E op \in Ops, ref \in Refs : Inspect(h, op, ref)
  \/ CallFails(h) \/ Call(h) \/ Stamp(h) \/ Insert(h)

Logs(v) ==
  \/ \E r \in Slots : ResolveReplica(v, r)
  \/ \E ref \in Refs : InspectForLogs(v, ref)
  \/ StreamLogs(v) \/ StreamEnds(v)

Next ==
  \/ \E i \in Ids : Environment(i)
  \/ \E h \in Handlers : HostContainerAction(h)
  \/ \E v \in Viewers : Logs(v)
  \/ Clock

Spec == Init /\ [][Next]_vars

-----------------------------------------------------------------------------
(* Properties. *)

\* Every variable holds a value of its kind.
TypeOK ==
  /\ ctr \in [Ids -> Container \cup {NoContainer}] /\ born \subseteq Ids
  /\ req \in [Handlers -> Request \cup {NoRequest}]
  /\ stream \in [Viewers -> Stream \cup {NoStream}]
  /\ now \in 0 .. MaxTime /\ log \in Seq(Event) /\ count \in 0 .. MaxRequests
  /\ did \in [Tickets -> Act \cup {NoAct}] /\ before \in [Tickets -> SUBSET Tickets]

\* host_containers_api.go: "Refuses (409) on managed containers". The operator's
\* requests start, stop or remove no container of Proxa's, and take no running
\* container away without force, whatever happens after the inspection - with
\* one exception: a container named by its name that has since become another's.
HandsOff ==
  \A n \in Tickets : did[n] # NoAct =>
    (did[n].managed => did[n].swapped) /\ ~did[n].unforced

\* The audit log is a record of what was done: an event for an action that took
\* place, one at most, and, by every filter, the newest first: an action asked
\* for when another had been answered comes before it, and is not left out in
\* favour of it.
AuditTrail ==
  /\ \A i, j \in DOMAIN log :
       did[log[i].ticket] # NoAct /\ (log[i].ticket = log[j].ticket => i = j)
  /\ \A target \in {log[i].target : i \in DOMAIN log} \cup {AnyTarget}, since \in 0 .. MaxTime,
        limit \in 0 .. MaxLimit :
       LET rows == TailEvents(target, since, limit)
       IN  \A k \in DOMAIN rows, i \in Selected(target, since) :
             log[rows[k]].ticket \in before[log[i].ticket] => \E j \in 1 .. k - 1 : rows[j] = i

\* A stream asked for replica r comes from another replica only if, when it was
\* resolved, an earlier replica had no container, or one had two.
RightReplica ==
  \A v \in Viewers : stream[v] # NoStream /\ stream[v].want # Host /\ Exists(stream[v].id) =>
    LET r == stream[v].want
        s == ctr[stream[v].id].slot
    IN  /\ s > r => \E t \in 0 .. s - 1 : stream[v].held[t] = 0
        /\ s < r => \E t \in 0 .. s : stream[v].held[t] > 1

-----------------------------------------------------------------------------
(* What the proofs carry along. *)

\* An id that is in use has been used, so that it is not given away again.
BornInv == \A i \in Ids : Exists(i) => i \in born

\* The container a request looked at is not Proxa's, now or later.
CheckedInv ==
  \A h \in Handlers : req[h] # NoRequest =>
    req[h].id \in born /\ (Exists(req[h].id) => ~Managed(req[h].id))

\* A ticket belongs to one request, and after it to one event.
TicketInv ==
  /\ \A h \in Handlers : req[h] # NoRequest =>
       /\ req[h].ticket <= count
       /\ req[h].pc # "checked" => did[req[h].ticket] # NoAct
       /\ \A g \in Handlers \ {h} : req[g] # NoRequest => req[g].ticket # req[h].ticket
       /\ \A i \in DOMAIN log : log[i].ticket # req[h].ticket
  /\ \A i \in DOMAIN log :
       /\ log[i].ticket <= count /\ did[log[i].ticket] # NoAct
       /\ \A j \in DOMAIN log : log[i].ticket = log[j].ticket => i = j

\* Who was answered before another began has been given an earlier time and an
\* earlier position.
OrderInv ==
  /\ \A n \in Tickets : before[n] \subseteq 1 .. count
  /\ \A h \in Handlers, n \in Tickets : req[h] # NoRequest => req[h].ticket \notin before[n]
  /\ \A i \in DOMAIN log : log[i].ts <= now
  /\ \A h \in Handlers, i \in DOMAIN log :
       req[h] # NoRequest /\ req[h].pc = "stamped" /\ log[i].ticket \in before[req[h].ticket]
         => log[i].ts <= req[h].at
  /\ \A h \in Handlers : req[h] # NoRequest /\ req[h].pc = "stamped" => req[h].at <= now
  /\ \A i, j \in DOMAIN log : log[i].ticket \in before[log[j].ticket] => Newer(j, i)

\* A replica's stream is opened by id.
StreamInv ==
  \A v \in Viewers : stream[v] # NoStream /\ stream[v].want # Host =>
    /\ stream[v].ref = stream[v].id /\ stream[v].id \in born
    /\ Exists(stream[v].id) => Managed(stream[v].id)

OperationsInv ==
  TypeOK /\ BornInv /\ CheckedInv /\ HandsOff /\ TicketInv /\ OrderInv /\ StreamInv /\ RightReplica
=============================================================================
