------------------------------- MODULE Events -------------------------------
(***************************************************************************)
(* In-process event delivery: the bus (events/bus.go), whose subscribers   *)
(* come and go with a context, and the hook registry (plugin/hook.go),     *)
(* whose hooks each have a worker and which is closed once. Both publish   *)
(* the same way: copy the receivers under the read lock, then send to each *)
(* without the lock and without waiting. Closing a channel therefore races *)
(* with the sends, and a send on a closed channel panics. Both are the     *)
(* extension point for hooks to come: the server constructs neither yet.   *)
(***************************************************************************)
EXTENDS Naturals, Sequences

CONSTANTS
  Subscribers, \* channels that Bus.Subscribe may return
  Hooks,       \* names of hooks
  Publishers,  \* goroutines that publish
  MaxEvents,   \* how many events a run publishes
  Cap          \* buffer of a channel (64 in the code)

ASSUME EventsAssumption ==
  MaxEvents \in Nat /\ Cap \in Nat \ {0} /\ Subscribers \cap Hooks = {}

VARIABLES
  chan,    \* the channel of each receiver
  listed,  \* the receivers in Bus.subscribers and registry.hooks
  pub,     \* each publisher: its event and the receivers still to be sent to
  worker,  \* deliver, one goroutine for each hook
  closer,  \* registry.Close
  next,    \* the number of the next event
  down,    \* a panic ended the process
  got,     \* history: what each receiver has taken out of its channel
  after,   \* history: the events whose Publish had returned when this one began
  raced    \* history: a channel was closed with a send to it still to come

registry == <<worker, closer>>
history == <<got, after, raced>>
vars == <<chan, listed, pub, registry, next, down, history>>

Receivers == Subscribers \cup Hooks
Event == 1 .. MaxEvents

Channel == [state: {"unmade", "open", "closed"}, queue: Seq(Event)]
Publisher == [event: 0 .. MaxEvents, todo: SUBSET Receivers]
Closer == [pc: {"open", "next", "wait", "closed"}, todo: SUBSET Hooks]
Worker == {"unborn", "waiting", "calling", "ended"}

Append1(r, e) == [chan EXCEPT ![r].queue = Append(@, e)]

\* Wrong form of IsFull: one more fits.
IsFullLate(r) == Len(chan[r].queue) > Cap

IsFull(r) == Len(chan[r].queue) >= Cap

\* Channel r is closed; a publisher that copied it has not sent yet.
Close(r) ==
  /\ chan' = [chan EXCEPT ![r].state = "closed"]
  /\ raced' = (raced \/ \E p \in Publishers : r \in pub[p].todo)

-----------------------------------------------------------------------------
(* Receivers come and go. *)

Subscribe(s) ==
  /\ ~down /\ chan[s].state = "unmade"
  /\ chan' = [chan EXCEPT ![s].state = "open"]
  /\ listed' = listed \cup {s}
  /\ UNCHANGED <<pub, registry, next, down, history>>

\* The context of a subscription is done: one critical section takes the
\* channel out of the map and closes it.
Unsubscribe(s) ==
  /\ ~down /\ s \in listed
  /\ listed' = listed \ {s} /\ Close(s)
  /\ UNCHANGED <<pub, registry, next, down, got, after>>

\* Register refuses a second hook of the name and, once closed, every hook.
Register(h) ==
  /\ ~down /\ closer.pc = "open" /\ h \notin listed
  /\ chan' = [chan EXCEPT ![h].state = "open"]
  /\ listed' = listed \cup {h}
  /\ worker' = [worker EXCEPT ![h] = "waiting"]
  /\ UNCHANGED <<pub, closer, next, down, history>>

-----------------------------------------------------------------------------
(* Bus.Publish and registry.Publish. *)

\* The copy of the receivers, taken under the read lock.
PublishBegin(p, whom) ==
  /\ ~down /\ pub[p].todo = {} /\ next <= MaxEvents
  /\ pub' = [pub EXCEPT ![p] = [event |-> next, todo |-> listed \cap whom]]
  /\ next' = next + 1
  /\ after' = [after EXCEPT ![next] =
       {e \in Event : e < next /\ \A q \in Publishers : pub[q].event = e => pub[q].todo = {}}]
  /\ UNCHANGED <<chan, listed, registry, down, got, raced>>

\* Wrong form of Send: a full queue makes the publisher start over.
SendOver(p, r) ==
  /\ ~down /\ r \in pub[p].todo
  /\ down' = (chan[r].state = "closed")
  /\ chan' = IF IsFull(r) \/ down' THEN chan ELSE Append1(r, pub[p].event)
  /\ pub' = [pub EXCEPT ![p].todo = IF IsFull(r) THEN listed ELSE @ \ {r}]
  /\ UNCHANGED <<listed, registry, next, history>>

\* Wrong form of Send: the publisher waits for room in a full queue.
SendWaits(p, r) ==
  /\ ~down /\ r \in pub[p].todo /\ ~IsFull(r)
  /\ down' = (chan[r].state = "closed")
  /\ chan' = IF down' THEN chan ELSE Append1(r, pub[p].event)
  /\ pub' = [pub EXCEPT ![p].todo = @ \ {r}]
  /\ UNCHANGED <<listed, registry, next, history>>

\* One send, in the order of a Go map: none. A full queue drops the event for
\* this receiver only.
Send(p, r) ==
  /\ ~down /\ r \in pub[p].todo
  /\ down' = (chan[r].state = "closed")
  /\ chan' = IF IsFull(r) \/ down' THEN chan ELSE Append1(r, pub[p].event)
  /\ pub' = [pub EXCEPT ![p].todo = @ \ {r}]
  /\ UNCHANGED <<listed, registry, next, history>>

-----------------------------------------------------------------------------
(* Consumers. *)

\* The head of the queue of r is taken out.
TakeFrom(r) ==
  /\ ~down /\ chan[r].queue # <<>>
  /\ chan' = [chan EXCEPT ![r].queue = Tail(@)]
  /\ got' = [got EXCEPT ![r] = Append(@, Head(chan[r].queue))]
  /\ UNCHANGED <<listed, pub, closer, next, down, after, raced>>

Receive(s) == TakeFrom(s) /\ UNCHANGED worker

\* deliver hands the next event to the hook.
Deliver(h) ==
  /\ worker[h] = "waiting" /\ TakeFrom(h)
  /\ worker' = [worker EXCEPT ![h] = "calling"]

\* OnEvent returns, with or without an error, or panics and is recovered.
CallHookReturns(h) ==
  /\ ~down /\ worker[h] = "calling"
  /\ worker' = [worker EXCEPT ![h] = "waiting"]
  /\ UNCHANGED <<chan, listed, pub, closer, next, down, history>>

\* The range over a closed channel ends when it is empty; done is closed.
DeliverEnds(h) ==
  /\ ~down /\ worker[h] = "waiting" /\ chan[h] = [state |-> "closed", queue |-> <<>>]
  /\ worker' = [worker EXCEPT ![h] = "ended"]
  /\ UNCHANGED <<chan, listed, pub, closer, next, down, history>>

-----------------------------------------------------------------------------
(* registry.Close. *)

\* Wrong form of CloseBegin: the hooks stay in the map.
CloseBeginListed ==
  /\ ~down /\ closer.pc = "open"
  /\ closer' = [pc |-> "next", todo |-> listed \cap Hooks]
  /\ UNCHANGED <<chan, listed, pub, worker, next, down, history>>

\* Under the lock: no more hooks, and none in the map.
CloseBegin ==
  /\ ~down /\ closer.pc = "open"
  /\ closer' = [pc |-> "next", todo |-> listed \cap Hooks]
  /\ listed' = listed \ Hooks
  /\ UNCHANGED <<chan, pub, worker, next, down, history>>

\* Close one channel, in any order, and wait for its worker; a Close without
\* hooks returns at once.
CloseNext ==
  /\ ~down /\ closer.pc = "next"
  /\ \/ \E h \in closer.todo :
          closer' = [closer EXCEPT !.pc = "wait", !.todo = @ \ {h}] /\ Close(h)
     \/ closer.todo = {} /\ closer' = [closer EXCEPT !.pc = "closed"] /\ UNCHANGED <<chan, raced>>
  /\ UNCHANGED <<listed, pub, worker, next, down, got, after>>

\* Wrong form of CloseWaited: another worker's end will do.
CloseWaitedAny ==
  /\ ~down /\ closer.pc = "wait" /\ \E h \in Hooks : worker[h] \in {"ended", "waiting"}
  /\ closer' = [closer EXCEPT !.pc = "next"]
  /\ UNCHANGED <<chan, listed, pub, worker, next, down, history>>

\* The worker of the channel just closed has closed done.
CloseWaited ==
  /\ ~down /\ closer.pc = "wait"
  /\ \A h \in Hooks : chan[h].state = "closed" => worker[h] = "ended"
  /\ closer' = [closer EXCEPT !.pc = "next"]
  /\ UNCHANGED <<chan, listed, pub, worker, next, down, history>>

-----------------------------------------------------------------------------
Init ==
  /\ chan = [r \in Receivers |-> [state |-> "unmade", queue |-> <<>>]]
  /\ listed = {} /\ next = 1 /\ down = FALSE /\ raced = FALSE
  /\ pub = [p \in Publishers |-> [event |-> 0, todo |-> {}]]
  /\ worker = [h \in Hooks |-> "unborn"]
  /\ closer = [pc |-> "open", todo |-> {}]
  /\ got = [r \in Receivers |-> <<>>]
  /\ after = [e \in Event |-> {}]

Work(h) == Deliver(h) \/ CallHookReturns(h) \/ DeliverEnds(h)

CloseStep == CloseNext \/ CloseWaited

Next ==
  \/ \E s \in Subscribers : Subscribe(s) \/ Unsubscribe(s) \/ Receive(s)
  \/ \E p \in Publishers :
       \/ \E whom \in {Subscribers, Hooks} : PublishBegin(p, whom)
       \/ \E r \in Receivers : Send(p, r)
  \/ \E h \in Hooks : Register(h) \/ Work(h)
  \/ CloseBegin \/ CloseStep

Spec == Init /\ [][Next]_vars

\* Goroutines that can run do run. OnEvent is the hook's own code and may block
\* for ever: CallHookReturns is not fair.
FairSpec ==
  /\ Spec /\ WF_vars(CloseStep)
  /\ \A h \in Hooks : WF_vars(Deliver(h) \/ DeliverEnds(h))
  /\ \A p \in Publishers : WF_vars(\E r \in Receivers : Send(p, r))

-----------------------------------------------------------------------------
(* Properties. *)

\* Every variable holds a value of its kind, and no queue outgrows its buffer.
TypeOK ==
  /\ chan \in [Receivers -> Channel] /\ \A r \in Receivers : Len(chan[r].queue) <= Cap
  /\ listed \subseteq Receivers /\ next \in 1 .. MaxEvents + 1
  /\ pub \in [Publishers -> Publisher]
  /\ worker \in [Hooks -> Worker] /\ closer \in Closer
  /\ down \in BOOLEAN /\ raced \in BOOLEAN
  /\ got \in [Receivers -> Seq(Event)] /\ after \in [Event -> SUBSET Event]

\* What has been sent to r, in order.
SentTo(r) == got[r] \o chan[r].queue

\* hook.go: "OnEvent is invoked once per published event". Whatever is dropped,
\* no receiver sees an event twice, or one after another whose Publish began
\* only when its own had returned.
InOrder ==
  \A r \in Receivers : \A i, j \in DOMAIN SentTo(r) :
    i < j => /\ SentTo(r)[i] # SentTo(r)[j]
             /\ SentTo(r)[j] \notin after[SentTo(r)[i]]

\* A publisher panics only if a channel is closed between its copy of the
\* receivers and its sends: no copy ever finds a closed channel.
PanicsOnlyInRace == down => raced

\* hook.go: "Close stops all delivery goroutines and waits for in-flight Hooks
\* to finish (best-effort, bounded)". When it has returned no event is queued or
\* being handled. The wait itself has no bound: with an OnEvent that blocks for
\* ever Close never returns.
CloseDrains ==
  closer.pc = "closed" /\ ~down =>
    \A h \in Hooks : worker[h] \in {"unborn", "ended"} /\ chan[h].queue = <<>>

\* hook.go: "Blocking inside OnEvent is allowed but blocks ONLY this Hook's
\* delivery queue, not the publisher or other Hooks". Whatever other hooks do,
\* for ever included, every Publish returns, and the queue of a hook that keeps
\* returning is emptied, during Close as well.
BlocksOnlyItself ==
  /\ \A p \in Publishers : pub[p].todo # {} ~> (pub[p].todo = {} \/ down)
  /\ \A h \in Hooks : []<>(worker[h] # "calling") =>
       (chan[h].queue # <<>> ~> (chan[h].queue = <<>> \/ down))

-----------------------------------------------------------------------------
(* What the proofs carry along. *)

\* A publisher with sends to come has an event.
PubInv == \A p \in Publishers : pub[p].todo # {} => pub[p].event # 0

\* Channels in the maps are open, and a closed one in a copy means there was a
\* race.
CopyInv ==
  /\ \A r \in listed : chan[r].state = "open"
  /\ \A h \in Hooks : closer.pc = "open" /\ h \notin listed => chan[h].state = "unmade"
  /\ closer.pc # "open" => listed \cap Hooks = {}
  /\ \A p \in Publishers : \A r \in pub[p].todo : chan[r].state = "closed" => raced
  /\ \A h \in closer.todo : chan[h].state = "open"
  /\ PanicsOnlyInRace

\* Close has not closed yet what it has still to do, has waited for what it
\* closed, and no closed channel is filled again.
DrainInv ==
  /\ \A h \in Hooks :
       /\ worker[h] = "unborn" <=> chan[h].state = "unmade"
       /\ worker[h] = "unborn" => chan[h].queue = <<>>
       /\ worker[h] = "ended" => chan[h].state = "closed" /\ chan[h].queue = <<>>
       /\ closer.pc # "open" /\ chan[h].state = "open" => h \in closer.todo
       /\ closer.pc \in {"next", "closed"} /\ chan[h].state = "closed" => worker[h] = "ended"
  /\ \A p \in Publishers : \A r \in pub[p].todo : chan[r].state # "unmade"
  /\ closer.pc = "closed" => closer.todo = {}

\* An event is sent by one publisher, once to each receiver, and while it is
\* being sent no other begins after it.
OrderInv ==
  /\ \A p \in Publishers : pub[p].event < next
  /\ \A p, q \in Publishers : p # q /\ pub[p].event = pub[q].event => pub[p].event = 0
  /\ \A p \in Publishers : pub[p].todo # {} => \A e \in Event : pub[p].event \notin after[e]
  /\ \A e \in Event : \A d \in after[e] : d < next
  /\ \A r \in Receivers : \A i \in DOMAIN SentTo(r) : SentTo(r)[i] < next
  /\ \A p \in Publishers : \A r \in pub[p].todo :
       \A i \in DOMAIN SentTo(r) : SentTo(r)[i] # pub[p].event
  /\ InOrder
=============================================================================
