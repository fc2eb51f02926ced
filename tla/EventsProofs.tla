---------------------------- MODULE EventsProofs ----------------------------
(***************************************************************************)
(* Theorems about Events, for any number of subscribers, hooks, publishers *)
(* and events and any buffer.                                              *)
(***************************************************************************)
EXTENDS Events, SequenceTheorems, TLAPS

-----------------------------------------------------------------------------
(* Types. *)

\* The variables have their types at the start.
LEMMA InitTypes == Init => TypeOK /\ PubInv
<1> SUFFICES ASSUME Init PROVE TypeOK /\ PubInv
  OBVIOUS
<1> USE EventsAssumption
<1>1. chan \in [Receivers -> Channel] /\ \A r \in Receivers : Len(chan[r].queue) <= Cap
  BY DEF Init, Channel
<1>2. got \in [Receivers -> Seq(Event)] /\ after \in [Event -> SUBSET Event]
  BY DEF Init
<1>3. pub \in [Publishers -> Publisher] /\ PubInv
  BY DEF Init, Publisher, PubInv
<1>4. worker \in [Hooks -> Worker] /\ closer \in Closer
  BY DEF Init, Worker, Closer
<1>5. next \in 1 .. MaxEvents + 1
  BY DEF Init
<1>6. listed \subseteq Receivers /\ down \in BOOLEAN /\ raced \in BOOLEAN
  BY Zenon DEF Init
<1> QED
  BY <1>1, <1>2, <1>3, <1>4, <1>5, <1>6, Zenon DEF TypeOK

\* One send: an event is added to a queue that has room, or nothing.
LEMMA SendTypes ==
  ASSUME TypeOK, PubInv, NEW p \in Publishers, NEW r \in Receivers, Send(p, r)
  PROVE  TypeOK' /\ PubInv'
<1> USE EventsAssumption
<1>1. pub[p] \in Publisher /\ pub[p].event \in Event
  BY DEF TypeOK, PubInv, Send, Publisher, Event
<1>2. chan' \in [Receivers -> Channel] /\ \A s \in Receivers : Len(chan'[s].queue) <= Cap
  <2>1. CASE chan' = chan
    BY <2>1 DEF TypeOK
  <2>2. CASE ~IsFull(r) /\ chan' = Append1(r, pub[p].event)
    <3>1. chan[r] \in Channel /\ Len(chan[r].queue) < Cap
      BY <2>2 DEF TypeOK, IsFull, Channel
    <3>2. Append(chan[r].queue, pub[p].event) \in Seq(Event)
          /\ Len(Append(chan[r].queue, pub[p].event)) <= Cap
      BY <1>1, <3>1 DEF Channel
    <3> QED
      BY <2>2, <3>1, <3>2 DEF TypeOK, Append1, Channel
  <2> QED
    BY <2>1, <2>2 DEF Send
<1>3. pub' \in [Publishers -> Publisher] /\ PubInv'
  BY <1>1 DEF TypeOK, PubInv, Send, Publisher
<1>4. down' \in BOOLEAN
  BY DEF Send
<1> QED
  BY <1>2, <1>3, <1>4 DEF TypeOK, Send, registry, history

\* Taking the head of a queue.
LEMMA TakeTypes ==
  ASSUME TypeOK, NEW r \in Receivers, TakeFrom(r)
  PROVE  /\ chan' \in [Receivers -> Channel] /\ \A s \in Receivers : Len(chan'[s].queue) <= Cap
         /\ got' \in [Receivers -> Seq(Event)]
<1> USE EventsAssumption
<1>1. chan[r] \in Channel /\ chan[r].queue \in Seq(Event) /\ chan[r].queue # <<>> /\ Len(chan[r].queue) <= Cap
  BY DEF TypeOK, TakeFrom, Channel
<1>2. Tail(chan[r].queue) \in Seq(Event) /\ Len(Tail(chan[r].queue)) <= Cap /\ Head(chan[r].queue) \in Event
  BY <1>1
<1>3. chan' = [chan EXCEPT ![r] = [chan[r] EXCEPT !.queue = Tail(chan[r].queue)]]
  BY DEF TakeFrom
<1>4. [chan[r] EXCEPT !.queue = Tail(chan[r].queue)] \in Channel
  BY <1>1, <1>2 DEF Channel
<1>5. chan' \in [Receivers -> Channel] /\ \A s \in Receivers : Len(chan'[s].queue) <= Cap
  BY <1>1, <1>2, <1>3, <1>4 DEF TypeOK, Channel
<1>6. got' \in [Receivers -> Seq(Event)]
  BY <1>2 DEF TypeOK, TakeFrom
<1> QED
  BY <1>5, <1>6

\* Every step keeps the types.
LEMMA NextTypes ==
  ASSUME TypeOK, PubInv, [Next]_vars
  PROVE  TypeOK' /\ PubInv'
<1> USE EventsAssumption DEF TypeOK, PubInv, registry, history
<1>1. ASSUME NEW s \in Subscribers, Subscribe(s) PROVE TypeOK' /\ PubInv'
  BY <1>1 DEF Subscribe, Receivers, Channel
<1>2. ASSUME NEW s \in Subscribers, Unsubscribe(s) PROVE TypeOK' /\ PubInv'
  BY <1>2 DEF Unsubscribe, Close, Receivers, Channel
<1>3. ASSUME NEW s \in Subscribers, Receive(s) PROVE TypeOK' /\ PubInv'
  BY <1>3, TakeTypes DEF Receive, TakeFrom, Receivers
<1>4. ASSUME NEW p \in Publishers, NEW whom \in {Subscribers, Hooks}, PublishBegin(p, whom) PROVE TypeOK' /\ PubInv'
  <2>1. next \in Event /\ next' \in 1 .. MaxEvents + 1
    BY <1>4 DEF PublishBegin, Event
  <2>2. pub' \in [Publishers -> Publisher] /\ PubInv'
    BY <1>4, <2>1 DEF PublishBegin, Publisher, Event
  <2>3. after' \in [Event -> SUBSET Event]
    BY <1>4, <2>1 DEF PublishBegin
  <2> QED
    BY <1>4, <2>1, <2>2, <2>3 DEF PublishBegin
<1>5. ASSUME NEW p \in Publishers, NEW r \in Receivers, Send(p, r) PROVE TypeOK' /\ PubInv'
  BY <1>5, SendTypes
<1>6. ASSUME NEW h \in Hooks, Register(h) PROVE TypeOK' /\ PubInv'
  BY <1>6 DEF Register, Receivers, Channel, Worker
<1>7. ASSUME NEW h \in Hooks, Deliver(h) PROVE TypeOK' /\ PubInv'
  BY <1>7, TakeTypes DEF Deliver, TakeFrom, Receivers, Worker
<1>8. ASSUME NEW h \in Hooks, CallHookReturns(h) \/ DeliverEnds(h) PROVE TypeOK' /\ PubInv'
  BY <1>8 DEF CallHookReturns, DeliverEnds, Worker
<1>9. CASE CloseBegin
  BY <1>9 DEF CloseBegin, Closer
<1>10. CASE CloseNext
  <2>1. ASSUME NEW h \in closer.todo, closer' = [closer EXCEPT !.pc = "wait", !.todo = @ \ {h}], Close(h)
        PROVE  TypeOK' /\ PubInv'
    <3>1. closer' \in Closer /\ h \in Receivers
      BY <2>1 DEF Closer, Receivers
    <3>2. chan' \in [Receivers -> Channel] /\ \A r \in Receivers : Len(chan'[r].queue) <= Cap
      BY <2>1, <3>1 DEF Close, Channel
    <3> QED
      BY <1>10, <2>1, <3>1, <3>2 DEF CloseNext, Close
  <2>2. ASSUME closer' = [closer EXCEPT !.pc = "closed"], UNCHANGED <<chan, raced>>
        PROVE  TypeOK' /\ PubInv'
    BY <1>10, <2>2 DEF CloseNext, Closer
  <2> QED
    BY <1>10, <2>1, <2>2 DEF CloseNext
<1>11. CASE CloseWaited
  BY <1>11 DEF CloseWaited, Closer
<1>12. CASE UNCHANGED vars
  BY <1>12 DEF vars
<1> QED
  BY <1>1, <1>2, <1>3, <1>4, <1>5, <1>6, <1>7, <1>8, <1>9, <1>10, <1>11, <1>12
  DEF Next, Work, CloseStep

\* Every variable keeps its type, and no queue outgrows its buffer.
THEOREM TypeCorrect == Spec => []TypeOK
<1>1. Init => TypeOK /\ PubInv
  BY InitTypes
<1>2. TypeOK /\ PubInv /\ [Next]_vars => TypeOK' /\ PubInv'
  BY NextTypes
<1> QED
  BY <1>1, <1>2, PTL DEF Spec

-----------------------------------------------------------------------------
(* Closed channels. *)

\* After a close the copies that hold a closed channel are known to race.
LEMMA CloseRaces ==
  ASSUME TypeOK, CopyInv, NEW c \in Receivers, Close(c)
  PROVE  /\ \A t \in Receivers : chan'[t].state = IF t = c THEN "closed" ELSE chan[t].state
         /\ \A t \in Receivers : chan'[t].queue = chan[t].queue
         /\ raced => raced'
         /\ \A p \in Publishers : \A t \in pub[p].todo : chan'[t].state = "closed" => raced'
<1>1. \A t \in Receivers : /\ chan'[t].state = IF t = c THEN "closed" ELSE chan[t].state
                           /\ chan'[t].queue = chan[t].queue
  BY DEF TypeOK, Close, Channel
<1>2. raced' <=> (raced \/ \E p \in Publishers : c \in pub[p].todo)
  BY Zenon DEF Close
<1>3. \A p \in Publishers : pub[p].todo \subseteq Receivers
  BY DEF TypeOK, Publisher
<1>4. ASSUME NEW p \in Publishers, NEW t \in pub[p].todo, chan'[t].state = "closed" PROVE raced'
  <2>1. CASE t = c
    BY <1>2, <2>1, Zenon
  <2>2. CASE t # c
    <3>1. t \in Receivers /\ chan[t].state = "closed"
      BY <1>1, <1>3, <1>4, <2>2
    <3>2. raced
      BY <3>1, Zenon DEF CopyInv
    <3> QED
      BY <1>2, <3>2, Zenon
  <2> QED
    BY <2>1, <2>2
<1>5. raced => raced'
  BY <1>2, Zenon
<1> QED
  BY <1>1, <1>4, <1>5, Zenon

\* Copies and maps stay apart from closed channels, step by step.
LEMMA NextCopies ==
  ASSUME TypeOK, CopyInv, [Next]_vars
  PROVE  CopyInv'
<1> USE EventsAssumption DEF TypeOK, CopyInv, PanicsOnlyInRace, registry, history
<1>1. ASSUME NEW s \in Subscribers, Subscribe(s) PROVE CopyInv'
  BY <1>1 DEF Subscribe, Receivers, Channel, Publisher, Closer
<1>2. ASSUME NEW s \in Subscribers, Unsubscribe(s) PROVE CopyInv'
  <2>1. s \in Receivers /\ s \notin Hooks /\ s \in listed /\ Close(s)
    BY <1>2 DEF Unsubscribe, Receivers
  <2>2. /\ \A t \in Receivers : chan'[t].state = IF t = s THEN "closed" ELSE chan[t].state
        /\ raced => raced'
        /\ \A p \in Publishers : \A t \in pub[p].todo : chan'[t].state = "closed" => raced'
    BY <2>1, CloseRaces, Zenon
  <2>3. closer' = closer /\ pub' = pub /\ down' = down /\ listed' = listed \ {s}
    BY <1>2 DEF Unsubscribe
  <2>4. PanicsOnlyInRace'
    BY <2>2, <2>3, Zenon
  <2>5. \A p \in Publishers : \A r \in pub'[p].todo : chan'[r].state = "closed" => raced'
    BY <2>2, <2>3, Zenon
  <2>6. /\ \A r \in listed' : chan'[r].state = "open"
        /\ \A h \in Hooks : closer'.pc = "open" /\ h \notin listed' => chan'[h].state = "unmade"
        /\ closer'.pc # "open" => listed' \cap Hooks = {}
        /\ \A h \in closer'.todo : chan'[h].state = "open"
    BY <2>1, <2>2, <2>3 DEF Receivers, Closer
  <2> QED
    BY <2>4, <2>5, <2>6, Zenon
<1>3. ASSUME NEW r \in Receivers, TakeFrom(r) PROVE CopyInv'
  BY <1>3 DEF TakeFrom, Receivers, Channel, Publisher, Closer
<1>4. ASSUME NEW p \in Publishers, NEW whom \in {Subscribers, Hooks}, PublishBegin(p, whom) PROVE CopyInv'
  BY <1>4 DEF PublishBegin, Publisher
<1>5. ASSUME NEW p \in Publishers, NEW r \in Receivers, Send(p, r) PROVE CopyInv'
  <2>1. \A t \in Receivers : chan'[t].state = chan[t].state
    BY <1>5 DEF Send, Append1, Channel
  <2>2. \A q \in Publishers : pub'[q].todo \subseteq pub[q].todo
    BY <1>5 DEF Send, Publisher
  <2>3. down' => raced
    BY <1>5 DEF Send
  <2> QED
    BY <1>5, <2>1, <2>2, <2>3 DEF Send, Publisher, Closer, Receivers
<1>6. ASSUME NEW h \in Hooks, Register(h) PROVE CopyInv'
  BY <1>6 DEF Register, Receivers, Channel, Publisher, Closer
<1>7. ASSUME NEW h \in Hooks, CallHookReturns(h) \/ DeliverEnds(h) PROVE CopyInv'
  BY <1>7 DEF CallHookReturns, DeliverEnds
<1>8. CASE CloseBegin
  BY <1>8 DEF CloseBegin, Closer
<1>9. CASE CloseNext
  <2>1. ASSUME NEW h \in closer.todo, closer' = [closer EXCEPT !.pc = "wait", !.todo = @ \ {h}], Close(h)
        PROVE  CopyInv'
    <3>1. h \in Hooks /\ h \notin listed
      BY <1>9, <2>1 DEF CloseNext, Closer
    <3>2. /\ \A t \in Receivers : chan'[t].state = IF t = h THEN "closed" ELSE chan[t].state
          /\ raced => raced'
          /\ \A p \in Publishers : \A t \in pub[p].todo : chan'[t].state = "closed" => raced'
      <4>1. h \in Receivers
        BY <3>1 DEF Receivers
      <4> QED
        BY <2>1, <4>1, CloseRaces, Zenon
    <3>3. closer'.pc = "wait" /\ closer'.todo = closer.todo \ {h} /\ closer.todo \subseteq Hooks
      BY <2>1 DEF Closer
    <3>4. pub' = pub /\ down' = down /\ listed' = listed /\ closer.pc = "next"
      BY <1>9 DEF CloseNext
    <3>5. PanicsOnlyInRace'
      BY <3>2, <3>4, Zenon
    <3>6. \A p \in Publishers : \A r \in pub'[p].todo : chan'[r].state = "closed" => raced'
      BY <3>2, <3>4, Zenon
    <3>7. /\ \A r \in listed' : chan'[r].state = "open"
          /\ \A t \in closer'.todo : chan'[t].state = "open"
          /\ closer'.pc # "open" /\ listed' \cap Hooks = {}
      BY <3>1, <3>2, <3>3, <3>4 DEF Receivers
    <3> QED
      BY <3>5, <3>6, <3>7, Zenon
  <2>2. ASSUME closer.todo = {}, closer' = [closer EXCEPT !.pc = "closed"], UNCHANGED <<chan, raced>>
        PROVE  CopyInv'
    BY <1>9, <2>2 DEF CloseNext, Closer
  <2> QED
    BY <1>9, <2>1, <2>2 DEF CloseNext
<1>10. CASE CloseWaited
  BY <1>10 DEF CloseWaited, Closer
<1>11. CASE UNCHANGED vars
  BY <1>11 DEF vars
<1> QED
  BY <1>1, <1>2, <1>3, <1>4, <1>5, <1>6, <1>7, <1>8, <1>9, <1>10, <1>11
  DEF Next, Work, CloseStep, Receive, Deliver, Receivers

\* At the start nothing is copied or closed.
LEMMA InitCopies == Init => CopyInv /\ DrainInv
BY DEF Init, CopyInv, PanicsOnlyInRace, DrainInv, Receivers

\* A publisher panics only in the race between its copy and a close.
THEOREM NoStrayPanic == Spec => []PanicsOnlyInRace
<1>1. Init => TypeOK /\ PubInv /\ CopyInv
  BY InitTypes, InitCopies
<1>2. TypeOK /\ PubInv /\ CopyInv /\ [Next]_vars => TypeOK' /\ PubInv' /\ CopyInv'
  BY NextTypes, NextCopies
<1>3. CopyInv => PanicsOnlyInRace
  BY DEF CopyInv
<1> QED
  BY <1>1, <1>2, <1>3, PTL DEF Spec

-----------------------------------------------------------------------------
(* registry.Close. *)

\* Close works through the hooks, step by step.
LEMMA NextDrains ==
  ASSUME TypeOK, CopyInv, DrainInv, [Next]_vars
  PROVE  DrainInv'
<1> USE EventsAssumption DEF TypeOK, CopyInv, DrainInv, registry, history
<1>1. ASSUME NEW s \in Subscribers, Subscribe(s) PROVE DrainInv'
  BY <1>1 DEF Subscribe, Receivers, Channel, Publisher
<1>2. ASSUME NEW s \in Subscribers, Unsubscribe(s) PROVE DrainInv'
  BY <1>2 DEF Unsubscribe, Close, Receivers, Channel, Publisher
<1>3. ASSUME NEW s \in Subscribers, Receive(s) PROVE DrainInv'
  BY <1>3 DEF Receive, TakeFrom, Receivers, Channel, Publisher
<1>4. ASSUME NEW p \in Publishers, NEW whom \in {Subscribers, Hooks}, PublishBegin(p, whom) PROVE DrainInv'
  BY <1>4 DEF PublishBegin, Publisher
<1>5. ASSUME NEW p \in Publishers, NEW r \in Receivers, Send(p, r) PROVE DrainInv'
  <2>1. \A t \in Receivers : chan'[t].state = chan[t].state
    BY <1>5 DEF Send, Append1, Channel
  <2>2. \A q \in Publishers : pub'[q].todo \subseteq pub[q].todo
    BY <1>5 DEF Send, Publisher
  <2>3. \A t \in Receivers : t # r \/ chan[t].state # "open" => chan'[t] = chan[t]
    <3>1. chan[r].state # "unmade"
      BY <1>5 DEF Send
    <3> QED
      BY <1>5, <3>1 DEF Send, Append1, Channel
  <2>4. Hooks \subseteq Receivers /\ worker' = worker /\ closer' = closer
    BY <1>5 DEF Send, Receivers
  <2> QED
    BY <2>1, <2>2, <2>3, <2>4 DEF Publisher, Channel
<1>6. ASSUME NEW h \in Hooks, Register(h) PROVE DrainInv'
  BY <1>6 DEF Register, Receivers, Channel, Publisher
<1>7. ASSUME NEW h \in Hooks, Deliver(h) PROVE DrainInv'
  BY <1>7 DEF Deliver, TakeFrom, Receivers, Channel, Publisher
<1>8. ASSUME NEW h \in Hooks, CallHookReturns(h) \/ DeliverEnds(h) PROVE DrainInv'
  BY <1>8 DEF CallHookReturns, DeliverEnds, Receivers, Channel
<1>9. CASE CloseBegin
  BY <1>9 DEF CloseBegin, Closer, Receivers, Channel
<1>10. CASE CloseNext
  <2>1. ASSUME NEW h \in closer.todo, closer' = [closer EXCEPT !.pc = "wait", !.todo = @ \ {h}], Close(h)
        PROVE  DrainInv'
    <3>1. h \in Hooks /\ h \in Receivers
      BY DEF Closer, Receivers
    <3>2. /\ \A t \in Receivers : chan'[t].state = IF t = h THEN "closed" ELSE chan[t].state
          /\ \A t \in Receivers : chan'[t].queue = chan[t].queue
      BY <2>1, <3>1, CloseRaces
    <3>3. closer'.pc = "wait" /\ closer'.todo = closer.todo \ {h}
      BY <2>1 DEF Closer
    <3>4. pub' = pub /\ worker' = worker /\ closer.pc = "next"
      BY <1>10 DEF CloseNext
    <3>5. chan[h].state = "open" /\ worker[h] \notin {"unborn", "ended"}
      BY <3>1
    <3>6. ASSUME NEW g \in Hooks
          PROVE  /\ worker'[g] = "unborn" <=> chan'[g].state = "unmade"
                 /\ worker'[g] = "unborn" => chan'[g].queue = <<>>
                 /\ worker'[g] = "ended" => chan'[g].state = "closed" /\ chan'[g].queue = <<>>
                 /\ chan'[g].state = "open" => g \in closer'.todo
      <4>1. g \in Receivers
        BY DEF Receivers
      <4>2. CASE g = h
        BY <3>1, <3>2, <3>3, <3>4, <3>5, <4>2
      <4>3. CASE g # h
        BY <3>2, <3>3, <3>4, <4>1, <4>3
      <4> QED
        BY <4>2, <4>3
    <3>7. \A p \in Publishers : \A r \in pub'[p].todo : chan'[r].state # "unmade"
      <4>1. \A p \in Publishers : pub[p].todo \subseteq Receivers
        BY DEF Publisher
      <4> QED
        BY <3>2, <3>4, <4>1
    <3> QED
      BY <3>3, <3>6, <3>7
  <2>2. ASSUME closer.todo = {}, closer' = [closer EXCEPT !.pc = "closed"], UNCHANGED <<chan, raced>>
        PROVE  DrainInv'
    BY <1>10, <2>2 DEF CloseNext, Closer
  <2> QED
    BY <1>10, <2>1, <2>2 DEF CloseNext
<1>11. CASE CloseWaited
  BY <1>11 DEF CloseWaited, Closer
<1>12. CASE UNCHANGED vars
  BY <1>12 DEF vars
<1> QED
  BY <1>1, <1>2, <1>3, <1>4, <1>5, <1>6, <1>7, <1>8, <1>9, <1>10, <1>11, <1>12
  DEF Next, Work, CloseStep

\* When Close has returned, no event is queued for a hook or being handled.
THEOREM ClosedIsDrained == Spec => []CloseDrains
<1>1. Init => TypeOK /\ PubInv /\ CopyInv /\ DrainInv
  BY InitTypes, InitCopies
<1>2. TypeOK /\ PubInv /\ CopyInv /\ DrainInv /\ [Next]_vars
      => TypeOK' /\ PubInv' /\ CopyInv' /\ DrainInv'
  BY NextTypes, NextCopies, NextDrains
<1>3. TypeOK /\ DrainInv => CloseDrains
  BY DEF TypeOK, DrainInv, CloseDrains, Channel, Receivers
<1> QED
  BY <1>1, <1>2, <1>3, PTL DEF Spec

-----------------------------------------------------------------------------
(* The order of events. *)

\* Moving the head of a queue behind what was taken changes nothing.
LEMMA ConcatTake ==
  ASSUME NEW S, NEW g \in Seq(S), NEW q \in Seq(S), q # <<>>
  PROVE  Append(g, Head(q)) \o Tail(q) = g \o q
<1>1. Tail(q) \in Seq(S) /\ Len(Tail(q)) = Len(q) - 1 /\ Head(q) \in S /\ Len(q) \in Nat \ {0}
      /\ Head(q) = q[1] /\ \A i \in 1 .. Len(q) - 1 : Tail(q)[i] = q[i + 1]
  BY HeadTailProperties, EmptySeq, LenProperties
<1>2. Append(g, Head(q)) \in Seq(S) /\ Len(Append(g, Head(q))) = Len(g) + 1 /\ Len(g) \in Nat
      /\ Append(g, Head(q))[Len(g) + 1] = q[1] /\ \A i \in 1 .. Len(g) : Append(g, Head(q))[i] = g[i]
  BY <1>1, AppendProperties, LenProperties
<1> DEFINE a == Append(g, Head(q)) \o Tail(q)
           b == g \o q
<1>3. a \in Seq(S) /\ Len(a) = Len(g) + Len(q)
      /\ \A i \in 1 .. Len(a) : a[i] = IF i <= Len(g) + 1 THEN Append(g, Head(q))[i] ELSE Tail(q)[i - Len(g) - 1]
  BY <1>1, <1>2, ConcatProperties
<1>4. b \in Seq(S) /\ Len(b) = Len(g) + Len(q)
      /\ \A i \in 1 .. Len(b) : b[i] = IF i <= Len(g) THEN g[i] ELSE q[i - Len(g)]
  BY <1>1, <1>2, ConcatProperties
<1>5. ASSUME NEW i \in 1 .. Len(a) PROVE a[i] = b[i]
  <2>1. CASE i <= Len(g)
    BY <1>1, <1>2, <1>3, <1>4, <2>1
  <2>2. CASE i = Len(g) + 1
    BY <1>1, <1>2, <1>3, <1>4, <2>2
  <2>3. CASE i > Len(g) + 1
    BY <1>1, <1>2, <1>3, <1>4, <2>3
  <2> QED
    BY <1>2, <2>1, <2>2, <2>3
<1> HIDE DEF a, b
<1>6. a = b
  BY <1>3, <1>4, <1>5, SeqEqual
<1> QED
  BY <1>6 DEF a, b

\* Appending to the queue appends to what was sent.
LEMMA ConcatAppend ==
  ASSUME NEW S, NEW g \in Seq(S), NEW q \in Seq(S), NEW e \in S
  PROVE  g \o Append(q, e) = Append(g \o q, e)
<1> <<e>> \in Seq(S)
  OBVIOUS
<1>1. Append(q, e) = q \o <<e>> /\ g \o q \in Seq(S)
  BY AppendIsConcat, ConcatProperties
<1>2. Append(g \o q, e) = (g \o q) \o <<e>>
  BY <1>1, AppendIsConcat
<1> QED
  BY <1>1, <1>2, ConcatAssociative

\* What was sent to a receiver is a sequence of events.
LEMMA SentToType ==
  ASSUME TypeOK, NEW r \in Receivers
  PROVE  SentTo(r) \in Seq(Event) /\ DOMAIN SentTo(r) = 1 .. Len(SentTo(r)) /\ Len(SentTo(r)) \in Nat
<1>1. got[r] \in Seq(Event) /\ chan[r].queue \in Seq(Event)
  BY DEF TypeOK, Channel
<1> QED
  BY <1>1, ConcatProperties, LenProperties DEF SentTo

\* Steps that send and begin nothing keep the order.
LEMMA QuietOrder ==
  ASSUME OrderInv, \A r \in Receivers : SentTo(r)' = SentTo(r), pub' = pub, next' = next, after' = after,
         \A p \in Publishers : pub[p].todo \subseteq Receivers
  PROVE  OrderInv'
<1>1. InOrder'
  BY DEF OrderInv, InOrder
<1>2. \A p \in Publishers : \A r \in pub[p].todo :
        \A i \in DOMAIN SentTo(r)' : SentTo(r)'[i] # pub[p].event
  BY DEF OrderInv
<1>3. \A r \in Receivers : \A i \in DOMAIN SentTo(r)' : SentTo(r)'[i] < next
  BY DEF OrderInv
<1> QED
  BY <1>1, <1>2, <1>3 DEF OrderInv

\* A receiver takes an event: it has been sent all the same.
LEMMA TakeOrder ==
  ASSUME TypeOK, OrderInv, NEW c \in Receivers, TakeFrom(c)
  PROVE  OrderInv'
<1>1. ASSUME NEW r \in Receivers PROVE SentTo(r)' = SentTo(r)
  <2>1. got[r] \in Seq(Event) /\ chan[r].queue \in Seq(Event)
    BY DEF TypeOK, Channel
  <2>2. CASE r # c
    BY <2>2 DEF TakeFrom, SentTo, TypeOK
  <2>3. CASE r = c
    <3>1. got'[r] = Append(got[r], Head(chan[r].queue)) /\ chan'[r].queue = Tail(chan[r].queue)
          /\ chan[r].queue # <<>>
      BY <2>3 DEF TakeFrom, TypeOK, Channel
    <3> QED
      BY <2>1, <3>1, ConcatTake DEF SentTo
  <2> QED
    BY <2>2, <2>3
<1>2. \A p \in Publishers : pub[p].todo \subseteq Receivers
  BY DEF TypeOK, Publisher
<1> QED
  BY <1>1, <1>2, QuietOrder DEF TakeFrom

\* A step that leaves queues and publishers alone.
LEMMA StillOrder ==
  ASSUME TypeOK, OrderInv, got' = got, pub' = pub, next' = next, after' = after,
         \A r \in Receivers : chan'[r].queue = chan[r].queue
  PROVE  OrderInv'
<1>1. \A r \in Receivers : SentTo(r)' = SentTo(r)
  BY DEF SentTo
<1>2. \A p \in Publishers : pub[p].todo \subseteq Receivers
  BY DEF TypeOK, Publisher
<1> QED
  BY <1>1, <1>2, QuietOrder

\* A new event is none of those sent, and follows only events whose Publish has
\* returned.
LEMMA BeginOrder ==
  ASSUME TypeOK, PubInv, OrderInv, NEW p \in Publishers, NEW whom \in {Subscribers, Hooks}, PublishBegin(p, whom)
  PROVE  OrderInv'
<1> USE EventsAssumption
<1>1. next \in Event /\ next \in Nat /\ next' = next + 1 /\ got' = got /\ chan' = chan
  BY DEF PublishBegin, TypeOK, Event
<1>2. /\ pub'[p].event = next /\ pub'[p].todo \subseteq Receivers
      /\ \A q \in Publishers \ {p} : pub'[q] = pub[q]
  BY DEF PublishBegin, TypeOK
<1>3. /\ \A e \in Event \ {next} : after'[e] = after[e]
      /\ after'[next] = {e \in Event : e < next /\ \A q \in Publishers : pub[q].event = e => pub[q].todo = {}}
  BY <1>1 DEF PublishBegin, TypeOK
<1>4. \A r \in Receivers : SentTo(r)' = SentTo(r)
  BY <1>1 DEF SentTo
<1>5. \A q \in Publishers : pub[q].event \in Nat /\ pub[q].todo \subseteq Receivers
  BY DEF TypeOK, Publisher
<1>6. ASSUME NEW r \in Receivers, NEW i \in DOMAIN SentTo(r) PROVE SentTo(r)[i] \in Event /\ SentTo(r)[i] < next
  BY SentToType DEF OrderInv
<1>7. \A q \in Publishers : pub'[q].event < next'
  BY <1>1, <1>2, <1>5 DEF OrderInv
<1>8. \A q, o \in Publishers : q # o /\ pub'[q].event = pub'[o].event => pub'[q].event = 0
  BY <1>1, <1>2, <1>5 DEF OrderInv
<1>9. \A q \in Publishers : pub'[q].todo # {} => \A e \in Event : pub'[q].event \notin after'[e]
  BY <1>1, <1>2, <1>3, <1>5 DEF OrderInv, Event
<1>10. \A e \in Event : \A d \in after'[e] : d < next'
  <2>1. \A e \in Event : \A d \in after[e] : d \in Nat
    BY DEF TypeOK, Event
  <2> QED
    BY <1>1, <1>3, <2>1 DEF OrderInv, Event
<1>11. \A r \in Receivers : \A i \in DOMAIN SentTo(r)' : SentTo(r)'[i] < next'
  BY <1>1, <1>4, <1>6 DEF Event
<1>12. \A q \in Publishers : \A r \in pub'[q].todo :
         \A i \in DOMAIN SentTo(r)' : SentTo(r)'[i] # pub'[q].event
  BY <1>1, <1>2, <1>4, <1>5, <1>6 DEF OrderInv, Event
<1>13. InOrder'
  <2>1. SUFFICES ASSUME NEW r \in Receivers, NEW i \in DOMAIN SentTo(r), NEW j \in DOMAIN SentTo(r), i < j
                 PROVE  SentTo(r)[i] # SentTo(r)[j] /\ SentTo(r)[j] \notin after'[SentTo(r)[i]]
    BY <1>4 DEF InOrder
  <2>2. SentTo(r)[i] \in Event \ {next}
    BY <1>1, <1>6 DEF Event
  <2> QED
    BY <1>3, <2>1, <2>2 DEF OrderInv, InOrder
<1> QED
  BY <1>7, <1>8, <1>9, <1>10, <1>11, <1>12, <1>13 DEF OrderInv

\* A send puts the event behind those that were sent, none of which began after
\* its Publish had returned: it has not.
LEMMA SendOrder ==
  ASSUME TypeOK, PubInv, OrderInv, NEW p \in Publishers, NEW c \in Receivers, Send(p, c)
  PROVE  OrderInv'
<1> USE EventsAssumption
<1> DEFINE e == pub[p].event
<1>1. e \in Event /\ e # 0 /\ c \in pub[p].todo
  BY DEF TypeOK, PubInv, Send, Publisher, Event
<1>2. /\ \A q \in Publishers : pub'[q].event = pub[q].event /\ pub'[q].todo \subseteq pub[q].todo
      /\ c \notin pub'[p].todo
  BY DEF Send, TypeOK, Publisher
<1>3. next' = next /\ after' = after /\ got' = got
  BY DEF Send, history
<1>4. \A q \in Publishers : pub[q].todo \subseteq Receivers
  BY DEF TypeOK, Publisher
<1>5. \A r \in Receivers \ {c} : SentTo(r)' = SentTo(r)
  BY <1>3 DEF Send, Append1, SentTo, TypeOK
<1>6. SentTo(c)' = SentTo(c) \/ SentTo(c)' = Append(SentTo(c), e)
  <2>1. CASE chan' = chan
    BY <1>3, <2>1 DEF SentTo
  <2>2. CASE chan' = Append1(c, e)
    <3>1. chan'[c].queue = Append(chan[c].queue, e)
      BY <2>2 DEF Append1, TypeOK, Channel
    <3>2. got[c] \in Seq(Event) /\ chan[c].queue \in Seq(Event)
      BY DEF TypeOK, Channel
    <3> HIDE DEF e
    <3>3. got[c] \o Append(chan[c].queue, e) = Append(got[c] \o chan[c].queue, e)
      <4>1. \A g, q \in Seq(Event), d \in Event : g \o Append(q, d) = Append(g \o q, d)
        BY ConcatAppend
      <4> QED
        BY <1>1, <3>2, <4>1
    <3>4. SentTo(c)' = got[c] \o Append(chan[c].queue, e)
      BY <1>3, <3>1 DEF SentTo
    <3> QED
      BY <3>3, <3>4 DEF SentTo
  <2> QED
    BY <2>1, <2>2 DEF Send
<1>7. ASSUME NEW r \in Receivers, NEW i \in DOMAIN SentTo(r)'
      PROVE  \/ i \in DOMAIN SentTo(r) /\ SentTo(r)'[i] = SentTo(r)[i]
             \/ /\ r = c /\ SentTo(r)'[i] = e /\ SentTo(r)' = Append(SentTo(r), e)
                /\ i = Len(SentTo(r)) + 1
  <2>1. SentTo(r) \in Seq(Event) /\ DOMAIN SentTo(r) = 1 .. Len(SentTo(r)) /\ Len(SentTo(r)) \in Nat
    BY SentToType
  <2>2. CASE SentTo(r)' = SentTo(r)
    BY <1>7, <2>2
  <2>3. CASE r = c /\ SentTo(r)' = Append(SentTo(r), e)
    <3>1. DOMAIN SentTo(r)' = 1 .. Len(SentTo(r)) + 1
      BY <1>1, <2>1, <2>3, AppendProperties, LenProperties
    <3>2. /\ Append(SentTo(r), e)[Len(SentTo(r)) + 1] = e
          /\ \A k \in 1 .. Len(SentTo(r)) : Append(SentTo(r), e)[k] = SentTo(r)[k]
      BY <1>1, <2>1, AppendProperties
    <3>3. CASE i = Len(SentTo(r)) + 1
      BY <2>3, <3>2, <3>3
    <3>4. CASE i \in 1 .. Len(SentTo(r))
      BY <2>1, <2>3, <3>2, <3>4
    <3> HIDE DEF e
    <3>5. i = Len(SentTo(r)) + 1 \/ i \in 1 .. Len(SentTo(r))
      BY <1>7, <2>1, <3>1
    <3> QED
      BY <3>3, <3>4, <3>5
  <2> QED
    BY <1>5, <1>6, <2>2, <2>3
<1>8. \A r \in Receivers : \A i \in DOMAIN SentTo(r)' : SentTo(r)'[i] < next'
  BY <1>3, <1>7 DEF OrderInv
<1>9. ASSUME NEW q \in Publishers, NEW r \in pub'[q].todo, NEW i \in DOMAIN SentTo(r)'
      PROVE  SentTo(r)'[i] # pub'[q].event
  <2>1. r \in Receivers /\ r \in pub[q].todo
    BY <1>2, <1>4, <1>9
  <2>2. CASE i \in DOMAIN SentTo(r) /\ SentTo(r)'[i] = SentTo(r)[i]
    BY <1>2, <2>1, <2>2 DEF OrderInv
  <2>3. CASE r = c /\ SentTo(r)'[i] = e
    BY <1>1, <1>2, <1>9, <2>3 DEF OrderInv
  <2> QED
    BY <1>7, <2>1, <2>2, <2>3
<1>10. InOrder'
  <2>1. SUFFICES ASSUME NEW r \in Receivers, NEW i \in DOMAIN SentTo(r)', NEW j \in DOMAIN SentTo(r)', i < j
                 PROVE  SentTo(r)'[i] # SentTo(r)'[j] /\ SentTo(r)'[j] \notin after[SentTo(r)'[i]]
    BY <1>3 DEF InOrder
  <2>2. DOMAIN SentTo(r) = 1 .. Len(SentTo(r)) /\ Len(SentTo(r)) \in Nat /\ SentTo(r) \in Seq(Event)
    BY SentToType
  <2>3. i \in DOMAIN SentTo(r) /\ SentTo(r)'[i] = SentTo(r)[i] /\ SentTo(r)[i] \in Event
    <3>1. CASE i \in DOMAIN SentTo(r)
      BY <1>7, <2>2, <3>1
    <3>2. CASE i = Len(SentTo(r)) + 1 /\ SentTo(r)' = Append(SentTo(r), e)
      <4>1. DOMAIN SentTo(r)' = 1 .. Len(SentTo(r)) + 1
        BY <1>1, <2>2, <3>2, AppendProperties, LenProperties
      <4> QED
        BY <2>1, <2>2, <3>2, <4>1
    <3> QED
      BY <1>7, <3>1, <3>2
  <2>4. CASE j \in DOMAIN SentTo(r) /\ SentTo(r)'[j] = SentTo(r)[j]
    BY <2>1, <2>3, <2>4 DEF OrderInv, InOrder
  <2>5. CASE r = c /\ SentTo(r)'[j] = e
    BY <1>1, <2>3, <2>5 DEF OrderInv
  <2> QED
    BY <1>7, <2>4, <2>5
<1>11. \A q \in Publishers : pub'[q].todo # {} => pub[q].todo # {}
  BY <1>2
<1> QED
  BY <1>2, <1>3, <1>8, <1>9, <1>10, <1>11 DEF OrderInv

\* The order of events is kept, step by step.
LEMMA NextOrder ==
  ASSUME TypeOK, PubInv, CopyInv, OrderInv, [Next]_vars
  PROVE  OrderInv'
<1>1. ASSUME NEW s \in Subscribers, Subscribe(s) PROVE OrderInv'
  <2>1. \A r \in Receivers : chan'[r].queue = chan[r].queue
    BY <1>1 DEF Subscribe, TypeOK, Channel
  <2> QED
    BY <1>1, <2>1, StillOrder DEF Subscribe, history
<1>2. ASSUME NEW s \in Subscribers, Unsubscribe(s) PROVE OrderInv'
  <2>1. \A r \in Receivers : chan'[r].queue = chan[r].queue
    BY <1>2, CloseRaces DEF Unsubscribe, Receivers
  <2> QED
    BY <1>2, <2>1, StillOrder DEF Unsubscribe
<1>3. ASSUME NEW r \in Receivers, TakeFrom(r) PROVE OrderInv'
  BY <1>3, TakeOrder
<1>4. ASSUME NEW p \in Publishers, NEW whom \in {Subscribers, Hooks}, PublishBegin(p, whom) PROVE OrderInv'
  BY <1>4, BeginOrder
<1>5. ASSUME NEW p \in Publishers, NEW r \in Receivers, Send(p, r) PROVE OrderInv'
  BY <1>5, SendOrder
<1>6. ASSUME NEW h \in Hooks, Register(h) PROVE OrderInv'
  <2>1. \A r \in Receivers : chan'[r].queue = chan[r].queue
    BY <1>6 DEF Register, TypeOK, Channel
  <2> QED
    BY <1>6, <2>1, StillOrder DEF Register, history
<1>7. ASSUME NEW h \in Hooks, CallHookReturns(h) \/ DeliverEnds(h) PROVE OrderInv'
  BY <1>7, StillOrder DEF CallHookReturns, DeliverEnds, history
<1>8. CASE CloseBegin \/ CloseWaited
  BY <1>8, StillOrder DEF CloseBegin, CloseWaited, history
<1>9. CASE CloseNext
  <2>1. \A r \in Receivers : chan'[r].queue = chan[r].queue
    <3>1. closer.todo \subseteq Receivers
      BY DEF TypeOK, Closer, Receivers
    <3> QED
      BY <1>9, <3>1, CloseRaces DEF CloseNext
  <2> QED
    BY <1>9, <2>1, StillOrder DEF CloseNext
<1>10. CASE UNCHANGED vars
  BY <1>10, StillOrder DEF vars, history
<1> QED
  BY <1>1, <1>2, <1>3, <1>4, <1>5, <1>6, <1>7, <1>8, <1>9, <1>10
  DEF Next, Work, CloseStep, Receive, Deliver, Receivers

\* Nothing has been sent at the start.
LEMMA InitOrder == Init => OrderInv
<1> SUFFICES ASSUME Init PROVE OrderInv
  OBVIOUS
<1>1. \A r \in Receivers : got[r] = <<>> /\ chan[r].queue = <<>>
  BY DEF Init
<1>2. \A r \in Receivers : SentTo(r) = <<>>
  BY <1>1 DEF SentTo
<1>3. \A r \in Receivers : DOMAIN SentTo(r) = {}
  BY <1>2
<1>4. InOrder
  BY <1>3 DEF InOrder
<1>5. \A p \in Publishers : pub[p].event = 0 /\ pub[p].todo = {}
  BY DEF Init
<1>6. next = 1 /\ \A e \in Event : after[e] = {}
  BY DEF Init
<1> QED
  BY <1>3, <1>4, <1>5, <1>6 DEF OrderInv

\* No receiver sees an event twice, or before one that was published earlier.
THEOREM EventsInOrder == Spec => []InOrder
<1>1. Init => TypeOK /\ PubInv /\ CopyInv /\ OrderInv
  BY InitTypes, InitCopies, InitOrder
<1>2. TypeOK /\ PubInv /\ CopyInv /\ OrderInv /\ [Next]_vars
      => TypeOK' /\ PubInv' /\ CopyInv' /\ OrderInv'
  BY NextTypes, NextCopies, NextOrder
<1>3. OrderInv => InOrder
  BY DEF OrderInv
<1> QED
  BY <1>1, <1>2, <1>3, PTL DEF Spec
=============================================================================
