---------------------------- MODULE ProbeManager ----------------------------
(***************************************************************************)
(* The probe manager (internal/probe) at the granularity of its mutex: the *)
(* reconciler goroutine inside Track and Untrack, one probe loop goroutine *)
(* per tracked container, and the goroutine in Run that shuts them down.   *)
(* What happens under the mutex is one step; what happens between two      *)
(* critical sections (cancel, waiting for a loop, starting one) is another. *)
(***************************************************************************)
EXTENDS Naturals, Sequences

CONSTANTS
  Ids, Checks,
  NoHealth,     \* the empty [health] block, a member of Checks
  HistoryCap,   \* historyCap
  Objs,         \* addresses of entries, as numbers
  TailCalls,    \* how many calls the caller still makes after the shutdown
  Untracked, Free, None

ASSUME ManagerAssumption ==
  /\ HistoryCap \in Nat \ {0} /\ TailCalls \in Nat /\ Objs \subseteq Nat
  /\ NoHealth \in Checks /\ None \notin Objs /\ None \notin Ids /\ None \notin Checks

VARIABLES
  entries,  \* m.entries: the entry of each container, or None
  obj,      \* the entries in memory, in or out of the map
  caller,   \* the reconciler goroutine
  mgr,      \* "up", "cancelled" (mgrCtx), or "stopped" (Run has returned)
  tail      \* what is left of TailCalls

vars == <<entries, obj, caller, mgr, tail>>

Results == {h \in Seq(BOOLEAN) : Len(h) <= HistoryCap}

\* loop: "none" when there is nothing to probe; "new" until wg.Go; then where
\* the goroutine is; "done" once e.done is closed. ok and streak are the
\* stored snapshot.
Object == [id: Ids, check: Checks, history: Results, ok: BOOLEAN,
           streak: 0 .. HistoryCap, cancelled: BOOLEAN,
           loop: {"none", "new", "start", "probing", "waiting", "done"}]

\* Where the caller is, the entry it waits for or starts, and Track's arguments.
Caller == [pc: {"idle", "trackWait", "trackGo", "untrackCancel", "untrackWait"},
           entry: Objs \cup {None}, id: Ids \cup {None}, check: Checks \cup {None}]

At(pc, o) == [pc |-> pc, entry |-> o, id |-> None, check |-> None]
Idle == At("idle", None)

\* Wrong form of Cancelled: the loop's context is not a child of the manager's.
CancelledOwn(o) == obj[o].cancelled

\* The loop's context: cancelled by its own cancel or with the manager's.
Cancelled(o) == obj[o].cancelled \/ mgr # "up"

ASSUME FreeAssumption == Free \notin Object

\* What a caller can read.
ASSUME UntrackedAssumption ==
  Untracked \notin [check: Checks, ok: BOOLEAN, streak: Nat]

Live == {o \in Objs : obj[o] # Free}
Running(o) == obj[o].loop \in {"start", "probing", "waiting"}
Finished(o) == obj[o].loop \in {"none", "done"}

-----------------------------------------------------------------------------
(* History. *)

\* Wrong form of Keep: nothing is dropped.
KeepAll(history, healthy) == Append(history, healthy)

\* Append: when the buffer is full, the oldest result is dropped.
Keep(history, healthy) ==
  IF Len(history) < HistoryCap THEN Append(history, healthy)
  ELSE Append(Tail(history), healthy)

\* n results at the end are failures, and the one before them is not.
EndsIn(history, n) ==
  /\ \A k \in 1 .. Len(history) : k > Len(history) - n => ~history[k]
  /\ n < Len(history) => history[Len(history) - n]

\* Streak: the number of consecutive failures at the end.
Streak(history) == CHOOSE n \in 0 .. Len(history) : EndsIn(history, n)

-----------------------------------------------------------------------------
(* The reconciler goroutine. Track of an unchanged check changes nothing. *)

\* A call begins. Once the manager is cancelled the caller only ends its tick.
Begin ==
  /\ caller.pc = "idle"
  /\ IF mgr = "up" THEN UNCHANGED tail ELSE tail > 0 /\ tail' = tail - 1

NewObject(i, h) ==
  [id |-> i, check |-> h, history |-> <<>>, ok |-> h = NoHealth, streak |-> 0,
   cancelled |-> FALSE, loop |-> IF h = NoHealth THEN "none" ELSE "new"]

\* Under the mutex: a fresh entry goes into the map, at whatever address (here
\* the least). Without a check the call ends here.
NewEntry(heap, o, i, h) ==
  /\ heap[o] = Free /\ \A p \in Objs : heap[p] = Free => o <= p
  /\ obj' = [heap EXCEPT ![o] = NewObject(i, h)]
  /\ entries' = [entries EXCEPT ![i] = o]
  /\ caller' = IF h = NoHealth THEN Idle ELSE At("trackGo", o)

\* The caller forgets an entry that is out of the map: it is garbage.
Drop(o) == [obj EXCEPT ![o] = Free]

TrackNew(i, h) ==
  /\ Begin
  /\ entries[i] = None
  /\ \E o \in Objs : NewEntry(obj, o, i, h)
  /\ UNCHANGED mgr

\* Another check: cancel and drop the entry, then unlock and wait for its loop.
TrackChanged(i, h) ==
  /\ Begin
  /\ entries[i] # None /\ obj[entries[i]].check # h
  /\ obj' = [obj EXCEPT ![entries[i]].cancelled = TRUE]
  /\ caller' = [pc |-> "trackWait", entry |-> entries[i], id |-> i, check |-> h]
  /\ entries' = [entries EXCEPT ![i] = None]
  /\ UNCHANGED mgr

\* Wrong form of TrackReplace: the old loop is not waited for.
TrackHasty ==
  /\ caller.pc = "trackWait"
  /\ \E o \in Objs : NewEntry(obj, o, caller.id, caller.check)
  /\ UNCHANGED <<mgr, tail>>

\* The old loop has closed done: lock again and store the new entry.
TrackReplace ==
  /\ caller.pc = "trackWait" /\ Finished(caller.entry)
  /\ \E o \in Objs : NewEntry(Drop(caller.entry), o, caller.id, caller.check)
  /\ UNCHANGED <<mgr, tail>>

\* wg.Go, after the mutex is released.
TrackGo ==
  /\ caller.pc = "trackGo"
  /\ obj' = [obj EXCEPT ![caller.entry].loop = "start"]
  /\ caller' = Idle
  /\ UNCHANGED <<entries, mgr, tail>>

\* Untrack: drop the entry under the mutex, cancel after it, wait for the loop.
Untrack(i) ==
  /\ Begin /\ entries[i] # None
  /\ caller' = At("untrackCancel", entries[i])
  /\ entries' = [entries EXCEPT ![i] = None]
  /\ UNCHANGED <<obj, mgr>>

UntrackCancel ==
  /\ caller.pc = "untrackCancel"
  /\ obj' = [obj EXCEPT ![caller.entry].cancelled = TRUE]
  /\ caller' = At("untrackWait", caller.entry)
  /\ UNCHANGED <<entries, mgr, tail>>

UntrackDone ==
  /\ caller.pc = "untrackWait" /\ Finished(caller.entry)
  /\ obj' = Drop(caller.entry)
  /\ caller' = Idle
  /\ UNCHANGED <<entries, mgr, tail>>

-----------------------------------------------------------------------------
(* probeLoop of entry o. *)

\* The probes are built and the first one fires at once.
LoopStart(o) ==
  /\ obj[o].loop = "start"
  /\ obj' = [obj EXCEPT ![o].loop = "probing"]
  /\ UNCHANGED <<entries, caller, mgr, tail>>

\* The container cannot be inspected, or there is no route to probe through.
LoopReturns(o) ==
  /\ obj[o].loop = "start"
  /\ obj' = [obj EXCEPT ![o].loop = "done"]
  /\ UNCHANGED <<entries, caller, mgr, tail>>

\* Wrong form of Recorded: the streak is read before the result is appended.
RecordedLate(e, healthy) ==
  [e EXCEPT !.history = Keep(e.history, healthy), !.ok = healthy,
            !.streak = Streak(e.history)]

\* recordResult on entry e.
Recorded(e, healthy) ==
  LET kept == Keep(e.history, healthy)
  IN  [e EXCEPT !.history = kept, !.ok = healthy, !.streak = Streak(kept)]

\* The probe in flight ends. A cancelled one ends as a failure, unless it had
\* succeeded before the cancellation.
Record(o) ==
  /\ obj[o].loop = "probing"
  /\ \E healthy \in BOOLEAN :
       obj' = [obj EXCEPT ![o] = [Recorded(obj[o], healthy) EXCEPT !.loop = "waiting"]]
  /\ UNCHANGED <<entries, caller, mgr, tail>>

\* select: the ticker fired. The context may be cancelled as well.
LoopTick(o) ==
  /\ obj[o].loop = "waiting"
  /\ obj' = [obj EXCEPT ![o].loop = "probing"]
  /\ UNCHANGED <<entries, caller, mgr, tail>>

\* Wrong form of LoopExit: only the manager's shutdown ends a loop.
LoopExitLast(o) ==
  /\ obj[o].loop = "waiting" /\ mgr # "up"
  /\ obj' = [obj EXCEPT ![o].loop = "done"]
  /\ UNCHANGED <<entries, caller, mgr, tail>>

\* select: the context is cancelled.
LoopExit(o) ==
  /\ obj[o].loop = "waiting" /\ Cancelled(o)
  /\ obj' = [obj EXCEPT ![o].loop = "done"]
  /\ UNCHANGED <<entries, caller, mgr, tail>>

-----------------------------------------------------------------------------
(* Run. *)

Shutdown ==
  /\ mgr = "up" /\ mgr' = "cancelled"
  /\ UNCHANGED <<entries, obj, caller, tail>>

\* wg.Wait returns: no goroutine of the group is left.
RunReturns ==
  /\ mgr = "cancelled" /\ \A o \in Live : ~Running(o)
  /\ mgr' = "stopped"
  /\ UNCHANGED <<entries, obj, caller, tail>>

Init ==
  /\ entries = [i \in Ids |-> None]
  /\ obj = [o \in Objs |-> Free]
  /\ caller = Idle
  /\ mgr = "up" /\ tail = TailCalls

CallerStep == TrackReplace \/ TrackGo \/ UntrackCancel \/ UntrackDone

Loop(o) == LoopStart(o) \/ LoopReturns(o) \/ Record(o) \/ LoopTick(o) \/ LoopExit(o)

Next ==
  \/ \E i \in Ids : Untrack(i) \/ \E h \in Checks : TrackNew(i, h) \/ TrackChanged(i, h)
  \/ CallerStep
  \/ \E o \in Live : Loop(o)
  \/ Shutdown \/ RunReturns

Spec == Init /\ [][Next]_vars

LoopOf(o) == o \in Live /\ Loop(o)
LoopEnds(o) == o \in Live /\ LoopExit(o)

\* Goroutines run. A loop whose context is cancelled leaves its select: Done
\* stays ready, and select does not pick the ticker for ever.
Fairness ==
  /\ WF_vars(CallerStep) /\ WF_vars(RunReturns)
  /\ \A o \in Objs : WF_vars(LoopOf(o)) /\ SF_vars(LoopEnds(o))
FairSpec == Spec /\ Fairness

-----------------------------------------------------------------------------
(* Properties. *)

\* Every variable holds a value of its kind; in particular history stays cut.
TypeOK ==
  /\ entries \in [Ids -> Objs \cup {None}]
  /\ obj \in [Objs -> Object \cup {Free}]
  /\ caller \in Caller
  /\ mgr \in {"up", "cancelled", "stopped"}
  /\ tail \in Nat

\* probe.md: "one goroutine per Track-ed container". Retracking, untracking and
\* early returns never leave two loops probing the same container.
OneLoopPerContainer ==
  \A o, p \in Live : Running(o) /\ Running(p) /\ obj[o].id = obj[p].id => o = p

\* An entry of the map exists and is of its container.
MapInv ==
  \A i \in Ids : entries[i] # None => entries[i] \in Live /\ obj[entries[i]].id = i

\* The caller holds an entry that exists: the one it is about to start is the
\* map's, the one it ends is not, and nobody tracks its container meanwhile.
Ending == {"trackWait", "untrackCancel", "untrackWait"}
CallerInv ==
  /\ caller.pc # "idle" => caller.entry \in Live
  /\ caller.pc = "trackWait" =>
       caller.check \in Checks /\ caller.id = obj[caller.entry].id
  /\ caller.pc = "trackGo" =>
       entries[obj[caller.entry].id] = caller.entry /\ obj[caller.entry].loop = "new"
  /\ caller.pc \in Ending =>
       entries[obj[caller.entry].id] = None /\ obj[caller.entry].loop # "new"

\* A loop that is about to run or runs is accounted for: its entry is the map's,
\* or the caller is waiting for it to exit.
ObjectInv(o) ==
  /\ ~Finished(o) => \/ entries[obj[o].id] = o
                     \/ caller.pc \in Ending /\ caller.entry = o
  /\ obj[o].loop = "new" => caller.pc = "trackGo" /\ caller.entry = o
  /\ (obj[o].check = NoHealth) = (obj[o].loop = "none")
  /\ obj[o].streak <= Len(obj[o].history) /\ EndsIn(obj[o].history, obj[o].streak)

\* No loop escapes: whatever Track and Untrack have dropped is waited for, and
\* the stored streak is the one the ring buffer shows.
LoopInv == MapInv /\ CallerInv /\ \A o \in Live : ObjectInv(o)

\* What a caller sees of the map.
Reg == [i \in Ids |->
          IF entries[i] = None THEN Untracked
          ELSE LET e == obj[entries[i]]
               IN  [check |-> e.check, ok |-> e.ok, streak |-> e.streak]]

Register == INSTANCE ProbeRegister WITH reg <- Reg

\* The manager is the register its callers take it for: a result of a loop that
\* was cancelled, replaced or orphaned never reaches a newer entry, a trusted
\* container never fails, and the streak read from the ring buffer is the count.
ImplementsRegister == Register!Spec

\* Track and Untrack always return: neither waits for a loop that nobody ends.
CallsReturn == caller.pc # "idle" ~> caller.pc = "idle"

\* Run: "signals every per-replica goroutine to stop and waits for them to
\* exit", and that wait ends.
ShutdownCompletes == mgr = "cancelled" ~> mgr = "stopped"
=============================================================================
