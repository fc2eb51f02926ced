------------------------- MODULE ProbeManagerProofs -------------------------
(***************************************************************************)
(* The probe manager implements the register of ProbeRegister, and never   *)
(* runs two loops for one container, for any number of containers, checks  *)
(* and entries and any length of history.                                  *)
(***************************************************************************)
EXTENDS ProbeManager, TLAPS

-----------------------------------------------------------------------------
(* History. *)

\* A history ends in one number of failures only.
LEMMA StreakUnique ==
  ASSUME NEW h \in Seq(BOOLEAN), NEW n \in 0 .. Len(h), EndsIn(h, n)
  PROVE  Streak(h) = n
<1>1. ASSUME NEW m \in 0 .. Len(h), EndsIn(h, m) PROVE m = n
  <2>1. Len(h) \in Nat
    OBVIOUS
  <2>2. CASE m < n
    <3>1. h[Len(h) - m]
      BY <1>1, <2>1, <2>2 DEF EndsIn
    <3>2. Len(h) - m \in 1 .. Len(h) /\ Len(h) - m > Len(h) - n
      BY <1>1, <2>1, <2>2
    <3> QED
      BY <3>1, <3>2 DEF EndsIn
  <2>3. CASE n < m
    <3>1. h[Len(h) - n]
      BY <1>1, <2>1, <2>3 DEF EndsIn
    <3>2. Len(h) - n \in 1 .. Len(h) /\ Len(h) - n > Len(h) - m
      BY <1>1, <2>1, <2>3
    <3> QED
      BY <1>1, <3>1, <3>2 DEF EndsIn
  <2> QED
    BY <1>1, <2>1, <2>2, <2>3
<1> QED
  BY <1>1 DEF Streak

\* The streak of the ring buffer after one more result.
LEMMA KeepStreak ==
  ASSUME NEW h \in Results, NEW n \in 0 .. Len(h), EndsIn(h, n), NEW b \in BOOLEAN
  PROVE  LET kept == Keep(h, b)
             m == IF b THEN 0 ELSE IF n < HistoryCap THEN n + 1 ELSE n
         IN  kept \in Results /\ m <= Len(kept) /\ EndsIn(kept, m) /\ Streak(kept) = m
<1> DEFINE kept == Keep(h, b)
           m == IF b THEN 0 ELSE IF n < HistoryCap THEN n + 1 ELSE n
<1>1. h \in Seq(BOOLEAN) /\ Len(h) \in Nat /\ Len(h) <= HistoryCap /\ HistoryCap \in Nat \ {0}
  BY ManagerAssumption DEF Results
<1>2. kept \in Seq(BOOLEAN) /\ m \in 0 .. Len(kept) /\ Len(kept) <= HistoryCap /\ EndsIn(kept, m)
  <2>1. CASE Len(h) < HistoryCap
    <3>1. kept = Append(h, b)
      BY <2>1 DEF Keep
    <3>2. kept \in Seq(BOOLEAN) /\ Len(kept) = Len(h) + 1 /\ kept[Len(h) + 1] = b
          /\ \A k \in 1 .. Len(h) : kept[k] = h[k]
      BY <1>1, <3>1
    <3>3. m \in 0 .. Len(kept)
      BY <1>1, <3>2
    <3>4. EndsIn(kept, m)
      BY <1>1, <2>1, <3>2 DEF EndsIn
    <3> QED
      BY <1>1, <2>1, <3>2, <3>3, <3>4
  <2>2. CASE Len(h) = HistoryCap
    <3>1. kept = Append(Tail(h), b)
      BY <1>1, <2>2 DEF Keep
    <3>2. Tail(h) \in Seq(BOOLEAN) /\ Len(Tail(h)) = Len(h) - 1
          /\ \A k \in 1 .. Len(h) - 1 : Tail(h)[k] = h[k + 1]
      BY <1>1, <2>2
    <3>3. kept \in Seq(BOOLEAN) /\ Len(kept) = Len(h) /\ kept[Len(h)] = b
          /\ \A k \in 1 .. Len(h) - 1 : kept[k] = h[k + 1]
      BY <1>1, <2>2, <3>1, <3>2
    <3>4. m \in 0 .. Len(kept)
      BY <1>1, <2>2, <3>3
    <3>5. EndsIn(kept, m)
      BY <1>1, <2>2, <3>3 DEF EndsIn
    <3> QED
      BY <1>1, <2>2, <3>3, <3>4, <3>5
  <2> QED
    BY <1>1, <2>1, <2>2
<1>3. Streak(kept) = m
  BY <1>2, StreakUnique
<1> QED
  BY <1>1, <1>2, <1>3 DEF Results

-----------------------------------------------------------------------------
(* Types. *)

\* What the caller's helpers return.
LEMMA IdleType == Idle \in Caller /\ Idle.pc = "idle"
BY DEF Idle, At, Caller

\* A new entry has the type of an entry and an empty history.
LEMMA NewObjectType ==
  ASSUME NEW i \in Ids, NEW h \in Checks
  PROVE  /\ NewObject(i, h) \in Object
         /\ NewObject(i, h).id = i /\ NewObject(i, h).check = h
         /\ NewObject(i, h).streak = 0 /\ NewObject(i, h).history = <<>>
         /\ NewObject(i, h).ok = (h = NoHealth)
         /\ NewObject(i, h).loop = IF h = NoHealth THEN "none" ELSE "new"
BY ManagerAssumption DEF NewObject, Object, Results

\* recordResult keeps the type, and the streak is the register's count.
LEMMA RecordedType ==
  ASSUME NEW e \in Object, NEW b \in BOOLEAN,
         e.streak <= Len(e.history), EndsIn(e.history, e.streak)
  PROVE  /\ Recorded(e, b) \in Object
         /\ Recorded(e, b).id = e.id /\ Recorded(e, b).check = e.check
         /\ Recorded(e, b).loop = e.loop /\ Recorded(e, b).cancelled = e.cancelled
         /\ Recorded(e, b).ok = b
         /\ Recorded(e, b).streak =
              IF b THEN 0 ELSE IF e.streak < HistoryCap THEN e.streak + 1 ELSE e.streak
         /\ Recorded(e, b).streak <= Len(Recorded(e, b).history)
         /\ EndsIn(Recorded(e, b).history, Recorded(e, b).streak)
<1> DEFINE kept == Keep(e.history, b)
           m == IF b THEN 0 ELSE IF e.streak < HistoryCap THEN e.streak + 1 ELSE e.streak
<1>1. e.history \in Results /\ e.streak \in 0 .. Len(e.history) /\ e.streak \in 0 .. HistoryCap
  BY DEF Object, Results
<1>2. kept \in Results /\ m <= Len(kept) /\ EndsIn(kept, m) /\ Streak(kept) = m
  BY <1>1, KeepStreak
<1>3. m \in 0 .. HistoryCap
  BY <1>1, ManagerAssumption
<1>4. Recorded(e, b) = [e EXCEPT !.history = kept, !.ok = b, !.streak = m]
  BY <1>2 DEF Recorded
<1> HIDE DEF kept, m
<1>5. /\ Recorded(e, b) \in Object
      /\ Recorded(e, b).id = e.id /\ Recorded(e, b).check = e.check
      /\ Recorded(e, b).loop = e.loop /\ Recorded(e, b).cancelled = e.cancelled
      /\ Recorded(e, b).ok = b /\ Recorded(e, b).streak = m
      /\ Recorded(e, b).history = kept
  BY <1>2, <1>3, <1>4 DEF Object
<1> QED
  BY <1>2, <1>5 DEF m

-----------------------------------------------------------------------------
(* The inductive invariant. *)

IInv == TypeOK /\ LoopInv

\* An entry in memory has the type of an entry.
LEMMA LiveType ==
  ASSUME TypeOK, NEW o \in Live
  PROVE  o \in Objs /\ obj[o] \in Object
BY DEF TypeOK, Live

\* A step of a probe loop changes its own entry only: where the loop is and
\* the history and snapshot, never which container and check it is for.
LEMMA LoopKeeps ==
  ASSUME IInv, NEW o \in Live, NEW e \in Object,
         e.id = obj[o].id, e.check = obj[o].check,
         obj[o].loop \in {"start", "probing", "waiting"},
         e.loop \in {"start", "probing", "waiting", "done"},
         e.streak <= Len(e.history), EndsIn(e.history, e.streak),
         obj' = [obj EXCEPT ![o] = e],
         UNCHANGED <<entries, caller, mgr, tail>>
  PROVE  IInv'
<1>1. o \in Objs /\ obj[o] \in Object /\ Free \notin Object
  BY LiveType, FreeAssumption DEF IInv
<1>2. /\ obj'[o] = e /\ \A p \in Objs : p # o => obj'[p] = obj[p]
      /\ obj' \in [Objs -> Object \cup {Free}]
  BY <1>1 DEF IInv, TypeOK
<1>3. TypeOK'
  BY <1>2 DEF IInv, TypeOK
<1>4. Live' = Live
  BY <1>1, <1>2 DEF Live
<1>5. \A p \in Live : obj'[p].id = obj[p].id /\ obj'[p].check = obj[p].check
  BY <1>1, <1>2 DEF Live
<1>6. MapInv'
  BY <1>4, <1>5 DEF IInv, LoopInv, MapInv
<1>7. obj[o].loop # "new" /\ e.loop # "new"
  OBVIOUS
<1>8. CallerInv'
  BY <1>1, <1>2, <1>4, <1>5, <1>7 DEF IInv, LoopInv, CallerInv, Live, Ending
<1>9. ASSUME NEW p \in Live' PROVE ObjectInv(p)'
  <2>1. p \in Live /\ ObjectInv(p)
    BY <1>4, <1>9 DEF IInv, LoopInv
  <2>2. CASE p = o
    BY <1>1, <1>2, <2>1, <2>2 DEF ObjectInv, Finished
  <2>3. CASE p # o
    BY <1>2, <2>1, <2>3 DEF ObjectInv, Finished, Live
  <2> QED
    BY <2>2, <2>3
<1> QED
  BY <1>3, <1>6, <1>8, <1>9 DEF IInv, LoopInv

\* Every step of a loop is one of those.
LEMMA LoopStep ==
  ASSUME IInv, NEW o \in Live, Loop(o)
  PROVE  IInv'
<1>1. o \in Objs /\ obj[o] \in Object /\ ObjectInv(o)
  BY LiveType DEF IInv, LoopInv
<1>2. obj[o].streak <= Len(obj[o].history) /\ EndsIn(obj[o].history, obj[o].streak)
  BY <1>1 DEF ObjectInv
<1>3. ASSUME NEW l \in {"probing", "done"}, obj[o].loop \in {"start", "waiting"},
             obj' = [obj EXCEPT ![o].loop = l], UNCHANGED <<entries, caller, mgr, tail>>
      PROVE  IInv'
  <2> DEFINE e == [obj[o] EXCEPT !.loop = l]
  <2>1. e \in Object /\ e.id = obj[o].id /\ e.check = obj[o].check /\ e.loop = l
        /\ e.streak = obj[o].streak /\ e.history = obj[o].history
    BY <1>1, <1>3 DEF Object
  <2>2. obj' = [obj EXCEPT ![o] = e]
    BY <1>3
  <2> HIDE DEF e
  <2> QED
    BY <1>2, <1>3, <2>1, <2>2, LoopKeeps
<1>4. CASE LoopStart(o)
  BY <1>3, <1>4 DEF LoopStart
<1>5. CASE LoopReturns(o)
  BY <1>3, <1>5 DEF LoopReturns
<1>6. CASE LoopTick(o)
  BY <1>3, <1>6 DEF LoopTick
<1>7. CASE LoopExit(o)
  BY <1>3, <1>7 DEF LoopExit
<1>8. CASE Record(o)
  <2>1. PICK b \in BOOLEAN :
          obj' = [obj EXCEPT ![o] = [Recorded(obj[o], b) EXCEPT !.loop = "waiting"]]
    BY <1>8 DEF Record
  <2> DEFINE r == Recorded(obj[o], b)
             e == [r EXCEPT !.loop = "waiting"]
  <2>2. /\ r \in Object /\ r.id = obj[o].id /\ r.check = obj[o].check
        /\ r.streak <= Len(r.history) /\ EndsIn(r.history, r.streak)
    BY <1>1, <1>2, RecordedType
  <2> HIDE DEF r
  <2>3. e \in Object /\ e.id = r.id /\ e.check = r.check /\ e.loop = "waiting"
        /\ e.streak = r.streak /\ e.history = r.history
    BY <2>2 DEF Object
  <2>4. obj' = [obj EXCEPT ![o] = e]
    BY <2>1 DEF r
  <2>5. obj[o].loop = "probing" /\ UNCHANGED <<entries, caller, mgr, tail>>
    BY <1>8 DEF Record
  <2> HIDE DEF e
  <2> QED
    BY <2>2, <2>3, <2>4, <2>5, LoopKeeps
<1> QED
  BY <1>4, <1>5, <1>6, <1>7, <1>8 DEF Loop

\* A fresh entry, stored while nobody tracks the container and the caller
\* holds nothing that still runs.
LEMMA StoreKeeps ==
  ASSUME IInv, NEW heap \in [Objs -> Object \cup {Free}], NEW i \in Ids, NEW h \in Checks,
         NEW o \in Objs, NewEntry(heap, o, i, h),
         entries[i] = None,
         \A p \in Objs : heap[p] # Free => p \in Live /\ heap[p] = obj[p],
         \A j \in Ids : entries[j] # None => heap[entries[j]] # Free,
         \A p \in Live : ~Finished(p) => entries[obj[p].id] = p,
         \A p \in Live : obj[p].loop # "new",
         mgr' = mgr, tail' \in Nat
  PROVE  IInv'
<1> DEFINE n == NewObject(i, h)
<1>1. /\ n \in Object /\ n.id = i /\ n.check = h /\ n.streak = 0 /\ n.history = <<>>
      /\ n.loop = IF h = NoHealth THEN "none" ELSE "new"
  BY NewObjectType
<1>2. /\ obj' = [heap EXCEPT ![o] = n] /\ entries' = [entries EXCEPT ![i] = o]
      /\ caller' = IF h = NoHealth THEN Idle ELSE At("trackGo", o)
      /\ heap[o] = Free
  BY DEF NewEntry
<1> HIDE DEF n
<1>3. /\ obj'[o] = n /\ \A p \in Objs : p # o => obj'[p] = heap[p]
      /\ obj' \in [Objs -> Object \cup {Free}]
  BY <1>1, <1>2
<1>4. /\ entries \in [Ids -> Objs \cup {None}] /\ entries'[i] = o
      /\ \A j \in Ids : j # i => entries'[j] = entries[j]
      /\ entries' \in [Ids -> Objs \cup {None}]
  BY <1>2 DEF IInv, TypeOK
<1>5. caller' \in Caller
  BY <1>2, IdleType DEF At, Caller
<1>6. TypeOK'
  BY <1>3, <1>4, <1>5 DEF IInv, TypeOK
<1>7. o # None /\ Free \notin Object
  BY ManagerAssumption, FreeAssumption
<1>8. \A j \in Ids : entries[j] # o
  BY <1>2, <1>4, <1>7
<1>9. o \in Live' /\ \A p \in Live' : p # o => p \in Live /\ obj'[p] = obj[p]
  BY <1>1, <1>3, <1>7 DEF Live
<1>10. MapInv'
  <2> SUFFICES ASSUME NEW j \in Ids, entries'[j] # None
               PROVE  entries'[j] \in Live' /\ obj'[entries'[j]].id = j
    BY DEF MapInv
  <2>1. CASE j = i
    BY <1>1, <1>3, <1>4, <1>9, <2>1
  <2>2. CASE j # i
    <3>1. entries'[j] = entries[j] /\ entries[j] \in Objs /\ entries[j] # o
      BY <1>4, <1>8, <2>2
    <3>2. heap[entries[j]] # Free /\ obj'[entries[j]] = heap[entries[j]]
      BY <1>3, <3>1
    <3>3. entries[j] \in Live' /\ obj'[entries[j]] = obj[entries[j]]
      BY <3>1, <3>2 DEF Live
    <3> QED
      BY <3>1, <3>3 DEF IInv, LoopInv, MapInv
  <2> QED
    BY <2>1, <2>2
<1>11. CallerInv'
  <2>1. CASE h = NoHealth
    BY <1>2, <2>1, IdleType DEF CallerInv, Ending
  <2>2. CASE h # NoHealth
    <3>1. caller'.pc = "trackGo" /\ caller'.entry = o
      BY <1>2, <2>2 DEF At
    <3> QED
      BY <1>1, <1>3, <1>4, <1>9, <2>2, <3>1 DEF CallerInv, Ending
  <2> QED
    BY <2>1, <2>2
<1>12. ASSUME NEW p \in Live' PROVE ObjectInv(p)'
  <2>1. CASE p = o
    <3>1. /\ ~Finished(o)' => entries'[obj'[o].id] = o
          /\ (obj'[o].check = NoHealth) = (obj'[o].loop = "none")
      BY <1>1, <1>3, <1>4 DEF Finished
    <3>2. obj'[o].loop = "new" => caller'.pc = "trackGo" /\ caller'.entry = o
      BY <1>1, <1>2, <1>3 DEF At
    <3>3. obj'[o].streak <= Len(obj'[o].history) /\ EndsIn(obj'[o].history, obj'[o].streak)
      BY <1>1, <1>3 DEF EndsIn
    <3> QED
      BY <2>1, <3>1, <3>2, <3>3 DEF ObjectInv
  <2>2. CASE p # o
    <3>1. p \in Live /\ obj'[p] = obj[p] /\ ObjectInv(p) /\ obj[p] \in Object
      BY <1>9, <2>2, LiveType DEF IInv, LoopInv
    <3>2. obj[p].id \in Ids /\ obj[p].loop # "new"
      BY <3>1 DEF Object
    <3>3. ~Finished(p)' => entries'[obj'[p].id] = p
      <4> SUFFICES ASSUME ~Finished(p)' PROVE entries'[obj'[p].id] = p
        OBVIOUS
      <4>1. ~Finished(p)
        BY <3>1 DEF Finished
      <4>2. entries[obj[p].id] = p
        BY <3>1, <4>1
      <4>3. p # None
        BY <3>1, ManagerAssumption DEF Live
      <4>4. obj[p].id # i
        BY <4>2, <4>3
      <4> QED
        BY <1>4, <3>1, <3>2, <4>2, <4>4
    <3> QED
      BY <3>1, <3>2, <3>3 DEF ObjectInv
  <2> QED
    BY <2>1, <2>2
<1> QED
  BY <1>6, <1>10, <1>11, <1>12 DEF IInv, LoopInv

\* The entry the caller holds while it is in a call, and who may still run.
LEMMA CallerFacts ==
  ASSUME IInv
  PROVE  /\ caller.pc # "idle" => caller.entry \in Live
         /\ caller.pc = "idle" =>
              \A p \in Live : obj[p].loop # "new" /\ (~Finished(p) => entries[obj[p].id] = p)
BY DEF IInv, LoopInv, CallerInv, ObjectInv, Ending

\* Track of a container that is not tracked keeps the invariant.
LEMMA TrackNewStep ==
  ASSUME IInv, NEW i \in Ids, NEW h \in Checks, TrackNew(i, h)
  PROVE  IInv'
<1>1. caller.pc = "idle" /\ entries[i] = None /\ mgr' = mgr /\ tail' \in Nat
  BY DEF TrackNew, Begin, IInv, TypeOK
<1>2. PICK o \in Objs : NewEntry(obj, o, i, h)
  BY DEF TrackNew
<1>3. obj \in [Objs -> Object \cup {Free}] /\ \A p \in Objs : obj[p] # Free => p \in Live
  BY DEF IInv, TypeOK, Live
<1>4. \A j \in Ids : entries[j] # None => obj[entries[j]] # Free
  BY DEF IInv, LoopInv, MapInv, Live
<1>5. \A p \in Live : obj[p].loop # "new" /\ (~Finished(p) => entries[obj[p].id] = p)
  BY <1>1, CallerFacts
<1> QED
  BY <1>1, <1>2, <1>3, <1>4, <1>5, StoreKeeps

\* Track storing the new entry once the old loop has exited keeps the invariant.
LEMMA TrackReplaceStep ==
  ASSUME IInv, TrackReplace
  PROVE  IInv'
<1> DEFINE c == caller.entry
           heap == Drop(c)
<1>1. caller.pc = "trackWait" /\ Finished(c) /\ mgr' = mgr /\ tail' \in Nat
  BY DEF TrackReplace, IInv, TypeOK
<1>2. /\ c \in Live /\ c \in Objs /\ obj[c] \in Object
      /\ caller.check \in Checks /\ caller.id = obj[c].id /\ entries[caller.id] = None
  BY <1>1, LiveType DEF IInv, LoopInv, CallerInv, Ending
<1>3. caller.id \in Ids
  BY <1>2 DEF Object
<1>4. PICK o \in Objs : NewEntry(heap, o, caller.id, caller.check)
  BY DEF TrackReplace
<1>5. heap \in [Objs -> Object \cup {Free}] /\ heap[c] = Free
      /\ \A p \in Objs : p # c => heap[p] = obj[p]
  BY <1>2 DEF IInv, TypeOK, Drop
<1> HIDE DEF heap
<1>6. \A p \in Objs : heap[p] # Free => p \in Live /\ heap[p] = obj[p]
  BY <1>5 DEF Live
<1>7. \A j \in Ids : entries[j] # None => heap[entries[j]] # Free
  <2> SUFFICES ASSUME NEW j \in Ids, entries[j] # None PROVE heap[entries[j]] # Free
    OBVIOUS
  <2>1. entries[j] \in Live /\ obj[entries[j]].id = j
    BY DEF IInv, LoopInv, MapInv
  <2>2. entries[j] # c
    BY <1>2, <2>1
  <2> QED
    BY <1>5, <2>1, <2>2 DEF Live
<1>8. \A p \in Live : obj[p].loop # "new" /\ (~Finished(p) => entries[obj[p].id] = p)
  BY <1>1 DEF IInv, LoopInv, ObjectInv
<1> QED
  BY <1>1, <1>2, <1>3, <1>4, <1>5, <1>6, <1>7, <1>8, StoreKeeps

\* Track dropping and cancelling an entry with another check keeps the invariant.
LEMMA TrackChangedStep ==
  ASSUME IInv, NEW i \in Ids, NEW h \in Checks, TrackChanged(i, h)
  PROVE  IInv'
<1> DEFINE c == entries[i]
<1>1. /\ caller.pc = "idle" /\ c # None /\ mgr' = mgr /\ tail' \in Nat
      /\ obj' = [obj EXCEPT ![c].cancelled = TRUE]
      /\ caller' = [pc |-> "trackWait", entry |-> c, id |-> i, check |-> h]
      /\ entries' = [entries EXCEPT ![i] = None]
  BY DEF TrackChanged, Begin, IInv, TypeOK
<1>2. c \in Live /\ c \in Objs /\ obj[c] \in Object /\ obj[c].id = i
  BY <1>1, LiveType DEF IInv, LoopInv, MapInv
<1> HIDE DEF c
<1> DEFINE e == [obj[c] EXCEPT !.cancelled = TRUE]
<1>3. /\ e \in Object /\ e.id = i /\ e.check = obj[c].check /\ e.loop = obj[c].loop
      /\ e.streak = obj[c].streak /\ e.history = obj[c].history
  BY <1>2 DEF Object
<1>4. obj' = [obj EXCEPT ![c] = e]
  BY <1>1
<1> HIDE DEF e
<1>5. /\ obj'[c] = e /\ \A p \in Objs : p # c => obj'[p] = obj[p]
      /\ obj' \in [Objs -> Object \cup {Free}]
  BY <1>2, <1>3, <1>4 DEF IInv, TypeOK
<1>6. /\ entries'[i] = None /\ \A j \in Ids : j # i => entries'[j] = entries[j]
      /\ entries' \in [Ids -> Objs \cup {None}]
  BY <1>1 DEF IInv, TypeOK
<1>7. /\ caller' \in Caller /\ caller'.pc = "trackWait" /\ caller'.entry = c
      /\ caller'.id = i /\ caller'.check = h
  BY <1>1, <1>2 DEF Caller
<1>8. TypeOK'
  BY <1>1, <1>5, <1>6, <1>7 DEF IInv, TypeOK
<1>9. Live' = Live
  BY <1>2, <1>3, <1>5, FreeAssumption DEF Live
<1>10. \A p \in Live : /\ obj'[p].id = obj[p].id /\ obj'[p].check = obj[p].check
                       /\ obj'[p].loop = obj[p].loop /\ obj'[p].streak = obj[p].streak
                       /\ obj'[p].history = obj[p].history
  BY <1>2, <1>3, <1>5 DEF Live
<1>11. \A p \in Live : obj[p].loop # "new" /\ (~Finished(p) => entries[obj[p].id] = p)
  BY <1>1, CallerFacts
<1>12. MapInv'
  BY <1>6, <1>9, <1>10 DEF IInv, LoopInv, MapInv
<1>13. CallerInv'
  BY <1>2, <1>6, <1>7, <1>9, <1>10, <1>11 DEF CallerInv, Ending
<1>14. ASSUME NEW p \in Live' PROVE ObjectInv(p)'
  <2>1. p \in Live /\ ObjectInv(p) /\ obj[p] \in Object
    BY <1>9, LiveType DEF IInv, LoopInv
  <2>2. obj[p].id \in Ids
    BY <2>1 DEF Object
  <2>3. ~Finished(p)' => entries'[obj'[p].id] = p \/ p = c
    BY <1>6, <1>10, <1>11, <2>1, <2>2 DEF Finished, c
  <2> QED
    BY <1>7, <1>10, <1>11, <2>1, <2>3 DEF ObjectInv, Ending
<1> QED
  BY <1>8, <1>12, <1>13, <1>14 DEF IInv, LoopInv

\* Untrack taking an entry out of the map keeps the invariant.
LEMMA UntrackStep ==
  ASSUME IInv, NEW i \in Ids, Untrack(i)
  PROVE  IInv'
<1> DEFINE c == entries[i]
<1>1. /\ caller.pc = "idle" /\ c # None /\ UNCHANGED <<obj, mgr>> /\ tail' \in Nat
      /\ caller' = At("untrackCancel", c)
      /\ entries' = [entries EXCEPT ![i] = None]
  BY DEF Untrack, Begin, IInv, TypeOK
<1>2. c \in Live /\ c \in Objs /\ obj[c].id = i
  BY <1>1, LiveType DEF IInv, LoopInv, MapInv
<1>3. /\ entries'[i] = None /\ \A j \in Ids : j # i => entries'[j] = entries[j]
      /\ entries' \in [Ids -> Objs \cup {None}]
  BY <1>1 DEF IInv, TypeOK
<1> HIDE DEF c
<1>4. caller' \in Caller /\ caller'.pc = "untrackCancel" /\ caller'.entry = c
  BY <1>1, <1>2 DEF Caller, At
<1>5. TypeOK'
  BY <1>1, <1>3, <1>4 DEF IInv, TypeOK
<1>6. Live' = Live /\ obj' = obj
  BY <1>1 DEF Live
<1>7. \A p \in Live : obj[p].loop # "new" /\ (~Finished(p) => entries[obj[p].id] = p)
  BY <1>1, CallerFacts
<1>8. MapInv'
  BY <1>3, <1>6 DEF IInv, LoopInv, MapInv
<1>9. CallerInv'
  BY <1>2, <1>3, <1>4, <1>6, <1>7 DEF CallerInv, Ending
<1>10. ASSUME NEW p \in Live' PROVE ObjectInv(p)'
  <2>1. p \in Live /\ ObjectInv(p) /\ obj[p] \in Object
    BY <1>6, LiveType DEF IInv, LoopInv
  <2>2. obj[p].id \in Ids
    BY <2>1 DEF Object
  <2>3. ~Finished(p)' => entries'[obj'[p].id] = p \/ p = c
    BY <1>3, <1>6, <1>7, <2>1, <2>2 DEF Finished, c
  <2> QED
    BY <1>4, <1>6, <1>7, <2>1, <2>3 DEF ObjectInv, Ending
<1> QED
  BY <1>5, <1>8, <1>9, <1>10 DEF IInv, LoopInv

\* wg.Go at the end of Track keeps the invariant.
LEMMA TrackGoStep ==
  ASSUME IInv, TrackGo
  PROVE  IInv'
<1> DEFINE c == caller.entry
           e == [obj[c] EXCEPT !.loop = "start"]
<1>1. /\ caller.pc = "trackGo" /\ caller' = Idle /\ UNCHANGED <<entries, mgr, tail>>
      /\ obj' = [obj EXCEPT ![c] = e]
  BY DEF TrackGo
<1>2. c \in Live /\ c \in Objs /\ obj[c] \in Object /\ entries[obj[c].id] = c
      /\ obj[c].loop = "new"
  BY <1>1, LiveType DEF IInv, LoopInv, CallerInv
<1>3. /\ e \in Object /\ e.id = obj[c].id /\ e.check = obj[c].check /\ e.loop = "start"
      /\ e.streak = obj[c].streak /\ e.history = obj[c].history
  BY <1>2 DEF Object
<1> HIDE DEF e
<1>4. /\ obj'[c] = e /\ \A p \in Objs : p # c => obj'[p] = obj[p]
      /\ obj' \in [Objs -> Object \cup {Free}]
  BY <1>1, <1>2, <1>3 DEF IInv, TypeOK
<1>5. TypeOK'
  BY <1>1, <1>4, IdleType DEF IInv, TypeOK
<1>6. Live' = Live
  BY <1>2, <1>3, <1>4, FreeAssumption DEF Live
<1>7. MapInv'
  BY <1>1, <1>3, <1>4, <1>6 DEF IInv, LoopInv, MapInv, Live
<1>8. CallerInv'
  BY <1>1, IdleType DEF CallerInv, Ending
<1>9. ASSUME NEW p \in Live' PROVE ObjectInv(p)'
  <2>1. p \in Live /\ ObjectInv(p)
    BY <1>6 DEF IInv, LoopInv
  <2>2. ObjectInv(c)
    BY <1>2 DEF IInv, LoopInv
  <2>3. CASE p = c
    BY <1>1, <1>2, <1>3, <1>4, <2>2, <2>3 DEF ObjectInv, Finished
  <2>4. CASE p # c
    BY <1>1, <1>4, <2>1, <2>4 DEF ObjectInv, Finished, Live, Ending
  <2> QED
    BY <2>3, <2>4
<1> QED
  BY <1>5, <1>7, <1>8, <1>9 DEF IInv, LoopInv

\* Untrack's cancel, after the mutex is released, keeps the invariant.
LEMMA UntrackCancelStep ==
  ASSUME IInv, UntrackCancel
  PROVE  IInv'
<1> DEFINE c == caller.entry
           e == [obj[c] EXCEPT !.cancelled = TRUE]
<1>1. /\ caller.pc = "untrackCancel" /\ caller' = At("untrackWait", c)
      /\ UNCHANGED <<entries, mgr, tail>> /\ obj' = [obj EXCEPT ![c] = e]
  BY DEF UntrackCancel
<1>2. c \in Live /\ c \in Objs /\ obj[c] \in Object /\ entries[obj[c].id] = None
      /\ obj[c].loop # "new"
  BY <1>1, LiveType DEF IInv, LoopInv, CallerInv, Ending
<1>3. /\ e \in Object /\ e.id = obj[c].id /\ e.check = obj[c].check /\ e.loop = obj[c].loop
      /\ e.streak = obj[c].streak /\ e.history = obj[c].history
  BY <1>2 DEF Object
<1> HIDE DEF e
<1>4. /\ obj'[c] = e /\ \A p \in Objs : p # c => obj'[p] = obj[p]
      /\ obj' \in [Objs -> Object \cup {Free}]
  BY <1>1, <1>2, <1>3 DEF IInv, TypeOK
<1>5. caller' \in Caller /\ caller'.pc = "untrackWait" /\ caller'.entry = c
  BY <1>1, <1>2 DEF Caller, At
<1>6. TypeOK'
  BY <1>1, <1>4, <1>5 DEF IInv, TypeOK
<1>7. Live' = Live
  BY <1>2, <1>3, <1>4, FreeAssumption DEF Live
<1>8. MapInv'
  BY <1>1, <1>3, <1>4, <1>7 DEF IInv, LoopInv, MapInv, Live
<1>9. CallerInv'
  BY <1>1, <1>2, <1>3, <1>4, <1>5, <1>7 DEF CallerInv, Ending
<1>10. ASSUME NEW p \in Live' PROVE ObjectInv(p)'
  <2>1. p \in Live /\ ObjectInv(p)
    BY <1>7 DEF IInv, LoopInv
  <2>2. CASE p = c
    BY <1>1, <1>2, <1>3, <1>4, <1>5, <2>1, <2>2 DEF ObjectInv, Finished, Ending
  <2>3. CASE p # c
    BY <1>1, <1>4, <1>5, <2>1, <2>3 DEF ObjectInv, Finished, Live, Ending
  <2> QED
    BY <2>2, <2>3
<1> QED
  BY <1>6, <1>8, <1>9, <1>10 DEF IInv, LoopInv

\* Untrack's return, once the loop has closed done, keeps the invariant.
LEMMA UntrackDoneStep ==
  ASSUME IInv, UntrackDone
  PROVE  IInv'
<1> DEFINE c == caller.entry
<1>1. /\ caller.pc = "untrackWait" /\ Finished(c) /\ caller' = Idle
      /\ UNCHANGED <<entries, mgr, tail>> /\ obj' = [obj EXCEPT ![c] = Free]
  BY DEF UntrackDone, Drop
<1>2. c \in Live /\ c \in Objs /\ entries[obj[c].id] = None
  BY <1>1, LiveType DEF IInv, LoopInv, CallerInv, Ending
<1>3. /\ obj'[c] = Free /\ \A p \in Objs : p # c => obj'[p] = obj[p]
      /\ obj' \in [Objs -> Object \cup {Free}]
  BY <1>1, <1>2 DEF IInv, TypeOK
<1>4. TypeOK'
  BY <1>1, <1>3, IdleType DEF IInv, TypeOK
<1>5. Live' = Live \ {c}
  BY <1>3 DEF Live
<1>6. MapInv'
  <2> SUFFICES ASSUME NEW j \in Ids, entries'[j] # None
               PROVE  entries'[j] \in Live' /\ obj'[entries'[j]].id = j
    BY DEF MapInv
  <2>1. entries[j] \in Live /\ obj[entries[j]].id = j /\ entries'[j] = entries[j]
    BY <1>1 DEF IInv, LoopInv, MapInv
  <2>2. entries[j] # c
    BY <1>1, <1>2, <2>1
  <2> QED
    BY <1>3, <1>5, <2>1, <2>2 DEF Live
<1>7. CallerInv'
  BY <1>1, IdleType DEF CallerInv, Ending
<1>8. ASSUME NEW p \in Live' PROVE ObjectInv(p)'
  <2>1. p \in Live /\ p # c /\ obj'[p] = obj[p] /\ ObjectInv(p)
    BY <1>3, <1>5 DEF IInv, LoopInv, Live
  <2> QED
    BY <1>1, <2>1 DEF ObjectInv, Finished, Ending
<1> QED
  BY <1>4, <1>6, <1>7, <1>8 DEF IInv, LoopInv

\* Whatever is preserved only reads entries, obj and caller.
LEMMA FramesKeep ==
  ASSUME IInv, UNCHANGED <<entries, obj, caller, tail>>, mgr' \in {"up", "cancelled", "stopped"}
  PROVE  IInv'
<1>1. TypeOK'
  BY DEF IInv, TypeOK
<1>2. Live' = Live /\ MapInv' /\ CallerInv'
  BY DEF IInv, LoopInv, MapInv, CallerInv, Live
<1>3. \A p \in Live' : ObjectInv(p)'
  BY <1>2 DEF IInv, LoopInv, ObjectInv, Finished
<1> QED
  BY <1>1, <1>2, <1>3 DEF IInv, LoopInv

\* NewWithOptions: an empty map, nothing in memory.
LEMMA InitIInv == Init => IInv
<1> SUFFICES ASSUME Init PROVE IInv
  OBVIOUS
<1>1. TypeOK
  BY ManagerAssumption, IdleType DEF Init, TypeOK
<1>2. Live = {}
  BY DEF Init, Live
<1> QED
  BY <1>1, <1>2, IdleType DEF Init, IInv, LoopInv, MapInv, CallerInv, Ending

\* Every step of the caller, of a loop and of Run keeps the invariant.
LEMMA NextIInv == IInv /\ [Next]_vars => IInv'
<1> SUFFICES ASSUME IInv, [Next]_vars PROVE IInv'
  OBVIOUS
<1>1. CASE \E i \in Ids : Untrack(i)
  BY <1>1, UntrackStep
<1>2. CASE \E i \in Ids, h \in Checks : TrackNew(i, h)
  BY <1>2, TrackNewStep
<1>3. CASE \E i \in Ids, h \in Checks : TrackChanged(i, h)
  BY <1>3, TrackChangedStep
<1>4. CASE CallerStep
  BY <1>4, TrackReplaceStep, TrackGoStep, UntrackCancelStep, UntrackDoneStep DEF CallerStep
<1>5. CASE \E o \in Live : Loop(o)
  BY <1>5, LoopStep
<1>6. CASE Shutdown \/ RunReturns
  BY <1>6, FramesKeep DEF Shutdown, RunReturns
<1>7. CASE UNCHANGED vars
  BY <1>7, FramesKeep DEF vars, IInv, TypeOK
<1> QED
  BY <1>1, <1>2, <1>3, <1>4, <1>5, <1>6, <1>7 DEF Next

-----------------------------------------------------------------------------
(* The theorems. *)

\* The inductive invariant holds in every state of the manager.
LEMMA IInvHolds == Spec => []IInv
BY InitIInv, NextIInv, PTL DEF Spec

\* The probe manager's variables keep their types (internal/probe/manager.go):
\* in particular History.Append never lets the ring buffer grow past its cap.
THEOREM TypeCorrect == Spec => []TypeOK
<1>1. IInv => TypeOK
  BY DEF IInv
<1> QED
  BY <1>1, IInvHolds, PTL

\* Track and Untrack account for every loop they start, for any number of
\* containers and however calls, loops and the shutdown interleave.
THEOREM LoopsAccountedFor == Spec => []LoopInv
<1>1. IInv => LoopInv
  BY DEF IInv
<1> QED
  BY <1>1, IInvHolds, PTL

\* At most one probeLoop runs per container: two running loops of one container
\* would both be the map's entry for it, or one be the map's while the caller
\* has just emptied that place.
THEOREM OneLoop == Spec => []OneLoopPerContainer
<1>1. IInv => OneLoopPerContainer
  <2> SUFFICES ASSUME IInv, NEW o \in Live, NEW p \in Live,
                      Running(o), Running(p), obj[o].id = obj[p].id
               PROVE  o = p
    BY DEF OneLoopPerContainer
  <2>1. ~Finished(o) /\ ~Finished(p)
    BY DEF Running, Finished
  <2>2. ObjectInv(o) /\ ObjectInv(p) /\ CallerInv
    BY DEF IInv, LoopInv
  <2>3. o # None /\ p # None
    BY ManagerAssumption DEF Live
  <2> QED
    BY <2>1, <2>2, <2>3 DEF ObjectInv, CallerInv
<1> QED
  BY <1>1, IInvHolds, PTL

-----------------------------------------------------------------------------
(* The manager implements the register. *)

\* What a caller reads of container i.
View(i) == IF entries[i] = None THEN Untracked
           ELSE [check |-> obj[entries[i]].check, ok |-> obj[entries[i]].ok,
                 streak |-> obj[entries[i]].streak]

\* The register is the function of what is read of each container.
LEMMA RegIsView == Reg = [i \in Ids |-> View(i)]
BY DEF Reg, View

\* A tracked container has a record, never Untracked.
LEMMA TrackedView ==
  ASSUME IInv, NEW i \in Ids, entries[i] # None
  PROVE  View(i) # Untracked /\ View(i).check = obj[entries[i]].check
<1>1. entries[i] \in Live /\ obj[entries[i]] \in Object
  BY LiveType DEF IInv, LoopInv, MapInv
<1>2. View(i) \in [check: Checks, ok: BOOLEAN, streak: Nat]
  BY <1>1, ManagerAssumption DEF View, Object
<1> QED
  BY <1>2, UntrackedAssumption DEF View

\* A step that changes what is read of one container only.
LEMMA OneView ==
  ASSUME NEW i \in Ids, NEW v, View(i)' = v, \A j \in Ids : j # i => View(j)' = View(j)
  PROVE  Reg' = [Reg EXCEPT ![i] = v]
<1>1. Reg' = [j \in Ids |-> View(j)']
  BY DEF Reg, View
<1>2. Reg = [j \in Ids |-> View(j)]
  BY RegIsView
<1> QED
  BY <1>1, <1>2

\* A step that changes nothing a caller can read.
LEMMA SameViews ==
  ASSUME \A j \in Ids : View(j)' = View(j)
  PROVE  Reg' = Reg
<1>1. Reg' = [j \in Ids |-> View(j)'] /\ Reg = [j \in Ids |-> View(j)]
  BY DEF Reg, View
<1> QED
  BY <1>1

\* Storing a fresh entry is the register's Track.
LEMMA StoreIsTrack ==
  ASSUME IInv, NEW heap \in [Objs -> Object \cup {Free}], NEW i \in Ids, NEW h \in Checks,
         NEW o \in Objs, NewEntry(heap, o, i, h), entries[i] = None,
         \A j \in Ids : entries[j] # None => heap[entries[j]] # Free
                                             /\ heap[entries[j]] = obj[entries[j]]
  PROVE  Register!Track(i, h)
<1> DEFINE n == NewObject(i, h)
<1>1. n.check = h /\ n.ok = (h = NoHealth) /\ n.streak = 0
  BY NewObjectType
<1>2. obj' = [heap EXCEPT ![o] = n] /\ entries' = [entries EXCEPT ![i] = o] /\ heap[o] = Free
  BY DEF NewEntry
<1> HIDE DEF n
<1>3. obj'[o] = n /\ \A p \in Objs : p # o => obj'[p] = heap[p]
  BY <1>2
<1>4. entries'[i] = o /\ \A j \in Ids : j # i => entries'[j] = entries[j]
  BY <1>2 DEF IInv, TypeOK
<1>5. o # None
  BY ManagerAssumption
<1>6. View(i)' = [check |-> h, ok |-> h = NoHealth, streak |-> 0]
  BY <1>1, <1>3, <1>4, <1>5 DEF View
<1>7. \A j \in Ids : j # i => View(j)' = View(j)
  BY <1>2, <1>3, <1>4 DEF View, IInv, TypeOK
<1>8. Reg' = [Reg EXCEPT ![i] = [check |-> h, ok |-> h = NoHealth, streak |-> 0]]
  BY <1>6, <1>7, OneView
<1>9. Reg[i] = Untracked
  BY RegIsView DEF View
<1> QED
  BY <1>8, <1>9 DEF Register!Track, Register!Fresh

\* Emptying a place of the map is the register's Untrack, whatever else
\* happens to the entry that was there.
LEMMA ClearIsUntrack ==
  ASSUME IInv, NEW i \in Ids, entries[i] # None, entries' = [entries EXCEPT ![i] = None],
         \A p \in Live : p # entries[i] => obj'[p] = obj[p]
  PROVE  Register!Untrack(i)
<1>1. entries'[i] = None /\ \A j \in Ids : j # i => entries'[j] = entries[j]
  BY DEF IInv, TypeOK
<1>2. View(i)' = Untracked
  BY <1>1 DEF View
<1>3. \A j \in Ids : j # i => View(j)' = View(j)
  <2> SUFFICES ASSUME NEW j \in Ids, j # i PROVE View(j)' = View(j)
    OBVIOUS
  <2>1. CASE entries[j] = None
    BY <1>1, <2>1 DEF View
  <2>2. CASE entries[j] # None
    <3>1. entries[j] \in Live /\ entries[j] # entries[i]
      BY <2>2 DEF IInv, LoopInv, MapInv
    <3> QED
      BY <1>1, <3>1 DEF View
  <2> QED
    BY <2>1, <2>2
<1>4. Reg' = [Reg EXCEPT ![i] = Untracked]
  BY <1>2, <1>3, OneView
<1>5. Reg[i] # Untracked
  BY RegIsView, TrackedView
<1> QED
  BY <1>4, <1>5 DEF Register!Untrack

\* A step that leaves the map and the snapshots alone is a stutter.
LEMMA QuietStutters ==
  ASSUME IInv, entries' = entries,
         \A j \in Ids : entries[j] # None =>
           /\ obj'[entries[j]].check = obj[entries[j]].check
           /\ obj'[entries[j]].ok = obj[entries[j]].ok
           /\ obj'[entries[j]].streak = obj[entries[j]].streak
  PROVE  Reg' = Reg
<1>1. \A j \in Ids : View(j)' = View(j)
  BY DEF View
<1> QED
  BY <1>1, SameViews

\* A change of loop or cancelled changes no snapshot.
LEMMA FieldStutters ==
  ASSUME IInv, NEW o \in Live, entries' = entries,
         \/ obj' = [obj EXCEPT ![o].loop = "start"]
         \/ obj' = [obj EXCEPT ![o].loop = "probing"]
         \/ obj' = [obj EXCEPT ![o].loop = "done"]
         \/ obj' = [obj EXCEPT ![o].cancelled = TRUE]
  PROVE  Reg' = Reg
<1>1. o \in Objs /\ obj[o] \in Object
  BY LiveType DEF IInv
<1>2. \A p \in Objs : p # o => obj'[p] = obj[p]
  BY <1>1 DEF IInv, TypeOK
<1>3. /\ obj'[o].check = obj[o].check /\ obj'[o].ok = obj[o].ok
      /\ obj'[o].streak = obj[o].streak
  BY <1>1 DEF IInv, TypeOK, Object
<1>4. \A j \in Ids : entries[j] # None => entries[j] \in Objs
  BY DEF IInv, TypeOK
<1> QED
  BY <1>2, <1>3, <1>4, QuietStutters

\* A result is the register's Result when the loop's entry is still the map's,
\* and is read by nobody when it is not.
LEMMA RecordIsResult ==
  ASSUME IInv, NEW o \in Live, Record(o)
  PROVE  Reg' = Reg \/ \E i \in Ids, b \in BOOLEAN : Register!Result(i, b)
<1>1. o \in Objs /\ obj[o] \in Object /\ ObjectInv(o) /\ o # None
  BY LiveType, ManagerAssumption DEF IInv, LoopInv, Live
<1>2. PICK b \in BOOLEAN :
        obj' = [obj EXCEPT ![o] = [Recorded(obj[o], b) EXCEPT !.loop = "waiting"]]
  BY DEF Record
<1> DEFINE r == Recorded(obj[o], b)
           e == [r EXCEPT !.loop = "waiting"]
           s == IF b THEN 0 ELSE IF obj[o].streak < HistoryCap THEN obj[o].streak + 1
                                 ELSE obj[o].streak
<1>3. r \in Object /\ r.check = obj[o].check /\ r.ok = b /\ r.streak = s
  BY <1>1, RecordedType DEF ObjectInv
<1> HIDE DEF r, s
<1>4. e.check = obj[o].check /\ e.ok = b /\ e.streak = s
  BY <1>3 DEF Object
<1>5. obj' = [obj EXCEPT ![o] = e]
  BY <1>2 DEF r
<1> HIDE DEF e
<1>6. obj'[o] = e /\ \A p \in Objs : p # o => obj'[p] = obj[p]
  BY <1>1, <1>5 DEF IInv, TypeOK
<1>13. PICK i \in Ids : i = obj[o].id
  BY <1>1 DEF Object
<1>7. entries' = entries
  BY DEF Record
<1>8. \A j \in Ids : entries[j] = o => j = i
  BY <1>1, <1>13 DEF IInv, LoopInv, MapInv
<1>9. \A j \in Ids : entries[j] # None => entries[j] \in Objs
  BY DEF IInv, TypeOK
<1>10. \A j \in Ids : j # i => View(j)' = View(j)
  BY <1>6, <1>7, <1>8, <1>9 DEF View
<1>11. CASE entries[i] # o
  <2>1. View(i)' = View(i)
    BY <1>6, <1>7, <1>9, <1>11 DEF View
  <2> QED
    BY <1>10, <2>1, SameViews
<1>12. CASE entries[i] = o
  <2>1. View(i)' = [check |-> obj[o].check, ok |-> b, streak |-> s]
    BY <1>1, <1>4, <1>6, <1>7, <1>12 DEF View
  <2>2. Reg[i] = View(i) /\ View(i) # Untracked
        /\ View(i) = [check |-> obj[o].check, ok |-> obj[o].ok, streak |-> obj[o].streak]
    BY <1>1, <1>7, <1>12, RegIsView, TrackedView DEF View
  <2>3. obj[o].check # NoHealth
    BY <1>1 DEF ObjectInv, Record
  <2>4. Register!Recorded(Reg[i], b) = [check |-> obj[o].check, ok |-> b, streak |-> s]
    BY <2>2 DEF Register!Recorded, s
  <2>5. Reg' = [Reg EXCEPT ![i] = [check |-> obj[o].check, ok |-> b, streak |-> s]]
    BY <1>7, <1>10, <2>1, OneView
  <2>6. Register!Result(i, b)
    <3>1. Reg[i] # Untracked /\ Reg[i].check # NoHealth
      BY <2>2, <2>3
    <3>2. Reg' = [Reg EXCEPT ![i] = Register!Recorded(Reg[i], b)]
      BY <2>4, <2>5
    <3> QED
      BY <3>1, <3>2 DEF Register!Result
  <2> QED
    BY <1>7, <2>6
<1> QED
  BY <1>11, <1>12

\* Every step of the manager is a step of the register or changes nothing of it.
LEMMA StepRefines == IInv /\ [Next]_vars => [Register!Next]_Reg
<1> SUFFICES ASSUME IInv, [Next]_vars PROVE Register!Next \/ Reg' = Reg
  OBVIOUS
<1> USE DEF Register!Next
<1>1. ASSUME NEW i \in Ids, Untrack(i) PROVE Register!Untrack(i)
  BY <1>1, ClearIsUntrack DEF Untrack
<1>2. ASSUME NEW i \in Ids, NEW h \in Checks, TrackChanged(i, h) PROVE Register!Untrack(i)
  <2>1. entries[i] # None /\ obj' = [obj EXCEPT ![entries[i]].cancelled = TRUE]
        /\ entries' = [entries EXCEPT ![i] = None]
    BY <1>2 DEF TrackChanged
  <2>2. \A p \in Live : p # entries[i] => obj'[p] = obj[p]
    BY <2>1 DEF IInv, TypeOK, Live
  <2> QED
    BY <2>1, <2>2, ClearIsUntrack
<1>3. ASSUME NEW i \in Ids, NEW h \in Checks, TrackNew(i, h) PROVE Register!Track(i, h)
  <2>1. PICK o \in Objs : NewEntry(obj, o, i, h)
    BY <1>3 DEF TrackNew
  <2>2. \A j \in Ids : entries[j] # None => obj[entries[j]] # Free
    BY DEF IInv, LoopInv, MapInv, Live
  <2> QED
    BY <1>3, <2>1, <2>2, StoreIsTrack DEF TrackNew, IInv, TypeOK
<1>4. CASE TrackReplace
  <2> DEFINE c == caller.entry
             heap == Drop(c)
  <2>1. /\ c \in Live /\ c \in Objs /\ obj[c] \in Object
        /\ caller.check \in Checks /\ caller.id = obj[c].id /\ entries[caller.id] = None
    BY <1>4, LiveType DEF TrackReplace, IInv, LoopInv, CallerInv, Ending
  <2>2. caller.id \in Ids
    BY <2>1 DEF Object
  <2>3. PICK o \in Objs : NewEntry(heap, o, caller.id, caller.check)
    BY <1>4 DEF TrackReplace
  <2>4. heap \in [Objs -> Object \cup {Free}] /\ \A p \in Objs : p # c => heap[p] = obj[p]
    BY <2>1 DEF IInv, TypeOK, Drop
  <2> HIDE DEF heap
  <2>5. \A j \in Ids : entries[j] # None =>
          entries[j] \in Objs /\ entries[j] # c /\ obj[entries[j]] # Free
    BY <2>1 DEF IInv, LoopInv, MapInv, Live
  <2>6. \A j \in Ids : entries[j] # None =>
          heap[entries[j]] # Free /\ heap[entries[j]] = obj[entries[j]]
    BY <2>4, <2>5
  <2> QED
    BY <2>1, <2>2, <2>3, <2>4, <2>6, StoreIsTrack
<1>5. CASE TrackGo
  BY <1>5, CallerFacts, FieldStutters DEF TrackGo
<1>6. CASE UntrackCancel
  BY <1>6, CallerFacts, FieldStutters DEF UntrackCancel
<1>7. CASE UntrackDone
  <2>1. caller.entry \in Live /\ entries[obj[caller.entry].id] = None
        /\ entries' = entries /\ obj' = [obj EXCEPT ![caller.entry] = Free]
    BY <1>7 DEF UntrackDone, Drop, IInv, LoopInv, CallerInv, Ending
  <2>2. \A j \in Ids : entries[j] # None => entries[j] \in Objs /\ entries[j] # caller.entry
    BY <2>1 DEF IInv, LoopInv, MapInv, Live
  <2>3. \A p \in Objs : p # caller.entry => obj'[p] = obj[p]
    BY <2>1 DEF IInv, TypeOK
  <2> QED
    BY <2>1, <2>2, <2>3, QuietStutters
<1>8. ASSUME NEW o \in Live, Loop(o) PROVE Register!Next \/ Reg' = Reg
  <2>1. CASE Record(o)
    BY <2>1, RecordIsResult
  <2>2. CASE LoopStart(o) \/ LoopReturns(o) \/ LoopTick(o) \/ LoopExit(o)
    BY <2>2, FieldStutters DEF LoopStart, LoopReturns, LoopTick, LoopExit
  <2> QED
    BY <1>8, <2>1, <2>2 DEF Loop
<1>9. CASE Shutdown \/ RunReturns \/ UNCHANGED vars
  BY <1>9, QuietStutters DEF Shutdown, RunReturns, vars
<1> QED
  BY <1>1, <1>2, <1>3, <1>4, <1>5, <1>6, <1>7, <1>8, <1>9 DEF Next, CallerStep

\* The probe manager implements the register its callers take it for
\* (manager.go Track, Untrack, Snapshot and recordResult), with histories and
\* sets of containers of any size: no result of a cancelled or replaced loop is
\* ever read, and the streak counts failures since the last success.
THEOREM ManagerIsRegister == Spec => ImplementsRegister
<1>1. Init => Register!Init
  BY DEF Init, Register!Init, Reg
<1>2. IInv /\ [Next]_vars => [Register!Next]_Reg
  BY StepRefines
<1> QED
  BY <1>1, <1>2, IInvHolds, PTL DEF Spec, ImplementsRegister, Register!Spec
=============================================================================
