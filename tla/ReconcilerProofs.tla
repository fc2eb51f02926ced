-------------------------- MODULE ReconcilerProofs --------------------------
(* Theorems about the reconciler, for every value of the constants. *)
EXTENDS Reconciler, TLAPS, FiniteSetTheorems

-----------------------------------------------------------------------------
(* Facts about the operators the actions are built from. *)

\* The labels of a container made from a stored spec are those of a container.
LEMMA HashType == \A spec \in Specs : Hash(spec) \in HashSet
BY DEF HashSet

\* Whatever Track does with an entry, the result is one.
LEMMA TrackType ==
  ASSUME NEW ps \in [Ids -> Entry \cup {Untracked}], NEW i \in Ids, NEW spec \in Specs
  PROVE  Track(ps, i, spec) \in Entry
<1>1. spec.health \in Checks
  BY SpecsAssumption DEF TaskDef
<1>2. 0 \in 0 .. HistoryCap
  BY BoundsAssumption
<1>3. CASE ps[i] # Untracked /\ ps[i].check = HashSpec(spec)
  BY <1>3 DEF Track
<1>4. CASE ~(ps[i] # Untracked /\ ps[i].check = HashSpec(spec))
  <2>1. Track(ps, i, spec) =
          [check |-> spec.health, ok |-> (spec.health = NoHealth), streak |-> 0,
           passed |-> (spec.health = NoHealth), alive |-> TRUE]
    BY <1>4 DEF Track, HashSpec
  <2>2. (spec.health = NoHealth) \in BOOLEAN
    OBVIOUS
  <2> QED
    BY <1>1, <1>2, <2>1, <2>2 DEF Entry
<1> QED
  BY <1>3, <1>4

\* Recording a result keeps the streak within the history.
LEMMA RecordResultType ==
  ASSUME NEW e \in Entry, NEW healthy \in BOOLEAN
  PROVE  RecordResult(e, healthy) \in Entry
<1>1. e.streak \in 0 .. HistoryCap /\ HistoryCap \in Nat
  BY BoundsAssumption DEF Entry
<1>2. (IF healthy THEN 0 ELSE IF e.streak < HistoryCap THEN e.streak + 1 ELSE e.streak)
         \in 0 .. HistoryCap
  BY <1>1
<1>3. (e.passed \/ healthy) \in BOOLEAN
  OBVIOUS
<1> QED
  BY <1>2, <1>3 DEF RecordResult, Entry

\* A probe answers with a verdict.
LEMMA AnswersType ==
  ASSUME TypeOK, NEW i \in Ids, probes[i] \in Entry
  PROVE  Answers(i) \subseteq BOOLEAN
<1>1. CASE ctr[i] # NoContainer /\ ctr[i].state = "running"
  <2>1. ctr[i] \in Container
    BY <1>1 DEF TypeOK
  <2>2. ctr[i].hash.image \in Images
    BY <2>1, SpecsAssumption DEF Container, HashSet, Hash, TaskDef
  <2>3. probes[i].check \in Checks
    BY DEF Entry
  <2>4. <<ctr[i].hash.image, probes[i].check>> \in Images \X Checks
    BY <2>2, <2>3
  <2> QED
    BY <1>1, <2>4, OutcomesAssumption DEF Answers
<1>2. CASE ~(ctr[i] # NoContainer /\ ctr[i].state = "running")
  BY <1>2 DEF Answers
<1> QED
  BY <1>1, <1>2

\* Aggregate answers with a status.
LEMMA AggregateType == \A n, snaps : Aggregate(n, snaps) \in Statuses
BY DEF Aggregate, Statuses

\* Every action Compute produces is one.
LEMMA ComputeType ==
  ASSUME NEW d \in [Services -> Row \cup {NoRow}],
         NEW cs \in [Ids -> Container \cup {NoContainer}],
         NEW bad, NEW m \in ActualMaps(cs, bad)
  PROVE  Compute(d, cs, bad, m) \subseteq Action
<1>1. m \in [Slots -> Ids \cup {NoId}]
  BY DEF ActualMaps
<1>2. \A i \in Listed(cs) : i \in Ids /\ cs[i] \in Container
  BY DEF Listed
<1>3. \A i \in Listed(cs) : RemoveOf(cs, i) \in Action
  BY <1>2 DEF RemoveOf, Action, Container
<1>4. \A k \in Slots : WantedBy(d, k) => d[k[1]] \in Row /\ d[k[1]].spec \in Specs
  BY DEF WantedBy, Slots, Row
<1>5. \A k \in Slots : k[1] \in Services /\ k[2] \in Replicas
  BY DEF Slots
<1>6. \A k \in Slots : WantedBy(d, k) => CreateOf(d, k) \in Action
  BY <1>4, <1>5 DEF CreateOf, Action
<1>7. \A k \in Slots, i \in Ids : WantedBy(d, k) => ReplaceOf(d, k, i) \in Action
  BY <1>4, <1>5 DEF ReplaceOf, Action
<1>8. \A k \in Slots : m[k] # NoId => m[k] \in Listed(cs)
  <2>1. TAKE k \in Slots
  <2>2. HAVE m[k] # NoId
  <2>3. m[k] \in Occupants(cs, bad, k)
    BY <2>2 DEF ActualMaps
  <2> QED
    BY <2>3 DEF Occupants, Active
<1>9. \A i \in Listed(cs) : i \in Ids
  BY <1>2
<1> QED
  BY <1>3, <1>6, <1>7, <1>8, <1>9 DEF Compute

-----------------------------------------------------------------------------
(* Type correctness. *)

\* The initial state, a fresh server on an empty daemon, is well typed.
LEMMA InitType == Init => TypeOK
BY BudgetAssumption DEF Init, TypeOK, NoRows, NoContainers, NoAction, Kinds

\* What a new container looks like once CreateContainer has run.
LEMMA CreateType ==
  ASSUME TypeOK, NEW a \in Action, a.spec \in Specs, NEW i \in Ids,
         NEW name \in {"canonical", "new"}, CreateContainer(a, i, name)
  PROVE  /\ ctr' \in [Ids -> Container \cup {NoContainer}]
         /\ probes' \in [Ids -> Entry \cup {Untracked}]
         /\ new' \in Ids \cup {NoId}
<1>1. [svc |-> a.svc, replica |-> a.replica, hash |-> Hash(a.spec), name |-> name,
       state |-> "created"] \in Container
  BY HashType DEF Container, Action
<1> QED
  BY <1>1 DEF CreateContainer, TypeOK

\* RemoveContainer keeps the daemon well typed.
LEMMA RemoveType ==
  ASSUME TypeOK, NEW i, RemoveContainer(i)
  PROVE  ctr' \in [Ids -> Container \cup {NoContainer}]
BY DEF RemoveContainer, TypeOK

\* StartContainer keeps the daemon well typed.
LEMMA StartType ==
  ASSUME TypeOK, NEW i \in Ids, ctr[i] # NoContainer, StartContainer(i)
  PROVE  ctr' \in [Ids -> Container \cup {NoContainer}]
<1>1. ctr[i] \in Container
  BY DEF TypeOK
<1>2. [ctr[i] EXCEPT !.state = "running"] \in Container
  BY <1>1 DEF Container
<1> QED
  BY <1>2 DEF StartContainer, TypeOK

\* Spending from the budget keeps it a function into the naturals.
LEMMA SpendType == ASSUME TypeOK, NEW kind \in Kinds, Spend(kind)
                   PROVE  budget' \in [Kinds -> Nat]
BY DEF Spend, TypeOK

\* A refused call keeps the budget well typed.
LEMMA FaultType == ASSUME TypeOK, NEW call, Fault(call)
                   PROVE  budget' \in [Kinds -> Nat]
BY SpendType DEF Fault, Kinds

\* A call that succeeds keeps the budget well typed.
LEMMA NoFaultType == ASSUME TypeOK, NoFault PROVE budget' \in [Kinds -> Nat]
BY DEF NoFault, TypeOK

\* The fields that a step of the reconciler at the end of an action resets.
LEMMA DoneType ==
  ASSUME Done
  PROVE  /\ pc' = "act" /\ cur' \in Action \cup {NoAction} /\ new' \in Ids \cup {NoId}
BY DEF Done

\* The end of a tick resets the reconciler's locals to typed values.
LEMMA EndTickType ==
  ASSUME EndTick
  PROVE  /\ pc' = "idle" /\ cur' \in Action \cup {NoAction} /\ new' \in Ids \cup {NoId}
         /\ desired' \in [Services -> Row \cup {NoRow}]
         /\ actual' \in [Ids -> Container \cup {NoContainer}]
         /\ todo' \subseteq Action
BY DEF EndTick, NoRows, NoContainers

\* What a planned action carries and targets.
LEMMA PlannedAction ==
  ASSUME TypeOK, PlanInv, NEW a \in todo
  PROVE  /\ a \in Action
         /\ a.type \in {"create", "replace"} => a.spec \in Specs
         /\ a.type \in {"remove", "replace"} =>
              a.id \in Ids /\ ctr[a.id] # NoContainer /\ ctr[a.id] \in Container
BY DEF TypeOK, PlanInv, CarriesDesired, TargetsSlot

\* Every step of the reconciler keeps the types.
LEMMA ReconcilerStepType ==
  ASSUME RolloutInv, ReconcilerStep
  PROVE  TypeOK'
<1> USE DEF RolloutInv
<1>1. CASE Plan
  <2>1. PICK m \in ActualMaps(ctr, ProbeUnhealthySet(row, ctr)) :
          todo' = Compute(row, ctr, ProbeUnhealthySet(row, ctr), m)
    BY <1>1 DEF Plan
  <2>2. todo' \subseteq Action
    BY <2>1, ComputeType DEF TypeOK
  <2>3. budget' \in [Kinds -> Nat]
    BY <1>1, NoFaultType DEF Plan
  <2>4. pc' \in {"act", "track"} /\ actual' \in [Ids -> Container \cup {NoContainer}]
    BY <1>1 DEF Plan, TypeOK
  <2> QED
    BY <1>1, <2>2, <2>3, <2>4 DEF Plan, TypeOK
<1>0. CASE PushRoutes
  BY <1>0, FaultType, NoFaultType DEF PushRoutes, TypeOK, Routed
<1>2. CASE PlanFails
  BY <1>2, FaultType DEF PlanFails, TypeOK
<1>3. ASSUME NEW a \in todo, ApplyRemove(a)
      PROVE  TypeOK'
  <2>1. ctr' \in [Ids -> Container \cup {NoContainer}] /\ budget' \in [Kinds -> Nat]
    BY <1>3, RemoveType, FaultType, NoFaultType DEF ApplyRemove, TypeOK
  <2> QED
    BY <1>3, <2>1, DoneType DEF ApplyRemove, Take, TypeOK
<1>4. ASSUME NEW a \in todo, ApplyCreate(a)
      PROVE  TypeOK'
  <2>1. a \in Action /\ a.spec \in Specs
    BY <1>4, PlannedAction DEF ApplyCreate
  <2>2. CASE \E i \in Ids : CreateContainer(a, i, "canonical") /\ pc' = "start" /\ cur' = a /\ NoFault
    BY <1>4, <2>1, <2>2, CreateType, NoFaultType DEF ApplyCreate, Take, TypeOK
  <2>3. CASE CreateFails(a, "canonical") /\ Done /\ UNCHANGED <<ctr, probes>>
    <3>1. budget' \in [Kinds -> Nat]
      BY <2>3, FaultType, NoFaultType DEF CreateFails
    <3> QED
      BY <1>4, <2>3, <3>1, DoneType DEF ApplyCreate, Take, TypeOK
  <2> QED
    BY <1>4, <2>2, <2>3 DEF ApplyCreate
<1>5. ASSUME NEW a \in todo, SfCreate(a)
      PROVE  TypeOK'
  <2>1. a \in Action /\ a.spec \in Specs
    BY <1>5, PlannedAction DEF SfCreate
  <2>2. CASE \E i \in Ids : CreateContainer(a, i, "new") /\ pc' = "sfStart" /\ cur' = a /\ NoFault
    BY <1>5, <2>1, <2>2, CreateType, NoFaultType DEF SfCreate, Take, TypeOK
  <2>3. CASE CreateFails(a, "new") /\ Done /\ UNCHANGED <<ctr, probes>>
    <3>1. budget' \in [Kinds -> Nat]
      BY <2>3, FaultType, NoFaultType DEF CreateFails
    <3> QED
      BY <1>5, <2>3, <3>1, DoneType DEF SfCreate, Take, TypeOK
  <2> QED
    BY <1>5, <2>2, <2>3 DEF SfCreate
<1>6. ASSUME NEW a \in todo, SpStop(a)
      PROVE  TypeOK'
  <2>1. a \in Action /\ a.id \in Ids /\ ctr[a.id] \in Container
    BY <1>6, PlannedAction DEF SpStop
  <2>2. [ctr[a.id] EXCEPT !.state = IF @ = "running" THEN "exited" ELSE @] \in Container
    BY <2>1 DEF Container
  <2>3. ctr' \in [Ids -> Container \cup {NoContainer}] /\ budget' \in [Kinds -> Nat]
    BY <1>6, <2>1, <2>2, FaultType, NoFaultType DEF SpStop, TypeOK
  <2> QED
    BY <1>6, <2>1, <2>3, DoneType DEF SpStop, Take, TypeOK
<1>7. CASE CreateStart
  <2>1. ctr' \in [Ids -> Container \cup {NoContainer}] /\ budget' \in [Kinds -> Nat]
    BY <1>7, StartType, FaultType, NoFaultType DEF CreateStart, TypeOK, CurrentInv, HoldsNew
  <2> QED
    BY <1>7, <2>1, DoneType DEF CreateStart, TypeOK
<1>8. CASE SfStart
  <2>1. new \in Ids /\ ctr[new] # NoContainer /\ cur.spec \in Specs
    BY <1>8 DEF SfStart, CurrentInv, HoldsNew, Replacing, CarriesDesired
  <2>2. ctr' \in [Ids -> Container \cup {NoContainer}] /\ budget' \in [Kinds -> Nat]
    BY <1>8, <2>1, StartType, FaultType, NoFaultType DEF SfStart, TypeOK
  <2>3. probes' \in [Ids -> Entry \cup {Untracked}]
    BY <1>8, <2>1, TrackType DEF SfStart, TypeOK
  <2> QED
    BY <1>8, <2>2, <2>3 DEF SfStart, TypeOK
<1>9. CASE SfHealthy
  BY <1>9 DEF SfHealthy, TypeOK
<1>10. CASE SfTimeout
  BY <1>10 DEF SfTimeout, TypeOK
<1>11. CASE SfDiscard
  <2>1. ctr' \in [Ids -> Container \cup {NoContainer}] /\ budget' \in [Kinds -> Nat]
    BY <1>11, RemoveType, FaultType, NoFaultType DEF SfDiscard, TypeOK
  <2> QED
    BY <1>11, <2>1, DoneType DEF SfDiscard, TypeOK
<1>12. CASE SfRemoveOld
  <2>1. ctr' \in [Ids -> Container \cup {NoContainer}] /\ budget' \in [Kinds -> Nat]
    BY <1>12, RemoveType, FaultType, NoFaultType DEF SfRemoveOld, TypeOK
  <2> QED
    BY <1>12, <2>1, DoneType DEF SfRemoveOld, TypeOK
<1>13. CASE SfRename
  <2>1. new \in Ids /\ ctr[new] \in Container
    BY <1>13 DEF SfRename, CurrentInv, HoldsNew, TypeOK
  <2>2. [ctr[new] EXCEPT !.name = "canonical"] \in Container
    BY <2>1 DEF Container
  <2>3. ctr' \in [Ids -> Container \cup {NoContainer}] /\ budget' \in [Kinds -> Nat]
    BY <1>13, <2>1, <2>2, FaultType, NoFaultType DEF SfRename, TypeOK
  <2> QED
    BY <1>13, <2>3, DoneType DEF SfRename, TypeOK
<1>14. CASE SpRemove
  <2>1. ctr' \in [Ids -> Container \cup {NoContainer}] /\ budget' \in [Kinds -> Nat]
    BY <1>14, RemoveType, FaultType, NoFaultType DEF SpRemove, TypeOK
  <2> QED
    BY <1>14, <2>1, DoneType DEF SpRemove, TypeOK
<1>15. CASE SpCreate
  <2>1. cur \in Action /\ cur.spec \in Specs
    BY <1>15 DEF SpCreate, CurrentInv, Replacing, CarriesDesired
  <2>2. CASE \E i \in Ids : CreateContainer(cur, i, "canonical") /\ pc' = "spStart" /\ NoFault /\ UNCHANGED cur
    BY <1>15, <2>1, <2>2, CreateType, NoFaultType DEF SpCreate, TypeOK
  <2>3. CASE CreateFails(cur, "canonical") /\ Done /\ UNCHANGED <<ctr, probes>>
    <3>1. budget' \in [Kinds -> Nat]
      BY <2>3, FaultType, NoFaultType DEF CreateFails
    <3> QED
      BY <1>15, <2>3, <3>1, DoneType DEF SpCreate, TypeOK
  <2> QED
    BY <1>15, <2>2, <2>3 DEF SpCreate
<1>16. CASE SpStart
  <2>1. new \in Ids /\ ctr[new] # NoContainer /\ cur.spec \in Specs
    BY <1>16 DEF SpStart, CurrentInv, HoldsNew, Replacing, CarriesDesired
  <2>2. ctr' \in [Ids -> Container \cup {NoContainer}] /\ budget' \in [Kinds -> Nat]
    BY <1>16, <2>1, StartType, FaultType, NoFaultType DEF SpStart, TypeOK
  <2>3. probes' \in [Ids -> Entry \cup {Untracked}]
    BY <1>16, <2>1, TrackType DEF SpStart, TypeOK
  <2> QED
    BY <1>16, <2>2, <2>3, DoneType DEF SpStart, TypeOK
<1>17. CASE SpWait
  BY <1>17, DoneType DEF SpWait, TypeOK
<1>18. CASE Relist
  <2>1. budget' \in [Kinds -> Nat]
    BY <1>18, FaultType, NoFaultType DEF Relist
  <2> QED
    BY <1>18, <2>1, EndTickType DEF Relist, TypeOK
<1>19. CASE TrackProbes
  <2>1. probes' \in [Ids -> Entry \cup {Untracked}]
    <3>1. \A i \in Ids, s \in Services :
            i \in IdsByService(s) => actual[i].svc = s /\ desired[s].spec \in Specs
      BY DEF IdsByService, TypeOK, Row
    <3>2. \A i \in Ids, s \in Services :
            i \in IdsByService(s) => Track(probes, i, desired[actual[i].svc].spec) \in Entry
      BY <3>1, TrackType DEF TypeOK
    <3> QED
      BY <1>19, <3>2 DEF TrackProbes, WireProbes, TypeOK
  <2>2. pool' \in [Services -> SUBSET Backend]
    <3>1. \A i \in Ids : (probes[i] = Untracked \/ probes[i].ok) \in BOOLEAN
      OBVIOUS
    <3>2. \A s : IdsByService(s) \subseteq Ids
      BY DEF IdsByService, Active, Listed
    <3>3. \A i \in Ids : [id |-> i, healthy |-> probes[i] = Untracked \/ probes[i].ok] \in Backend
      BY <3>1 DEF Backend
    <3>4. \A lost : PushBackends(lost) => pool' \in [Services -> SUBSET Backend]
      BY <3>2, <3>3 DEF PushBackends, TypeOK
    <3> QED
      BY <1>19, <3>4 DEF TrackProbes
  <2>3. budget' \in [Kinds -> Nat]
    BY <1>19, FaultType, NoFaultType DEF TrackProbes
  <2> QED
    BY <1>19, <2>1, <2>2, <2>3 DEF TrackProbes, TypeOK
<1>20. CASE Persist
  <2>1. \A s \in Services : desired[s] # NoRow => [desired[s] EXCEPT !.status = NewStatus(s)] \in Row
    <3>1. \A s \in Services : NewStatus(s) \in Statuses
      BY AggregateType DEF NewStatus
    <3> QED
      BY <3>1 DEF TypeOK, Row
  <2>2. \A failed : PersistStatus(failed) => row' \in [Services -> Row \cup {NoRow}]
    BY <2>1 DEF PersistStatus, TypeOK
  <2>3. row' \in [Services -> Row \cup {NoRow}] /\ budget' \in [Kinds -> Nat]
    BY <1>20, <2>2, FaultType, NoFaultType DEF Persist
  <2> QED
    BY <1>20, <2>3, EndTickType DEF Persist, TypeOK
<1> QED
  BY <1>0, <1>1, <1>2, <1>3, <1>4, <1>5, <1>6, <1>7, <1>8, <1>9, <1>10, <1>11, <1>12, <1>13,
     <1>14, <1>15, <1>16, <1>17, <1>18, <1>19, <1>20 DEF ReconcilerStep

\* Every step of the other actors keeps the types.
LEMMA EnvironmentType ==
  ASSUME TypeOK, Environment
  PROVE  TypeOK'
<1> USE DEF Kinds
<1>1. ASSUME NEW s \in Services, ApiUpsert(s)
      PROVE  TypeOK'
  <2>1. budget' \in [Kinds -> Nat]
    BY <1>1, SpendType DEF ApiUpsert
  <2>2. PICK spec \in Specs, n \in 0 .. MaxReplicas :
          row' = [row EXCEPT ![s] = [spec |-> spec, replicas |-> n, status |-> "pending"]]
    BY <1>1 DEF ApiUpsert
  <2>3. [spec |-> spec, replicas |-> n, status |-> "pending"] \in Row
    BY DEF Row, Statuses
  <2> QED
    BY <1>1, <2>1, <2>2, <2>3 DEF ApiUpsert, TypeOK
<1>2. ASSUME NEW s \in Services, ApiDelete(s)
      PROVE  TypeOK'
  <2>1. budget' \in [Kinds -> Nat]
    BY <1>2, SpendType DEF ApiDelete
  <2> QED
    BY <1>2, <2>1 DEF ApiDelete, TypeOK
<1>7. ASSUME NEW s \in Services, ApiScale(s)
      PROVE  TypeOK'
  <2>1. budget' \in [Kinds -> Nat]
    BY <1>7, SpendType DEF ApiScale
  <2>2. PICK n \in 0 .. MaxReplicas : row' = [row EXCEPT ![s].replicas = n]
    BY <1>7 DEF ApiScale
  <2>3. row[s] \in Row
    BY <1>7 DEF ApiScale, TypeOK
  <2>4. [row[s] EXCEPT !.replicas = n] \in Row
    BY <2>3 DEF Row
  <2> QED
    BY <1>7, <2>1, <2>2, <2>4 DEF ApiScale, TypeOK
<1>3. ASSUME NEW i \in Ids, ContainerExits(i)
      PROVE  TypeOK'
  <2>1. budget' \in [Kinds -> Nat]
    BY <1>3, SpendType DEF ContainerExits
  <2>2. [ctr[i] EXCEPT !.state = "exited"] \in Container
    BY <1>3 DEF ContainerExits, TypeOK, Container
  <2> QED
    BY <1>3, <2>1, <2>2 DEF ContainerExits, TypeOK
<1>4. ASSUME NEW i \in Ids, ProbeResult(i)
      PROVE  TypeOK'
  <2>1. probes[i] \in Entry
    BY <1>4 DEF ProbeResult, Probed, TypeOK
  <2>2. PICK healthy \in Answers(i) : probes' = [probes EXCEPT ![i] = RecordResult(@, healthy)]
    BY <1>4 DEF ProbeResult
  <2>3. healthy \in BOOLEAN
    BY <2>1, <2>2, AnswersType
  <2>4. RecordResult(probes[i], healthy) \in Entry
    BY <2>1, <2>3, RecordResultType
  <2> QED
    BY <1>4, <2>2, <2>4 DEF ProbeResult, TypeOK
<1>5. ASSUME NEW i \in Ids, ProbeLoopReturns(i)
      PROVE  TypeOK'
  <2>1. budget' \in [Kinds -> Nat]
    BY <1>5, FaultType DEF ProbeLoopReturns
  <2>2. [probes[i] EXCEPT !.alive = FALSE] \in Entry
    BY <1>5 DEF ProbeLoopReturns, Probed, TypeOK, Entry
  <2> QED
    BY <1>5, <2>1, <2>2 DEF ProbeLoopReturns, TypeOK
<1>6. CASE ServerRestarts
  <2>1. budget' \in [Kinds -> Nat]
    BY <1>6, SpendType DEF ServerRestarts
  <2> QED
    BY <1>6, <2>1, EndTickType DEF ServerRestarts, TypeOK
<1> QED
  BY <1>1, <1>2, <1>3, <1>4, <1>5, <1>6, <1>7 DEF Environment

-----------------------------------------------------------------------------
(* The plan stays applicable. *)

\* Container i stays, with its labels, and is not started.
Keeps(i) ==
  /\ ctr'[i] # NoContainer
  /\ ctr'[i].svc = ctr[i].svc /\ ctr'[i].replica = ctr[i].replica
  /\ ctr'[i].hash = ctr[i].hash
  /\ ctr'[i].state = "running" => ctr[i].state = "running"

\* A container that a step keeps does not become sound by it.
LEMMA KeepsNotSound ==
  ASSUME NEW i, Keeps(i), ctr[i] # NoContainer, Sound(i)'
  PROVE  Sound(i)
BY DEF Keeps, Sound

\* A step that keeps the targets of the actions still to do keeps PlanInv.
LEMMA PlanFrame ==
  ASSUME PlanInv, desired' = desired, todo' \subseteq todo,
         \A a \in todo' : a.type \in {"remove", "replace"} => Keeps(a.id),
         todo \subseteq Action
  PROVE  PlanInv'
<1>1. ASSUME NEW a \in todo'
      PROVE  /\ a.type \in {"create", "replace"} => CarriesDesired(a)'
             /\ a.type \in {"remove", "replace"} => TargetsSlot(a)'
             /\ a.type = "remove" => ~Sound(a.id)' \/ ~WantedBy(desired', <<a.svc, a.replica>>)
             /\ a.type = "replace" => ctr'[a.id].hash # Hash(a.spec)
  <2>1. a \in todo
    BY <1>1
  <2>2. a.type \in {"create", "replace"} => CarriesDesired(a)'
    BY <2>1 DEF PlanInv, CarriesDesired
  <2>3. a.type \in {"remove", "replace"} => TargetsSlot(a)'
    BY <1>1, <2>1 DEF PlanInv, TargetsSlot, Keeps, SlotOf
  <2>4. a.type = "remove" => ~Sound(a.id)' \/ ~WantedBy(desired', <<a.svc, a.replica>>)
    BY <1>1, <2>1, KeepsNotSound DEF PlanInv, TargetsSlot
  <2>5. a.type = "replace" => ctr'[a.id].hash # Hash(a.spec)
    BY <1>1, <2>1 DEF PlanInv, Keeps
  <2> QED
    BY <2>2, <2>3, <2>4, <2>5
<1>2. \A a, b \in todo' : a.type # "create" /\ b.type # "create" /\ a.id = b.id => a = b
  BY DEF PlanInv
<1> QED
  BY <1>1, <1>2 DEF PlanInv

\* A container that always passes is never in the unhealthy set.
LEMMA SoundNotUnhealthy ==
  ASSUME TypeOK, ProbeInv, NEW i \in ProbeUnhealthySet(row, ctr)
  PROVE  ~Sound(i)
<1>1. /\ i \in Ids /\ ctr[i] \in Container /\ row[ctr[i].svc] # NoRow
      /\ probes[i] # Untracked /\ ~probes[i].ok
      /\ probes[i].streak >= Retries[row[ctr[i].svc].spec.health]
  BY DEF ProbeUnhealthySet, Listed, TypeOK
<1>2. row[ctr[i].svc].spec.health \in Checks
  BY <1>1, SpecsAssumption DEF TypeOK, Container, Row, TaskDef
<1>3. Retries[row[ctr[i].svc].spec.health] \in Nat \ {0}
  BY <1>2, RetriesAssumption
<1>4. probes[i].streak # 0
  <2>1. probes[i].streak \in Nat
    BY <1>1, BoundsAssumption DEF TypeOK, Entry
  <2> QED
    BY <1>1, <1>3, <2>1
<1> QED
  BY <1>1, <1>4 DEF ProbeInv

\* What Compute plans can be carried out: the argument goes through the four
\* parts of the diff, whose targets are disjoint because actualMap holds only
\* active containers that are not unhealthy, each in the slot of its labels.
LEMMA PlanEstablishes ==
  ASSUME TypeOK, ProbeInv, Plan
  PROVE  PlanInv'
<1> DEFINE bad == ProbeUnhealthySet(row, ctr)
           Wanted == {k \in Slots : WantedBy(row, k)}
<1>1. PICK m \in ActualMaps(ctr, bad) : todo' = Compute(row, ctr, bad, m)
  BY DEF Plan
<1>2. ctr' = ctr /\ desired' = row
  BY DEF Plan
<1>3. \A k \in Slots : m[k] # NoId =>
        /\ m[k] \in Ids /\ m[k] \in Active(ctr) /\ m[k] \notin bad
        /\ ctr[m[k]] # NoContainer /\ SlotOf(ctr[m[k]]) = k
  BY DEF ActualMaps, Occupants, Active, Listed
<1>4. \A i \in Listed(ctr) : i \in Ids /\ ctr[i] # NoContainer /\ ctr[i] \in Container
  BY DEF Listed, TypeOK
<1>5. \A i \in Listed(ctr) : i \notin Active(ctr) \/ i \in bad => ~Sound(i)
  <2>1. \A i \in Listed(ctr) : i \notin Active(ctr) => ~Sound(i)
    BY DEF Active, IsActive, Sound
  <2>2. \A i \in bad : ~Sound(i)
    BY SoundNotUnhealthy
  <2> QED
    BY <2>1, <2>2
<1>6. \A k \in Slots : k = <<k[1], k[2]>>
  BY DEF Slots
<1>7. \A k \in Wanted : k \in Slots /\ row[k[1]].spec \in Specs
  BY DEF Slots, WantedBy, TypeOK, Row
<1> DEFINE Dead == {j \in Listed(ctr) : j \notin Active(ctr) \/ j \in bad}
           Missing == {w \in Wanted : m[w] = NoId}
           Drifted == {w \in Wanted : m[w] # NoId /\ ctr[m[w]].hash # Hash(row[w[1]].spec)}
           Surplus == {w \in Slots \ Wanted : m[w] # NoId}
<1>8. \A a \in todo' :
        \/ \E i \in Dead : a = RemoveOf(ctr, i)
        \/ \E k \in Missing : a = CreateOf(row, k)
        \/ \E k \in Drifted : a = ReplaceOf(row, k, m[k])
        \/ \E k \in Surplus : a = RemoveOf(ctr, m[k])
  BY <1>1 DEF Compute
<1>9. ASSUME NEW a \in todo'
      PROVE  /\ a.type \in {"create", "replace"} => CarriesDesired(a)'
             /\ a.type \in {"remove", "replace"} => TargetsSlot(a)'
             /\ a.type = "remove" => ~Sound(a.id)' \/ ~WantedBy(desired', <<a.svc, a.replica>>)
             /\ a.type = "replace" => ctr'[a.id].hash # Hash(a.spec)
  <2>1. ASSUME NEW i \in Dead, a = RemoveOf(ctr, i)
        PROVE  a.type = "remove" /\ TargetsSlot(a)' /\ ~Sound(a.id)'
    BY <2>1, <1>2, <1>4, <1>5 DEF RemoveOf, TargetsSlot, SlotOf, Sound
  <2>2. ASSUME NEW k \in Missing, a = CreateOf(row, k)
        PROVE  a.type = "create" /\ CarriesDesired(a)'
    BY <2>2, <1>2, <1>6, <1>7 DEF CreateOf, CarriesDesired
  <2>3. ASSUME NEW k \in Drifted, a = ReplaceOf(row, k, m[k])
        PROVE  /\ a.type = "replace" /\ CarriesDesired(a)' /\ TargetsSlot(a)'
               /\ ctr'[a.id].hash # Hash(a.spec)
    BY <2>3, <1>2, <1>3, <1>6, <1>7 DEF ReplaceOf, CarriesDesired, TargetsSlot
  <2>4. ASSUME NEW k \in Surplus, a = RemoveOf(ctr, m[k])
        PROVE  /\ a.type = "remove" /\ TargetsSlot(a)'
               /\ ~WantedBy(desired', <<a.svc, a.replica>>)
    BY <2>4, <1>2, <1>3, <1>6 DEF RemoveOf, TargetsSlot, SlotOf
  <2> QED
    BY <1>8, <2>1, <2>2, <2>3, <2>4
<1>10. ASSUME NEW a \in todo', NEW b \in todo',
              a.type # "create", b.type # "create", a.id = b.id
       PROVE  a = b
  <2>1. \A x \in todo' : x.type # "create" =>
          \/ x.id \in Dead /\ x = RemoveOf(ctr, x.id)
          \/ \E k \in Drifted : x.id = m[k] /\ x = ReplaceOf(row, k, m[k])
          \/ \E k \in Surplus : x.id = m[k] /\ x = RemoveOf(ctr, x.id)
    BY <1>8 DEF RemoveOf, CreateOf, ReplaceOf
  <2>2. \A k \in Drifted \cup Surplus : m[k] \notin Dead
    BY <1>3
  <2>3. \A k, l \in Drifted \cup Surplus : m[k] = m[l] => k = l
    BY <1>3
  <2>4. Drifted \cap Surplus = {}
    OBVIOUS
  <2> QED
    BY <1>10, <2>1, <2>2, <2>3, <2>4
<1> QED
  BY <1>9, <1>10 DEF PlanInv

\* Every step of the reconciler keeps the plan applicable.
LEMMA ReconcilerStepPlan ==
  ASSUME RolloutInv, ReconcilerStep
  PROVE  PlanInv'
<1> USE DEF RolloutInv
<1>1. CASE Plan
  BY <1>1, PlanEstablishes
<1>a. \A a \in todo : a.type \in {"remove", "replace"} =>
         a.id \in Ids /\ ctr[a.id] # NoContainer
  BY PlannedAction
<1>t. todo \subseteq Action
  BY DEF TypeOK
<1>s. ASSUME ctr' = ctr, desired' = desired, todo' \subseteq todo
      PROVE  PlanInv'
  BY <1>s, <1>a, <1>t, PlanFrame DEF Keeps
<1>r. ASSUME NEW x, RemoveContainer(x), desired' = desired, todo' \subseteq todo,
             \A a \in todo' : a.type # "create" => a.id # x
      PROVE  PlanInv'
  <2>1. \A a \in todo' : a.type \in {"remove", "replace"} => Keeps(a.id)
    BY <1>r, <1>a DEF RemoveContainer, Keeps, TypeOK
  <2> QED
    BY <1>r, <1>t, <2>1, PlanFrame
<1>c. ASSUME NEW x \in Ids, NEW b, NEW name, CreateContainer(b, x, name),
             desired' = desired, todo' \subseteq todo
      PROVE  PlanInv'
  <2>1. \A a \in todo' : a.type \in {"remove", "replace"} => Keeps(a.id)
    BY <1>c, <1>a DEF CreateContainer, Fresh, Keeps, TypeOK
  <2> QED
    BY <1>c, <1>t, <2>1, PlanFrame
<1>n. ASSUME pc \in HoldsNew, StartContainer(new), desired' = desired, todo' = todo
      PROVE  PlanInv'
  <2>1. \A a \in todo' : a.type \in {"remove", "replace"} => Keeps(a.id)
    BY <1>n, <1>a DEF StartContainer, Keeps, TypeOK, CurrentInv
  <2> QED
    BY <1>n, <1>t, <2>1, PlanFrame
<1>0. CASE PushRoutes
  BY <1>0, <1>s DEF PushRoutes
<1>2. CASE PlanFails
  BY <1>2, <1>s DEF PlanFails
<1>3. ASSUME NEW a \in todo, ApplyRemove(a)
      PROVE  PlanInv'
  <2>1. \A b \in todo' : b.type # "create" => b.id # a.id
    BY <1>3 DEF ApplyRemove, Take, PlanInv
  <2> QED
    BY <1>3, <2>1, <1>r, <1>s DEF ApplyRemove, Take
<1>4. ASSUME NEW a \in todo, ApplyCreate(a)
      PROVE  PlanInv'
  BY <1>4, <1>c, <1>s DEF ApplyCreate, Take
<1>5. ASSUME NEW a \in todo, SfCreate(a)
      PROVE  PlanInv'
  BY <1>5, <1>c, <1>s DEF SfCreate, Take
<1>6. ASSUME NEW a \in todo, SpStop(a)
      PROVE  PlanInv'
  <2>1. CASE UNCHANGED ctr
    BY <1>6, <2>1, <1>s DEF SpStop, Take
  <2>2. CASE ctr' = [ctr EXCEPT ![a.id].state = IF @ = "running" THEN "exited" ELSE @]
    <3>1. a.id \in Ids /\ ctr[a.id] \in Container
      BY <1>6, PlannedAction DEF SpStop
    <3>2. ctr'[a.id] # NoContainer
      <4>1. ctr'[a.id] \in Container
        BY <2>2, <3>1 DEF TypeOK, Container
      <4> QED
        BY <4>1, SentinelsAssumption
    <3>3. \A b \in todo' : b.type \in {"remove", "replace"} => Keeps(b.id)
      BY <1>6, <2>2, <3>1, <3>2, <1>a DEF SpStop, Take, Keeps, TypeOK, Container
    <3> QED
      BY <1>6, <3>3, <1>t, PlanFrame DEF SpStop, Take
  <2> QED
    BY <1>6, <2>1, <2>2 DEF SpStop
<1>7. CASE CreateStart
  BY <1>7, <1>n, <1>s DEF CreateStart, HoldsNew
<1>8. CASE SfStart
  BY <1>8, <1>n, <1>s DEF SfStart, HoldsNew
<1>9. CASE SfHealthy
  BY <1>9, <1>s DEF SfHealthy
<1>10. CASE SfTimeout
  BY <1>10, <1>s DEF SfTimeout
<1>11. CASE SfDiscard
  <2>1. \A a \in todo : a.type # "create" => a.id # new
    BY <1>11 DEF SfDiscard, CurrentInv, HoldsNew
  <2> QED
    BY <1>11, <2>1, <1>r, <1>s DEF SfDiscard
<1>12. CASE SfRemoveOld
  <2>1. \A a \in todo : a.type # "create" => a.id # cur.id
    BY <1>12 DEF SfRemoveOld, CurrentInv, HoldsOld
  <2> QED
    BY <1>12, <2>1, <1>r, <1>s DEF SfRemoveOld
<1>13. CASE SfRename
  <2>1. CASE UNCHANGED ctr
    BY <1>13, <2>1, <1>s DEF SfRename
  <2>2. CASE ctr' = [ctr EXCEPT ![new].name = "canonical"]
    <3>1. \A a \in todo : a.type # "create" => a.id # new
      BY <1>13 DEF SfRename, CurrentInv, HoldsNew
    <3>2. \A a \in todo : a.type \in {"remove", "replace"} => Keeps(a.id)
      BY <2>2, <3>1, <1>a DEF Keeps, TypeOK
    <3> QED
      BY <1>13, <3>2, <1>t, PlanFrame DEF SfRename
  <2> QED
    BY <1>13, <2>1, <2>2 DEF SfRename
<1>14. CASE SpRemove
  <2>1. \A a \in todo : a.type # "create" => a.id # cur.id
    BY <1>14 DEF SpRemove, CurrentInv, HoldsOld
  <2> QED
    BY <1>14, <2>1, <1>r, <1>s DEF SpRemove
<1>15. CASE SpCreate
  BY <1>15, <1>c, <1>s DEF SpCreate
<1>16. CASE SpStart
  BY <1>16, <1>n, <1>s DEF SpStart, HoldsNew
<1>17. CASE SpWait
  BY <1>17, <1>s DEF SpWait
<1>e. ASSUME todo' = {} PROVE PlanInv'
  BY <1>e DEF PlanInv
<1>18. CASE Relist
  BY <1>18, <1>e DEF Relist, EndTick
<1>19. CASE TrackProbes
  BY <1>19, <1>s DEF TrackProbes
<1>20. CASE Persist
  BY <1>20, <1>e DEF Persist, EndTick
<1> QED
  BY <1>0, <1>1, <1>2, <1>3, <1>4, <1>5, <1>6, <1>7, <1>8, <1>9, <1>10, <1>11, <1>12, <1>13,
     <1>14, <1>15, <1>16, <1>17, <1>18, <1>19, <1>20 DEF ReconcilerStep

-----------------------------------------------------------------------------
(* The current action. *)

\* Between actions and between ticks there is no current action.
LEMMA RestInv ==
  ASSUME pc' \in {"idle", "plan", "act", "track", "persist"}, cur' = NoAction, new' = NoId
  PROVE  CurrentInv'
BY DEF CurrentInv, Creating, Replacing, HoldsOld, HoldsNew

\* A finished action leaves no current one.
LEMMA DoneInv == ASSUME Done PROVE CurrentInv'
BY RestInv DEF Done

\* A finished tick leaves no current action.
LEMMA EndTickInv == ASSUME EndTick PROVE CurrentInv'
BY RestInv DEF EndTick

\* A new container is in the slot of its action, is fresh, and is no target.
LEMMA CreatedFacts ==
  ASSUME TypeOK, PlanInv, NEW a \in Action, a.spec \in Specs, NEW i \in Ids,
         NEW name \in {"canonical", "new"}, CreateContainer(a, i, name),
         todo' \subseteq todo
  PROVE  /\ new' = i /\ ctr'[i] # NoContainer /\ ctr[i] = NoContainer
         /\ SlotOf(ctr'[i]) = <<a.svc, a.replica>>
         /\ ctr'[i].state = "created" /\ probes'[i] = Untracked
         /\ \A b \in todo' : b.type # "create" => b.id # i
         /\ \A j \in Ids \ {i} : ctr'[j] = ctr[j]
<1>1. ctr[i] = NoContainer /\ new' = i
  BY DEF CreateContainer, Fresh
<1>2. ctr'[i] = [svc |-> a.svc, replica |-> a.replica, hash |-> Hash(a.spec),
                 name |-> name, state |-> "created"]
  BY DEF CreateContainer, TypeOK
<1>3. ctr'[i] # NoContainer
  <2>1. ctr'[i] \in Container
    BY <1>2, HashType DEF Container, Action
  <2> QED
    BY <2>1, SentinelsAssumption
<1>4. \A b \in todo' : b.type # "create" => b.id # i
  <2>1. \A b \in todo : b.type # "create" => b.type \in {"remove", "replace"}
    BY DEF TypeOK, Action
  <2> QED
    BY <1>1, <2>1 DEF PlanInv, TargetsSlot
<1>5. \A j \in Ids \ {i} : ctr'[j] = ctr[j]
  BY DEF CreateContainer, TypeOK
<1>6. probes'[i] = Untracked
  BY DEF CreateContainer, TypeOK
<1> QED
  BY <1>1, <1>2, <1>3, <1>4, <1>5, <1>6 DEF SlotOf

\* Every step of the reconciler keeps its own bookkeeping.
LEMMA ReconcilerStepCurrent ==
  ASSUME RolloutInv, ReconcilerStep
  PROVE  CurrentInv'
<1> USE DEF RolloutInv
<1>0. CASE PushRoutes
  BY <1>0, RestInv DEF PushRoutes, CurrentInv
<1>1. CASE Plan
  BY <1>1, RestInv DEF Plan, CurrentInv
<1>2. CASE PlanFails
  BY <1>2, RestInv DEF PlanFails, CurrentInv
<1>3. ASSUME NEW a \in todo, ApplyRemove(a)
      PROVE  CurrentInv'
  BY <1>3, DoneInv DEF ApplyRemove
<1>4. ASSUME NEW a \in todo, ApplyCreate(a)
      PROVE  CurrentInv'
  <2>1. a \in Action /\ a.spec \in Specs /\ CarriesDesired(a)
    BY <1>4, PlannedAction DEF ApplyCreate, PlanInv
  <2>2. ASSUME NEW i \in Ids, CreateContainer(a, i, "canonical"), pc' = "start", cur' = a
        PROVE  CurrentInv'
    <3>1. CarriesDesired(a)'
      BY <1>4, <2>1 DEF ApplyCreate, CarriesDesired
    <3> QED
      BY <1>4, <2>1, <2>2, <3>1, CreatedFacts
         DEF ApplyCreate, Take, CurrentInv, Creating, Replacing, HoldsOld, HoldsNew
  <2> QED
    BY <1>4, <2>2, DoneInv DEF ApplyCreate
<1>5. ASSUME NEW a \in todo, SfCreate(a)
      PROVE  CurrentInv'
  <2>1. /\ a \in Action /\ a.spec \in Specs /\ CarriesDesired(a) /\ TargetsSlot(a)
        /\ a.id \in Ids /\ ctr[a.id].hash # Hash(a.spec)
    BY <1>5, PlannedAction DEF SfCreate, PlanInv
  <2>2. \A b \in todo' : b.type # "create" => b.id # a.id
    BY <1>5 DEF SfCreate, Take, PlanInv
  <2>3. ASSUME NEW i \in Ids, CreateContainer(a, i, "new"), pc' = "sfStart", cur' = a
        PROVE  CurrentInv'
    <3>1. CarriesDesired(a)'
      BY <1>5, <2>1 DEF SfCreate, CarriesDesired
    <3>2. todo' \subseteq todo
      BY <1>5 DEF SfCreate, Take
    <3>3. /\ new' = i /\ ctr'[i] # NoContainer /\ ctr[i] = NoContainer
          /\ SlotOf(ctr'[i]) = <<a.svc, a.replica>>
          /\ ctr'[i].state = "created" /\ probes'[i] = Untracked
          /\ \A b \in todo' : b.type # "create" => b.id # i
          /\ \A j \in Ids \ {i} : ctr'[j] = ctr[j]
      BY <2>1, <2>3, <3>2, CreatedFacts
    <3>4. i # a.id /\ ctr'[a.id] = ctr[a.id]
      BY <2>1, <3>3 DEF TargetsSlot
    <3>5. TargetsSlot(a)'
      BY <2>1, <3>4 DEF TargetsSlot
    <3> QED
      BY <2>1, <2>2, <2>3, <3>1, <3>3, <3>4, <3>5
         DEF CurrentInv, Creating, Replacing, HoldsOld, HoldsNew
  <2> QED
    BY <1>5, <2>3, DoneInv DEF SfCreate
<1>6. ASSUME NEW a \in todo, SpStop(a)
      PROVE  CurrentInv'
  <2>1. /\ a \in Action /\ CarriesDesired(a) /\ TargetsSlot(a)
        /\ a.id \in Ids /\ ctr[a.id] \in Container /\ ctr[a.id].hash # Hash(a.spec)
    BY <1>6, PlannedAction DEF SpStop, PlanInv
  <2>2. \A b \in todo' : b.type # "create" => b.id # a.id
    BY <1>6 DEF SpStop, Take, PlanInv
  <2>3. ASSUME ctr' = [ctr EXCEPT ![a.id].state = IF @ = "running" THEN "exited" ELSE @],
               pc' = "spRemove", cur' = a
        PROVE  CurrentInv'
    <3>1. CarriesDesired(a)'
      BY <1>6, <2>1 DEF SpStop, CarriesDesired
    <3>2. /\ ctr'[a.id] \in Container /\ ctr'[a.id].state # "running"
          /\ ctr'[a.id].svc = ctr[a.id].svc /\ ctr'[a.id].replica = ctr[a.id].replica
          /\ ctr'[a.id].hash = ctr[a.id].hash
      BY <2>1, <2>3 DEF TypeOK, Container
    <3>3. TargetsSlot(a)'
      BY <2>1, <3>2, SentinelsAssumption DEF TargetsSlot, SlotOf
    <3> QED
      BY <2>1, <2>2, <2>3, <3>1, <3>2, <3>3
         DEF CurrentInv, Creating, Replacing, HoldsOld, HoldsNew
  <2> QED
    BY <1>6, <2>3, DoneInv DEF SpStop
<1>7. CASE CreateStart
  BY <1>7, DoneInv DEF CreateStart
<1>8. CASE SfStart
  <2>1. /\ cur \in Action /\ CarriesDesired(cur) /\ cur.spec \in Specs
        /\ TargetsSlot(cur) /\ ctr[cur.id].hash # Hash(cur.spec)
        /\ \A a \in todo : a.type # "create" => a.id # cur.id
        /\ new \in Ids /\ ctr[new] # NoContainer /\ new # cur.id
        /\ SlotOf(ctr[new]) = <<cur.svc, cur.replica>>
        /\ \A a \in todo : a.type # "create" => a.id # new
    BY <1>8 DEF SfStart, CurrentInv, Replacing, HoldsOld, HoldsNew, CarriesDesired
  <2>2. CarriesDesired(cur)'
    BY <1>8, <2>1 DEF SfStart, CarriesDesired
  <2>3. CASE UNCHANGED <<ctr, probes>> /\ pc' = "sfDiscard"
    BY <1>8, <2>1, <2>2, <2>3
       DEF SfStart, CurrentInv, Creating, Replacing, HoldsOld, HoldsNew, TargetsSlot
  <2>4. CASE /\ StartContainer(new) /\ pc' = "sfWait"
             /\ probes' = [probes EXCEPT ![new] = Track(probes, new, cur.spec)]
    <3>1. ctr[new] \in Container
      BY <2>1 DEF TypeOK
    <3>2. ctr'[new] \in Container /\ SlotOf(ctr'[new]) = SlotOf(ctr[new])
      BY <2>1, <2>4, <3>1 DEF StartContainer, TypeOK, Container, SlotOf
    <3>3. ctr'[cur.id] = ctr[cur.id]
      BY <2>1, <2>4 DEF StartContainer, TypeOK, TargetsSlot
    <3>4. TargetsSlot(cur)'
      BY <1>8, <2>1, <3>3 DEF SfStart, TargetsSlot
    <3>5. probes'[new] # Untracked
      BY <2>1, <2>4, TrackType, SentinelsAssumption DEF TypeOK
    <3> QED
      BY <1>8, <2>1, <2>2, <2>4, <3>2, <3>3, <3>4, <3>5, SentinelsAssumption
         DEF SfStart, CurrentInv, Creating, Replacing, HoldsOld, HoldsNew
  <2> QED
    BY <1>8, <2>3, <2>4 DEF SfStart
<1>9. CASE SfHealthy
  <2>1. probes[new] # Untracked /\ probes[new].ok /\ new \in Ids /\ new # cur.id
    BY <1>9 DEF SfHealthy, CurrentInv, HoldsNew, HoldsOld
  <2>2. probes[new].passed
    BY <2>1 DEF ProbeInv
  <2>3. probes'[new] = probes[new]
    BY <1>9, <2>1 DEF SfHealthy, TypeOK
  <2> QED
    BY <1>9, <2>1, <2>2, <2>3
       DEF SfHealthy, CurrentInv, Creating, Replacing, HoldsOld, HoldsNew, TargetsSlot, CarriesDesired
<1>10. CASE SfTimeout
  BY <1>10 DEF SfTimeout, CurrentInv, Creating, Replacing, HoldsOld, HoldsNew, TargetsSlot, CarriesDesired
<1>11. CASE SfDiscard
  BY <1>11, DoneInv DEF SfDiscard
<1>12. CASE SfRemoveOld
  <2>1. CASE RemoveContainer(cur.id) /\ pc' = "sfRename" /\ UNCHANGED <<cur, new>>
    <3>1. new \in Ids /\ new # cur.id
      BY <1>12 DEF SfRemoveOld, CurrentInv, HoldsNew, HoldsOld
    <3>2. ctr'[new] = ctr[new]
      BY <2>1, <3>1 DEF RemoveContainer, TypeOK
    <3> QED
      BY <1>12, <2>1, <3>1, <3>2
         DEF SfRemoveOld, CurrentInv, Creating, Replacing, HoldsOld, HoldsNew, CarriesDesired
  <2> QED
    BY <1>12, <2>1, DoneInv DEF SfRemoveOld
<1>13. CASE SfRename
  BY <1>13, DoneInv DEF SfRename
<1>14. CASE SpRemove
  <2>1. CASE pc' = "spCreate" /\ UNCHANGED <<cur, new>>
    BY <1>14, <2>1
       DEF SpRemove, CurrentInv, Creating, Replacing, HoldsOld, HoldsNew, CarriesDesired
  <2> QED
    BY <1>14, <2>1, DoneInv DEF SpRemove
<1>15. CASE SpCreate
  <2>1. cur \in Action /\ cur.spec \in Specs /\ CarriesDesired(cur)
    BY <1>15 DEF SpCreate, CurrentInv, Replacing, CarriesDesired
  <2>2. ASSUME NEW i \in Ids, CreateContainer(cur, i, "canonical"), pc' = "spStart", UNCHANGED cur
        PROVE  CurrentInv'
    <3>1. CarriesDesired(cur)'
      BY <1>15, <2>1, <2>2 DEF SpCreate, CarriesDesired
    <3>2. todo' = todo
      BY <1>15 DEF SpCreate
    <3> QED
      BY <2>1, <2>2, <3>1, <3>2, CreatedFacts
         DEF CurrentInv, Creating, Replacing, HoldsOld, HoldsNew
  <2> QED
    BY <1>15, <2>2, DoneInv DEF SpCreate
<1>16. CASE SpStart
  <2>1. CASE /\ StartContainer(new) /\ pc' = "spWait" /\ UNCHANGED <<cur, new>>
             /\ probes' = [probes EXCEPT ![new] = Track(probes, new, cur.spec)]
    <3>1. /\ cur \in Action /\ CarriesDesired(cur) /\ cur.spec \in Specs
          /\ new \in Ids /\ ctr[new] # NoContainer /\ ctr[new] \in Container
          /\ SlotOf(ctr[new]) = <<cur.svc, cur.replica>>
          /\ \A a \in todo : a.type # "create" => a.id # new
      BY <1>16 DEF SpStart, CurrentInv, Replacing, HoldsNew, CarriesDesired, TypeOK
    <3>2. ctr'[new] \in Container /\ SlotOf(ctr'[new]) = SlotOf(ctr[new])
      BY <2>1, <3>1 DEF StartContainer, TypeOK, Container, SlotOf
    <3>3. CarriesDesired(cur)'
      BY <1>16, <2>1, <3>1 DEF SpStart, CarriesDesired
    <3>4. probes'[new] # Untracked
      BY <2>1, <3>1, TrackType, SentinelsAssumption DEF TypeOK
    <3> QED
      BY <1>16, <2>1, <3>1, <3>2, <3>3, <3>4, SentinelsAssumption
         DEF SpStart, CurrentInv, Creating, Replacing, HoldsOld, HoldsNew
  <2> QED
    BY <1>16, <2>1, DoneInv DEF SpStart
<1>17. CASE SpWait
  BY <1>17, DoneInv DEF SpWait
<1>18. CASE Relist
  <2>1. cur = NoAction /\ new = NoId
    BY <1>18 DEF Relist, CurrentInv
  <2> QED
    BY <1>18, <2>1, RestInv, EndTickInv DEF Relist
<1>19. CASE TrackProbes
  BY <1>19, RestInv DEF TrackProbes, CurrentInv
<1>20. CASE Persist
  BY <1>20, EndTickInv DEF Persist
<1> QED
  BY <1>0, <1>1, <1>2, <1>3, <1>4, <1>5, <1>6, <1>7, <1>8, <1>9, <1>10, <1>11, <1>12, <1>13,
     <1>14, <1>15, <1>16, <1>17, <1>18, <1>19, <1>20 DEF ReconcilerStep

-----------------------------------------------------------------------------
(* Probe entries. *)

\* An entry as ProbeInv wants it, whatever container it belongs to.
Clean(e) == (e.ok => e.passed) /\ (e.ok \/ e.streak = 0)

\* Track leaves the entry alone or starts a clean one.
LEMMA TrackClean ==
  ASSUME NEW ps, NEW i, NEW spec
  PROVE  Track(ps, i, spec) = ps[i] \/ Clean(Track(ps, i, spec))
BY DEF Track, Clean

\* A step that leaves each entry alone, drops it or starts a clean one, and
\* starts no container that is tracked, keeps ProbeInv.
LEMMA ProbeFrame ==
  ASSUME ProbeInv,
         \A i \in Ids : probes'[i] # Untracked =>
            \/ Clean(probes'[i])
            \/ probes'[i] = probes[i] /\ (Sound(i)' => Sound(i))
  PROVE  ProbeInv'
BY DEF ProbeInv, Clean

\* Every step of the reconciler keeps the probe entries honest.
LEMMA ReconcilerStepProbe ==
  ASSUME RolloutInv, ReconcilerStep
  PROVE  ProbeInv'
<1> USE DEF RolloutInv
<1>s. ASSUME ctr' = ctr, \A i \in Ids : probes'[i] \in {probes[i], Untracked}
      PROVE  ProbeInv'
  BY <1>s, ProbeFrame DEF Sound
<1>r. ASSUME NEW x, RemoveContainer(x), \A i \in Ids : probes'[i] \in {probes[i], Untracked}
      PROVE  ProbeInv'
  <2>1. \A i \in Ids : Sound(i)' => Sound(i)
    BY <1>r DEF RemoveContainer, Sound, TypeOK
  <2> QED
    BY <1>r, <2>1, ProbeFrame
<1>c. ASSUME NEW a \in Action, a.spec \in Specs, NEW x \in Ids, NEW name \in {"canonical", "new"},
             CreateContainer(a, x, name), todo' \subseteq todo
      PROVE  ProbeInv'
  <2>1. \A i \in Ids : Sound(i)' => Sound(i)
    BY <1>c, CreatedFacts DEF Sound
  <2>2. \A i \in Ids : probes'[i] \in {probes[i], Untracked}
    BY <1>c DEF CreateContainer, TypeOK
  <2> QED
    BY <2>1, <2>2, ProbeFrame
<1>u. ASSUME UNCHANGED <<ctr, probes>> PROVE ProbeInv'
  BY <1>u, <1>s
<1>0. CASE PushRoutes
  BY <1>0, <1>u DEF PushRoutes
<1>1. CASE Plan
  BY <1>1, <1>u DEF Plan
<1>2. CASE PlanFails
  BY <1>2, <1>u DEF PlanFails
<1>3. ASSUME NEW a \in todo, ApplyRemove(a)
      PROVE  ProbeInv'
  BY <1>3, <1>r, <1>u DEF ApplyRemove
<1>4. ASSUME NEW a \in todo, ApplyCreate(a)
      PROVE  ProbeInv'
  <2>1. a \in Action /\ a.spec \in Specs
    BY <1>4, PlannedAction DEF ApplyCreate
  <2> QED
    BY <1>4, <2>1, <1>c, <1>u DEF ApplyCreate, Take
<1>5. ASSUME NEW a \in todo, SfCreate(a)
      PROVE  ProbeInv'
  <2>1. a \in Action /\ a.spec \in Specs
    BY <1>5, PlannedAction DEF SfCreate
  <2> QED
    BY <1>5, <2>1, <1>c, <1>u DEF SfCreate, Take
<1>6. ASSUME NEW a \in todo, SpStop(a)
      PROVE  ProbeInv'
  <2>1. CASE UNCHANGED ctr
    BY <1>6, <2>1, <1>u DEF SpStop
  <2>2. CASE ctr' = [ctr EXCEPT ![a.id].state = IF @ = "running" THEN "exited" ELSE @]
    <3>1. a.id \in Ids /\ ctr[a.id] \in Container
      BY <1>6, PlannedAction DEF SpStop
    <3>2. ctr'[a.id].state # "running" /\ \A i \in Ids \ {a.id} : ctr'[i] = ctr[i]
      BY <2>2, <3>1 DEF TypeOK, Container
    <3>3. \A i \in Ids : Sound(i)' => Sound(i)
      BY <3>2 DEF Sound
    <3> QED
      BY <1>6, <3>3, ProbeFrame DEF SpStop
  <2> QED
    BY <1>6, <2>1, <2>2 DEF SpStop
<1>7. CASE CreateStart
  <2>1. CASE StartContainer(new)
    <3>1. new \in Ids /\ probes[new] = Untracked
      BY <1>7 DEF CreateStart, CurrentInv, HoldsNew, Creating
    <3>2. \A i \in Ids \ {new} : Sound(i)' => Sound(i)
      BY <2>1, <3>1 DEF StartContainer, Sound, TypeOK
    <3> QED
      BY <1>7, <3>1, <3>2, ProbeFrame DEF CreateStart
  <2> QED
    BY <1>7, <2>1, <1>u DEF CreateStart
<1>n. ASSUME pc \in {"sfStart", "spStart"}, StartContainer(new),
             probes' = [probes EXCEPT ![new] = Track(probes, new, cur.spec)]
      PROVE  ProbeInv'
  <2>1. new \in Ids /\ probes[new] = Untracked
    BY <1>n DEF CurrentInv, HoldsNew, Creating
  <2>2. \A i \in Ids \ {new} : (Sound(i)' => Sound(i)) /\ probes'[i] = probes[i]
    BY <1>n, <2>1 DEF StartContainer, Sound, TypeOK
  <2>3. probes'[new] = Untracked \/ Clean(probes'[new])
    BY <1>n, <2>1, TrackClean DEF TypeOK
  <2> QED
    BY <2>1, <2>2, <2>3, ProbeFrame
<1>8. CASE SfStart
  BY <1>8, <1>n, <1>u DEF SfStart
<1>9. CASE SfHealthy
  <2>1. \A i \in Ids : probes'[i] \in {probes[i], Untracked}
    BY <1>9 DEF SfHealthy, TypeOK
  <2> QED
    BY <1>9, <2>1, <1>s DEF SfHealthy
<1>10. CASE SfTimeout
  <2>1. \A i \in Ids : probes'[i] \in {probes[i], Untracked}
    BY <1>10 DEF SfTimeout, TypeOK
  <2> QED
    BY <1>10, <2>1, <1>s DEF SfTimeout
<1>11. CASE SfDiscard
  BY <1>11, <1>r, <1>u DEF SfDiscard
<1>12. CASE SfRemoveOld
  BY <1>12, <1>r, <1>u DEF SfRemoveOld
<1>13. CASE SfRename
  <2>1. CASE ctr' = [ctr EXCEPT ![new].name = "canonical"]
    <3>1. new \in Ids /\ ctr[new] \in Container
      BY <1>13 DEF SfRename, CurrentInv, HoldsNew, TypeOK
    <3>2. \A i \in Ids : Sound(i)' => Sound(i)
      BY <2>1, <3>1, SentinelsAssumption DEF Sound, TypeOK, Container
    <3> QED
      BY <1>13, <3>2, ProbeFrame DEF SfRename
  <2> QED
    BY <1>13, <2>1, <1>u DEF SfRename
<1>14. CASE SpRemove
  <2>1. \A i \in Ids : probes'[i] \in {probes[i], Untracked}
    BY <1>14 DEF SpRemove, TypeOK
  <2> QED
    BY <1>14, <2>1, <1>r, <1>s DEF SpRemove
<1>15. CASE SpCreate
  <2>1. cur \in Action /\ cur.spec \in Specs
    BY <1>15 DEF SpCreate, CurrentInv, Replacing, CarriesDesired
  <2> QED
    BY <1>15, <2>1, <1>c, <1>u DEF SpCreate
<1>16. CASE SpStart
  BY <1>16, <1>n, <1>u DEF SpStart
<1>17. CASE SpWait
  BY <1>17, <1>u DEF SpWait
<1>18. CASE Relist
  BY <1>18, <1>u DEF Relist
<1>19. CASE TrackProbes
  <2>1. \A i \in Ids : probes'[i] \in {probes[i], Untracked} \/ Clean(probes'[i])
    BY <1>19, TrackClean DEF TrackProbes, WireProbes
  <2>2. \A i \in Ids : Sound(i)' => Sound(i)
    BY <1>19 DEF TrackProbes, Sound
  <2> QED
    BY <2>1, <2>2, ProbeFrame
<1>20. CASE Persist
  BY <1>20, <1>u DEF Persist
<1> QED
  BY <1>0, <1>1, <1>2, <1>3, <1>4, <1>5, <1>6, <1>7, <1>8, <1>9, <1>10, <1>11, <1>12, <1>13,
     <1>14, <1>15, <1>16, <1>17, <1>18, <1>19, <1>20 DEF ReconcilerStep

-----------------------------------------------------------------------------
(* The other actors. *)

\* A verdict on a sound container is a success.
LEMMA SoundAnswers ==
  ASSUME TypeOK, NEW i \in Ids, Sound(i), Probed(i)
  PROVE  Answers(i) = {TRUE}
<1>1. probes[i].check \in Checks \ {NoHealth}
  BY DEF Probed, TypeOK, Entry
<1> QED
  BY <1>1 DEF Sound, Answers

\* Steps of the other actors leave the reconciler's assumptions true.
LEMMA EnvironmentInv ==
  ASSUME RolloutInv, Environment
  PROVE  PlanInv' /\ CurrentInv' /\ ProbeInv'
<1> USE DEF RolloutInv
<1>a. \A a \in todo : a.type \in {"remove", "replace"} => a.id \in Ids /\ ctr[a.id] # NoContainer
  BY PlannedAction
<1>t. todo \subseteq Action
  BY DEF TypeOK
<1>u. ASSUME UNCHANGED <<ctr, probes, pc, desired, todo, cur, new>>
      PROVE  PlanInv' /\ CurrentInv' /\ ProbeInv'
  <2>1. PlanInv'
    BY <1>u, <1>a, <1>t, PlanFrame DEF Keeps
  <2>2. CurrentInv'
    BY <1>u DEF CurrentInv, CarriesDesired, TargetsSlot
  <2>3. ProbeInv'
    BY <1>u DEF ProbeInv, Sound
  <2> QED
    BY <2>1, <2>2, <2>3
<1>1. ASSUME NEW s \in Services, ApiUpsert(s) \/ ApiScale(s) \/ ApiDelete(s)
      PROVE  PlanInv' /\ CurrentInv' /\ ProbeInv'
  BY <1>1, <1>u DEF ApiUpsert, ApiScale, ApiDelete
<1>2. ASSUME NEW i \in Ids, ContainerExits(i)
      PROVE  PlanInv' /\ CurrentInv' /\ ProbeInv'
  <2>1. ctr[i] \in Container /\ ctr[i].state = "running"
    BY <1>2 DEF ContainerExits, TypeOK
  <2>2. /\ ctr'[i] \in Container /\ ctr'[i].state = "exited"
        /\ ctr'[i].svc = ctr[i].svc /\ ctr'[i].replica = ctr[i].replica
        /\ ctr'[i].hash = ctr[i].hash
        /\ \A j \in Ids \ {i} : ctr'[j] = ctr[j]
    BY <1>2, <2>1 DEF ContainerExits, TypeOK, Container
  <2>3. \A j \in Ids : ctr[j] # NoContainer => Keeps(j)
    BY <2>1, <2>2, SentinelsAssumption DEF Keeps
  <2>4. PlanInv'
    BY <1>2, <1>a, <1>t, <2>3, PlanFrame DEF ContainerExits
  <2>5. ProbeInv'
    <3>1. \A j \in Ids : Sound(j)' => Sound(j)
      BY <2>2 DEF Sound
    <3> QED
      BY <1>2, <3>1, ProbeFrame DEF ContainerExits
  <2>6. CurrentInv'
    <3>1. UNCHANGED <<probes, pc, desired, todo, cur, new>>
      BY <1>2 DEF ContainerExits
    <3>2. CarriesDesired(cur) => CarriesDesired(cur)'
      BY <3>1 DEF CarriesDesired
    <3>3. TargetsSlot(cur) =>
            /\ TargetsSlot(cur)' /\ ctr'[cur.id].hash = ctr[cur.id].hash
            /\ ctr'[cur.id].state = "running" => ctr[cur.id].state = "running"
      BY <2>3, <3>1 DEF TargetsSlot, Keeps, SlotOf
    <3>4. pc \in HoldsNew => ctr'[new] # NoContainer /\ SlotOf(ctr'[new]) = SlotOf(ctr[new])
      BY <2>3 DEF CurrentInv, Keeps, SlotOf
    <3>5. pc \in Creating => ctr'[new] = ctr[new]
      BY <2>1, <2>2 DEF CurrentInv, Creating, HoldsNew
    <3> QED
      BY <3>1, <3>2, <3>3, <3>4, <3>5
         DEF CurrentInv, Creating, Replacing, HoldsOld, HoldsNew
  <2> QED
    BY <2>4, <2>5, <2>6
<1>p. ASSUME NEW i \in Ids, UNCHANGED <<ctr, pc, desired, todo, cur, new>>,
             probes[i] # Untracked, probes'[i] # Untracked,
             probes[i].passed => probes'[i].passed,
             \A j \in Ids \ {i} : probes'[j] = probes[j]
      PROVE  PlanInv' /\ CurrentInv'
  <2>1. PlanInv'
    BY <1>p, <1>a, <1>t, PlanFrame DEF Keeps
  <2>2. CarriesDesired(cur) => CarriesDesired(cur)'
    BY <1>p DEF CarriesDesired
  <2>3. TargetsSlot(cur) => TargetsSlot(cur)'
    BY <1>p DEF TargetsSlot
  <2>4. CurrentInv'
    BY <1>p, <2>2, <2>3 DEF CurrentInv, Creating, Replacing, HoldsOld, HoldsNew
  <2> QED
    BY <2>1, <2>4
<1>3. ASSUME NEW i \in Ids, ProbeResult(i)
      PROVE  PlanInv' /\ CurrentInv' /\ ProbeInv'
  <2>1. PICK healthy \in Answers(i) : probes' = [probes EXCEPT ![i] = RecordResult(@, healthy)]
    BY <1>3 DEF ProbeResult
  <2>2. probes[i] \in Entry /\ probes[i] # Untracked /\ healthy \in BOOLEAN
    BY <1>3, <2>1, AnswersType DEF ProbeResult, Probed, TypeOK
  <2>3. /\ probes'[i] = RecordResult(probes[i], healthy)
        /\ \A j \in Ids \ {i} : probes'[j] = probes[j]
    BY <2>1 DEF TypeOK
  <2>4. probes'[i] \in Entry
    BY <2>2, <2>3, RecordResultType
  <2>5. /\ probes'[i].ok = healthy
        /\ probes'[i].passed = (probes[i].passed \/ healthy)
    BY <2>2, <2>3 DEF RecordResult, Entry
  <2>6. PlanInv' /\ CurrentInv'
    BY <1>3, <1>p, <2>2, <2>3, <2>4, <2>5, SentinelsAssumption DEF ProbeResult
  <2>7. Sound(i) => healthy
    <3>1. HAVE Sound(i)
    <3>2. Answers(i) = {TRUE}
      BY <1>3, <3>1, SoundAnswers DEF ProbeResult
    <3>3. healthy = TRUE
      BY <2>1, <3>2
    <3> QED
      BY <3>3
  <2>8. \A j \in Ids : Sound(j)' <=> Sound(j)
    BY <1>3 DEF ProbeResult, Sound
  <2>9. ProbeInv'
    BY <2>3, <2>5, <2>7, <2>8 DEF ProbeInv
  <2> QED
    BY <2>6, <2>9
<1>4. ASSUME NEW i \in Ids, ProbeLoopReturns(i)
      PROVE  PlanInv' /\ CurrentInv' /\ ProbeInv'
  <2>1. probes[i] \in Entry /\ probes[i] # Untracked
    BY <1>4 DEF ProbeLoopReturns, Probed, TypeOK
  <2>2. /\ probes'[i] = [probes[i] EXCEPT !.alive = FALSE]
        /\ \A j \in Ids \ {i} : probes'[j] = probes[j]
    BY <1>4 DEF ProbeLoopReturns, TypeOK
  <2>3. /\ probes'[i] \in Entry /\ probes'[i].ok = probes[i].ok
        /\ probes'[i].passed = probes[i].passed /\ probes'[i].streak = probes[i].streak
    BY <2>1, <2>2 DEF Entry
  <2>4. PlanInv' /\ CurrentInv'
    BY <1>4, <1>p, <2>1, <2>2, <2>3, SentinelsAssumption DEF ProbeLoopReturns
  <2>5. \A j \in Ids : Sound(j)' <=> Sound(j)
    BY <1>4 DEF ProbeLoopReturns, Sound
  <2>6. ProbeInv'
    BY <2>1, <2>2, <2>3, <2>5 DEF ProbeInv
  <2> QED
    BY <2>4, <2>6
<1>5. CASE ServerRestarts
  <2>1. PlanInv'
    BY <1>5 DEF ServerRestarts, EndTick, PlanInv
  <2>2. CurrentInv'
    BY <1>5, EndTickInv DEF ServerRestarts
  <2>3. ProbeInv'
    BY <1>5 DEF ServerRestarts, ProbeInv
  <2> QED
    BY <2>1, <2>2, <2>3
<1> QED
  BY <1>1, <1>2, <1>3, <1>4, <1>5 DEF Environment

-----------------------------------------------------------------------------
(* The invariant. *)

\* RolloutInv holds initially.
LEMMA InitInv == Init => RolloutInv
<1> SUFFICES ASSUME Init PROVE RolloutInv
  OBVIOUS
<1>1. TypeOK
  BY InitType
<1>2. PlanInv
  BY DEF Init, PlanInv
<1>3. CurrentInv
  BY DEF Init, CurrentInv, Creating, Replacing, HoldsOld, HoldsNew
<1>4. ProbeInv
  BY DEF Init, ProbeInv
<1> QED
  BY <1>1, <1>2, <1>3, <1>4 DEF RolloutInv

\* RolloutInv is inductive: every step of reconciler or environment keeps it.
LEMMA NextInv == RolloutInv /\ [Next]_vars => RolloutInv'
<1> SUFFICES ASSUME RolloutInv, [Next]_vars PROVE RolloutInv'
  OBVIOUS
<1>1. CASE ReconcilerStep
  BY <1>1, ReconcilerStepType, ReconcilerStepPlan, ReconcilerStepCurrent, ReconcilerStepProbe
     DEF RolloutInv
<1>2. CASE Environment
  BY <1>2, EnvironmentType, EnvironmentInv DEF RolloutInv
<1>3. CASE UNCHANGED vars
  <2>1. TypeOK'
    BY <1>3 DEF vars, RolloutInv, TypeOK
  <2>2. PlanInv'
    BY <1>3 DEF vars, RolloutInv, PlanInv, CarriesDesired, TargetsSlot, Sound
  <2>3. CurrentInv'
    BY <1>3 DEF vars, RolloutInv, CurrentInv, CarriesDesired, TargetsSlot
  <2>4. ProbeInv'
    BY <1>3 DEF vars, RolloutInv, ProbeInv, Sound
  <2> QED
    BY <2>1, <2>2, <2>3, <2>4 DEF RolloutInv
<1> QED
  BY <1>1, <1>2, <1>3 DEF Next

\* The plan and the current action of a tick stay consistent with the daemon
\* and the probe manager through every interleaving, fault and restart.
THEOREM RolloutInvariant == Spec => []RolloutInv
<1>1. Init => RolloutInv
  BY InitInv
<1>2. RolloutInv /\ [Next]_vars => RolloutInv'
  BY NextInv
<1> QED
  BY <1>1, <1>2, PTL DEF Spec

\* Every variable keeps its type.
THEOREM TypeCorrect == Spec => []TypeOK
<1>1. RolloutInv => TypeOK
  BY DEF RolloutInv
<1> QED
  BY <1>1, RolloutInvariant, PTL

-----------------------------------------------------------------------------
(* Removals. *)

\* The four ways a container disappears.
LEMMA RemovedBy ==
  ASSUME RolloutInv, Next, NEW i \in Ids, ctr[i] # NoContainer, ctr'[i] = NoContainer
  PROVE  \/ \E a \in todo : ApplyRemove(a) /\ i = a.id
         \/ SfDiscard /\ i = new
         \/ SfRemoveOld /\ i = cur.id
         \/ SpRemove /\ i = cur.id
<1> USE DEF RolloutInv
<1>k. ctr' # ctr
  OBVIOUS
<1>r. ASSUME NEW x, RemoveContainer(x) PROVE i = x
  BY <1>r DEF RemoveContainer, TypeOK
<1>c. ASSUME NEW a \in Action, a.spec \in Specs, NEW x \in Ids,
             NEW name \in {"canonical", "new"}, CreateContainer(a, x, name)
      PROVE  FALSE
  BY <1>c DEF CreateContainer, Fresh, TypeOK
<1>e. ASSUME NEW x \in Ids, NEW c \in Container, ctr' = [ctr EXCEPT ![x] = c]
      PROVE  FALSE
  BY <1>e, SentinelsAssumption DEF TypeOK
<1>1. CASE ReconcilerStep
  <2>1. ASSUME NEW a \in todo, ApplyRemove(a) PROVE i = a.id
    BY <2>1, <1>r, <1>k DEF ApplyRemove
  <2>2. ASSUME NEW a \in todo, ApplyCreate(a) PROVE FALSE
    <3>1. a \in Action /\ a.spec \in Specs
      BY <2>2, PlannedAction DEF ApplyCreate
    <3> QED
      BY <2>2, <3>1, <1>c, <1>k DEF ApplyCreate
  <2>3. ASSUME NEW a \in todo, SfCreate(a) PROVE FALSE
    <3>1. a \in Action /\ a.spec \in Specs
      BY <2>3, PlannedAction DEF SfCreate
    <3> QED
      BY <2>3, <3>1, <1>c, <1>k DEF SfCreate
  <2>4. ASSUME NEW a \in todo, SpStop(a) PROVE FALSE
    <3>1. a.id \in Ids /\ ctr[a.id] \in Container
      BY <2>4, PlannedAction DEF SpStop
    <3>2. [ctr[a.id] EXCEPT !.state = IF @ = "running" THEN "exited" ELSE @] \in Container
      BY <3>1 DEF Container
    <3> QED
      BY <2>4, <3>1, <3>2, <1>e, <1>k DEF SpStop
  <2>5. CASE CreateStart \/ SfStart \/ SpStart
    <3>1. new \in Ids /\ ctr[new] \in Container
      BY <2>5 DEF CreateStart, SfStart, SpStart, CurrentInv, HoldsNew, TypeOK
    <3>2. [ctr[new] EXCEPT !.state = "running"] \in Container
      BY <3>1 DEF Container
    <3> QED
      BY <2>5, <3>1, <3>2, <1>e, <1>k DEF CreateStart, SfStart, SpStart, StartContainer
  <2>6. CASE SfRename
    <3>1. new \in Ids /\ ctr[new] \in Container
      BY <2>6 DEF SfRename, CurrentInv, HoldsNew, TypeOK
    <3>2. [ctr[new] EXCEPT !.name = "canonical"] \in Container
      BY <3>1 DEF Container
    <3> QED
      BY <2>6, <3>1, <3>2, <1>e, <1>k DEF SfRename
  <2>7. CASE SpCreate
    <3>1. cur \in Action /\ cur.spec \in Specs
      BY <2>7 DEF SpCreate, CurrentInv, Replacing, CarriesDesired
    <3> QED
      BY <2>7, <3>1, <1>c, <1>k DEF SpCreate
  <2>8. CASE SfDiscard
    BY <2>8, <1>r, <1>k DEF SfDiscard
  <2>9. CASE SfRemoveOld
    BY <2>9, <1>r, <1>k DEF SfRemoveOld
  <2>10. CASE SpRemove
    BY <2>10, <1>r, <1>k DEF SpRemove
  <2>11. CASE \/ PushRoutes \/ Plan \/ PlanFails \/ SfHealthy \/ SfTimeout \/ SpWait
              \/ Relist \/ TrackProbes \/ Persist
    BY <2>11, <1>k DEF PushRoutes, Plan, PlanFails, SfHealthy, SfTimeout, SpWait, Relist,
                       TrackProbes, Persist
  <2> QED
    BY <1>1, <2>1, <2>2, <2>3, <2>4, <2>5, <2>6, <2>7, <2>8, <2>9, <2>10, <2>11
       DEF ReconcilerStep
<1>2. CASE Environment
  <2>1. ASSUME NEW x \in Ids, ContainerExits(x) PROVE FALSE
    <3>1. [ctr[x] EXCEPT !.state = "exited"] \in Container
      BY <2>1 DEF ContainerExits, TypeOK, Container
    <3> QED
      BY <2>1, <3>1, <1>e DEF ContainerExits
  <2> QED
    BY <1>2, <2>1, <1>k
       DEF Environment, ApiUpsert, ApiScale, ApiDelete, ProbeResult, ProbeLoopReturns, ServerRestarts
<1> QED
  BY <1>1, <1>2 DEF Next

\* A working container of a wanted slot leaves only as the old container of a
\* start-first replacement whose new container has passed.
LEMMA TornDownByPromotion ==
  ASSUME RolloutInv, Next, NEW i \in Ids, TearsDown(i)
  PROVE  SfRemoveOld /\ i = cur.id
<1>1. ctr[i] # NoContainer /\ ctr'[i] = NoContainer /\ i # new /\ Sound(i)
  BY DEF TearsDown, Sound
<1>2. ASSUME NEW a \in todo, ApplyRemove(a), i = a.id PROVE FALSE
  <2>1. a.type = "remove"
    BY <1>2 DEF ApplyRemove
  <2>2. SlotOf(ctr[i]) = <<a.svc, a.replica>>
    BY <1>2, <2>1 DEF RolloutInv, PlanInv, TargetsSlot
  <2> QED
    BY <1>1, <1>2, <2>1, <2>2 DEF RolloutInv, PlanInv, TearsDown
<1>3. ASSUME SpRemove, i = cur.id PROVE FALSE
  BY <1>1, <1>3 DEF SpRemove, RolloutInv, CurrentInv, Sound
<1> QED
  BY <1>1, <1>2, <1>3, RemovedBy

\* FR-007, in every system: under start-first the reconciler removes a working
\* container of a slot it wants only after another container of the slot passed
\* a probe, whatever edits, faults, exits and restarts come in between.
THEOREM StartFirstServes == Spec => KeepsServing
<1>1. RolloutInv /\ [Next]_vars =>
        [\A i \in Ids : TearsDown(i) /\ SelectStrategy(DesiredSpec(i)) = "start-first" =>
           \E j \in Ids \ {i} : /\ ctr[j] # NoContainer /\ SlotOf(ctr[j]) = SlotOf(ctr[i])
                                /\ probes[j] # Untracked /\ probes[j].passed]_vars
  <2> SUFFICES ASSUME RolloutInv, Next, NEW i \in Ids, TearsDown(i)
               PROVE  \E j \in Ids \ {i} :
                         /\ ctr[j] # NoContainer /\ SlotOf(ctr[j]) = SlotOf(ctr[i])
                         /\ probes[j] # Untracked /\ probes[j].passed
    OBVIOUS
  <2>1. pc = "sfRemoveOld" /\ i = cur.id
    BY TornDownByPromotion DEF SfRemoveOld
  <2>2. /\ new \in Ids \ {i} /\ ctr[new] # NoContainer
        /\ SlotOf(ctr[new]) = SlotOf(ctr[i])
        /\ probes[new] # Untracked /\ probes[new].passed
    BY <2>1 DEF RolloutInv, CurrentInv, HoldsNew, HoldsOld, TargetsSlot
  <2> QED
    BY <2>2
<1> QED
  BY <1>1, RolloutInvariant, PTL DEF Spec, KeepsServing

\* hash.go's promise, in every system: a working container that matches what its
\* slot should run is never torn down.
THEOREM MatchingContainersStay == Spec => NoNeedlessTeardown
<1>1. RolloutInv /\ [Next]_vars =>
        [\A i \in Ids : TearsDown(i) =>
           LET have == ctr[i].hash  want == DesiredSpec(i)
           IN  \/ have.image # want.image \/ have.health # want.health
               \/ have.stateful # want.stateful \/ have.routed # want.routed]_vars
  <2> SUFFICES ASSUME RolloutInv, Next, NEW i \in Ids, TearsDown(i)
               PROVE  \/ ctr[i].hash.image # DesiredSpec(i).image
                      \/ ctr[i].hash.health # DesiredSpec(i).health
                      \/ ctr[i].hash.stateful # DesiredSpec(i).stateful
                      \/ ctr[i].hash.routed # DesiredSpec(i).routed
    OBVIOUS
  <2>1. pc = "sfRemoveOld" /\ i = cur.id
    BY TornDownByPromotion DEF SfRemoveOld
  <2>2. /\ ctr[i].hash # Hash(cur.spec) /\ SlotOf(ctr[i]) = <<cur.svc, cur.replica>>
        /\ cur.spec = desired[cur.svc].spec /\ ctr[i] # NoContainer
    BY <2>1 DEF RolloutInv, CurrentInv, HoldsOld, Replacing, TargetsSlot, CarriesDesired
  <2>3. DesiredSpec(i) = cur.spec
    BY <2>2 DEF DesiredSpec, SlotOf
  <2>4. ctr[i].hash \in HashSet
    BY <2>2 DEF RolloutInv, TypeOK, Container
  <2>5. PICK spec \in Specs : ctr[i].hash = Hash(spec)
    BY <2>4 DEF HashSet
  <2> QED
    BY <2>2, <2>3, <2>5 DEF Hash
<1> QED
  BY <1>1, RolloutInvariant, PTL DEF Spec, NoNeedlessTeardown

-----------------------------------------------------------------------------
(* Services that only ever use stop-first. *)

AllStopFirst == \A spec \in Specs : SelectStrategy(spec) = "stop-first"

StartFirstPcs == {"sfStart", "sfWait", "sfDiscard", "sfRemoveOld", "sfRename"}

\* Without start-first every container has its canonical name, and the daemon
\* gives a name to one container at a time.
StopInv ==
  /\ pc \notin StartFirstPcs
  /\ \A i \in Listed(ctr) : ctr[i].name = "canonical"
  /\ OneContainerPerSlot

\* A step that adds no container and changes no label or name keeps StopInv.
LEMMA StopFrame ==
  ASSUME StopInv, pc' \notin StartFirstPcs,
         \A i \in Ids : ctr'[i] # NoContainer =>
            /\ ctr[i] # NoContainer /\ ctr'[i].name = ctr[i].name
            /\ ctr'[i].svc = ctr[i].svc /\ ctr'[i].replica = ctr[i].replica
  PROVE  StopInv'
<1>1. \A i \in Listed(ctr') : /\ i \in Listed(ctr) /\ ctr'[i].name = ctr[i].name
                             /\ SlotOf(ctr'[i]) = SlotOf(ctr[i])
  BY DEF Listed, SlotOf
<1>2. \A i \in Listed(ctr') : ctr'[i].name = "canonical"
  BY <1>1 DEF StopInv
<1>3. \A i, j \in Listed(ctr') : SlotOf(ctr'[i]) = SlotOf(ctr'[j]) => i = j
  BY <1>1 DEF StopInv, OneContainerPerSlot
<1> QED
  BY <1>2, <1>3 DEF StopInv, OneContainerPerSlot

\* A container created under the canonical name is alone in its slot.
LEMMA StopCreate ==
  ASSUME TypeOK, StopInv, pc' \notin StartFirstPcs, NEW a \in Action, a.spec \in Specs,
         NEW i \in Ids, CreateContainer(a, i, "canonical")
  PROVE  StopInv'
<1>1. /\ ctr'[i].name = "canonical" /\ SlotOf(ctr'[i]) = <<a.svc, a.replica>>
      /\ \A j \in Ids \ {i} : ctr'[j] = ctr[j]
  BY DEF CreateContainer, TypeOK, SlotOf
<1>2. \A j \in Listed(ctr) : SlotOf(ctr[j]) # <<a.svc, a.replica>>
  BY DEF CreateContainer, NameTaken, StopInv
<1>3. \A j \in Listed(ctr') : j # i => j \in Listed(ctr) /\ ctr'[j] = ctr[j]
  BY <1>1 DEF Listed
<1>4. \A j \in Listed(ctr') : ctr'[j].name = "canonical"
  BY <1>1, <1>3 DEF StopInv
<1>5. \A j, k \in Listed(ctr') : SlotOf(ctr'[j]) = SlotOf(ctr'[k]) => j = k
  BY <1>1, <1>2, <1>3 DEF StopInv, OneContainerPerSlot
<1> QED
  BY <1>4, <1>5 DEF StopInv, OneContainerPerSlot

\* When every spec selects stop-first, each step keeps one container per slot.
LEMMA StopStep ==
  ASSUME AllStopFirst, RolloutInv, StopInv, [Next]_vars
  PROVE  StopInv'
<1> USE DEF RolloutInv
<1>u. ASSUME ctr' = ctr, pc' \notin StartFirstPcs PROVE StopInv'
  BY <1>u, StopFrame
<1>r. ASSUME NEW x, RemoveContainer(x), pc' \notin StartFirstPcs PROVE StopInv'
  BY <1>r, StopFrame DEF RemoveContainer, TypeOK
<1>x. ASSUME NEW x \in Ids, ctr[x] # NoContainer, pc' \notin StartFirstPcs, NEW st,
             ctr' = [ctr EXCEPT ![x].state = st]
      PROVE  StopInv'
  <2>1. ctr[x] \in Container
    BY <1>x DEF TypeOK
  <2>2. /\ ctr'[x].name = ctr[x].name /\ ctr'[x].svc = ctr[x].svc
        /\ ctr'[x].replica = ctr[x].replica /\ \A i \in Ids \ {x} : ctr'[i] = ctr[i]
    BY <1>x, <2>1 DEF TypeOK, Container
  <2> QED
    BY <1>x, <2>2, StopFrame
<1>1. CASE ReconcilerStep
  <2> USE DEF StartFirstPcs
  <2>1. ASSUME NEW a \in todo, ApplyRemove(a) PROVE StopInv'
    BY <2>1, <1>r, <1>u DEF ApplyRemove, Done
  <2>2. ASSUME NEW a \in todo, ApplyCreate(a) PROVE StopInv'
    <3>1. a \in Action /\ a.spec \in Specs
      BY <2>2, PlannedAction DEF ApplyCreate
    <3>2. pc' \notin StartFirstPcs
      BY <2>2 DEF ApplyCreate, Done
    <3> QED
      BY <2>2, <3>1, <3>2, StopCreate, <1>u DEF ApplyCreate
  <2>3. ASSUME NEW a \in todo, SfCreate(a) PROVE StopInv'
    <3>1. a.spec \in Specs
      BY <2>3, PlannedAction DEF SfCreate
    <3> QED
      BY <2>3, <3>1 DEF SfCreate, AllStopFirst
  <2>4. ASSUME NEW a \in todo, SpStop(a) PROVE StopInv'
    <3>1. a.id \in Ids /\ ctr[a.id] # NoContainer
      BY <2>4, PlannedAction DEF SpStop
    <3>2. pc' \notin StartFirstPcs
      BY <2>4 DEF SpStop, Done
    <3> QED
      BY <2>4, <3>1, <3>2, <1>x, <1>u DEF SpStop
  <2>5. CASE CreateStart \/ SpStart
    <3>1. new \in Ids /\ ctr[new] # NoContainer
      BY <2>5 DEF CreateStart, SpStart, CurrentInv, HoldsNew
    <3>2. pc' \notin StartFirstPcs
      BY <2>5 DEF CreateStart, SpStart, Done
    <3> QED
      BY <2>5, <3>1, <3>2, <1>x, <1>u DEF CreateStart, SpStart, StartContainer
  <2>6. CASE SfStart \/ SfHealthy \/ SfTimeout \/ SfDiscard \/ SfRemoveOld \/ SfRename
    BY <2>6 DEF SfStart, SfHealthy, SfTimeout, SfDiscard, SfRemoveOld, SfRename, StopInv
  <2>7. CASE SpRemove
    BY <2>7, <1>r, <1>u DEF SpRemove, Done
  <2>8. CASE SpCreate
    <3>1. cur \in Action /\ cur.spec \in Specs
      BY <2>8 DEF SpCreate, CurrentInv, Replacing, CarriesDesired
    <3>2. pc' \notin StartFirstPcs
      BY <2>8 DEF SpCreate, Done
    <3> QED
      BY <2>8, <3>1, <3>2, StopCreate, <1>u DEF SpCreate
  <2>9. CASE PushRoutes \/ Plan \/ PlanFails \/ SpWait \/ Relist \/ TrackProbes \/ Persist
    BY <2>9, <1>u DEF PushRoutes, Plan, PlanFails, SpWait, Relist, TrackProbes, Persist,
                      Done, EndTick
  <2> QED
    BY <1>1, <2>1, <2>2, <2>3, <2>4, <2>5, <2>6, <2>7, <2>8, <2>9 DEF ReconcilerStep
<1>2. CASE Environment
  <2>1. ASSUME NEW i \in Ids, ContainerExits(i) PROVE StopInv'
    BY <2>1, <1>x DEF ContainerExits, StopInv
  <2>2. CASE ServerRestarts
    BY <2>2, <1>u DEF ServerRestarts, EndTick, StartFirstPcs
  <2> QED
    BY <1>2, <2>1, <2>2, <1>u
       DEF Environment, ApiUpsert, ApiScale, ApiDelete, ProbeResult, ProbeLoopReturns, StopInv
<1>3. CASE UNCHANGED vars
  BY <1>3, <1>u DEF vars, StopInv
<1> QED
  BY <1>1, <1>2, <1>3 DEF Next

\* SC-006, in every system whose services use stop-first: a replica slot never
\* has two containers, through crashes, failed calls and concurrent edits.
THEOREM NoTwoWriters ==
  ASSUME AllStopFirst
  PROVE  Spec => []OneContainerPerSlot
<1>1. Init => StopInv
  BY DEF Init, StopInv, StartFirstPcs, Listed, OneContainerPerSlot, NoContainers
<1>2. RolloutInv /\ StopInv /\ [Next]_vars => StopInv'
  BY AllStopFirst, StopStep
<1>3. StopInv => OneContainerPerSlot
  BY DEF StopInv
<1> QED
  BY <1>1, <1>2, <1>3, RolloutInvariant, PTL DEF Spec

-----------------------------------------------------------------------------
(* Status rows and slots. *)

Resting == {"idle", "plan", "track", "persist"}

\* A step brings no container to i, and changes neither its slot nor, but to the
\* canonical one, its name.
KeepsLabels(i) ==
  ctr'[i] # NoContainer =>
    /\ ctr[i] # NoContainer /\ SlotOf(ctr'[i]) = SlotOf(ctr[i])
    /\ ctr'[i].name \in {ctr[i].name, "canonical"}

\* A step of the actions that keeps the labels, and ends an overlap only by a
\* removal.
LEMMA TidyFrame ==
  ASSUME TidyInv, \A i \in Ids : KeepsLabels(i), desired' = desired,
         pc \notin Resting, pc' \notin Resting,
         \A a \in todo \ todo' : a.type = "remove" => ctr'[a.id] = NoContainer,
         pc \in Overlapping => \/ pc' \in Overlapping /\ new' = new /\ cur'.id = cur.id
                               \/ ctr'[new] = NoContainer \/ ctr'[cur.id] = NoContainer,
         pc \in Overlapping \cup {"sfRename"} =>
           \/ pc' \in Overlapping \cup {"sfRename"} /\ new' = new
           \/ ctr'[new] = NoContainer \/ ctr'[new].name = "canonical"
  PROVE  TidyInv'
<1> USE DEF TidyInv
<1>1. \A i \in Listed(ctr') : /\ i \in Ids /\ i \in Listed(ctr) /\ ctr'[i] # NoContainer
                             /\ SlotOf(ctr'[i]) = SlotOf(ctr[i])
                             /\ ctr'[i].name \in {ctr[i].name, "canonical"}
  BY DEF Listed, KeepsLabels
<1>2. SlotInv'
  <2> SUFFICES ASSUME NEW i \in Listed(ctr'), NEW j \in Listed(ctr'), i # j,
                      SlotOf(ctr'[i]) = SlotOf(ctr'[j])
               PROVE  pc' \in Overlapping /\ {i, j} = {new', cur'.id}
    BY DEF SlotInv
  <2>1. pc \in Overlapping /\ {i, j} = {new, cur.id}
    BY <1>1 DEF SlotInv
  <2>2. ctr'[new] # NoContainer /\ ctr'[cur.id] # NoContainer
    <3>1. new \in {i, j} /\ cur.id \in {i, j}
      BY <2>1
    <3> QED  BY <1>1, <3>1
  <2> QED  BY <2>1, <2>2
<1>3. NameInv'
  BY <1>1 DEF NameInv
<1>4. LeavingInv'
  <2> SUFFICES ASSUME NEW i \in Listed(ctr')
               PROVE  \/ WantedBy(desired, SlotOf(ctr'[i]))
                      \/ \E a \in todo' : a.type = "remove" /\ a.id = i
    BY DEF LeavingInv
  <2>1. \/ WantedBy(desired, SlotOf(ctr[i]))
        \/ \E a \in todo : a.type = "remove" /\ a.id = i
    BY <1>1 DEF LeavingInv, Resting
  <2> QED  BY <1>1, <2>1
<1>5. RelistedInv'
  BY DEF RelistedInv, Resting
<1> QED  BY <1>2, <1>3, <1>4, <1>5

\* A container is created in an empty slot, or beside the one it will replace.
LEMMA TidyCreate ==
  ASSUME TypeOK, TidyInv, NEW a \in Action, a.spec \in Specs, CarriesDesired(a),
         NEW i \in Ids, NEW name \in {"canonical", "new"}, CreateContainer(a, i, name),
         pc \notin Resting \cup Overlapping \cup {"sfRename"}, pc' \notin Resting,
         desired' = desired, \A b \in todo : b.type = "remove" => b \in todo',
         name = "new" => pc' = "sfStart" /\ cur' = a /\ TargetsSlot(a)
  PROVE  TidyInv'
<1> USE DEF TidyInv
<1>1. /\ ctr[i] = NoContainer /\ ctr'[i] # NoContainer /\ new' = i
      /\ SlotOf(ctr'[i]) = <<a.svc, a.replica>> /\ ctr'[i].name = name
      /\ \A j \in Ids : j # i => ctr'[j] = ctr[j]
  <2> DEFINE c == [svc |-> a.svc, replica |-> a.replica, hash |-> Hash(a.spec), name |-> name,
                   state |-> "created"]
  <2>1. c \in Container
    BY HashType DEF Container, Action
  <2>2. c.svc = a.svc /\ c.replica = a.replica /\ c.name = name
    OBVIOUS
  <2>3. ctr' = [ctr EXCEPT ![i] = c] /\ new' = i /\ ctr[i] = NoContainer
    BY DEF CreateContainer, Fresh
  <2> HIDE DEF c
  <2> QED  BY <2>1, <2>2, <2>3, SentinelsAssumption DEF TypeOK, SlotOf
<1>2. \A j, k \in Listed(ctr) : SlotOf(ctr[j]) = SlotOf(ctr[k]) => j = k
  BY DEF SlotInv
<1>3. \A j \in Listed(ctr) : ctr[j].name = "canonical"
  BY DEF NameInv
<1>4. \A j \in Listed(ctr') : j = i \/ (j \in Listed(ctr) /\ ctr'[j] = ctr[j])
  BY <1>1 DEF Listed
<1>5. \A j \in Listed(ctr) : SlotOf(ctr[j]) = <<a.svc, a.replica>> =>
        name = "new" /\ j = a.id
  <2> SUFFICES ASSUME NEW j \in Listed(ctr), SlotOf(ctr[j]) = <<a.svc, a.replica>>
               PROVE  name = "new" /\ j = a.id
    OBVIOUS
  <2>1. name = "new"
    BY <1>3 DEF CreateContainer, NameTaken
  <2>2. a.id \in Listed(ctr) /\ SlotOf(ctr[a.id]) = <<a.svc, a.replica>>
    BY <2>1 DEF TargetsSlot, Listed
  <2> QED  BY <1>2, <2>1, <2>2
<1>6. SlotInv'
  <2> SUFFICES ASSUME NEW j \in Listed(ctr'), NEW k \in Listed(ctr'), j # k,
                      SlotOf(ctr'[j]) = SlotOf(ctr'[k])
               PROVE  pc' \in Overlapping /\ {j, k} = {new', cur'.id}
    BY DEF SlotInv
  <2>1. CASE j = i
    BY <1>1, <1>4, <1>5, <2>1 DEF Overlapping
  <2>2. CASE k = i
    BY <1>1, <1>4, <1>5, <2>2 DEF Overlapping
  <2>3. CASE j # i /\ k # i
    BY <1>2, <1>4, <2>3
  <2> QED  BY <2>1, <2>2, <2>3
<1>7. NameInv'
  BY <1>1, <1>3, <1>4 DEF NameInv, Overlapping
<1>8. LeavingInv'
  <2> SUFFICES ASSUME NEW j \in Listed(ctr')
               PROVE  \/ WantedBy(desired, SlotOf(ctr'[j]))
                      \/ \E b \in todo' : b.type = "remove" /\ b.id = j
    BY DEF LeavingInv
  <2>1. CASE j = i
    BY <1>1, <2>1 DEF CarriesDesired
  <2>2. CASE j # i
    BY <1>4, <2>2 DEF LeavingInv, Resting
  <2> QED  BY <2>1, <2>2
<1>9. RelistedInv'
  BY DEF RelistedInv, Resting
<1> QED  BY <1>6, <1>7, <1>8, <1>9

\* The plan removes every container of an unwanted slot: none is hidden by
\* another one in actualMap.
LEMMA PlanTidy ==
  ASSUME TypeOK, TidyInv, Plan
  PROVE  TidyInv'
<1> USE DEF TidyInv
<1> DEFINE bad == ProbeUnhealthySet(row, ctr)
           Wanted == {k \in Slots : WantedBy(row, k)}
<1>1. PICK m \in ActualMaps(ctr, bad) : /\ todo' = Compute(row, ctr, bad, m)
                                       /\ IF todo' = {} THEN pc' = "track" /\ actual' = ctr
                                          ELSE pc' = "act" /\ UNCHANGED actual
  BY DEF Plan
<1>2. pc = "plan" /\ ctr' = ctr /\ desired' = row
  BY DEF Plan
<1>3. \A i, j \in Listed(ctr) : SlotOf(ctr[i]) = SlotOf(ctr[j]) => i = j
  BY <1>2 DEF SlotInv, Overlapping
<1>4. \A i \in Listed(ctr) : WantedBy(row, SlotOf(ctr[i])) \/ RemoveOf(ctr, i) \in todo'
  <2> SUFFICES ASSUME NEW i \in Listed(ctr), ~WantedBy(row, SlotOf(ctr[i]))
               PROVE  RemoveOf(ctr, i) \in todo'
    OBVIOUS
  <2> DEFINE k == SlotOf(ctr[i])
  <2>1. k \in Slots /\ k \in Slots \ Wanted
    BY DEF TypeOK, Listed, Container, SlotOf, Slots
  <2>2. CASE i \notin Active(ctr) \/ i \in bad
    BY <1>1, <2>2 DEF Compute
  <2>3. CASE i \in Active(ctr) /\ i \notin bad
    <3>1. i \in Occupants(ctr, bad, k)
      BY <2>3 DEF Occupants
    <3>2. m[k] \in Occupants(ctr, bad, k)
      BY <2>1, <3>1 DEF ActualMaps
    <3>3. m[k] \in Listed(ctr) /\ SlotOf(ctr[m[k]]) = k
      BY <3>2 DEF Occupants, Active
    <3>4. m[k] = i
      BY <1>3, <3>3
    <3>5. m[k] # NoId
      BY <3>3, SentinelsAssumption DEF Listed
    <3> QED  BY <1>1, <2>1, <3>4, <3>5 DEF Compute
  <2> QED  BY <2>2, <2>3
<1>5. SlotInv' /\ NameInv'
  <2>1. \A i \in Listed(ctr) : ctr[i].name = "canonical"
    BY <1>2 DEF NameInv, Overlapping
  <2> QED  BY <1>2, <1>3, <2>1 DEF SlotInv, NameInv
<1>6. LeavingInv'
  <2>1. \A i : RemoveOf(ctr, i).type = "remove" /\ RemoveOf(ctr, i).id = i
    BY DEF RemoveOf
  <2> QED  BY <1>2, <1>4, <2>1 DEF LeavingInv
<1>7. RelistedInv'
  BY <1>1, <1>2, <1>3, <1>4 DEF RelistedInv
<1> QED  BY <1>5, <1>6, <1>7

\* A removal keeps the labels of what is left.
LEMMA RemoveLabels ==
  ASSUME TypeOK, NEW x \in Ids, RemoveContainer(x)
  PROVE  ctr'[x] = NoContainer /\ \A i \in Ids : KeepsLabels(i)
BY DEF RemoveContainer, TypeOK, KeepsLabels

\* A change of state keeps all labels.
LEMMA StateLabels ==
  ASSUME TypeOK, NEW x \in Ids, ctr[x] # NoContainer, NEW st,
         ctr' = [ctr EXCEPT ![x].state = st]
  PROVE  \A i \in Ids : KeepsLabels(i)
<1>1. ctr[x] \in Container
  BY DEF TypeOK
<1>2. /\ ctr'[x].name = ctr[x].name /\ ctr'[x].svc = ctr[x].svc
      /\ ctr'[x].replica = ctr[x].replica /\ \A i \in Ids \ {x} : ctr'[i] = ctr[i]
  BY <1>1 DEF TypeOK, Container
<1> QED  BY <1>2 DEF KeepsLabels, SlotOf

\* What the actions assume of slots survives every step of the reconciler in
\* which no call is refused.
LEMMA ReconcilerStepTidy ==
  ASSUME RolloutInv, TidyInv, ReconcilerStep, ~Spend("fault")
  PROVE  TidyInv'
<1> USE DEF RolloutInv
<1>f. \A call : ~Fault(call)
  BY DEF Fault
<1>q. ASSUME ctr' = ctr, pc \notin Overlapping \cup {"sfRename"}
      PROVE  SlotInv' /\ NameInv'
  BY <1>q DEF TidyInv, SlotInv, NameInv
<1>u. ASSUME ctr' = ctr PROVE \A i \in Ids : KeepsLabels(i)
  BY <1>u DEF KeepsLabels
<1> USE DEF Overlapping, Resting
<1>1. CASE PushRoutes
  BY <1>1, <1>q DEF PushRoutes, TidyInv, LeavingInv, RelistedInv
<1>2. CASE Plan
  BY <1>2, PlanTidy
<1>3. CASE PlanFails
  BY <1>3, <1>f DEF PlanFails
<1>4. ASSUME NEW a \in todo, ApplyRemove(a) PROVE TidyInv'
  <2>1. a.id \in Ids /\ RemoveContainer(a.id)
    BY <1>4, <1>f, PlannedAction DEF ApplyRemove
  <2>2. ctr'[a.id] = NoContainer /\ \A i \in Ids : KeepsLabels(i)
    BY <2>1, RemoveLabels
  <2>3. pc = "act" /\ pc' = "act" /\ todo' = todo \ {a} /\ desired' = desired
    BY <1>4 DEF ApplyRemove, Ready, Take, Done
  <2> QED  BY <2>2, <2>3, TidyFrame
<1>5. ASSUME NEW a \in todo, ApplyCreate(a) PROVE TidyInv'
  <2>1. a \in Action /\ a.spec \in Specs /\ CarriesDesired(a)
    BY <1>5, PlannedAction DEF ApplyCreate, PlanInv
  <2>2. /\ pc = "act" /\ pc' \in {"act", "start"} /\ todo' = todo \ {a} /\ a.type = "create"
        /\ desired' = desired
    BY <1>5 DEF ApplyCreate, Ready, Take, Done
  <2>3. \A b \in todo : b.type = "remove" => b \in todo'
    BY <2>2
  <2>4. CASE \E i \in Ids : CreateContainer(a, i, "canonical")
    BY <2>1, <2>2, <2>3, <2>4, TidyCreate
  <2>5. CASE ctr' = ctr
    BY <1>u, <2>2, <2>3, <2>5, TidyFrame
  <2> QED  BY <1>5, <2>4, <2>5 DEF ApplyCreate
<1>6. ASSUME NEW a \in todo, SfCreate(a) PROVE TidyInv'
  <2>1. a \in Action /\ a.spec \in Specs /\ CarriesDesired(a) /\ TargetsSlot(a)
    BY <1>6, PlannedAction DEF SfCreate, PlanInv
  <2>2. /\ pc = "act" /\ pc' \in {"act", "sfStart"} /\ todo' = todo \ {a} /\ a.type = "replace"
        /\ desired' = desired
    BY <1>6 DEF SfCreate, Ready, Take, Done
  <2>3. \A b \in todo : b.type = "remove" => b \in todo'
    BY <2>2
  <2>4. CASE (\E i \in Ids : CreateContainer(a, i, "new")) /\ pc' = "sfStart" /\ cur' = a
    BY <2>1, <2>2, <2>3, <2>4, TidyCreate
  <2>5. CASE ctr' = ctr
    BY <1>u, <2>2, <2>3, <2>5, TidyFrame
  <2> QED  BY <1>6, <2>4, <2>5 DEF SfCreate
<1>7. ASSUME NEW a \in todo, SpStop(a) PROVE TidyInv'
  <2>1. a.id \in Ids /\ ctr[a.id] # NoContainer
    BY <1>7, PlannedAction DEF SpStop
  <2>2. /\ pc = "act" /\ pc' = "spRemove" /\ todo' = todo \ {a} /\ a.type = "replace"
        /\ desired' = desired
    BY <1>7, <1>f DEF SpStop, Ready, Take
  <2>3. \A i \in Ids : KeepsLabels(i)
    BY <1>7, <1>f, <2>1, StateLabels DEF SpStop
  <2> QED  BY <2>2, <2>3, TidyFrame
<1>8. CASE CreateStart \/ SfStart \/ SpStart
  <2>1. new \in Ids /\ ctr[new] # NoContainer
    BY <1>8 DEF CreateStart, SfStart, SpStart, CurrentInv, HoldsNew
  <2>2. \A i \in Ids : KeepsLabels(i)
    BY <1>8, <1>f, <2>1, StateLabels DEF CreateStart, SfStart, SpStart, StartContainer
  <2>3. /\ todo' = todo /\ desired' = desired
        /\ \/ pc = "start" /\ pc' = "act"
           \/ pc = "sfStart" /\ pc' = "sfWait" /\ new' = new /\ cur' = cur
           \/ pc = "spStart" /\ pc' = "spWait"
    BY <1>8, <1>f DEF CreateStart, SfStart, SpStart, Done
  <2> QED  BY <2>2, <2>3, TidyFrame
<1>9. CASE SfHealthy \/ SfTimeout
  <2>1. /\ ctr' = ctr /\ todo' = todo /\ desired' = desired /\ new' = new /\ cur' = cur
        /\ pc = "sfWait" /\ pc' \in {"sfRemoveOld", "sfDiscard"}
    BY <1>9 DEF SfHealthy, SfTimeout
  <2> QED  BY <1>u, <2>1, TidyFrame
<1>10. CASE SfDiscard
  <2>1. new \in Ids /\ RemoveContainer(new)
    BY <1>10, <1>f DEF SfDiscard, CurrentInv, HoldsNew
  <2>2. pc = "sfDiscard" /\ pc' = "act" /\ todo' = todo /\ desired' = desired
    BY <1>10 DEF SfDiscard, Done
  <2> QED  BY <2>1, <2>2, RemoveLabels, TidyFrame
<1>11. CASE SfRemoveOld
  <2>1. cur.id \in Ids /\ RemoveContainer(cur.id)
    BY <1>11, <1>f DEF SfRemoveOld, CurrentInv, HoldsOld, TargetsSlot
  <2>2. pc = "sfRemoveOld" /\ pc' = "sfRename" /\ new' = new /\ todo' = todo /\ desired' = desired
    BY <1>11, <1>f DEF SfRemoveOld
  <2> QED  BY <2>1, <2>2, RemoveLabels, TidyFrame
<1>12. CASE SfRename
  <2>1. new \in Ids /\ ctr[new] \in Container
    BY <1>12 DEF SfRename, CurrentInv, HoldsNew, TypeOK
  <2>2. ctr' = [ctr EXCEPT ![new].name = "canonical"]
    BY <1>12, <1>f DEF SfRename
  <2>3. /\ ctr'[new].name = "canonical" /\ ctr'[new].svc = ctr[new].svc
        /\ ctr'[new].replica = ctr[new].replica /\ \A i \in Ids \ {new} : ctr'[i] = ctr[i]
    BY <2>1, <2>2 DEF TypeOK, Container
  <2>4. \A i \in Ids : KeepsLabels(i)
    BY <2>1, <2>3, SentinelsAssumption DEF KeepsLabels, SlotOf
  <2>5. pc = "sfRename" /\ pc' = "act" /\ todo' = todo /\ desired' = desired
    BY <1>12 DEF SfRename, Done
  <2> QED  BY <2>3, <2>4, <2>5, TidyFrame
<1>13. CASE SpRemove
  <2>1. cur.id \in Ids /\ RemoveContainer(cur.id)
    BY <1>13, <1>f DEF SpRemove, CurrentInv, HoldsOld, TargetsSlot
  <2>2. pc = "spRemove" /\ pc' = "spCreate" /\ todo' = todo /\ desired' = desired
    BY <1>13, <1>f DEF SpRemove
  <2> QED  BY <2>1, <2>2, RemoveLabels, TidyFrame
<1>14. CASE SpCreate
  <2>1. cur \in Action /\ cur.spec \in Specs /\ CarriesDesired(cur)
    BY <1>14 DEF SpCreate, CurrentInv, Replacing, CarriesDesired
  <2>2. pc = "spCreate" /\ pc' \in {"act", "spStart"} /\ todo' = todo /\ desired' = desired
    BY <1>14 DEF SpCreate, Done
  <2>3. CASE \E i \in Ids : CreateContainer(cur, i, "canonical")
    BY <2>1, <2>2, <2>3, TidyCreate
  <2>4. CASE ctr' = ctr
    BY <1>u, <2>2, <2>4, TidyFrame
  <2> QED  BY <1>14, <2>3, <2>4 DEF SpCreate
<1>15. CASE SpWait
  <2>1. ctr' = ctr /\ pc = "spWait" /\ pc' = "act" /\ todo' = todo /\ desired' = desired
    BY <1>15 DEF SpWait, Done
  <2> QED  BY <1>u, <2>1, TidyFrame
<1>16. CASE Relist
  <2>1. pc = "act" /\ pc' = "track" /\ ctr' = ctr /\ actual' = ctr /\ todo = {} /\ desired' = desired
    BY <1>16, <1>f DEF Relist
  <2>2. /\ \A i \in Listed(ctr) : WantedBy(desired, SlotOf(ctr[i]))
        /\ \A i, j \in Listed(ctr) : SlotOf(ctr[i]) = SlotOf(ctr[j]) => i = j
    BY <2>1 DEF TidyInv, LeavingInv, SlotInv
  <2> QED  BY <1>q, <2>1, <2>2 DEF TidyInv, LeavingInv, RelistedInv
<1>17. CASE TrackProbes
  <2>1. /\ pc = "track" /\ pc' = "persist" /\ ctr' = ctr /\ actual' = actual /\ desired' = desired
        /\ WireProbes
    BY <1>17 DEF TrackProbes
  <2>2. \A i \in Active(actual) : probes'[i] # Untracked
    <3> SUFFICES ASSUME NEW i \in Active(actual) PROVE probes'[i] # Untracked
      OBVIOUS
    <3>1. i \in Ids /\ i \in Listed(actual) /\ actual[i] \in Container
      BY DEF Active, Listed, TypeOK
    <3> DEFINE s == actual[i].svc
    <3>2. s \in Services /\ desired[s] # NoRow
      BY <2>1, <3>1 DEF TidyInv, RelistedInv, WantedBy, SlotOf, Container
    <3>3. desired[s].spec \in Specs
      BY <3>2 DEF TypeOK, Row
    <3>4. i \in IdsByService(s)
      BY <3>2 DEF IdsByService
    <3>5. probes'[i] = Track(probes, i, desired[s].spec)
      BY <2>1, <3>1, <3>2, <3>4 DEF WireProbes
    <3> QED  BY <3>1, <3>3, <3>5, TrackType, SentinelsAssumption DEF TypeOK
  <2> QED  BY <1>q, <2>1, <2>2 DEF TidyInv, LeavingInv, RelistedInv
<1>18. CASE Persist
  BY <1>18, <1>q DEF Persist, EndTick, TidyInv, LeavingInv, RelistedInv
<1> QED
  BY <1>1, <1>2, <1>3, <1>4, <1>5, <1>6, <1>7, <1>8, <1>9, <1>10, <1>11, <1>12, <1>13,
     <1>14, <1>15, <1>16, <1>17, <1>18 DEF ReconcilerStep

\* Edits, exits and probe results change none of it.
LEMMA EnvironmentTidy ==
  ASSUME RolloutInv, TidyInv, Environment, ~Spend("fault"), ~Spend("crash")
  PROVE  TidyInv'
<1> USE DEF RolloutInv
<1>e. ASSUME UNCHANGED <<pc, desired, actual, todo, cur, new>>, \A i \in Ids : KeepsLabels(i),
             \A i \in Ids : probes[i] # Untracked => probes'[i] # Untracked
      PROVE  TidyInv'
  <2>1. \A i \in Listed(ctr') : /\ i \in Ids /\ i \in Listed(ctr)
                               /\ SlotOf(ctr'[i]) = SlotOf(ctr[i])
                               /\ ctr'[i].name \in {ctr[i].name, "canonical"}
    BY <1>e DEF Listed, KeepsLabels
  <2>2. SlotInv'
    BY <1>e, <2>1 DEF TidyInv, SlotInv
  <2>3. NameInv'
    BY <1>e, <2>1 DEF TidyInv, NameInv
  <2>4. LeavingInv'
    BY <1>e, <2>1 DEF TidyInv, LeavingInv
  <2>5. RelistedInv'
    <3>1. \A i \in Active(actual) : i \in Ids
      BY DEF Active, Listed
    <3> QED  BY <1>e, <3>1 DEF TidyInv, RelistedInv
  <2> QED  BY <2>2, <2>3, <2>4, <2>5 DEF TidyInv
<1>u. ASSUME ctr' = ctr PROVE \A i \in Ids : KeepsLabels(i)
  BY <1>u DEF KeepsLabels
<1>1. ASSUME NEW s \in Services, ApiUpsert(s) \/ ApiScale(s) \/ ApiDelete(s) PROVE TidyInv'
  BY <1>1, <1>e, <1>u DEF ApiUpsert, ApiScale, ApiDelete
<1>2. ASSUME NEW i \in Ids, ContainerExits(i) PROVE TidyInv'
  <2>1. \A j \in Ids : KeepsLabels(j)
    BY <1>2, StateLabels DEF ContainerExits
  <2> QED  BY <1>2, <1>e, <2>1 DEF ContainerExits
<1>3. ASSUME NEW i \in Ids, ProbeResult(i) PROVE TidyInv'
  <2>1. probes[i] \in Entry
    BY <1>3 DEF ProbeResult, Probed, TypeOK
  <2>2. PICK healthy \in BOOLEAN : probes' = [probes EXCEPT ![i] = RecordResult(@, healthy)]
    BY <1>3, <2>1, AnswersType DEF ProbeResult
  <2>3. RecordResult(probes[i], healthy) # Untracked
    BY <2>1, RecordResultType, SentinelsAssumption
  <2>4. \A j \in Ids : probes[j] # Untracked => probes'[j] # Untracked
    BY <2>2, <2>3 DEF TypeOK
  <2> QED  BY <1>3, <1>e, <1>u, <2>4 DEF ProbeResult
<1>4. ASSUME NEW i \in Ids, ProbeLoopReturns(i) PROVE TidyInv'
  BY <1>4 DEF ProbeLoopReturns, Fault
<1>5. CASE ServerRestarts
  BY <1>5 DEF ServerRestarts
<1> QED  BY <1>1, <1>2, <1>3, <1>4, <1>5 DEF Environment

\* Every step spends from the budget or leaves it alone.
LEMMA BudgetSpent ==
  ASSUME [Next]_vars
  PROVE  budget' = budget \/ \E kind \in Kinds : Spend(kind)
<1> USE DEF NoFault, Fault, Kinds
<1>1. CASE ReconcilerStep
  BY <1>1 DEF ReconcilerStep, PushRoutes, Plan, PlanFails, ApplyRemove, ApplyCreate, CreateFails,
     CreateStart, SfCreate, SfStart, SfHealthy, SfTimeout, SfDiscard, SfRemoveOld, SfRename,
     SpStop, SpRemove, SpCreate, SpStart, SpWait, Relist, TrackProbes, Persist
<1>2. CASE Environment
  BY <1>2 DEF Environment, ApiUpsert, ApiScale, ApiDelete, ContainerExits, ProbeResult,
     ProbeLoopReturns, ServerRestarts
<1>3. CASE UNCHANGED vars
  BY <1>3 DEF vars
<1> QED  BY <1>1, <1>2, <1>3 DEF Next

LEMMA CoverStep == RolloutInv /\ CoverInv /\ [Next]_vars => CoverInv'
<1> SUFFICES ASSUME RolloutInv, CoverInv, [Next]_vars PROVE CoverInv'
  OBVIOUS
<1>1. /\ budget \in [Kinds -> Nat] /\ Budget \in [Kinds -> Nat]
      /\ \A kind \in Kinds : budget[kind] <= Budget[kind]
  BY BudgetAssumption DEF RolloutInv, TypeOK, CoverInv
<1>2. ASSUME NEW kind \in Kinds, Spend(kind)
      PROVE  /\ budget' \in [Kinds -> Nat] /\ budget'[kind] < budget[kind]
             /\ \A k \in Kinds : budget'[k] <= budget[k]
  <2>1. budget' = [budget EXCEPT ![kind] = budget[kind] - 1] /\ budget[kind] > 0
    BY <1>2 DEF Spend
  <2>2. budget[kind] \in Nat /\ budget[kind] - 1 \in Nat
    BY <1>1, <2>1
  <2>3. \A k \in Kinds : budget'[k] = IF k = kind THEN budget[kind] - 1 ELSE budget[k]
    BY <1>1, <2>1
  <2> QED  BY <1>1, <2>1, <2>2, <2>3
<1>3. \A k \in Kinds : budget'[k] \in Nat /\ budget'[k] <= budget[k]
  <2>1. CASE budget' = budget
    BY <1>1, <2>1
  <2>2. CASE \E kind \in Kinds : Spend(kind)
    BY <1>2, <2>2
  <2> QED  BY <2>1, <2>2, BudgetSpent
<1>4. \A k \in Kinds : budget'[k] <= Budget[k]
  BY <1>1, <1>3
<1>5. ASSUME Undisturbed' PROVE TidyInv'
  <2>1. \A k \in {"fault", "crash"} : k \in Kinds /\ budget'[k] = Budget[k]
    BY <1>5 DEF Undisturbed, Kinds
  <2>2. \A k \in {"fault", "crash"} : budget[k] = Budget[k] /\ budget'[k] = budget[k]
    BY <1>1, <1>3, <2>1
  <2>3. ~Spend("fault") /\ ~Spend("crash")
    BY <1>1, <1>2, <1>3, <2>1, <2>2
  <2>4. TidyInv
    BY <2>2 DEF CoverInv, Undisturbed
  <2>5. CASE UNCHANGED vars
    BY <2>4, <2>5 DEF vars, TidyInv, SlotInv, NameInv, LeavingInv, RelistedInv
  <2> QED  BY <2>3, <2>4, <2>5, ReconcilerStepTidy, EnvironmentTidy DEF Next
<1> QED  BY <1>4, <1>5 DEF CoverInv

\* While no call was refused and the server was not restarted, a slot has two
\* containers only under start-first, none hides another in actualMap, and the
\* list a tick ends with has one probed container in a slot, in wanted slots.
THEOREM SlotsStayTidy == Spec => []CoverInv
<1>1. Init => CoverInv
  <2> SUFFICES ASSUME Init PROVE CoverInv
    OBVIOUS
  <2>1. \A kind \in Kinds : budget[kind] <= Budget[kind]
    BY BudgetAssumption DEF Init
  <2>2. Listed(ctr) = {}
    BY DEF Init, Listed, NoContainers
  <2>3. TidyInv
    BY <2>2 DEF Init, TidyInv, SlotInv, NameInv, LeavingInv, RelistedInv
  <2> QED  BY <2>1, <2>3 DEF CoverInv
<1> QED  BY <1>1, CoverStep, RolloutInvariant, PTL DEF Spec

\* As many containers as slots, no two in the same one: every slot has one.
LEMMA SlotsCovered ==
  ASSUME NEW C, NEW n \in Nat, NEW f \in [C -> 0 .. n - 1],
         \A i, j \in C : f[i] = f[j] => i = j, Cardinality(C) = n
  PROVE  \A r \in 0 .. n - 1 : \E i \in C : f[i] = r
<1>1. f \in Injection(C, 0 .. n - 1)
  BY DEF Injection, IsInjective
<1>2. IsFiniteSet(0 .. n - 1) /\ Cardinality(0 .. n - 1) = n
  <2>1. n - 1 \in Int /\ 0 \in Int
    OBVIOUS
  <2>2. /\ IsFiniteSet(0 .. n - 1)
        /\ Cardinality(0 .. n - 1) = IF 0 > n - 1 THEN 0 ELSE n - 1 - 0 + 1
    BY <2>1, FS_Interval
  <2> QED  BY <2>2
<1>3. f \in Surjection(C, 0 .. n - 1)
  BY <1>1, <1>2, FS_Injection
<1> QED  BY <1>3 DEF Surjection

\* Aggregate compares numbers only, and yet: while no call was refused and the
\* server was not restarted, a row turns healthy only when each of its slots has
\* an active container in the list the tick ended with.
THEOREM HealthyMeansCovered == Spec => HealthyCoversSlots
<1> DEFINE Covered(s) == \A r \in 0 .. row'[s].replicas - 1 :
                           \E i \in Active(actual) : SlotOf(actual[i]) = <<s, r>>
           Truthful == Undisturbed => \A s \in Services : ReportsHealthy(s) => Covered(s)
<1>1. RolloutInv /\ CoverInv => Truthful
  <2> SUFFICES ASSUME RolloutInv, CoverInv, Undisturbed, NEW s \in Services, ReportsHealthy(s)
               PROVE  Covered(s)
    OBVIOUS
  <2> DEFINE n == desired[s].replicas
             C == IdsByService(s)
             snaps == {i \in C : probes[i] # Untracked}
  <2>1. pc = "persist" /\ RelistedInv
    BY DEF ReportsHealthy, Persist, CoverInv, TidyInv
  <2>2. \E failed : PersistStatus(failed)
    BY DEF ReportsHealthy, Persist
  <2>3. /\ desired[s] # NoRow /\ row'[s] = [desired[s] EXCEPT !.status = NewStatus(s)]
    BY <2>2 DEF ReportsHealthy, PersistStatus
  <2>4. desired[s] \in Row
    BY <2>3 DEF RolloutInv, TypeOK
  <2>5. n \in Nat /\ row'[s].replicas = n /\ NewStatus(s) = "healthy"
    BY <2>3, <2>4, BoundsAssumption DEF Row, ReportsHealthy
  <2>6. \A i \in C : /\ i \in Ids /\ i \in Active(actual) /\ i \in Listed(actual)
                     /\ actual[i] \in Container /\ actual[i].svc = s
    BY DEF IdsByService, Active, Listed, RolloutInv, TypeOK
  <2>7. \A i \in C : actual[i].replica \in 0 .. n - 1
    <3> SUFFICES ASSUME NEW i \in C PROVE actual[i].replica \in 0 .. n - 1
      OBVIOUS
    <3>1. WantedBy(desired, SlotOf(actual[i]))
      BY <2>1, <2>6 DEF RelistedInv
    <3>2. actual[i].replica < n
      BY <2>6, <3>1 DEF WantedBy, SlotOf
    <3>3. actual[i].replica \in Nat
      BY <2>6, BoundsAssumption DEF Container, Replicas
    <3> QED  BY <2>5, <3>2, <3>3
  <2>8. snaps = C
    BY <2>1, <2>6 DEF RelistedInv
  <2>9. Cardinality(C) = n
    <3> HIDE DEF C, n
    <3>1. NewStatus(s) = Aggregate(n, snaps)
      BY DEF NewStatus, n, C
    <3>2. Cardinality(snaps) = n
      <4> HIDE DEF snaps
      <4> QED  BY <2>5, <3>1 DEF Aggregate
    <3> QED  BY <2>8, <3>2
  <2>10. \A i, j \in C : actual[i].replica = actual[j].replica => i = j
    BY <2>1, <2>6 DEF RelistedInv, SlotOf
  <2> DEFINE f == [i \in C |-> actual[i].replica]
  <2>11. f \in [C -> 0 .. n - 1] /\ \A i \in C : f[i] = actual[i].replica
    BY <2>7
  <2> HIDE DEF f, C, n
  <2>12. \A r \in 0 .. n - 1 : \E i \in C : f[i] = r
    BY <2>5, <2>9, <2>10, <2>11, SlotsCovered
  <2> QED  BY <2>5, <2>6, <2>11, <2>12 DEF SlotOf
<1>2. RolloutInv /\ CoverInv /\ [Next]_vars => [Truthful]_vars
  BY <1>1
<1> QED  BY <1>2, RolloutInvariant, SlotsStayTidy, PTL DEF Spec, HealthyCoversSlots

=============================================================================
