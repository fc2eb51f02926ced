--------------------------- MODULE BootstrapProofs ---------------------------
(***************************************************************************)
(* Theorems about Bootstrap, for any number of inits, requests,            *)
(* versions and deaths.                                                    *)
(***************************************************************************)
EXTENDS Bootstrap, FiniteSetTheorems, TLAPS

-----------------------------------------------------------------------------
(* The policy decision. *)

\* The policy of the bootstrap subject grants what can be granted.
LEMMA BootstrapGrants ==
  ASSUME NEW P, BootstrapPolicy \in P, NEW q \in AuthzRequest,
         IsProjectScoped(q.kind) => q.project # NoProject
  PROVE  Authorize(P, q)
<1>1. Matches(BootstrapPolicy, q)
  BY DEF Matches, BootstrapPolicy
<1> QED
  BY <1>1 DEF Authorize

-----------------------------------------------------------------------------
(* Helpers. *)

\* There is always a secret that is not in use.
LEMMA NewSecretType == NewSecret \in Secrets /\ NewSecret \notin InUse
<1> DEFINE Held == {proc[p].secret : p \in Procs}
           Sent == {req[r].token : r \in Requests}
           Files == {keyFile, tokenFile, hash}
<1>1. IsFiniteSet(Held) /\ Cardinality(Held) <= Cardinality(Procs)
  <2>1. [p \in Procs |-> proc[p].secret] \in Surjection(Procs, Held)
    BY DEF Surjection
  <2> QED
    BY <2>1, FS_Surjection, BootstrapAssumption
<1>2. IsFiniteSet(Sent) /\ Cardinality(Sent) <= Cardinality(Requests)
  <2>1. [r \in Requests |-> req[r].token] \in Surjection(Requests, Sent)
    BY DEF Surjection
  <2> QED
    BY <2>1, FS_Surjection, BootstrapAssumption
<1>3. IsFiniteSet(Files) /\ Cardinality(Files) <= 3
  <2>1. IsFiniteSet({keyFile}) /\ Cardinality({keyFile}) = 1
    BY FS_Singleton
  <2>2. IsFiniteSet({keyFile} \cup {tokenFile}) /\ Cardinality({keyFile} \cup {tokenFile}) \in {1, 2}
    BY <2>1, FS_AddElement
  <2>3. IsFiniteSet(({keyFile} \cup {tokenFile}) \cup {hash})
        /\ Cardinality(({keyFile} \cup {tokenFile}) \cup {hash}) \in {1, 2, 3}
    BY <2>2, FS_AddElement
  <2>4. Files = ({keyFile} \cup {tokenFile}) \cup {hash}
    OBVIOUS
  <2> QED
    BY <2>3, <2>4
<1>4. ASSUME NEW S, NEW T, IsFiniteSet(S), IsFiniteSet(T)
      PROVE  IsFiniteSet(S \cup T) /\ Cardinality(S \cup T) <= Cardinality(S) + Cardinality(T)
  <2>1. Cardinality(S) \in Nat /\ Cardinality(T) \in Nat
    BY <1>4, FS_CardinalityType
  <2>2. Cardinality(S \cap T) \in Nat
    BY <1>4, FS_Intersection, FS_CardinalityType
  <2>3. /\ IsFiniteSet(S \cup T)
        /\ Cardinality(S \cup T) = Cardinality(S) + Cardinality(T) - Cardinality(S \cap T)
    BY <1>4, FS_Union
  <2> QED
    BY <2>1, <2>2, <2>3
<1>5. InUse = (Files \cup Held) \cup Sent
  BY DEF InUse
<1> HIDE DEF Held, Sent, Files
<1>6. IsFiniteSet(Files \cup Held) /\ Cardinality(Files \cup Held) <= Cardinality(Files) + Cardinality(Held)
  BY <1>1, <1>3, <1>4
<1>7. IsFiniteSet(InUse) /\ Cardinality(InUse) <= Cardinality(Files \cup Held) + Cardinality(Sent)
  BY <1>2, <1>4, <1>5, <1>6
<1>8. /\ Cardinality(Files) \in Nat /\ Cardinality(Held) \in Nat /\ Cardinality(Sent) \in Nat
      /\ Cardinality(Files \cup Held) \in Nat /\ Cardinality(InUse) \in Nat
      /\ Cardinality(Procs) \in Nat /\ Cardinality(Requests) \in Nat /\ Cardinality(Secrets) \in Nat
  BY <1>1, <1>2, <1>3, <1>6, <1>7, FS_CardinalityType, BootstrapAssumption
<1>9. Cardinality(InUse) < Cardinality(Secrets)
  BY <1>1, <1>2, <1>3, <1>6, <1>7, <1>8, BootstrapAssumption
<1>10. \E s \in Secrets : s \notin InUse
  <2>1. SUFFICES ASSUME Secrets \subseteq InUse PROVE FALSE
    OBVIOUS
  <2>2. Cardinality(Secrets) <= Cardinality(InUse)
    BY <1>7, <2>1, FS_Subset
  <2> QED
    BY <1>8, <1>9, <2>2
<1> QED
  BY <1>10 DEF NewSecret

\* The version of a schema without gaps.
LEMMA LatestOf ==
  ASSUME NEW n \in Nat, versions = 1 .. n
  PROVE  Latest = n
<1>1. n \in versions \cup {0} /\ \A v \in versions : v <= n
  OBVIOUS
<1>2. ASSUME NEW m \in versions \cup {0}, \A v \in versions : v <= m PROVE m = n
  BY <1>2
<1> QED
  BY <1>1, <1>2 DEF Latest

-----------------------------------------------------------------------------
(* Types and the schema. *)

\* The first state.
LEMMA InitSchema == Init => TypeOK /\ SchemaInv
<1> SUFFICES ASSUME Init PROVE TypeOK /\ SchemaInv
  OBVIOUS
<1> USE BootstrapAssumption
<1>1. proc \in [Procs -> Proc] /\ req \in [Requests -> Request]
  BY DEF Init, Idle, Proc, NoRequest, Request, Content
<1>2. /\ versions \subseteq Versions /\ tables \subseteq Versions /\ writer \in Procs \cup {NoProcess}
      /\ keyFile \in Content /\ tokenFile \in Content /\ hash \in Secrets \cup {Missing}
      /\ policies \subseteq Policy /\ budget \in [{"death", "again"} -> Nat]
  BY DEF Init, Content
<1>3. dbFile \in BOOLEAN /\ alone \in [Inits -> BOOLEAN] /\ usable \in BOOLEAN
  BY DEF Init
<1>4. SchemaInv
  <2>1. versions = 1 .. 0 /\ 0 \in 0 .. MaxVersion
    BY DEF Init
  <2>2. \A p \in Procs : proc[p].pc = "idle" /\ writer # p
    BY DEF Init, Idle
  <2>3. tables = versions /\ Server \in Procs
    BY DEF Init, Procs
  <2> QED
    BY <2>1, <2>2, <2>3 DEF SchemaInv
<1> QED
  BY <1>1, <1>2, <1>3, <1>4 DEF TypeOK

\* Steps that leave the schema alone, and take no process into or out of a
\* transaction or into service, keep it.
LEMMA SchemaKept ==
  ASSUME SchemaInv, UNCHANGED schema, TypeOK, NEW p \in Procs, NEW new \in Proc,
         proc' = [proc EXCEPT ![p] = new], proc[p].pc # "commit",
         new.pc \notin {"apply", "commit", "serving"}
  PROVE  SchemaInv'
<1>1. versions' = versions /\ tables' = tables /\ writer' = writer
  BY DEF schema
<1>2. \A q \in Procs : proc'[q] = IF q = p THEN new ELSE proc[q]
  BY DEF TypeOK
<1>3. Server \in Procs
  BY DEF Procs
<1> QED
  BY <1>1, <1>2, <1>3 DEF SchemaInv

\* The migration of one process.
LEMMA MigrateSchema ==
  ASSUME TypeOK, SchemaInv, NEW p \in Procs, Migrate(p)
  PROVE  TypeOK' /\ SchemaInv'
<1> USE BootstrapAssumption
<1>0. proc[p] \in Proc /\ p # NoProcess /\ Server \in Procs
  BY DEF TypeOK, Procs
<1>1. PICK n \in 0 .. MaxVersion : versions = 1 .. n
  BY DEF SchemaInv
<1>2. CASE ReadVersion(p)
  <2>1. Latest = n
    BY <1>1, LatestOf
  <2>2. /\ \A q \in Procs \ {p} : proc'[q] = proc[q]
        /\ proc'[p] = [proc[p] EXCEPT !.pc = "apply", !.current = n]
    BY <1>2, <2>1 DEF ReadVersion, TypeOK, Proc
  <2>3. proc'[p] \in Proc /\ proc'[p].pc = "apply" /\ proc'[p].current = n
    BY <1>0, <1>1, <2>2 DEF Proc
  <2>4. versions' = versions /\ tables' = tables /\ writer' = writer /\ proc[p].pc = "migrate"
    BY <1>2 DEF ReadVersion, schema
  <2>5. proc' \in [Procs -> Proc]
    BY <1>2, <2>2, <2>3 DEF ReadVersion, TypeOK
  <2>6. SchemaInv'
    BY <1>0, <1>1, <2>2, <2>3, <2>4 DEF SchemaInv
  <2> QED
    BY <1>2, <2>5, <2>6 DEF ReadVersion, TypeOK, schema, files, access
<1>3. CASE ApplyMigration(p)
  <2>1. CASE HasTables(proc[p].current + 1)
    <3>1. proc' = [proc EXCEPT ![p] = Idle] /\ UNCHANGED schema /\ proc[p].pc # "commit"
      BY <1>3, <2>1 DEF ApplyMigration
    <3>2. Idle \in Proc /\ Idle.pc = "idle"
      BY DEF Idle, Proc
    <3>3. SchemaInv'
      BY <1>0, <3>1, <3>2, SchemaKept
    <3> QED
      BY <1>3, <3>1, <3>2, <3>3 DEF ApplyMigration, TypeOK, schema, files, access
  <2>2. CASE ~HasTables(proc[p].current + 1)
    <3>1. /\ Goto(p, "commit") /\ writer' = p /\ versions' = versions /\ tables' = tables
          /\ writer = NoProcess /\ proc[p].current < MaxVersion /\ proc[p].pc = "apply"
      BY <1>3, <2>2 DEF ApplyMigration
    <3>2. n = proc[p].current
      <4>1. proc[p].current \in 0 .. MaxVersion /\ proc[p].current + 1 \notin 1 .. n
        BY <1>0, <1>1, <2>2 DEF Proc, HasTables, SchemaInv
      <4>2. 1 .. proc[p].current \subseteq 1 .. n
        BY <1>1, <3>1 DEF SchemaInv
      <4>3. proc[p].current <= n
        BY <4>1, <4>2
      <4> QED
        BY <1>1, <4>1, <4>3
    <3>3. /\ \A q \in Procs \ {p} : proc'[q] = proc[q]
          /\ proc'[p] = [proc[p] EXCEPT !.pc = "commit"] /\ proc'[p] \in Proc
          /\ proc'[p].pc = "commit" /\ proc'[p].current = n
      BY <1>0, <3>1, <3>2 DEF Goto, TypeOK, Proc
    <3>4. \A q \in Procs : proc[q].pc # "commit"
      BY <3>1 DEF SchemaInv
    <3>5. proc' \in [Procs -> Proc]
      BY <3>1, <3>3 DEF Goto, TypeOK
    <3>6. SchemaInv'
      BY <1>0, <1>1, <3>1, <3>2, <3>3, <3>4 DEF SchemaInv
    <3> QED
      BY <1>3, <3>1, <3>5, <3>6 DEF ApplyMigration, TypeOK, files, access
  <2> QED
    BY <2>1, <2>2
<1>4. CASE CommitMigration(p)
  <2>1. /\ proc[p].pc = "commit" /\ versions' = versions \cup {proc[p].current + 1}
        /\ tables' = tables \cup {proc[p].current + 1} /\ writer' = NoProcess
        /\ proc' = [proc EXCEPT ![p].pc = "apply", ![p].current = proc[p].current + 1]
    BY <1>4 DEF CommitMigration
  <2>2. /\ n = proc[p].current /\ proc[p].current < MaxVersion /\ writer = p
        /\ proc[p].current \in 0 .. MaxVersion
    <3>1. versions = 1 .. proc[p].current /\ proc[p].current \in 0 .. MaxVersion
      BY <1>0, <2>1 DEF SchemaInv, Proc
    <3>2. n = proc[p].current
      BY <1>1, <3>1, LatestOf
    <3> QED
      BY <2>1, <3>1, <3>2 DEF SchemaInv
  <2>3. versions' = 1 .. n + 1 /\ tables' = versions' /\ n + 1 \in 0 .. MaxVersion
    BY <1>1, <2>1, <2>2 DEF SchemaInv
  <2>4. /\ \A q \in Procs \ {p} : proc'[q] = proc[q]
        /\ proc'[p] \in Proc /\ proc'[p].pc = "apply" /\ proc'[p].current = n + 1
    BY <1>0, <2>1, <2>2, <2>3 DEF TypeOK, Proc
  <2>5. proc' \in [Procs -> Proc]
    BY <2>1, <2>4 DEF TypeOK
  <2>6. \A q \in Procs \ {p} : proc[q].pc # "commit"
    BY <2>2 DEF SchemaInv
  <2>7. proc[Server].pc # "serving"
    BY <1>1, <2>2 DEF SchemaInv, Versions
  <2>8. SchemaInv'
    <3>1. \E k \in 0 .. MaxVersion : versions' = 1 .. k
      BY <2>3
    <3>2. \A q \in Procs : proc'[q].pc \in {"apply", "commit"} => 1 .. proc'[q].current \subseteq versions'
      BY <1>1, <2>1, <2>3, <2>4 DEF SchemaInv
    <3>3. \A q \in Procs : proc'[q].pc # "commit" /\ writer' # q
      BY <1>0, <2>1, <2>4, <2>6
    <3>4. proc'[Server].pc # "serving"
      BY <1>0, <2>4, <2>7
    <3> QED
      BY <2>3, <3>1, <3>2, <3>3, <3>4 DEF SchemaInv
  <2> QED
    BY <1>4, <2>1, <2>3, <2>5, <2>8 DEF CommitMigration, TypeOK, Versions, files, access
<1>5. CASE Migrated(p)
  <2>1. versions = Versions
    <3>1. 1 .. MaxVersion \subseteq 1 .. n
      BY <1>1, <1>5 DEF Migrated, SchemaInv
    <3> QED
      BY <1>1, <3>1 DEF Versions
  <2>2. /\ \A q \in Procs \ {p} : proc'[q] = proc[q]
        /\ proc'[p] \in Proc /\ proc'[p].pc \in {"serving", "key"}
    BY <1>0, <1>5 DEF Migrated, TypeOK, Idle, Proc
  <2>3. proc' \in [Procs -> Proc] /\ UNCHANGED schema /\ proc[p].pc = "apply"
    BY <1>5, <2>2 DEF Migrated, TypeOK
  <2>4. SchemaInv'
    BY <1>0, <2>1, <2>2, <2>3 DEF SchemaInv, schema
  <2> QED
    BY <1>5, <2>3, <2>4 DEF Migrated, TypeOK, schema, files, access
<1> QED
  BY <1>2, <1>3, <1>4, <1>5 DEF Migrate

\* A step of one process within its program.
LEMMA GotoType ==
  ASSUME TypeOK, NEW p \in Procs, NEW pc,
         pc \in {"migrate", "keyCreate", "keyWrite", "subject", "tokenCreate", "tokenWrite", "policy"},
         Goto(p, pc)
  PROVE  \E new \in Proc : /\ proc' = [proc EXCEPT ![p] = new] /\ new.pc = pc
                          /\ new.secret = proc[p].secret /\ proc' \in [Procs -> Proc]
<1> DEFINE new == [proc[p] EXCEPT !.pc = pc]
<1>1. proc[p] \in Proc
  BY DEF TypeOK
<1>2. new \in Proc /\ new.pc = pc /\ new.secret = proc[p].secret
  BY <1>1 DEF Proc
<1>3. proc' = [proc EXCEPT ![p] = new]
  BY DEF Goto, TypeOK
<1> HIDE DEF new
<1>4. proc' \in [Procs -> Proc]
  BY <1>2, <1>3 DEF TypeOK
<1> QED
  BY <1>2, <1>3, <1>4

\* Steps of the requests keep types and the schema.
LEMMA RequestSchema ==
  ASSUME TypeOK, SchemaInv, UNCHANGED <<dbFile, schema, files, access, proc, budget, alone, usable>>,
         req' \in [Requests -> Request]
  PROVE  TypeOK' /\ SchemaInv'
<1>1. TypeOK'
  BY DEF TypeOK, schema, files, access
<1>2. SchemaInv'
  <2>1. versions' = versions /\ tables' = tables /\ writer' = writer /\ proc' = proc
    BY DEF schema
  <2> QED
    BY <2>1 DEF SchemaInv
<1> QED
  BY <1>1, <1>2

\* The handling of one request keeps the requests' type.
LEMMA ServeType ==
  ASSUME TypeOK, NEW r \in Requests, Serve(r)
  PROVE  /\ req' \in [Requests -> Request]
         /\ UNCHANGED <<dbFile, schema, files, access, proc, budget, alone, usable>>
<1> USE BootstrapAssumption
<1>0. req[r] \in Request /\ NoRequest \in Request
  BY DEF TypeOK, NoRequest, Request, Content
<1>1. ASSUME NEW pc \in {"known", "admitted"} PROVE [req[r] EXCEPT !.pc = pc] \in Request
  BY <1>0 DEF Request
<1>2. CASE \E token \in Secrets \cup {Torn} : Send(r, token)
  <2>1. PICK token \in Secrets \cup {Torn} : Send(r, token)
    BY <1>2
  <2>2. [pc |-> "sent", token |-> token, seen |-> Missing, fresh |-> {hash}] \in Request
    BY DEF TypeOK, Request, Content
  <2> QED
    BY <2>1, <2>2 DEF Send, TypeOK
<1>3. CASE Authenticate(r)
  BY <1>0, <1>1, <1>3 DEF Authenticate, TypeOK
<1>4. CASE Answer(r)
  BY <1>0, <1>4 DEF Answer, TypeOK
<1>5. CASE \E p \in Projects : Decide(r, p)
  <2>1. PICK p \in Projects : Decide(r, p)
    BY <1>5
  <2> QED
    BY <1>0, <1>1, <2>1 DEF Decide, TypeOK
<1>6. CASE ReadSubject(r)
  <2>1. [req[r] EXCEPT !.pc = "read", !.seen = hash] \in Request
    BY <1>0 DEF TypeOK, Request, Content
  <2>2. req' = [req EXCEPT ![r] = [req[r] EXCEPT !.pc = "read", !.seen = hash]]
    BY <1>0, <1>6 DEF ReadSubject, TypeOK
  <2> QED
    BY <1>6, <2>1, <2>2 DEF ReadSubject, TypeOK
<1> QED
  BY <1>2, <1>3, <1>4, <1>5, <1>6 DEF Serve

\* A new hash is seen by the requests in flight.
LEMMA StoredType ==
  ASSUME TypeOK, NEW h \in Secrets, req' = Stored(h)
  PROVE  req' \in [Requests -> Request]
<1>1. ASSUME NEW r \in Requests PROVE req'[r] \in Request
  <2>1. req[r] \in Request /\ NoRequest \in Request
    BY DEF TypeOK, NoRequest, Request, Content
  <2>2. [req[r] EXCEPT !.fresh = @ \cup {h}] \in Request
    BY <2>1 DEF Request
  <2> QED
    BY <2>1, <2>2 DEF Stored
<1> QED
  BY <1>1 DEF Stored

\* The steps of init after the migration.
LEMMA InitStepSchema ==
  ASSUME TypeOK, SchemaInv, NEW p \in Inits,
         \/ InitBegin(p) \/ StatKey(p) \/ KeyCreate(p) \/ KeyWrite(p)
         \/ PutSubject(p) \/ TokenCreate(p) \/ TokenWrite(p) \/ PutPolicy(p)
  PROVE  TypeOK' /\ SchemaInv'
<1> USE BootstrapAssumption
<1>0. p \in Procs /\ proc[p] \in Proc
  BY DEF Procs, TypeOK
<1>s. NewSecret \in Secrets
  BY NewSecretType
<1>i. Idle \in Proc /\ Idle.pc = "idle"
  BY DEF Idle, Proc
<1>1. CASE InitBegin(p)
  <2>1. Goto(p, "migrate") /\ UNCHANGED schema /\ proc[p].pc # "commit"
    BY <1>1 DEF InitBegin, Running
  <2>2. PICK new \in Proc : proc' = [proc EXCEPT ![p] = new] /\ new.pc = "migrate" /\ proc' \in [Procs -> Proc]
    BY <1>0, <2>1, GotoType
  <2>3. SchemaInv'
    BY <1>0, <2>1, <2>2, SchemaKept
  <2>4. budget' \in [{"death", "again"} -> Nat]
    BY <1>1 DEF InitBegin, Spend, TypeOK
  <2>5. alone' \in [Inits -> BOOLEAN] /\ dbFile' \in BOOLEAN /\ usable' \in BOOLEAN
    BY <1>1, Zenon DEF InitBegin
  <2>6. UNCHANGED <<schema, files, access, req>>
    BY <1>1 DEF InitBegin
  <2> QED
    BY <2>2, <2>3, <2>4, <2>5, <2>6 DEF TypeOK, schema, files, access
<1>2. CASE StatKey(p)
  <2> DEFINE next == IF keyFile = Missing THEN "keyCreate" ELSE "subject"
  <2>1. Goto(p, next) /\ proc[p].pc # "commit" /\ next \in {"keyCreate", "subject"}
        /\ UNCHANGED <<dbFile, schema, files, access, req, budget, alone, usable>>
    BY <1>2 DEF StatKey
  <2> HIDE DEF next
  <2>2. PICK new \in Proc : proc' = [proc EXCEPT ![p] = new] /\ new.pc = next /\ proc' \in [Procs -> Proc]
    BY <1>0, <2>1, GotoType
  <2>3. SchemaInv'
    BY <1>0, <2>1, <2>2, SchemaKept
  <2> QED
    BY <2>1, <2>2, <2>3 DEF TypeOK, schema, files, access
<1>3. CASE KeyCreate(p)
  <2>1. /\ Goto(p, "keyWrite") /\ proc[p].pc # "commit" /\ keyFile' = Torn
        /\ UNCHANGED <<dbFile, schema, tokenFile, access, req, budget, alone, usable>>
    BY <1>3 DEF KeyCreate
  <2>2. PICK new \in Proc : proc' = [proc EXCEPT ![p] = new] /\ new.pc = "keyWrite" /\ proc' \in [Procs -> Proc]
    BY <1>0, <2>1, GotoType
  <2>3. SchemaInv'
    BY <1>0, <2>1, <2>2, SchemaKept
  <2> QED
    BY <2>1, <2>2, <2>3 DEF TypeOK, schema, access, Content
<1>4. CASE KeyWrite(p)
  <2>1. /\ Goto(p, "subject") /\ proc[p].pc # "commit" /\ keyFile' = NewSecret
        /\ UNCHANGED <<dbFile, schema, tokenFile, access, req, budget, alone, usable>>
    BY <1>4 DEF KeyWrite
  <2>2. PICK new \in Proc : proc' = [proc EXCEPT ![p] = new] /\ new.pc = "subject" /\ proc' \in [Procs -> Proc]
    BY <1>0, <2>1, GotoType
  <2>3. SchemaInv'
    BY <1>0, <2>1, <2>2, SchemaKept
  <2> QED
    BY <1>s, <2>1, <2>2, <2>3 DEF TypeOK, schema, access, Content
<1>5. CASE PutSubject(p)
  <2>1. /\ hash' = NewSecret /\ req' = Stored(hash') /\ proc[p].pc # "commit"
        /\ proc' = [proc EXCEPT ![p].pc = "tokenCreate", ![p].secret = hash']
        /\ UNCHANGED <<dbFile, schema, files, policies, budget, alone, usable>>
    BY <1>5 DEF PutSubject
  <2>2. PICK new \in Proc : proc' = [proc EXCEPT ![p] = new] /\ new.pc = "tokenCreate"
    <3> DEFINE new == [proc[p] EXCEPT !.pc = "tokenCreate", !.secret = hash']
    <3>1. new \in Proc /\ new.pc = "tokenCreate"
      BY <1>0, <1>s, <2>1 DEF Proc
    <3>2. proc' = [proc EXCEPT ![p] = new]
      BY <2>1 DEF TypeOK
    <3> QED
      BY <3>1, <3>2
  <2>3. SchemaInv'
    BY <1>0, <2>1, <2>2, SchemaKept
  <2>4. req' \in [Requests -> Request]
    BY <1>s, <2>1, StoredType
  <2>5. proc' \in [Procs -> Proc]
    BY <2>2 DEF TypeOK
  <2> QED
    BY <1>s, <2>1, <2>3, <2>4, <2>5 DEF TypeOK, schema, files
<1>6. CASE TokenCreate(p)
  <2>1. /\ Goto(p, "tokenWrite") /\ proc[p].pc # "commit" /\ tokenFile' = Torn
        /\ UNCHANGED <<dbFile, schema, keyFile, access, req, budget, alone, usable>>
    BY <1>6 DEF TokenCreate
  <2>2. PICK new \in Proc : proc' = [proc EXCEPT ![p] = new] /\ new.pc = "tokenWrite" /\ proc' \in [Procs -> Proc]
    BY <1>0, <2>1, GotoType
  <2>3. SchemaInv'
    BY <1>0, <2>1, <2>2, SchemaKept
  <2> QED
    BY <2>1, <2>2, <2>3 DEF TypeOK, schema, access, Content
<1>7. CASE TokenWrite(p)
  <2>1. /\ Goto(p, "policy") /\ proc[p].pc # "commit" /\ tokenFile' = proc[p].secret
        /\ UNCHANGED <<dbFile, schema, keyFile, access, req, budget, alone, usable>>
    BY <1>7 DEF TokenWrite
  <2>2. PICK new \in Proc : proc' = [proc EXCEPT ![p] = new] /\ new.pc = "policy" /\ proc' \in [Procs -> Proc]
    BY <1>0, <2>1, GotoType
  <2>3. SchemaInv'
    BY <1>0, <2>1, <2>2, SchemaKept
  <2>4. tokenFile' \in Content
    BY <1>0, <2>1 DEF Proc, Content
  <2> QED
    BY <2>1, <2>2, <2>3, <2>4 DEF TypeOK, schema, access
<1>8. CASE PutPolicy(p)
  <2>1. /\ policies' = policies \cup {BootstrapPolicy} /\ proc' = [proc EXCEPT ![p] = Idle]
        /\ proc[p].pc # "commit"
        /\ UNCHANGED <<dbFile, schema, files, hash, req, budget, alone>>
    BY <1>8 DEF PutPolicy
  <2>2. SchemaInv'
    BY <1>0, <1>i, <2>1, SchemaKept
  <2>3. proc' \in [Procs -> Proc]
    BY <1>i, <2>1 DEF TypeOK
  <2>4. policies' \subseteq Policy
    BY <2>1 DEF TypeOK, Policy, BootstrapPolicy, Roles
  <2>5. usable' \in BOOLEAN
    BY <1>8, Zenon DEF PutPolicy, TypeOK
  <2> QED
    BY <2>1, <2>2, <2>3, <2>4, <2>5 DEF TypeOK, schema, files
<1> QED
  BY <1>1, <1>2, <1>3, <1>4, <1>5, <1>6, <1>7, <1>8

\* The death of a process rolls its transaction back.
LEMMA DieSchema ==
  ASSUME TypeOK, SchemaInv, NEW p \in Procs, Die(p)
  PROVE  TypeOK' /\ SchemaInv'
<1> USE BootstrapAssumption
<1>1. /\ proc' = [proc EXCEPT ![p] = Idle] /\ writer' = IF writer = p THEN NoProcess ELSE writer
      /\ UNCHANGED <<dbFile, versions, tables, files, access, alone, usable>>
  BY DEF Die
<1>2. Idle \in Proc /\ Idle.pc = "idle"
  BY DEF Idle, Proc
<1>3. \A q \in Procs : proc'[q] = IF q = p THEN Idle ELSE proc[q]
  BY <1>1 DEF TypeOK
<1>4. SchemaInv'
  <2>1. \A q \in Procs : (proc'[q].pc = "commit") <=> (writer' = q)
    <3> TAKE q \in Procs
    <3>1. q # NoProcess /\ ((proc[q].pc = "commit") <=> (writer = q))
      BY DEF SchemaInv
    <3> QED
      BY <1>1, <1>2, <1>3, <3>1
  <2>2. Server \in Procs
    BY DEF Procs
  <2> QED
    BY <1>1, <1>2, <1>3, <2>1, <2>2 DEF SchemaInv
<1>5. req' \in [Requests -> Request]
  <2>1. NoRequest \in Request
    BY DEF NoRequest, Request, Content
  <2> QED
    BY <2>1 DEF Die, TypeOK
<1>6. budget' \in [{"death", "again"} -> Nat]
  BY DEF Die, Spend, TypeOK
<1>7. proc' \in [Procs -> Proc]
  BY <1>1, <1>2 DEF TypeOK
<1> QED
  BY <1>1, <1>4, <1>5, <1>6, <1>7 DEF TypeOK, files, access

\* Every step keeps types and the schema.
LEMMA NextSchema == TypeOK /\ SchemaInv /\ [Next]_vars => TypeOK' /\ SchemaInv'
<1> SUFFICES ASSUME TypeOK, SchemaInv, [Next]_vars PROVE TypeOK' /\ SchemaInv'
  OBVIOUS
<1>1. CASE \E p \in Inits : InitBegin(p) \/ RunInit(p)
  <2>1. PICK p \in Inits : InitBegin(p) \/ RunInit(p)
    BY <1>1
  <2>2. p \in Procs
    BY DEF Procs
  <2>3. CASE Migrate(p)
    BY <2>2, <2>3, MigrateSchema
  <2>4. CASE ~Migrate(p)
    BY <2>1, <2>4, InitStepSchema DEF RunInit
  <2> QED
    BY <2>3, <2>4
<1>2. CASE ServerBegin
  <2>0. Server \in Procs
    BY DEF Procs
  <2>1. /\ Goto(Server, "migrate") /\ proc[Server].pc # "commit"
        /\ UNCHANGED <<dbFile, schema, files, access, req, budget, alone, usable>>
    BY <1>2 DEF ServerBegin, Running
  <2>2. PICK new \in Proc : proc' = [proc EXCEPT ![Server] = new] /\ new.pc = "migrate" /\ proc' \in [Procs -> Proc]
    BY <2>0, <2>1, GotoType
  <2>3. SchemaInv'
    BY <2>0, <2>1, <2>2, SchemaKept
  <2> QED
    BY <2>1, <2>2, <2>3 DEF TypeOK, schema, files, access
<1>3. CASE Migrate(Server)
  BY <1>3, MigrateSchema DEF Procs
<1>4. CASE \E p \in Procs : Die(p)
  BY <1>4, DieSchema
<1>5. CASE \E r \in Requests : Serve(r)
  BY <1>5, ServeType, RequestSchema
<1>6. CASE UNCHANGED vars
  <2>1. req' = req /\ UNCHANGED <<dbFile, schema, files, access, proc, budget, alone, usable>>
    BY <1>6 DEF vars
  <2>2. req' \in [Requests -> Request]
    BY <2>1 DEF TypeOK
  <2> QED
    BY <2>1, <2>2, RequestSchema
<1> QED
  BY <1>1, <1>2, <1>3, <1>4, <1>5, <1>6 DEF Next

\* Every variable holds a value of its kind.
THEOREM TypeCorrect == Spec => []TypeOK
<1>1. Spec => [](TypeOK /\ SchemaInv)
  BY InitSchema, NextSchema, PTL DEF Spec
<1> QED
  BY <1>1, PTL

\* A schema that has grown version by version is that of its latest one.
LEMMA SchemaInvWhole == SchemaInv => SchemaWhole
<1> SUFFICES ASSUME SchemaInv PROVE SchemaWhole
  OBVIOUS
<1>1. PICK n \in 0 .. MaxVersion : versions = 1 .. n
  BY DEF SchemaInv
<1>2. Latest = n
  BY <1>1, LatestOf, BootstrapAssumption
<1> QED
  BY <1>1, <1>2 DEF SchemaInv, SchemaWhole

\* The schema is that of a version whoever migrates at once and dies in between,
\* and the server serves on the last version only.
THEOREM SchemaIsWhole == Spec => []SchemaWhole
<1>1. Spec => [](TypeOK /\ SchemaInv)
  BY InitSchema, NextSchema, PTL DEF Spec
<1> QED
  BY <1>1, SchemaInvWhole, PTL

-----------------------------------------------------------------------------
(* Init: the token, the key and the policy. *)

Writing == {"keyCreate", "keyWrite", "tokenCreate", "tokenWrite", "policy"}

\* What does not touch the files and the subject, and takes no init to where it
\* writes them, keeps what is known of them.
LEMMA AccessKept ==
  ASSUME AloneInv, UsableInv, UNCHANGED <<files, access, alone, usable>>,
         \A q \in Inits : \/ proc'[q] = proc[q]
                          \/ proc'[q].pc = "idle"
                          \/ Running(q) /\ proc'[q].pc \notin Writing
  PROVE  AloneInv' /\ UsableInv'
<1>1. /\ keyFile' = keyFile /\ tokenFile' = tokenFile /\ hash' = hash /\ policies' = policies
      /\ alone' = alone /\ usable' = usable
  BY DEF files, access
<1>2. \A q \in Inits : Running(q)' => Running(q)
  BY DEF Running
<1>3. ASSUME NEW p \in Inits, alone'[p], Running(p)'
      PROVE  /\ \A q \in Inits \ {p} : ~Running(q)'
             /\ proc'[p].pc = "keyCreate" => keyFile' = Missing
             /\ proc'[p].pc = "keyWrite" => keyFile' = Torn
             /\ proc'[p].pc \in {"tokenCreate", "tokenWrite", "policy"} =>
                  hash' = proc'[p].secret /\ hash' \in Secrets
             /\ proc'[p].pc = "policy" => tokenFile' = proc'[p].secret
  <2>1. alone[p] /\ Running(p)
    BY <1>1, <1>2, <1>3
  <2>2. \A q \in Inits \ {p} : ~Running(q)'
    BY <1>2, <2>1 DEF AloneInv
  <2>3. CASE proc'[p] = proc[p]
    BY <1>1, <2>1, <2>2, <2>3 DEF AloneInv
  <2>4. CASE proc'[p].pc \notin Writing
    BY <2>2, <2>4 DEF Writing
  <2>5. proc'[p] = proc[p] \/ proc'[p].pc \notin Writing
    BY DEF Writing
  <2> QED
    BY <2>3, <2>4, <2>5
<1>4. AloneInv'
  BY <1>3 DEF AloneInv
<1>5. UsableInv'
  BY <1>1, <1>2 DEF UsableInv
<1> QED
  BY <1>4, <1>5

\* A step of an init that keeps running concerns that init alone.
LEMMA InitStep ==
  ASSUME TypeOK, AloneInv, UsableInv, NEW p \in Inits, Running(p),
         NEW new \in Proc, proc' = [proc EXCEPT ![p] = new], new.pc # "idle",
         UNCHANGED <<alone, usable>>,
         alone[p] =>
           /\ new.pc = "keyCreate" => keyFile' = Missing
           /\ new.pc = "keyWrite" => keyFile' = Torn
           /\ new.pc \in {"tokenCreate", "tokenWrite", "policy"} => hash' = new.secret /\ hash' \in Secrets
           /\ new.pc = "policy" => tokenFile' = new.secret
  PROVE  AloneInv' /\ UsableInv'
<1>1. p \in Procs /\ \A q \in Procs : proc'[q] = IF q = p THEN new ELSE proc[q]
  BY DEF TypeOK, Procs
<1>2. \A q \in Inits : q \in Procs
  BY DEF Procs
<1>3. \A q \in Inits : Running(q)' <=> Running(q)
  BY <1>1, <1>2 DEF Running
<1>4. AloneInv'
  <2>1. ASSUME NEW q \in Inits, alone'[q], Running(q)', q # p PROVE FALSE
    BY <1>3, <2>1 DEF AloneInv
  <2>2. alone[p] => \A q \in Inits \ {p} : ~Running(q)'
    BY <1>3 DEF AloneInv
  <2>3. proc'[p] = new
    BY <1>1
  <2> QED
    BY <2>1, <2>2, <2>3 DEF AloneInv
<1>5. ~usable
  BY DEF UsableInv
<1> QED
  BY <1>4, <1>5 DEF UsableInv

\* The migration is no concern of it.
LEMMA MigrateAccess ==
  ASSUME TypeOK, AloneInv, UsableInv, NEW p \in Procs, Migrate(p)
  PROVE  AloneInv' /\ UsableInv'
<1>1. UNCHANGED <<files, access, alone, usable>>
  BY DEF Migrate, ReadVersion, ApplyMigration, CommitMigration, Migrated
<1>2. proc[p].pc # "idle"
  BY DEF Migrate, ReadVersion, ApplyMigration, CommitMigration, Migrated
<1>3. \A q \in Procs \ {p} : proc'[q] = proc[q]
  BY DEF Migrate, ReadVersion, ApplyMigration, CommitMigration, Migrated, TypeOK, Goto
<1>4. proc'[p].pc \notin Writing
  <2>0. proc \in [Procs -> Proc] /\ proc[p] \in Proc
    BY DEF TypeOK
  <2>1. CASE ReadVersion(p)
    BY <2>0, <2>1 DEF ReadVersion, Writing, Proc
  <2>2. CASE ApplyMigration(p)
    BY <2>0, <2>2 DEF ApplyMigration, Goto, Writing, Proc, Idle
  <2>3. CASE CommitMigration(p)
    BY <2>0, <2>3 DEF CommitMigration, Writing, Proc
  <2>4. CASE Migrated(p)
    BY <2>0, <2>4 DEF Migrated, Writing, Proc, Idle
  <2> QED
    BY <2>1, <2>2, <2>3, <2>4 DEF Migrate
<1>5. \A q \in Inits : proc'[q] = proc[q] \/ (Running(q) /\ proc'[q].pc \notin Writing)
  BY <1>2, <1>3, <1>4 DEF Procs, Running
<1> QED
  BY <1>1, <1>5, AccessKept

\* Init, step by step.
LEMMA InitAccess ==
  ASSUME TypeOK, AloneInv, UsableInv, NEW p \in Inits,
         \/ InitBegin(p) \/ StatKey(p) \/ KeyCreate(p) \/ KeyWrite(p)
         \/ PutSubject(p) \/ TokenCreate(p) \/ TokenWrite(p) \/ PutPolicy(p)
  PROVE  AloneInv' /\ UsableInv'
<1> USE BootstrapAssumption
<1>0. p \in Procs /\ proc[p] \in Proc
  BY DEF Procs, TypeOK
<1>1. CASE InitBegin(p)
  <2>1. /\ proc[p].pc = "idle" /\ proc' = [proc EXCEPT ![p].pc = "migrate"] /\ usable' = FALSE
        /\ alone' = [q \in Inits |-> IF q = p THEN \A i \in Inits : ~Running(i) ELSE FALSE]
    BY <1>1 DEF InitBegin, Running, Goto
  <2>2. proc'[p].pc = "migrate" /\ \A q \in Procs \ {p} : proc'[q] = proc[q]
    BY <1>0, <2>1 DEF TypeOK, Proc
  <2>3. \A q \in Inits : alone'[q] => q = p /\ \A i \in Inits : ~Running(i)
    BY <2>1, Zenon
  <2>4. (\A i \in Inits : ~Running(i)) => \A i \in Inits \ {p} : ~Running(i)'
    BY <2>2 DEF Running, Procs
  <2> QED
    BY <2>1, <2>2, <2>3, <2>4 DEF AloneInv, UsableInv
<1>2. CASE StatKey(p)
  <2> DEFINE next == IF keyFile = Missing THEN "keyCreate" ELSE "subject"
  <2>1. /\ Goto(p, next) /\ Running(p) /\ next \in {"keyCreate", "subject"}
        /\ next = "keyCreate" => keyFile = Missing
        /\ UNCHANGED <<keyFile, tokenFile, access, alone, usable>>
    BY <1>2 DEF StatKey, Running, files
  <2> HIDE DEF next
  <2>2. PICK new \in Proc : proc' = [proc EXCEPT ![p] = new] /\ new.pc = next
    BY <1>0, <2>1, GotoType
  <2> QED
    BY <2>1, <2>2, InitStep
<1>3. CASE KeyCreate(p)
  <2>1. Goto(p, "keyWrite") /\ Running(p) /\ keyFile' = Torn /\ UNCHANGED <<alone, usable>>
    BY <1>3 DEF KeyCreate, Running
  <2>2. PICK new \in Proc : proc' = [proc EXCEPT ![p] = new] /\ new.pc = "keyWrite"
    BY <1>0, <2>1, GotoType
  <2> QED
    BY <2>1, <2>2, InitStep
<1>4. CASE KeyWrite(p)
  <2>1. Goto(p, "subject") /\ Running(p) /\ UNCHANGED <<alone, usable>>
    BY <1>4 DEF KeyWrite, Running
  <2>2. PICK new \in Proc : proc' = [proc EXCEPT ![p] = new] /\ new.pc = "subject"
    BY <1>0, <2>1, GotoType
  <2> QED
    BY <2>1, <2>2, InitStep
<1>5. CASE PutSubject(p)
  <2>1. /\ hash' = NewSecret /\ Running(p) /\ UNCHANGED <<alone, usable>>
        /\ proc' = [proc EXCEPT ![p].pc = "tokenCreate", ![p].secret = hash']
    BY <1>5 DEF PutSubject, Running
  <2>2. hash' \in Secrets
    BY <2>1, NewSecretType
  <2>3. PICK new \in Proc : proc' = [proc EXCEPT ![p] = new] /\ new.pc = "tokenCreate" /\ new.secret = hash'
    <3> DEFINE new == [proc[p] EXCEPT !.pc = "tokenCreate", !.secret = hash']
    <3>1. new \in Proc /\ new.pc = "tokenCreate" /\ new.secret = hash'
      BY <1>0, <2>2 DEF Proc
    <3>2. proc' = [proc EXCEPT ![p] = new]
      BY <2>1 DEF TypeOK
    <3> QED
      BY <3>1, <3>2
  <2> QED
    BY <2>1, <2>2, <2>3, InitStep
<1>6. CASE TokenCreate(p)
  <2>1. Goto(p, "tokenWrite") /\ Running(p) /\ hash' = hash /\ UNCHANGED <<alone, usable>>
    BY <1>6 DEF TokenCreate, Running, access
  <2>2. PICK new \in Proc : /\ proc' = [proc EXCEPT ![p] = new] /\ new.pc = "tokenWrite"
                          /\ new.secret = proc[p].secret
    BY <1>0, <2>1, GotoType
  <2>3. alone[p] => hash = proc[p].secret /\ hash \in Secrets
    BY <1>6, <2>1 DEF AloneInv, TokenCreate
  <2> QED
    BY <2>1, <2>2, <2>3, InitStep
<1>7. CASE TokenWrite(p)
  <2>1. /\ Goto(p, "policy") /\ Running(p) /\ hash' = hash /\ tokenFile' = proc[p].secret
        /\ UNCHANGED <<alone, usable>>
    BY <1>7 DEF TokenWrite, Running, access
  <2>2. PICK new \in Proc : /\ proc' = [proc EXCEPT ![p] = new] /\ new.pc = "policy"
                          /\ new.secret = proc[p].secret
    BY <1>0, <2>1, GotoType
  <2>3. alone[p] => hash = proc[p].secret /\ hash \in Secrets
    BY <1>7, <2>1 DEF AloneInv, TokenWrite
  <2> QED
    BY <2>1, <2>2, <2>3, InitStep
<1>8. CASE PutPolicy(p)
  <2>1. /\ proc[p].pc = "policy" /\ Running(p) /\ policies' = policies \cup {BootstrapPolicy}
        /\ proc' = [proc EXCEPT ![p] = Idle] /\ UNCHANGED <<files, hash, alone>>
    BY <1>8 DEF PutPolicy, Running
  <2>2. usable' = alone[p]
    BY <1>8 DEF PutPolicy
  <2>3. ~Running(p)' /\ \A q \in Procs \ {p} : Running(q)' <=> Running(q)
    BY <1>0, <2>1 DEF Running, TypeOK, Idle
  <2>4. \A q \in Procs \ {p} : proc'[q] = proc[q]
    BY <2>1 DEF TypeOK
  <2>5. ASSUME NEW q \in Inits, alone'[q], Running(q)' PROVE FALSE
    <3>1. q # p /\ alone[q] /\ Running(q)
      BY <2>1, <2>3, <2>5 DEF Procs
    <3> QED
      BY <2>1, <3>1 DEF AloneInv
  <2>6. AloneInv'
    BY <2>5 DEF AloneInv
  <2>7. alone[p] => /\ \A q \in Inits : ~Running(q)'
                   /\ tokenFile \in Secrets /\ hash = tokenFile
    BY <2>1, <2>3 DEF AloneInv, Procs
  <2>8. UsableInv'
    BY <2>1, <2>2, <2>7 DEF UsableInv, files
  <2> QED
    BY <2>6, <2>8
<1> QED
  BY <1>1, <1>2, <1>3, <1>4, <1>5, <1>6, <1>7, <1>8

\* The first state, and every step.
LEMMA InitAlone == Init => AloneInv /\ UsableInv
<1> SUFFICES ASSUME Init PROVE AloneInv /\ UsableInv
  OBVIOUS
<1>1. \A p \in Inits : ~Running(p)
  BY DEF Init, Running, Idle, Procs
<1>2. ~usable
  BY DEF Init
<1> QED
  BY <1>1, <1>2 DEF AloneInv, UsableInv

\* Every step keeps it.
LEMMA NextAccess == TypeOK /\ AloneInv /\ UsableInv /\ [Next]_vars => AloneInv' /\ UsableInv'
<1> SUFFICES ASSUME TypeOK, AloneInv, UsableInv, [Next]_vars PROVE AloneInv' /\ UsableInv'
  OBVIOUS
<1>0. Server \in Procs /\ Server \notin Inits /\ Inits \subseteq Procs
  BY BootstrapAssumption DEF Procs
<1>1. CASE \E p \in Inits : InitBegin(p) \/ RunInit(p)
  <2>1. PICK p \in Inits : InitBegin(p) \/ RunInit(p)
    BY <1>1
  <2>2. CASE Migrate(p)
    BY <1>0, <2>2, MigrateAccess
  <2>3. CASE ~Migrate(p)
    BY <2>1, <2>3, InitAccess DEF RunInit
  <2> QED
    BY <2>2, <2>3
<1>2. CASE ServerBegin
  <2>1. UNCHANGED <<files, access, alone, usable>> /\ \A q \in Inits : proc'[q] = proc[q]
    BY <1>0, <1>2 DEF ServerBegin, Goto, TypeOK
  <2> QED
    BY <2>1, AccessKept
<1>3. CASE Migrate(Server)
  BY <1>0, <1>3, MigrateAccess
<1>4. CASE \E p \in Procs : Die(p)
  <2>1. PICK p \in Procs : Die(p)
    BY <1>4
  <2>2. UNCHANGED <<files, access, alone, usable>> /\ proc' = [proc EXCEPT ![p] = Idle]
    BY <2>1 DEF Die
  <2>3. \A q \in Inits : proc'[q] = proc[q] \/ proc'[q].pc = "idle"
    BY <1>0, <2>2 DEF TypeOK, Idle
  <2> QED
    BY <2>2, <2>3, AccessKept
<1>5. CASE \E r \in Requests : Serve(r)
  <2>1. UNCHANGED <<files, access, alone, usable>> /\ proc' = proc
    BY <1>5, ServeType
  <2> QED
    BY <2>1, AccessKept
<1>6. CASE UNCHANGED vars
  <2>1. UNCHANGED <<files, access, alone, usable>> /\ proc' = proc
    BY <1>6 DEF vars
  <2> QED
    BY <2>1, AccessKept
<1> QED
  BY <1>1, <1>2, <1>3, <1>4, <1>5, <1>6 DEF Next

\* After an init that ran alone and completed, the token on disk is accepted and
\* grants everything that can be granted.
THEOREM TokenAccepted == Spec => []TokenWorks
<1>1. Spec => [](TypeOK /\ AloneInv /\ UsableInv)
  BY InitSchema, InitAlone, NextSchema, NextAccess, TypeCorrect, PTL DEF Spec
<1>2. UsableInv => TokenWorks
  <2> SUFFICES ASSUME UsableInv, usable PROVE TokenWorks
    BY DEF TokenWorks
  <2> QED
    BY BootstrapGrants DEF UsableInv, TokenWorks
<1> QED
  BY <1>1, <1>2, PTL

\* Who changes the key file.
LEMMA KeyWriters ==
  ASSUME TypeOK, [Next]_vars, keyFile' # keyFile
  PROVE  \E p \in Inits : KeyCreate(p) \/ KeyWrite(p)
<1>1. ASSUME NEW p, Migrate(p) PROVE keyFile' = keyFile
  BY <1>1 DEF Migrate, ReadVersion, ApplyMigration, CommitMigration, Migrated, files
<1>2. ASSUME NEW p \in Inits, InitBegin(p) \/ RunInit(p) PROVE KeyCreate(p) \/ KeyWrite(p)
  BY <1>1, <1>2 DEF RunInit, InitBegin, StatKey, PutSubject, TokenCreate, TokenWrite, PutPolicy, files
<1>3. ~UNCHANGED vars /\ ~ServerBegin /\ \A p \in Procs : ~Die(p)
  BY DEF vars, ServerBegin, Die, files
<1>4. \A r \in Requests : ~Serve(r)
  BY ServeType DEF files
<1> QED
  BY <1>1, <1>2, <1>3, <1>4 DEF Next

\* The master key, once written, is replaced by an init only if another ran
\* beside it.
THEOREM KeyStays == Spec => KeyKept
<1>1. TypeOK /\ AloneInv /\ [Next]_vars =>
        [keyFile' # keyFile /\ keyFile \in Secrets =>
           \E p \in Inits : ~alone[p] /\ proc[p].pc \in {"keyCreate", "keyWrite"}]_vars
  <2> SUFFICES ASSUME TypeOK, AloneInv, [Next]_vars, keyFile' # keyFile, keyFile \in Secrets
               PROVE  \E p \in Inits : ~alone[p] /\ proc[p].pc \in {"keyCreate", "keyWrite"}
    OBVIOUS
  <2>1. PICK p \in Inits : KeyCreate(p) \/ KeyWrite(p)
    BY KeyWriters
  <2>2. proc[p].pc \in {"keyCreate", "keyWrite"} /\ Running(p)
    BY <2>1 DEF KeyCreate, KeyWrite, Running
  <2>3. ~alone[p]
    BY <2>2, BootstrapAssumption DEF AloneInv
  <2> QED
    BY <2>2, <2>3
<1>2. Spec => [](TypeOK /\ AloneInv /\ UsableInv)
  BY InitSchema, InitAlone, NextSchema, NextAccess, TypeCorrect, PTL DEF Spec
<1> QED
  BY <1>1, <1>2, PTL DEF Spec, KeyKept

-----------------------------------------------------------------------------
(* Requests. *)

\* Who judges a request.
LEMMA Judges ==
  ASSUME TypeOK, [Next]_vars, NEW r \in Requests, req[r].pc \in {"sent", "read"},
         req'[r].pc \notin {"sent", "read"}
  PROVE  Authenticate(r) \/ Die(Server)
<1> USE BootstrapAssumption
<1>0. req[r] \in Request
  BY DEF TypeOK
<1>1. ASSUME NEW p, Migrate(p) PROVE req' = req
  BY <1>1 DEF Migrate, ReadVersion, ApplyMigration, CommitMigration, Migrated
<1>2. ASSUME NEW p \in Inits, InitBegin(p) \/ RunInit(p), ~PutSubject(p) PROVE req' = req
  BY <1>1, <1>2 DEF RunInit, InitBegin, StatKey, KeyCreate, KeyWrite, TokenCreate, TokenWrite, PutPolicy
<1>3. ASSUME NEW p, PutSubject(p) PROVE FALSE
  <2>1. req'[r] = [req[r] EXCEPT !.fresh = @ \cup {hash'}]
    BY <1>3 DEF PutSubject, Stored, NoRequest
  <2>2. req'[r].pc = req[r].pc
    BY <1>0, <2>1 DEF Request
  <2> QED
    BY <2>2
<1>4. ASSUME NEW p \in Procs, Die(p) PROVE p = Server
  BY <1>4 DEF Die
<1>5. ServerBegin \/ UNCHANGED vars => req' = req
  BY DEF ServerBegin, vars
<1>6. ASSUME NEW i \in Requests, Serve(i) PROVE Authenticate(r)
  <2>1. i = r
    BY <1>6 DEF Serve, Send, ReadSubject, Authenticate, Answer, Decide, TypeOK
  <2>2. ~ReadSubject(r)
    <3> SUFFICES ASSUME ReadSubject(r) PROVE FALSE
      OBVIOUS
    <3>1. req'[r] = [req[r] EXCEPT !.pc = "read", !.seen = hash]
      BY DEF ReadSubject, TypeOK
    <3> QED
      BY <1>0, <3>1 DEF Request
  <2>3. ~Answer(r) /\ \A p \in Projects : ~Decide(r, p)
    BY DEF Answer, Decide
  <2>4. \A token \in Secrets \cup {Torn} : ~Send(r, token)
    BY DEF Send, NoRequest
  <2>5. Serve(r)
    BY <1>6, <2>1
  <2> QED
    BY <2>2, <2>3, <2>4, <2>5 DEF Serve
<1> QED
  BY <1>1, <1>2, <1>3, <1>4, <1>5, <1>6 DEF Next

\* Every step leaves the requests in flight with the hashes they have lived
\* through.
LEMMA NextRequest == TypeOK /\ RequestInv /\ [Next]_vars => RequestInv'
<1> SUFFICES ASSUME TypeOK, RequestInv, [Next]_vars PROVE RequestInv'
  OBVIOUS
<1> USE BootstrapAssumption
<1>1. CASE hash' = hash /\ req' = req
  BY <1>1 DEF RequestInv
<1>2. CASE \E p \in Inits : PutSubject(p)
  <2>1. hash' = NewSecret /\ req' = Stored(hash')
    BY <1>2 DEF PutSubject
  <2>2. ASSUME NEW r \in Requests, req'[r].pc # "none"
        PROVE  /\ hash' \in req'[r].fresh
               /\ req'[r].pc = "read" => req'[r].seen \in req'[r].fresh
    <3>1. req'[r] = [req[r] EXCEPT !.fresh = @ \cup {hash'}]
      BY <2>1, <2>2 DEF Stored, NoRequest
    <3>2. req[r] \in Request
      BY DEF TypeOK
    <3>3. /\ req'[r].pc = req[r].pc /\ req'[r].seen = req[r].seen
          /\ req'[r].fresh = req[r].fresh \cup {hash'}
      BY <3>1, <3>2 DEF Request
    <3> QED
      BY <2>2, <3>3 DEF RequestInv
  <2> QED
    BY <2>2 DEF RequestInv
<1>3. CASE hash' = hash /\ req' = [r \in Requests |-> NoRequest]
  BY <1>3 DEF RequestInv, NoRequest
<1>4. CASE \E r \in Requests : Serve(r)
  <2>1. PICK r \in Requests : Serve(r)
    BY <1>4
  <2>2. hash' = hash
    BY <2>1, ServeType DEF access
  <2>3. \A i \in Requests \ {r} : req'[i] = req[i]
    BY <2>1 DEF Serve, Send, ReadSubject, Authenticate, Answer, Decide, TypeOK
  <2>4. req[r] \in Request /\ NoRequest.pc = "none"
    BY DEF TypeOK, NoRequest
  <2>5. /\ req'[r].pc # "none" => hash \in req'[r].fresh
        /\ req'[r].pc = "read" => req'[r].seen \in req'[r].fresh
    <3>1. CASE \E token \in Secrets \cup {Torn} : Send(r, token)
      BY <3>1 DEF Send, TypeOK
    <3>2. CASE ReadSubject(r)
      <4>1. req'[r] = [req[r] EXCEPT !.pc = "read", !.seen = hash] /\ req[r].pc = "sent"
        BY <3>2 DEF ReadSubject, TypeOK
      <4>2. req'[r].seen = hash /\ req'[r].fresh = req[r].fresh
        BY <2>4, <4>1 DEF Request
      <4> QED
        BY <4>1, <4>2 DEF RequestInv
    <3>3. ASSUME NEW pc \in {"known", "admitted"}, req[r].pc # "none",
                 req'[r] = [req[r] EXCEPT !.pc = pc]
          PROVE  hash \in req'[r].fresh /\ req'[r].pc # "read"
      BY <2>4, <3>3 DEF Request, RequestInv
    <3>4. CASE Authenticate(r)
      <4>1. req[r].pc = "read" /\ (req'[r] = NoRequest \/ req'[r] = [req[r] EXCEPT !.pc = "known"])
        BY <3>4 DEF Authenticate, TypeOK
      <4> QED
        BY <2>4, <3>3, <4>1
    <3>5. CASE Answer(r)
      BY <2>4, <3>5 DEF Answer, TypeOK
    <3>6. CASE \E p \in Projects : Decide(r, p)
      <4>1. req[r].pc = "known" /\ (req'[r] = NoRequest \/ req'[r] = [req[r] EXCEPT !.pc = "admitted"])
        BY <3>6 DEF Decide, TypeOK
      <4> QED
        BY <2>4, <3>3, <4>1
    <3> QED
      BY <2>1, <3>1, <3>2, <3>4, <3>5, <3>6 DEF Serve
  <2>6. ASSUME NEW i \in Requests
        PROVE  /\ req'[i].pc # "none" => hash' \in req'[i].fresh
               /\ req'[i].pc = "read" => req'[i].seen \in req'[i].fresh
    <3>1. CASE i = r
      <4>1. req'[i] = req'[r]
        BY <3>1
      <4> QED
        BY <2>2, <2>5, <4>1
    <3>2. CASE i # r
      <4>1. req'[i] = req[i]
        BY <2>3, <3>2
      <4> QED
        BY <2>2, <4>1 DEF RequestInv
    <3> QED
      BY <3>1, <3>2
  <2> QED
    BY <2>6 DEF RequestInv
<1>5. ASSUME NEW p, Migrate(p) PROVE hash' = hash /\ req' = req
  BY <1>5 DEF Migrate, ReadVersion, ApplyMigration, CommitMigration, Migrated, access
<1>6. ASSUME NEW p \in Inits, InitBegin(p) \/ RunInit(p)
      PROVE  PutSubject(p) \/ (hash' = hash /\ req' = req)
  BY <1>5, <1>6 DEF RunInit, InitBegin, StatKey, KeyCreate, KeyWrite, TokenCreate, TokenWrite,
     PutPolicy, access
<1>7. ASSUME NEW p \in Procs, Die(p)
      PROVE  hash' = hash /\ (req' = req \/ req' = [r \in Requests |-> NoRequest])
  BY <1>7 DEF Die, access
<1>8. ServerBegin \/ UNCHANGED vars => hash' = hash /\ req' = req
  BY DEF ServerBegin, vars, access
<1> QED
  BY <1>1, <1>2, <1>3, <1>4, <1>5, <1>6, <1>7, <1>8 DEF Next

\* Each request is let in or turned away as if row and token had been read and
\* compared at one moment since it was sent.
THEOREM AuthenticationIsAtomic == Spec => JudgedAsStored
<1>1. Init => RequestInv
  BY DEF Init, RequestInv, NoRequest
<1>2. Spec => [](TypeOK /\ RequestInv)
  BY <1>1, NextRequest, TypeCorrect, PTL DEF Spec
<1>3. TypeOK /\ RequestInv /\ [Next]_vars =>
        [\A r \in Requests : req[r].pc \in {"sent", "read"} /\ req'[r].pc \notin {"sent", "read"} =>
           \/ proc'[Server].pc # "serving"
           \/ \E h \in req[r].fresh : req'[r].pc = "known" <=> req[r].token = h]_vars
  <2> SUFFICES ASSUME TypeOK, RequestInv, [Next]_vars, NEW r \in Requests,
                      req[r].pc \in {"sent", "read"}, req'[r].pc \notin {"sent", "read"},
                      proc'[Server].pc = "serving"
               PROVE  \E h \in req[r].fresh : req'[r].pc = "known" <=> req[r].token = h
    OBVIOUS
  <2>1. Authenticate(r)
    <3>1. ~Die(Server)
      BY DEF Die, Idle, TypeOK, Procs
    <3> QED
      BY <3>1, Judges
  <2>2. req[r].seen \in req[r].fresh /\ req[r] \in Request
    BY <2>1 DEF Authenticate, RequestInv, TypeOK
  <2>3. req'[r].pc = "known" <=> req[r].token = req[r].seen
    BY <2>1, <2>2 DEF Authenticate, NoRequest, TypeOK, Request
  <2> QED
    BY <2>2, <2>3
<1> QED
  BY <1>2, <1>3, PTL DEF Spec, JudgedAsStored
=============================================================================
