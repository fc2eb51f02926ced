----------------------------- MODULE Bootstrap -----------------------------
(***************************************************************************)
(* One data directory and the processes that share it: `proxa init`, run   *)
(* again by the operator until it has succeeded, `proxa server`, and API   *)
(* clients. Both commands migrate the same database, version by version;   *)
(* init then writes the master key, the bootstrap subject, the token file  *)
(* and the policy, one after the other, and may be cut short between any   *)
(* two. The server authenticates the requests of its API against what is   *)
(* stored; only the stream of a service's logs also asks the policy engine.*)
(* (The dashboard over the Unix socket needs no token and is left out.)    *)
(***************************************************************************)
EXTENDS Access, FiniteSets

CONSTANTS
  Inits,       \* processes that run `proxa init`
  Server,      \* the process that runs `proxa server`
  MaxVersion,  \* schemaMigrations has versions 1 to MaxVersion (2 in the code)
  Secrets,     \* tokens and keys; enough for one to be unused
  Requests,    \* API requests
  Budget,      \* how many processes die, and how many inits are run needlessly
  Missing, Torn, NoProcess

VARIABLES
  dbFile,    \* proxa.db exists
  versions,  \* the rows of schema_version
  tables,    \* the versions whose tables exist
  writer,    \* the process with an open write transaction
  keyFile, tokenFile, \* secrets.key and token: absent, cut short, or written
  hash,      \* the token whose hash the bootstrap subject has
  policies,  \* the policies of the bootstrap subject
  proc,      \* the processes
  req,       \* the requests
  budget,
  alone,     \* history: no other init has run since this one began
  usable     \* history: an init that ran alone has completed, none has begun since

files == <<keyFile, tokenFile>>
schema == <<versions, tables, writer>>
access == <<hash, policies>>
vars == <<dbFile, schema, files, access, proc, req, budget, alone, usable>>

Versions == 1 .. MaxVersion
Procs == Inits \cup {Server}
Content == Secrets \cup {Missing, Torn}
Proc == [pc: {"idle", "migrate", "apply", "commit", "key", "keyCreate", "keyWrite", "subject",
              "tokenCreate", "tokenWrite", "policy", "serving"},
         current: 0 .. MaxVersion, secret: Secrets \cup {Missing}]
Request == [pc: {"none", "sent", "read", "known", "admitted"}, token: Content,
            seen: Content, fresh: SUBSET (Secrets \cup {Missing})]

ASSUME BootstrapAssumption ==
  /\ MaxVersion \in Nat /\ Server \notin Inits /\ NoProcess \notin Procs
  /\ Missing \notin Secrets /\ Torn \notin Secrets
  /\ IsFiniteSet(Secrets) /\ IsFiniteSet(Procs) /\ IsFiniteSet(Requests)
  /\ Cardinality(Secrets) > Cardinality(Procs) + Cardinality(Requests) + 3
  /\ Missing # Torn /\ Budget \in [{"death", "again"} -> Nat]

Idle == [pc |-> "idle", current |-> 0, secret |-> Missing]
NoRequest == [pc |-> "none", token |-> Missing, seen |-> Missing, fresh |-> {}]
BootstrapPolicy == [role |-> "admin", project |-> AnyProject]

-----------------------------------------------------------------------------
(* Helpers. *)

Running(p) == proc[p].pc # "idle"
Goto(p, pc) == proc' = [proc EXCEPT ![p].pc = pc]
Spend(kind) == budget[kind] > 0 /\ budget' = [budget EXCEPT ![kind] = @ - 1]

\* SELECT COALESCE(MAX(version), 0).
Latest == CHOOSE n \in versions \cup {0} : \A v \in versions : v <= n

\* rand.Text: a secret that is nowhere in use.
InUse == {keyFile, tokenFile, hash} \cup {proc[p].secret : p \in Procs} \cup {req[r].token : r \in Requests}
NewSecret == CHOOSE s \in Secrets : s \notin InUse

\* A request in flight sees the hash change.
Stored(h) == [r \in Requests |->
                IF req[r] = NoRequest THEN NoRequest
                ELSE [req[r] EXCEPT !.fresh = @ \cup {h}]]

-----------------------------------------------------------------------------
(* Both commands: open and migrate. *)

\* runInit up to Migrate; OpenInRoot creates the database file. The operator
\* runs init while none has succeeded, and needlessly only for a price.
InitBegin(p) ==
  /\ ~Running(p)
  /\ IF usable \/ \E q \in Inits : Running(q) THEN Spend("again") ELSE UNCHANGED budget
  /\ Goto(p, "migrate") /\ dbFile' = TRUE
  /\ alone' = [q \in Inits |-> IF q = p THEN \A i \in Inits : ~Running(i) ELSE FALSE]
  /\ usable' = FALSE
  /\ UNCHANGED <<schema, files, access, req>>

\* runServer up to Migrate: without a database it refuses to start.
ServerBegin ==
  /\ ~Running(Server) /\ dbFile
  /\ Goto(Server, "migrate")
  /\ UNCHANGED <<dbFile, schema, files, access, req, budget, alone, usable>>

\* Migrate reads the version outside any transaction.
ReadVersion(p) ==
  /\ proc[p].pc = "migrate"
  /\ proc' = [proc EXCEPT ![p].pc = "apply", ![p].current = Latest]
  /\ UNCHANGED <<dbFile, schema, files, access, req, budget, alone, usable>>

\* migrateV1 and migrateV2 create their tables, indices and the default project,
\* which fails if they are there already.
HasTables(v) == v \in tables

\* Wrong form of ApplyMigration: the statements are not part of the transaction.
ApplyMigrationNow(p) ==
  /\ proc[p].pc = "apply" /\ proc[p].current < MaxVersion /\ writer = NoProcess
  /\ LET v == proc[p].current + 1
     IN  IF v \in tables
         THEN proc' = [proc EXCEPT ![p] = Idle] /\ UNCHANGED schema
         ELSE Goto(p, "commit") /\ writer' = p /\ tables' = tables \cup {v} /\ UNCHANGED versions
  /\ UNCHANGED <<dbFile, files, access, req, budget, alone, usable>>

\* Wrong form of ApplyMigration: one version too many.
ApplyMigrationMore(p) ==
  /\ proc[p].pc = "apply" /\ proc[p].current <= MaxVersion /\ writer = NoProcess
  /\ Goto(p, "commit") /\ writer' = p
  /\ UNCHANGED <<dbFile, versions, tables, files, access, req, budget, alone, usable>>

\* runMigration takes the write lock. A table that another process has made in
\* the meantime is an error: the transaction is rolled back, the command ends.
ApplyMigration(p) ==
  /\ proc[p].pc = "apply" /\ proc[p].current < MaxVersion /\ writer = NoProcess
  /\ IF HasTables(proc[p].current + 1)
     THEN proc' = [proc EXCEPT ![p] = Idle] /\ UNCHANGED schema
     ELSE Goto(p, "commit") /\ writer' = p /\ UNCHANGED <<versions, tables>>
  /\ UNCHANGED <<dbFile, files, access, req, budget, alone, usable>>

\* Tables and version row become visible together.
CommitMigration(p) ==
  /\ proc[p].pc = "commit"
  /\ LET v == proc[p].current + 1
     IN  /\ versions' = versions \cup {v} /\ tables' = tables \cup {v} /\ writer' = NoProcess
         /\ proc' = [proc EXCEPT ![p].pc = "apply", ![p].current = v]
  /\ UNCHANGED <<dbFile, files, access, req, budget, alone, usable>>

\* No version is left: init goes on, the server serves.
Migrated(p) ==
  /\ proc[p].pc = "apply" /\ proc[p].current = MaxVersion
  /\ proc' = [proc EXCEPT ![p] = [Idle EXCEPT !.pc = IF p = Server THEN "serving" ELSE "key"]]
  /\ UNCHANGED <<dbFile, schema, files, access, req, budget, alone, usable>>

-----------------------------------------------------------------------------
(* The rest of init. *)

\* Wrong form of StatKey: a new key for every init.
StatKeyAlways(p) ==
  /\ proc[p].pc = "key" /\ Goto(p, "keyCreate")
  /\ UNCHANGED <<dbFile, schema, files, access, req, budget, alone, usable>>

\* A key file that exists is kept, whatever is in it.
StatKey(p) ==
  /\ proc[p].pc = "key"
  /\ Goto(p, IF keyFile = Missing THEN "keyCreate" ELSE "subject")
  /\ UNCHANGED <<dbFile, schema, files, access, req, budget, alone, usable>>

\* WriteFile truncates or creates the file, then writes it.
KeyCreate(p) ==
  /\ proc[p].pc = "keyCreate" /\ Goto(p, "keyWrite")
  /\ keyFile' = Torn
  /\ UNCHANGED <<dbFile, schema, tokenFile, access, req, budget, alone, usable>>

KeyWrite(p) ==
  /\ proc[p].pc = "keyWrite" /\ Goto(p, "subject")
  /\ keyFile' = NewSecret
  /\ UNCHANGED <<dbFile, schema, tokenFile, access, req, budget, alone, usable>>

\* Wrong form of PutSubject: the row of an earlier init stays.
PutSubjectOnce(p) ==
  /\ proc[p].pc = "subject" /\ writer = NoProcess
  /\ hash' = IF hash = Missing THEN NewSecret ELSE hash
  /\ req' = Stored(hash')
  /\ proc' = [proc EXCEPT ![p].pc = "tokenCreate", ![p].secret = NewSecret]
  /\ UNCHANGED <<dbFile, schema, files, policies, budget, alone, usable>>

\* PutSubject of the bootstrap subject, with the hash of a new token. (The row
\* of the local admin, written just before, is read by nothing.)
PutSubject(p) ==
  /\ proc[p].pc = "subject" /\ writer = NoProcess
  /\ hash' = NewSecret /\ req' = Stored(hash')
  /\ proc' = [proc EXCEPT ![p].pc = "tokenCreate", ![p].secret = hash']
  /\ UNCHANGED <<dbFile, schema, files, policies, budget, alone, usable>>

TokenCreate(p) ==
  /\ proc[p].pc = "tokenCreate" /\ Goto(p, "tokenWrite")
  /\ tokenFile' = Torn
  /\ UNCHANGED <<dbFile, schema, keyFile, access, req, budget, alone, usable>>

TokenWrite(p) ==
  /\ proc[p].pc = "tokenWrite" /\ Goto(p, "policy")
  /\ tokenFile' = proc[p].secret
  /\ UNCHANGED <<dbFile, schema, keyFile, access, req, budget, alone, usable>>

\* PutPolicy is the last thing init does.
PutPolicy(p) ==
  /\ proc[p].pc = "policy" /\ writer = NoProcess
  /\ policies' = policies \cup {BootstrapPolicy}
  /\ proc' = [proc EXCEPT ![p] = Idle]
  /\ usable' = alone[p]
  /\ UNCHANGED <<dbFile, schema, files, hash, req, budget, alone>>

-----------------------------------------------------------------------------
(* Death of a process. *)

\* A call fails and the command returns, or the process is killed: SQLite rolls
\* an open transaction back, everything else stays. A server takes its requests
\* with it.
Die(p) ==
  /\ Running(p) /\ Spend("death")
  /\ proc' = [proc EXCEPT ![p] = Idle]
  /\ writer' = IF writer = p THEN NoProcess ELSE writer
  /\ req' = IF p = Server THEN [r \in Requests |-> NoRequest] ELSE req
  /\ UNCHANGED <<dbFile, versions, tables, files, access, alone, usable>>

-----------------------------------------------------------------------------
(* Requests: NewClient, RequireAuth, and Authorize for logs. *)

\* A client sends the token of its file, or one that it was given before.
Send(r, token) ==
  /\ proc[Server].pc = "serving" /\ req[r] = NoRequest
  /\ req' = [req EXCEPT ![r] = [pc |-> "sent", token |-> token, seen |-> Missing, fresh |-> {hash}]]
  /\ UNCHANGED <<dbFile, schema, files, access, proc, budget, alone, usable>>

\* Wrong form of ReadSubject: the token is compared with the file.
ReadSubjectFile(r) ==
  /\ req[r].pc = "sent"
  /\ req' = [req EXCEPT ![r].pc = "read", ![r].seen = tokenFile]
  /\ UNCHANGED <<dbFile, schema, files, access, proc, budget, alone, usable>>

\* GetSubject: a copy of the row with the stored hash, if there is one.
ReadSubject(r) ==
  /\ req[r].pc = "sent"
  /\ req' = [req EXCEPT ![r].pc = "read", ![r].seen = hash]
  /\ UNCHANGED <<dbFile, schema, files, access, proc, budget, alone, usable>>

\* The comparison with the copy; anything else is answered with 401 (no subject
\* yet, another token).
Authenticate(r) ==
  /\ req[r].pc = "read"
  /\ req' = [req EXCEPT ![r] = IF req[r].token = req[r].seen THEN [@ EXCEPT !.pc = "known"] ELSE NoRequest]
  /\ UNCHANGED <<dbFile, schema, files, access, proc, budget, alone, usable>>

\* handleStreamServiceLogs, the one handler that asks the policy engine: may
\* the subject read logs of project p? If not, 403.
Decide(r, p) ==
  /\ req[r].pc = "known"
  /\ LET q == [verb |-> "logs", kind |-> "service", project |-> p]
     IN  req' = [req EXCEPT ![r] = IF Authorize(policies, q) THEN [@ EXCEPT !.pc = "admitted"] ELSE NoRequest]
  /\ UNCHANGED <<dbFile, schema, files, access, proc, budget, alone, usable>>

\* Every other handler answers once the token is known, whatever the policies.
Answer(r) ==
  /\ req[r].pc \in {"known", "admitted"}
  /\ req' = [req EXCEPT ![r] = NoRequest]
  /\ UNCHANGED <<dbFile, schema, files, access, proc, budget, alone, usable>>

-----------------------------------------------------------------------------
Init ==
  /\ dbFile = FALSE /\ versions = {} /\ tables = {} /\ writer = NoProcess
  /\ keyFile = Missing /\ tokenFile = Missing /\ hash = Missing /\ policies = {}
  /\ proc = [p \in Procs |-> Idle]
  /\ req = [r \in Requests |-> NoRequest]
  /\ budget = Budget /\ alone = [p \in Inits |-> FALSE] /\ usable = FALSE

Migrate(p) == ReadVersion(p) \/ ApplyMigration(p) \/ CommitMigration(p) \/ Migrated(p)

RunInit(p) ==
  \/ Migrate(p) \/ StatKey(p) \/ KeyCreate(p) \/ KeyWrite(p)
  \/ PutSubject(p) \/ TokenCreate(p) \/ TokenWrite(p) \/ PutPolicy(p)

Serve(r) ==
  \/ \E token \in Secrets \cup {Torn} : Send(r, token)
  \/ ReadSubject(r) \/ Authenticate(r) \/ Answer(r)
  \/ \E p \in Projects : Decide(r, p)

Next ==
  \/ \E p \in Inits : InitBegin(p) \/ RunInit(p)
  \/ ServerBegin \/ Migrate(Server)
  \/ \E p \in Procs : Die(p)
  \/ \E r \in Requests : Serve(r)

Spec == Init /\ [][Next]_vars

\* Processes run; the operator runs init again until it has succeeded, and the
\* service manager starts the server again.
FairSpec ==
  /\ Spec /\ \A p \in Inits : WF_vars(RunInit(p))
  /\ WF_vars(~usable /\ (\A p \in Inits : ~Running(p)) /\ \E p \in Inits : InitBegin(p))
  /\ WF_vars(ServerBegin \/ Migrate(Server))

-----------------------------------------------------------------------------
(* Properties. *)

\* Every variable holds a value of its kind.
TypeOK ==
  /\ dbFile \in BOOLEAN /\ versions \subseteq Versions /\ tables \subseteq Versions
  /\ writer \in Procs \cup {NoProcess}
  /\ keyFile \in Content /\ tokenFile \in Content /\ hash \in Secrets \cup {Missing}
  /\ policies \subseteq Policy
  /\ proc \in [Procs -> Proc] /\ req \in [Requests -> Request]
  /\ budget \in [{"death", "again"} -> Nat]
  /\ alone \in [Inits -> BOOLEAN] /\ usable \in BOOLEAN

\* migrations.go: "Each migration is atomic per its own transaction". Whoever
\* migrates at once and dies in between, the schema is that of a version, and
\* the server serves on the last one.
SchemaWhole ==
  /\ tables = versions /\ versions = 1 .. Latest
  /\ proc[Server].pc = "serving" => versions = Versions

\* After an init that ran alone and completed, the token on disk is the one the
\* server accepts, and the policy engine grants its subject everything, the logs
\* of every project among it.
TokenWorks ==
  usable => /\ tokenFile \in Secrets /\ hash = tokenFile
            /\ \A q \in AuthzRequest :
                 (IsProjectScoped(q.kind) => q.project # NoProject) => Authorize(policies, q)

\* The row is read, then compared with, while inits store other tokens. Each
\* request is let in or turned away as it would have been had both happened at
\* one moment since it was sent: a former token is shut out as soon as init has
\* stored another, and one that stays stored is never refused.
JudgedAsStored ==
  [][\A r \in Requests : req[r].pc \in {"sent", "read"} /\ req'[r].pc \notin {"sent", "read"} =>
       \/ proc'[Server].pc # "serving"
       \/ \E h \in req[r].fresh : req'[r].pc = "known" <=> req[r].token = h]_vars

\* The master key, once written, is never replaced, except by an init that ran
\* at the same time as another one.
KeyKept ==
  [][keyFile' # keyFile /\ keyFile \in Secrets =>
       \E p \in Inits : ~alone[p] /\ proc[p].pc \in {"keyCreate", "keyWrite"}]_vars

\* Nothing an interrupted init or migration leaves behind stands in the way: in
\* the end the server serves and its token works.
Recovers == <>[](usable /\ proc[Server].pc = "serving")

-----------------------------------------------------------------------------
(* What the proofs carry along. *)

\* A process in a transaction is at the version it found, and alone in it.
SchemaInv ==
  /\ tables = versions /\ \E n \in 0 .. MaxVersion : versions = 1 .. n
  /\ \A p \in Procs :
       /\ proc[p].pc \in {"apply", "commit"} => 1 .. proc[p].current \subseteq versions
       /\ proc[p].pc = "commit" <=> writer = p
       /\ proc[p].pc = "commit" => versions = 1 .. proc[p].current /\ proc[p].current < MaxVersion
  /\ proc[Server].pc = "serving" => versions = Versions

\* How far an init that runs alone has come.
AloneInv ==
  \A p \in Inits : alone[p] /\ Running(p) =>
    /\ \A q \in Inits \ {p} : ~Running(q)
    /\ proc[p].pc = "keyCreate" => keyFile = Missing
    /\ proc[p].pc = "keyWrite" => keyFile = Torn
    /\ proc[p].pc \in {"tokenCreate", "tokenWrite", "policy"} =>
         hash = proc[p].secret /\ hash \in Secrets
    /\ proc[p].pc = "policy" => tokenFile = proc[p].secret

\* What such an init has left, while no other has begun.
UsableInv ==
  usable => /\ \A q \in Inits : ~Running(q)
            /\ tokenFile \in Secrets /\ hash = tokenFile /\ BootstrapPolicy \in policies

\* A request in flight has lived through the hash it has read and the one that is
\* stored now.
RequestInv ==
  \A r \in Requests :
    /\ req[r].pc # "none" => hash \in req[r].fresh
    /\ req[r].pc = "read" => req[r].seen \in req[r].fresh
=============================================================================
