----------------------------- MODULE Migrations -----------------------------
(***************************************************************************)
(* The schema of one database over the releases of the program             *)
(* (src/infra/db/migrations.ts, src/db/cli/migrate.ts and the check the    *)
(* API makes at its start, src/app/plugins/repositories.ts).               *)
(*                                                                         *)
(* A release brings a list of migrations.  The migrate job brings the      *)
(* schema up to its own release, one transaction per migration; the API    *)
(* starts only on exactly the schema of its own release.  An action is     *)
(* what happens between two awaits.  The database file admits one process  *)
(* at a time, so the jobs and the API exclude each other.                  *)
(***************************************************************************)
EXTENDS Naturals, Sequences

CONSTANTS MaxVersion,  \* the highest migration version of any release
          Releases,    \* the releases of the program, by age
          Manifest     \* hash of each version in each release, 0 for none

Versions == 1..MaxVersion

ASSUME MaxVersionAssumption == MaxVersion \in Nat
ASSUME ReleasesAssumption   == Releases \subseteq Nat /\ Releases # {}
ASSUME ManifestAssumption   == Manifest \in [Releases -> [Versions -> Nat]]

VARIABLES
  release,   \* the release that is deployed
  owner,     \* the process that has the database file open
  hasTable,  \* schema_migrations exists
  record,    \* schema_migrations: the hash recorded for each version, 0 for none
  schema,    \* the hashes of the texts executed for each version, in order
  tx,        \* record and schema as the open transaction sees them
  pc,        \* the await the migrate job stands at
  applied,   \* its copy of record, read before the loop
  at         \* the version its loop has reached

table == <<hasTable, record, schema>>
vars  == <<release, owner, table, tx, pc, applied, at>>

-----------------------------------------------------------------------------
Hash(v) == Manifest[release][v]

\* What the loop has still to act on: not applied, or applied with another text.
Missing == {v \in Versions : v > at /\ Hash(v) # 0 /\ applied[v] = 0}
Drifted == {v \in Versions : v > at /\ Hash(v) # 0 /\ applied[v] \notin {0, Hash(v)}}
ToDo    == Missing \cup Drifted
First(v) == v \in ToDo /\ \A w \in ToDo : v <= w

InTx == {"begun", "executed", "recorded"}

NoRecord == [v \in Versions |-> 0]
NoSchema == [v \in Versions |-> <<>>]

Init ==
  /\ release \in Releases /\ owner = "none"
  /\ hasTable = FALSE /\ record = NoRecord /\ schema = NoSchema
  /\ tx = [record |-> NoRecord, schema |-> NoSchema]
  /\ pc = "idle" /\ applied = NoRecord /\ at = 0

-----------------------------------------------------------------------------
(* The migrate job *)

\* createDb and connect
Open ==
  /\ pc \in {"idle", "done"} /\ owner = "none"
  /\ owner' = "migrate" /\ pc' = "opened"
  /\ UNCHANGED <<release, table, tx, applied, at>>

\* Seeded bug: the table is created without IF NOT EXISTS.
CreateTableAnew ==
  /\ pc = "opened" /\ ~hasTable
  /\ hasTable' = TRUE
  /\ pc' = "created"
  /\ UNCHANGED <<release, owner, record, schema, tx, applied, at>>

CreateTable ==
  /\ pc = "opened"
  /\ hasTable' = TRUE
  /\ pc' = "created"
  /\ UNCHANGED <<release, owner, record, schema, tx, applied, at>>

\* Seeded bug: the loop starts past its end.
ReadAppliedAtEnd ==
  /\ pc = "created"
  /\ applied' = record /\ at' = MaxVersion + 1
  /\ pc' = "loop"
  /\ UNCHANGED <<release, owner, table, tx>>

ReadApplied ==
  /\ pc = "created"
  /\ applied' = record /\ at' = 0
  /\ pc' = "loop"
  /\ UNCHANGED <<release, owner, table, tx>>

\* Seeded bugs: the migrations are not sorted, a changed text is applied anew.
BeginUnsorted ==
  /\ pc = "loop"
  /\ \E v \in Missing : at' = v
  /\ tx' = [record |-> record, schema |-> schema]
  /\ pc' = "begun"
  /\ UNCHANGED <<release, owner, table, applied>>

BeginDrifted ==
  /\ pc = "loop"
  /\ \E v \in ToDo : First(v) /\ at' = v
  /\ tx' = [record |-> record, schema |-> schema]
  /\ pc' = "begun"
  /\ UNCHANGED <<release, owner, table, applied>>

\* BEGIN TRANSACTION for the first version that is not applied
Begin ==
  /\ pc = "loop"
  /\ \E v \in Missing : First(v) /\ at' = v
  /\ tx' = [record |-> record, schema |-> schema]
  /\ pc' = "begun"
  /\ UNCHANGED <<release, owner, table, applied>>

\* Seeded bug: the statements run outside the transaction.
ExecuteOutside ==
  /\ pc = "begun"
  /\ schema' = [schema EXCEPT ![at] = Append(@, Hash(at))]
  /\ tx' = [tx EXCEPT !.schema = schema']
  /\ pc' = "executed"
  /\ UNCHANGED <<release, owner, hasTable, record, applied, at>>

\* conn.run(migration.up)
Execute ==
  /\ pc = "begun"
  /\ tx' = [tx EXCEPT !.schema = [tx.schema EXCEPT ![at] = Append(@, Hash(at))]]
  /\ pc' = "executed"
  /\ UNCHANGED <<release, owner, table, applied, at>>

\* INSERT INTO schema_migrations
Record ==
  /\ pc = "executed"
  /\ tx' = [tx EXCEPT !.record = [tx.record EXCEPT ![at] = Hash(at)]]
  /\ pc' = "recorded"
  /\ UNCHANGED <<release, owner, table, applied, at>>

Commit ==
  /\ pc = "recorded"
  /\ record' = tx.record /\ schema' = tx.schema
  /\ pc' = "loop"
  /\ UNCHANGED <<release, owner, hasTable, tx, applied, at>>

\* Seeded bug: a changed text is no reason to fail.
FinishDrifted ==
  /\ pc = "loop" /\ Missing = {}
  /\ pc' = "done" /\ owner' = "none"
  /\ UNCHANGED <<release, table, tx, applied, at>>

\* The loop has ended; the job closes the database and exits with 0.
Finish ==
  /\ pc = "loop" /\ ToDo = {}
  /\ pc' = "done" /\ owner' = "none"
  /\ UNCHANGED <<release, table, tx, applied, at>>

\* The checksum of an applied version differs: the job exits with 1.
Mismatch ==
  /\ pc = "loop"
  /\ \E v \in Drifted : First(v)
  /\ pc' = "idle" /\ owner' = "none"
  /\ UNCHANGED <<release, table, tx, applied, at>>

\* A statement rejects, or the process dies.  Whether or not its ROLLBACK
\* works, the transaction ends with the connection.
Abort ==
  /\ pc \in {"opened", "created", "loop"} \cup InTx
  /\ pc' = "idle" /\ owner' = "none"
  /\ UNCHANGED <<release, table, tx, applied, at>>

-----------------------------------------------------------------------------
(* The API *)

\* Seeded bug: only missing versions are looked for.
UpToDateMissingOnly ==
  hasTable /\ \A v \in Versions : Hash(v) # 0 => record[v] # 0

\* assertMigrationsUpToDate: the table exists; no version is missing, unknown
\* or recorded with another hash.
UpToDate == hasTable /\ \A v \in Versions : record[v] = Hash(v)

\* The API opens the database and, after the check, keeps it open.  A start
\* that the check refuses leaves everything as it was.
StartApi ==
  /\ owner = "none"
  /\ UpToDate
  /\ owner' = "api"
  /\ UNCHANGED <<release, table, tx, pc, applied, at>>

StopApi ==
  /\ owner = "api"
  /\ owner' = "none"
  /\ UNCHANGED <<release, table, tx, pc, applied, at>>

\* Another release is deployed, newer or older; running processes end first.
Deploy(r) ==
  /\ owner # "migrate" /\ r # release
  /\ release' = r /\ owner' = "none" /\ pc' = "idle"
  /\ UNCHANGED <<table, tx, applied, at>>

-----------------------------------------------------------------------------
Migrate ==
  \/ Open \/ CreateTable \/ ReadApplied \/ Begin \/ Execute \/ Record \/ Commit
  \/ Finish \/ Mismatch \/ Abort

Next == Migrate \/ StartApi \/ StopApi \/ \E r \in Releases : Deploy(r)

Spec == Init /\ [][Next]_vars

\* The job is run whenever the file is free and does not fail at the same
\* statement for ever; the container is restarted until the API is up.
Progress ==
  /\ WF_vars(Open) /\ SF_vars(StartApi)
  /\ SF_vars(CreateTable) /\ SF_vars(ReadApplied) /\ SF_vars(Begin) /\ SF_vars(Execute)
  /\ SF_vars(Record) /\ SF_vars(Commit) /\ SF_vars(Finish)

FairSpec == Spec /\ Progress

-----------------------------------------------------------------------------
\* Every variable stays in its domain.
TypeOK ==
  /\ release \in Releases /\ owner \in {"none", "migrate", "api"}
  /\ hasTable \in BOOLEAN
  /\ record \in [Versions -> Nat] /\ schema \in [Versions -> Seq(Nat)]
  /\ tx \in [record : [Versions -> Nat], schema : [Versions -> Seq(Nat)]]
  /\ pc \in {"idle", "opened", "created", "loop", "done"} \cup InTx
  /\ applied \in [Versions -> Nat] /\ at \in 0..MaxVersion

\* Each recorded migration has been executed exactly once, with the text that
\* is recorded, and no other has been executed: not even in part, and whatever
\* statement failed or crash came in between.
Once(rec, sch) ==
  \A v \in Versions : sch[v] = IF rec[v] = 0 THEN <<>> ELSE <<rec[v]>>

RecordIsSchema == Once(record, schema)

\* A migrate job that reports success has brought every migration of its
\* release into the database, with the text of that release.
MigratedIsCurrent ==
  pc = "done" => \A v \in Versions : Hash(v) # 0 => record[v] = Hash(v)

\* The API serves only from the schema of its own release, as long as it runs.
ServingIsCurrent ==
  owner = "api" => hasTable /\ \A v \in Versions : record[v] = Hash(v)

\* What has been recorded is never changed or forgotten, by any release.
RecordsStay ==
  [][\A v \in Versions : record[v] # 0 => record'[v] = record[v]]_vars

\* A migration is applied only on top of all the lower ones of its release, in
\* their right version: a drifted one below it stops it.
LowerFirst ==
  [][\A v \in Versions : record[v] = 0 /\ record'[v] # 0 =>
       \A w \in 1..(v - 1) : Hash(w) # 0 => record[w] = Hash(w)]_vars

\* Once the deployed releases contain every migration that is recorded, with the
\* same text, the API gets to serve, again and again and whatever fails.
ServesAgain ==
  <>[](\A v \in Versions : record[v] \in {0, Hash(v)}) => []<>(owner = "api")

-----------------------------------------------------------------------------
(* Why the record is right: the inductive invariant *)

\* The open transaction differs from the committed tables by its migration only.
TxAhead ==
  pc \in InTx =>
    LET sch == IF pc = "begun" THEN schema
               ELSE [schema EXCEPT ![at] = Append(@, Hash(at))]
        rec == IF pc = "recorded" THEN [record EXCEPT ![at] = Hash(at)] ELSE record
    IN /\ at \in Versions /\ Hash(at) # 0 /\ record[at] = 0
       /\ tx = [record |-> rec, schema |-> sch]

\* Where the loop stands: before its version everything is applied, from there
\* on its copy of the record is true.
LoopIsRight ==
  /\ pc = "loop" =>
       \A v \in Versions :
         IF v <= at THEN Hash(v) # 0 => record[v] = Hash(v) ELSE applied[v] = record[v]
  /\ pc \in InTx =>
       \A v \in Versions :
         /\ v < at => (Hash(v) # 0 => record[v] = Hash(v))
         /\ v > at => applied[v] = record[v]

MigrationsInv ==
  /\ TypeOK /\ RecordIsSchema /\ MigratedIsCurrent /\ ServingIsCurrent
  /\ TxAhead /\ LoopIsRight
  /\ owner = "migrate" <=> pc \notin {"idle", "done"}

-----------------------------------------------------------------------------
(* What the documentation promises, and an older release does not keep *)

\* After "pnpm migrate" has succeeded the app can be started (README.md:66, and
\* the advice of the check's own message).
MigrateThenStart == pc = "done" => UpToDate
=============================================================================
