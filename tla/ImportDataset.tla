--------------------------- MODULE ImportDataset ---------------------------
(***************************************************************************)
(* The import of one dataset after another into the statistics database    *)
(* (src/etl/importDataset.ts and src/etl/import): create a run, load the   *)
(* CSV, stage its rows, publish them in one transaction, settle the run.   *)
(*                                                                         *)
(* An action is what happens between two awaits.  Each await may fail; the *)
(* process may crash anywhere; a fetch may replace a CSV at any time.  The *)
(* database admits one process, so there is one importer.  A row is        *)
(* reduced to its key and to where it came from.                           *)
(***************************************************************************)
EXTENDS Naturals, Sequences, FiniteSets

CONSTANTS Datasets,    \* the manifest
          Keys,        \* possible primary keys of a statistics row
          DatasetOf,   \* the dataset whose scope holds a key
          MaxRuns,     \* bound: runs in one behaviour
          MaxVersions  \* bound: versions of each CSV file

\* The scopes (indicator, area type, category) of the manifest's datasets are
\* pairwise disjoint, so a key is in the scope of one dataset.
ASSUME ScopesDisjoint == DatasetOf \in [Keys -> Datasets]
ASSUME KeysFinite     == IsFiniteSet(Keys)
ASSUME MaxRunsAssumption     == MaxRuns \in Nat \ {0}
ASSUME MaxVersionsAssumption == MaxVersions \in Nat \ {0}

VARIABLES
  csv,         \* the cached CSV file of each dataset, NoCsv before a fetch
  statistics,  \* the committed statistics table
  runs,        \* the committed etl_runs table, in the order of creation
  tx,          \* the importer's open transaction, or NoTx
  pc,          \* the await the importer stands at
  ds,          \* the dataset it imports
  run,         \* its run, 0 before run_create
  raw,         \* the file content behind its temp table raw
  stage        \* the keys in its staging table

files  == csv
tables == <<statistics, runs>>
locals == <<ds, run, raw, stage>>
vars   == <<csv, statistics, runs, tx, pc, ds, run, raw, stage>>

-----------------------------------------------------------------------------
Scope(d) == {k \in Keys : DatasetOf[k] = d}

NoCsv   == [version |-> 0, keys |-> {}]
NoRow   == [run |-> 0, dataVersion |-> 0, content |-> 0]
NoTx    == [open |-> FALSE, statistics |-> [k \in Keys |-> NoRow], runs |-> <<>>]

Csvs == [version : 0..MaxVersions, keys : SUBSET Keys]
Rows == [run : 0..MaxRuns, dataVersion : 0..MaxVersions, content : 0..MaxVersions]
Runs == [dataset : Datasets, dataVersion : 0..MaxVersions,
         status : {"started", "published", "failed"}, rowCount : Nat]

InTx   == {"begun", "inserted", "cleaned", "marked"}
Before == {"opened", "created", "loaded", "staged"}

Init ==
  /\ csv = [d \in Datasets |-> NoCsv]
  /\ statistics = [k \in Keys |-> NoRow] /\ runs = <<>> /\ tx = NoTx
  /\ pc = "idle" /\ ds \in Datasets /\ run = 0 /\ raw = NoCsv /\ stage = {}

-----------------------------------------------------------------------------
\* A fetch renames a new file into the cache (fetchDataset.ts).
ReplaceCsv(d) ==
  /\ csv[d].version < MaxVersions
  /\ \E keys \in SUBSET Scope(d) :
       csv' = [csv EXCEPT ![d] = [version |-> @.version + 1, keys |-> keys]]
  /\ UNCHANGED <<tables, tx, pc, locals>>

\* fs.access found the file, createDb and connect succeeded.
Open(d) ==
  /\ pc = "idle" /\ Len(runs) < MaxRuns
  /\ csv[d] # NoCsv
  /\ pc' = "opened" /\ ds' = d
  /\ UNCHANGED <<files, tables, tx, run, raw, stage>>

\* Seeded bug: a status the table does not know.
CreateRunRunning ==
  /\ pc = "opened"
  /\ runs' = Append(runs, [dataset |-> ds, dataVersion |-> csv[ds].version,
                           status |-> "running", rowCount |-> 0])
  /\ run' = Len(runs) + 1
  /\ pc' = "created"
  /\ UNCHANGED <<files, statistics, tx, ds, raw, stage>>

\* The schema is up to date; the file is stat'ed and the run inserted.
CreateRun ==
  /\ pc = "opened"
  /\ runs' = Append(runs, [dataset |-> ds, dataVersion |-> csv[ds].version,
                           status |-> "started", rowCount |-> 0])
  /\ run' = Len(runs) + 1
  /\ pc' = "created"
  /\ UNCHANGED <<files, statistics, tx, ds, raw, stage>>

\* CREATE TEMP TABLE raw from the file as it is now, whatever the encoding.
LoadCsv ==
  /\ pc = "created"
  /\ raw' = csv[ds]
  /\ pc' = "loaded"
  /\ UNCHANGED <<files, tables, tx, ds, run, stage>>

\* normalize_headers and transaction_insert_rows: the staging table is
\* recreated and filled with the scope's rows that have a usable value.
Stage ==
  /\ pc = "loaded"
  /\ stage' = raw.keys
  /\ pc' = "staged"
  /\ UNCHANGED <<files, tables, tx, ds, run, raw>>

Begin ==
  /\ pc = "staged" /\ stage # {}
  /\ tx' = [open |-> TRUE, statistics |-> statistics, runs |-> runs]
  /\ pc' = "begun"
  /\ UNCHANGED <<files, tables, locals>>

StagedRow == [run |-> run, dataVersion |-> runs[run].dataVersion, content |-> raw.version]

\* INSERT OR REPLACE INTO statistics ... FROM the staging table
InsertRows ==
  /\ pc = "begun"
  /\ tx' = [tx EXCEPT !.statistics =
              [k \in Keys |-> IF k \in stage THEN StagedRow ELSE @[k]]]
  /\ pc' = "inserted"
  /\ UNCHANGED <<files, tables, locals>>

\* Seeded bug: a cleanup that deletes nothing.
DeleteNothing ==
  /\ pc = "inserted"
  /\ pc' = "cleaned"
  /\ UNCHANGED <<files, tables, tx, locals>>

\* deleteStaleRowsForDataset: one DELETE per scope key
DeleteStale ==
  /\ pc = "inserted"
  /\ tx' = [tx EXCEPT !.statistics =
              [k \in Keys |-> IF k \in Scope(ds) \ stage THEN NoRow ELSE @[k]]]
  /\ pc' = "cleaned"
  /\ UNCHANGED <<files, tables, locals>>

PublishedRun(r) == [r EXCEPT !.status = "published", !.rowCount = Cardinality(stage)]

MarkPublished ==
  /\ pc = "cleaned"
  /\ tx' = [tx EXCEPT !.runs = [tx.runs EXCEPT ![run] = PublishedRun(tx.runs[run])]]
  /\ pc' = "marked"
  /\ UNCHANGED <<files, tables, locals>>

Commit ==
  /\ pc = "marked"
  /\ statistics' = tx.statistics /\ runs' = tx.runs
  /\ tx' = NoTx
  /\ pc' = "closing"
  /\ UNCHANGED <<files, locals>>

-----------------------------------------------------------------------------
(* Failures *)

\* An await outside the transaction rejects, or nothing was staged; without
\* a run there is nothing to mark.
Throw ==
  /\ pc \in Before
  /\ pc' = IF pc = "opened" THEN "closing" ELSE "failing"
  /\ UNCHANGED <<files, tables, tx, locals>>

\* Seeded bug: the handler commits what has been done so far.
CommitOnThrow ==
  /\ pc \in InTx
  /\ statistics' = tx.statistics /\ runs' = tx.runs
  /\ tx' = NoTx
  /\ pc' = "failing"
  /\ UNCHANGED <<files, locals>>

\* A statement of the transaction rejects, or COMMIT does; a ROLLBACK that
\* rejects as well is swallowed and leaves the transaction open.
ThrowInTx ==
  /\ pc \in InTx
  /\ tx' \in {NoTx, tx}
  /\ pc' = "failing"
  /\ UNCHANGED <<files, tables, locals>>

\* The update is lost in a transaction that was not rolled back, or rejects
\* itself, which is swallowed; the import fails with its first error.
MarkFailed ==
  /\ pc = "failing"
  /\ \/ ~tx.open /\ runs' = [runs EXCEPT ![run] = [runs[run] EXCEPT !.status = "failed"]]
     \/ UNCHANGED runs
  /\ pc' = "closing"
  /\ UNCHANGED <<files, statistics, tx, locals>>

\* closeSync discards a transaction still open, and the temp tables.
Close ==
  /\ pc = "closing"
  /\ pc' = "idle" /\ tx' = NoTx
  /\ run' = 0 /\ raw' = NoCsv /\ stage' = {}
  /\ UNCHANGED <<files, tables, ds>>

\* The process dies; the database keeps what was committed.
Crash ==
  /\ pc # "idle"
  /\ pc' = "idle" /\ tx' = NoTx
  /\ run' = 0 /\ raw' = NoCsv /\ stage' = {}
  /\ UNCHANGED <<files, tables, ds>>

-----------------------------------------------------------------------------
Next ==
  \/ \E d \in Datasets : ReplaceCsv(d) \/ Open(d)
  \/ CreateRun \/ LoadCsv \/ Stage
  \/ Begin \/ InsertRows \/ DeleteStale \/ MarkPublished \/ Commit
  \/ Throw \/ ThrowInTx \/ MarkFailed \/ Close \/ Crash

Spec == Init /\ [][Next]_vars

-----------------------------------------------------------------------------
\* Every variable stays in its domain.
TypeOK ==
  /\ csv \in [Datasets -> Csvs]
  /\ statistics \in [Keys -> Rows] /\ runs \in Seq(Runs)
  /\ tx \in [open : BOOLEAN, statistics : [Keys -> Rows], runs : Seq(Runs)]
  /\ pc \in {"idle", "failing", "closing"} \cup Before \cup InTx
  /\ ds \in Datasets /\ run \in 0..MaxRuns /\ raw \in Csvs /\ stage \subseteq Keys

Present(d)   == {k \in Scope(d) : statistics[k] # NoRow}
Published(d) == {r \in 1..Len(runs) : runs[r].dataset = d /\ runs[r].status = "published"}

\* Readers see each dataset whole and from its latest published run: all its
\* rows, and no others, carry that run, as many as the run's row_count says.
\* No failure, crash or later unpublished run may leave a mixture behind.
ServesLatestPublished ==
  \A d \in Datasets :
    /\ Present(d) = {} <=> Published(d) = {}
    /\ \A r \in Published(d) :
         \/ \E q \in Published(d) : q > r
         \/ /\ \A k \in Present(d) : statistics[k].run = r
            /\ runs[r].rowCount = Cardinality(Present(d))

\* The import implements the abstract publication of whole datasets: what is
\* served changes only when a run is published with it, and only for the run's
\* dataset; what has been served is never emptied; a run that has been published
\* or has failed stays so.
Store == INSTANCE Publication WITH
           served <- [d \in Datasets |-> {<<k, statistics[k].run>> : k \in Present(d)}],
           log    <- [r \in 1..Len(runs) |-> <<runs[r].dataset, runs[r].status>>]

ImplementsPublication == Store!Spec

-----------------------------------------------------------------------------
(* Why readers see whole datasets: the inductive invariant behind it *)

\* The keys that were read lie in the scope of the dataset they were read for.
KeysInScope ==
  /\ \A d \in Datasets : csv[d].keys \subseteq Scope(d)
  /\ raw.keys \subseteq Scope(ds) /\ stage \subseteq Scope(ds)
  /\ pc = "idle" => raw.keys = {} /\ stage = {}
  /\ pc \in InTx => stage # {}

\* The importer's run is the newest, and started until its transaction commits.
RunIsOpen ==
  /\ Len(runs) <= MaxRuns
  /\ pc = "opened" => Len(runs) < MaxRuns
  /\ pc \in {"created", "loaded", "staged", "failing"} \cup InTx =>
       /\ runs # <<>> /\ run = Len(runs)
       /\ runs[run].dataset = ds /\ runs[run].status = "started"

\* What the transaction has done so far
Replaced(k) == IF k \in stage THEN StagedRow ELSE IF k \in Scope(ds) THEN NoRow ELSE statistics[k]

TxSoFar ==
  /\ pc \in {"begun", "inserted", "cleaned"} => tx.runs = runs
  /\ pc = "begun"    => tx.statistics = statistics
  /\ pc = "inserted" => \A k \in Keys : tx.statistics[k] = IF k \in stage THEN StagedRow ELSE statistics[k]
  /\ pc \in {"cleaned", "marked"} => \A k \in Keys : tx.statistics[k] = Replaced(k)
  /\ pc = "marked" => tx.runs = [runs EXCEPT ![run] = PublishedRun(runs[run])]

ImportInv == TypeOK /\ ServesLatestPublished /\ KeysInScope /\ RunIsOpen /\ TxSoFar

-----------------------------------------------------------------------------
(* What the README says of lineage, and a concurrent fetch breaks *)

\* The data_version of a row is the fingerprint of the file the row was
\* imported from (README.md:238).
DataVersionNamesContent ==
  \A k \in Keys : statistics[k].dataVersion = statistics[k].content
=============================================================================
