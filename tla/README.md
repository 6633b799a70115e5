# A TLA+ development of the Kiel open-data API

The program downloads statistics of the city of Kiel as CSV files, imports them
into a DuckDB database and serves them over HTTP. This directory holds TLA+
models of its stateful parts, TLC configurations that check them on small
instances, and TLAPS proofs of what matters most. Paths such as
`src/infra/db/...` are relative to the repository; `PROJECT.json` maps every
definition to the lines it models, lists the hazards line by line, and names a
mutant of the code for every checked property.

## 1. Inventory

### How the parts fit together

    open-data server            one volume: etl_cache            one file per color: kiel_{blue,green}.duckdb
         |  HTTP, ETags              |  CSV + .meta.json                |  one process at a time
         v                           v                                  v
    etl fetch  ------------->  cached files  -------->  etl import  -> statistics, etl_runs
    (fetchWithRetry,                                    migrate     -> schema_migrations
     fetchDataset)                                                      |
                                                                        v
    client -> gateway (active.conf) -> Fastify -> query service -> repository -> connection manager

The ETL and the migrations are command-line processes; the API is a server
process. They share nothing but files. Inside the API everything runs on one
JavaScript thread: the interleavings are those of continuations at `await`s,
of timers and of native DuckDB calls.

### Components

| Component | State it keeps | Operations | Talks to | What is hard |
|---|---|---|---|---|
| **Connection pool** `infra/db/duckdbConnectionManager.ts` | `state` (instance and entries with a `leased` flag), `initPromise`, `isClosed`, `waitQueue` | `withConnection`, `healthcheck`, `close` | repository and freshness headers call it; it opens the database | one init shared by many calls, timers racing hand-overs, close racing everything |
| **ETL import** `etl/importDataset.ts`, `etl/import/*` | tables `statistics`, `etl_runs`; temp tables | `importDataset` | reads the cached CSV, writes the database | failure or crash at any await inside and outside the transaction; a fetch at the same time |
| **ETL fetch** `etl/fetchDataset.ts` | CSV, temporary files and `.meta.json` in the cache directory | `fetchDataset` | `fetchWithRetry`, open-data server and catalog | two renames that are not atomic together, stale validators |
| **Fetch with retry** `etl/fetchWithRetry.ts` | attempt counter | one call | HTTP | what is retried, what is reported at the end |
| **CSV to rows** `etl/import/*` | none | header names, unpivoting, year parsing, scopes | called by the import | several cells for one key; a file that is half usable |
| **ETL command line** `etl/cli/run.ts`, `etl/cli/shared.ts` | arguments, position in the manifest | `etl:run` of all datasets or one; `etl:fetch`, `etl:import`, `etl:maint` | fetch, import | failure in the middle of the manifest; a run that dies between a fetch and its import |
| **Dataset manifest and registry** `etl/datasets/*` | none: 20 configurations | lookup, `validateDatasetManifest` | ETL command line | two datasets that write rows of one scope |
| **Migrations** `infra/db/migrations.ts` | `schema_migrations` | `applyMigrations`, `assertMigrationsUpToDate` | database | crash between versions, checksum drift, failing ROLLBACK |
| **Statistics repository** `infra/db/statisticsRepository.duckdb.ts` | none | queries with a timeout | connection pool | timeout racing the answer; a native query outliving its lease; paging over ties |
| **Query service** `domains/statistics/services/queryService.ts` | two validation caches with a time to live | queries, validation | repository | overlapping loads of an expired entry |
| **Schemas, mappers and routes** `schemas/statistics.ts`, `app/mappers/*`, `app/routes/*` | none | refuse or map the parameters of a request, single or bulk | query service | where a text is trimmed and where it is measured; which parameters a route knows |
| **HTTP cache plugin** `app/plugins/httpCache.ts` | none | ETag, Data-Version, Last-Updated-At, 304 | connection pool | a second lease per response; a failure after the answer is ready |
| **Error handler** `app/plugins/errorHandler.ts` | none | error to status and reason | routes | – |
| **API lifecycle** `app/server.ts`, `app/plugins/repositories.ts` | process | start, signals, shutdown | pool, migrations | two signals, a signal during start |
| **Blue/green operations** `scripts/ops/*` | `active.conf`, symlink, two databases, backups | ETL, cutover, rollback, backup, restore | all of the above | interruption between any two commands; one process per database file |
| Metrics, rate limit, CORS, helmet, Swagger | third-party plugins and counters nothing reads | – | – | the rate limit may refuse any request |
| Configuration and logging | static | – | – | no protocol of their own |

### What makes each correct

- **Pool**: no connection is lent twice; none is lost, whatever times out,
  throws or closes; calls are served in order; a call that waits is served;
  every call settles; one instance is opened and it is closed in the end.
- **Import**: a reader sees each dataset whole and from one published run; a
  run that fails or crashes changes nothing that is served; a dataset is never
  emptied; a row's lineage names the file the row came from.
- **CSV to rows**: the rows of a dataset are what its file says, whatever files
  came before: one row per key with a usable cell, from the cell that counts.
- **ETL command line**: an exit code of 0 is true; every retry is used before a
  request is given up; a run ends, whatever the server does.
- **Fetch**: the importer never sees half a file; a 304 is believed only for
  the file that is cached; the cache never goes back and catches up in the end,
  the catalog entry included.
- **Migrations**: a version is applied once and whole; a run after a crash
  continues; the API never starts on a schema it does not know.
- **Schemas, service, repository, HTTP cache**: an answer is what the parameters
  and the rows demand, with or without caches; a timed-out query gives its lease
  back once; requests do not block one another; pages partition the result; a 304
  is given only for the body the client has.
- **Blue/green**: the gateway, the symlink and the record of the active color
  agree after every cutover that succeeds or is rolled back, and the next cutover makes them
  agree after one that was interrupted; no job waits for a
  file that a running API holds; a backup is a consistent copy.

## 2. Plan

In order of importance; a detailed module comes with the abstract one it
implements.

| | Modules | State |
|---|---|---|
| 1 | `ConnectionPool` implements `LeaseQueue`; `ConnectionPoolProofs` | checked and proved, the refinement too |
| 2 | `ImportDataset` implements `Publication`; `ImportDatasetProofs` | checked and proved, the refinement too |
| 3 | `FetchDataset`; `FetchDatasetProofs` | checked and proved. Left: two processes on one cache directory |
| 4 | `CsvImport`, `FetchWithRetry`, `DatasetManifest`, composed in `EtlRun`; `EtlRunProofs` | checked and proved for one database and one cache directory. Left: both colors over one volume |
| 5 | `Migrations`; `MigrationsProofs` | checked and proved |
| 6 | `ApiRequests` with `QueryParams`, over `LeaseQueue`; `ApiRequestsProofs` | checked and proved. Left: values and pages of the repository |
| 7 | `BlueGreen`; `BlueGreenProofs` | checked and proved. Left: backup copies and restore, two operators |
| 8 | `ApiLifecycle`: start, signals and shutdown | left, small |

Modules that are proved about declare no `RECURSIVE` operator, name their
assumptions on the constants, and have one action per await.

## 3. What is modelled

The grain is the same everywhere: an action is what the code runs between two
awaits, because nothing else can run there; the next await may take any time
or reject.

### `ConnectionPool`

`src/infra/db/duckdbConnectionManager.ts`, whole. A caller is one
`withConnection` call at a time, so a waiter is named by its caller.

| In the module | In the code |
|---|---|
| `state`, `isClosed`, `waitQueue` | the variables of the same names |
| `initInFlight`, `initDb` | `initPromise`, and the instance `init()` has created and not yet returned |
| `leased` | the entries whose `leased` is true, as pairs of instance and slot |
| `settled` | the waiters with `isSettled` |
| `openDbs`, `opened` | what has been opened and not closed: DuckDB's side |
| `pc`, `current`, `conn` | the await a call stands at and its locals `state` and `entry` |
| `CallRejected`, `CallReady`, `CallInit` | `ensureState` |
| `InitOpen`, `InitResolve`, `InitFail` | `createDb`, the connects, then- and finally-callback |
| `LeaseNow`, `Enqueue`, `AcquireTimeout` | `acquireLease` |
| `Begin`, `ReleaseForgotten`, `ReleaseToPool`, `ReleaseToWaiter` | the `try`/`finally` of `withConnection`, with `releaseLease` |
| `Close` | `close` |

`healthcheck` is `withConnection` with a function of its own, hence a call.
`createDb`'s retries are one step that opens an instance or fails.

`LeaseQueue` is what a user of the manager relies on: a counting semaphore with
a first-come first-served queue. Before a close the manager implements it to
the letter; after a close it promises only that the semaphore is not exceeded.

### `ImportDataset`

`src/etl/importDataset.ts` with `etl/import/pipeline.ts`, `unpivotYears.ts`,
`staleCleanup.ts` and `runLifecycle.ts`. `statistics` and `runs` are the committed tables, `tx` the
importer's view inside a transaction (`NoTx` outside), `raw` and `stage` its temp tables,
`pc` its await. `Open`, `CreateRun`, `LoadCsv`, `Stage`, `Begin`, `InsertRows`,
`DeleteStale`, `MarkPublished`, `Commit` are the steps of a run; `Throw` and `ThrowInTx`
are an await that rejects outside and inside the transaction, the latter with a
ROLLBACK that may be swallowed; `MarkFailed`, `Close`, `Crash` end it. `ReplaceCsv`
is the fetch of another process. A row is its key and its provenance: run, `data_version`,
and the version of the file it really came from. What rows a CSV yields is
arbitrary within the dataset's scope here; `CsvImport` says which they are.

`Publication` is what readers rely on: each dataset is served whole from the
run that published it last.

### `FetchDataset`

`src/etl/fetchDataset.ts`. `csv`, `csvTmp` and `meta` are the files of a
dataset, `upstream` is the server's version, and `sent`, `body`, `tag` are the
locals of a fetch. `Start`, `NotModified`, `Enrich`, `Modified`, `StreamEnd`, `RenameCsv`,
`WriteMeta` are its awaits; `Throw` may happen at each, `Crash` leaves the files as
they are, `Publish` is the city replacing the file. ETag and Last-Modified are one validator,
which the server may omit. It never gives one validator to two versions.

### `CsvImport`

`src/etl/import/*` as operators: from a file to the rows that an import may
publish. A file is a header per encoding and rows of cells. `Normalized` is
`normalizeRawHeaders` with its aliases and collisions; `Readable` gathers what makes the whole
file unusable (a column or every year missing, a year that does not parse although there is a
parser). `Readings` are the usable cells of `unpivotYears.ts` and `unpivotCategories.ts`, each with
its key, the group within which one is kept (the `PARTITION BY`) and its rank there (the `ORDER BY`);
`Kept` is `WHERE rn = 1`. `Stagings` is the `INSERT OR REPLACE` into the staging table: where the code leaves the
winner to the database, for instance between areas that only the trimming makes equal, there is
a choice. `Outcomes` are the sets of rows to publish, the empty one for an import that throws, and `Published` is
the upsert with the deletion of stale rows. What the SQL and the regular
expressions do to a single text (trim, cast, year) are constant functions; areas,
years and categories keep their identity.

### `FetchWithRetry`

`src/etl/fetchWithRetry.ts`: a request is a call, answered, rejected or aborted by its
timeout, then perhaps a sleep and the next call. `ServerError` returns the last 5xx, `Rejected` throws the
last error, as the code does. The length of a sleep is left out.

### `DatasetManifest`

`src/etl/datasets/*`: the twenty configurations, as records of `CsvImport`, in the order of
`DATASET_MANIFEST`. Two assumptions, which TLC evaluates in `etl_run`, say what the import needs
of them and `validateDatasetManifest`, which only compares ids, does not ask: no
two datasets have one file (`ShippedFilesDistinct`), and no two datasets or
specs write rows of one scope (`ShippedScopesDisjoint`), since the import of one would
delete the rows of the other as stale. They hold of what is shipped.

### `EtlRun`

`src/etl/cli/run.ts` with `etl/cli/shared.ts`. `Start` parses a command line (`Parse` is one turn of the loop of
`parseCliArgs`); `Calling` is the request, with the steps of `FetchWithRetry`; `NotModified`, `Updated`, `UpdatedHalf` and
`FetchFails` are the ways a fetch ends, `Import`, `SkipMissing` and `ImportFails` those of an import. `rest` is
what the loop has still to do. The files on disk (`cache`, `validator`) and the rows outlast a run; `Killed` may
come at any await, and `LoseFile` is somebody clearing the cache between two runs. How a file is
replaced is one step, whose awaits are `FetchDataset`'s; how rows are published is one step, by `ImportDataset`'s
refinement of `Publication`. `source` and `confirmed` are history variables.

### `Migrations`

`src/infra/db/migrations.ts` and the two processes that use it: the migrate job
(`db/cli/migrate.ts`) and the API's start (`app/plugins/repositories.ts`). A release is a
hash per version (0: the version is not in it); `Manifest` may be any such table, so releases may append,
edit or drop migrations. `record` is `schema_migrations`; `schema` stands for what the
migrations' texts have done to the database, as the hashes executed per version; `tx` is both as the
open transaction sees them. `Open` .. `Finish` are the awaits of the job, `Mismatch` and `Abort`
its ways to fail; ROLLBACK may fail as well, since the transaction ends with the
connection. `StartApi` is the API's start with `UpToDate`, `Deploy` the
roll-out of another release. DuckDB's lock on the file is `owner`.

### `BlueGreen`

`scripts/ops/etl-bluegreen.sh`, `cutover.sh`, `rollback.sh` (which only calls the latter) and
`resolve-colors.sh`, with the services of `compose.yaml`. `conf` is `active.conf`,
`routed` what nginx has loaded, `link` the symlink, `api` the services that run.
An action is one command; `pc` is the next one. Each may fail by itself (`MayFail`), which
ends the script where `set -e` applies, starts `rollback_to_previous` where the script asks for
it, and is ignored where it says `|| true` (recorded in `undone`). `Interrupt` kills the script at
any command. `ApiCrash`, `ApiStart` and `GatewayRestart` are Docker's. A service that `docker compose up` recreates because its image has changed is not modelled.
A job opens the file of its color in one step and closes it in another (`working`, `jobs`); it is refused a file
that the running API of that color, or another job, has open, and an API cannot start while a job has its file.
A script that is killed may leave its job running, to the end of what it has open (`OrphanCloses`).
`died` is a history variable: the APIs that have died since a cutover last found them healthy.

### `QueryParams`

`src/schemas/statistics.ts` and `src/app/mappers/statistics.mapper.ts` as operators. The parameters of a request are
sequences of texts; `RequestValid` is what the schemas accept, with the texts' lengths, the bounds of numbers and
lists, and the difference between a list in a query string, whose tokens are trimmed before they
are measured, and an array in a bulk request, whose elements are not. `ToQuery` is the mapper: trimmed names
without duplicates, unknown parameters dropped.

### `ApiRequests`

The API from the routes to the lease: `app/routes/statistics.route.ts`, `domains/statistics/services/queryService.ts`,
`infra/db/statisticsRepository.duckdb.ts`, `app/plugins/httpCache.ts` and `errorHandler.ts`. `Arrive` refuses a
request by its schema, or starts it at the first step of its first item. The steps of an item (`ItemSteps`) stand in the
order in which the service awaits them: the names it validates, the data, the freshness headers of a GET under `/v1`.
`at` and `step` say where a request is; a bulk request does its items one after the other, and the first that is
refused ends it. `StepsOf` is the table of the steps of all queries that may be asked. `TooMany` is the rate limit. `Hit` is a validation from a fresh cache entry; any other step takes a `Lease`,
runs its `Statement`s one after the other and is `Loaded` after its release, where a validation is cached (`cache` holds the
fresh entries; `Expire` is the end of a time to live). `Resolve` refuses a name that is not in the rows (400), or a thing
that is not found (404), or answers; `IfNoneMatchMatches` makes a 304 of a 200 (the ETag is a hash of the body, so it is the items it answers).
`StatementFails` is a rejected, timed-out or malformed statement, `AcquireTimeout` the timer of the queue. The steps on the manager
are those of `LeaseQueue`, which `ConnectionPool` implements: `holders` and `queue` are its variables. The health check
makes 503 of any error.

The rows are a constant: the API keeps its database file open, and DuckDB lets no other process
write it meanwhile.

## 4. What the runs show

| Run | Instance | Question |
|---|---|---|
| `pool_safety` | 4 calls, 2 connections, 2 inits | No lease is shared, lost or given out of turn; a hand-over always finds a connection; one instance serves; the manager implements `LeaseQueue`. |
| `pool_progress` | 3 calls, 1 connection | A waiting call is served although its timer never fires; if timers fire, every call settles, also one that enters the queue after a close has drained it. |
| `pool_close` | 2 calls, 1 connection | **Finding**: the manager can be closed and yet hold an open instance. |
| `import_safety` | 2 datasets, 3 keys, 3 runs, 2 versions of each file | Readers see whole datasets from their latest published run, with failures and crashes at every await; `Publication` is implemented. |
| `import_lineage` | same, 1 run | **Finding**: a row's `data_version` need not be that of the file it came from. |
| `fetch_cache` | 3 versions, 2 crashes | Whole files, sound 304s, never older, and the cache catches up with file and catalog entry. |
| `etl_run` | 2 shipped datasets with 4 files each, 7 command lines, up to 2 retries | What is served mirrors the file imported last, whatever files, failures, kills and lost files came before; an exit code of 0 is true; a request fails only after all its retries; every run ends. |
| `migrations_releases` | 3 versions, 5 releases (three append, one edits a migration, one lacks one), deployed in any order | Each migration is executed once, whole and in order, or not at all; a job that succeeds has brought its release's schema; the API serves only that, and does get to serve once the release contains what is recorded. |
| `migrations_downgrade` | 3 releases that append | **Finding**: migrate succeeds and the start check refuses. |
| `bluegreen_faults` | 3 failures, 2 interruptions, 2 crashes | A cutover that reports success, or a complete rollback, has aligned gateway, `active.conf` and symlink; the traffic never goes from an API that runs to one that does not, unless that one has died since a cutover found it healthy; when nothing fails any more, a cutover to an API that runs succeeds and aligns everything, whatever killed and stranded scripts have left. |
| `bluegreen_refresh` | nothing fails | **Finding**: the refresh is refused. |
| `api_answers` | 2 requests of 18 kinds, 1 connection | Answers are what the parameters and the rows demand, with and without caches and whoever filled them, refusals and "not modified" included; unknown names do not enter the category cache; requests do not block one another. |

Every property of a passing run has a mutant in `PROJECT.json` that breaks it:
a definition of the code is replaced by a variant with a plausible bug and TLC
finds the violation. The variants stand before the definition they replace,
under a comment "Seeded bug"; no specification uses them.

### Bounds

- **Pool.** Two connections and four calls: two hold, two wait, so a timeout
  can hit the first or the last waiter while both connections come back.
  Two inits: one fails, one succeeds; the proof shows that a manager never
  serves a second instance, and `CallInit` is guarded by `MaxOpens` for that reason only.
  For liveness, three calls on one connection: one holds, two wait.
- **Import.** A dataset of two keys is the smallest that can be served half; a
  second dataset shows that a scope is respected; the third run is the one
  after a failed and a published one in either order. Two versions of a file
  suffice for a file that changes between stat and load.
- **ETL run.** One dataset of each format. The first has a file with two columns of one year where the
  later is not always usable, one under its other names and with fewer rows, one with two columns for one name, and one with
  a year that does not parse; the second a file where a later row corrects an earlier one, one in another encoding with one area
  written in two ways and a row without area, one with a text where numbers are added, and one where no
  row is asked for. So every pair of files leaves stale rows behind if they are not deleted, and both kinds of
  unusable files follow a usable one. Two retries: the last call, one in the middle and the first differ.
  The command lines are the two forms of a flag, a run of everything, and each way to be refused.
- **Fetch.** Three versions: one cached, one being fetched, one published
  meanwhile. Two crashes: one in the fetch and one in the next that repairs it.

- **Migrations.** With three versions there is one below and one above the one being
  applied, so order and gaps can go wrong; the five releases are the ways two manifests can differ.
- **Requests.** One connection makes every second step wait, so a request that kept its lease
  would block at once; two requests are enough for a cache entry that one fills while the other waits to
  load it. The queries cover every route, name each thing known and unknown and a category of another area type, and break a
  bound of each kind (length, number, list, missing parameter); the tokens of `If-None-Match` are
  strong, weak, of another body, `*` and a weak `*`.
- **Blue/green.** Two failures are needed to leave a rollback incomplete and one more
  for the script after it; two interruptions and crashes, so that one can hit the repair of the other.
  `CutoverRepairs` speaks of cutovers that start when all of these are used up, so in every mess they can leave.

`import_safety` and `import_lineage` set `CHECK_DEADLOCK FALSE`: at `MaxRuns` and `MaxVersions` the system stops.
Symmetry in the callers is used only in the runs without liveness.

### Fairness

- `ConnectionPool!Progress`: the event loop runs continuations that are ready;
  `createDb` makes a bounded number of attempts; a leased function ends since
  a repository query is cut off by its own timeout. So: weak fairness
  of the init steps, the lease, the start and the release of each call.
  Nothing is assumed of new calls or of close. `CallsSettle` assumes in addition that timers fire.
- `FetchDataset!Progress`: the fetch is started again and again (weak fairness of `Start`)
  and an await that is reached infinitely often succeeds once (strong fairness),
  since network and disk fail, but not always at the same await. No fairness for `Throw`, `Crash`
  and `Publish`.
- `EtlRun!FairSpec`: weak fairness of the steps of a run: a call is answered, rejects or is aborted by its
  timeout, a sleep ends, a statement returns. Nothing is assumed of which answer it is, nor of kills and starts.
- `Migrations!Progress`: the job is run whenever the database is not in use (weak fairness of `Open`), does
  not fail at the same statement for ever, and Docker restarts the API until it is up
  (strong fairness, since jobs and the API take turns with the file).
- `BlueGreen!FairSpec`: commands end (weak fairness of the script's next command). Nothing is assumed of Docker's restarts: that a
  service which has died comes back would only restate such an assumption, so no property says it.
- `ApiRequests!FairSpec`: continuations run and a statement ends, by its own timeout if need be. Acquire timers are not
  needed.
- `ImportDataset` has no liveness property: a run may fail for ever.

## 5. Findings

1. **`close` during a pending init** (`pool_close`). `close` finds no state and
   returns; the then-callback of `initPromise` stores the instance in the closed
   manager, and the calls that awaited it lease its connections. Nobody closes it.
   The manager's tests expect the instance to be closed when `close` returns
   (`duckdbConnectionManager.test.ts:72-73`).
2. **Lineage** (`import_lineage`). `importDataset` takes `data_version` from a stat at the
   start of the run and reads the file by path later; a fetch may replace it in
   between. `README.md:238` calls `data_version` the "import source version fingerprint".

3. **Downgrade** (`migrations_downgrade`). An older release on a newer schema: `applyMigrations` passes over versions
   it does not know and succeeds, `assertMigrationsUpToDate` refuses them and advises to run
   `pnpm migrate`, which does not help.
4. **The refresh cycle** (`bluegreen_refresh`). The first job of `etl-bluegreen.sh` opens the active database for a CHECKPOINT
   while the active API has it open. DuckDB lets one process open a file for writing, so the job, and with
   it the script, ends there; `docs/runbook-docker.md:63` calls this the standard cycle without downtime.
   This rests on DuckDB's lock, which is outside the repository; the runbook mentions lock errors
   in its section on troubleshooting.

## 6. What is proved

For all values of the constants, under the assumptions named in the modules. Most say that a bound is a
natural number or positive, or that a set is finite or not empty (`CallersAssumption`, `PoolSizeAssumption`, `MaxOpensAssumption`,
`MaxRunsAssumption`, `MaxVersionsAssumption`, `MaxVersionAssumption`, `MaxCrashesAssumption`, `MaxRetriesAssumption`,
`BoundsAssumption`, `ReleasesAssumption`, `KeysFinite`). The others: `Migrations!ManifestAssumption` (a release has a hash
for each version), `ImportDataset!ScopesDisjoint` (a key belongs to one dataset),
`ApiRequests!SeparatorAssumption` (no two pairs of imported names join to one cache key), and in `EtlRun`: a dataset is in the
manifest once (`ManifestAssumption`), no two specs share a scope (`ScopesDisjoint`, which `DatasetManifest` shows of what is shipped), a
file is rows of texts (`FilesAssumption`), and a command line that is accepted asks for at most `MaxRetries` retries
(`ArgvsAssumption`, `DefaultRetriesAssumption`). In `ApiRequests`: only a bulk request has several items or none, and every item
has a route (`AskAssumption`), which is how the routes make queries. TLC evaluates them in the runs of these modules.

The inductive invariants were checked by TLC on the instances above before they were proved.

**`ConnectionPoolProofs`.** `PoolInvariant` proves `PoolInv`, which is inductive:

- `LeaseExclusive`, `NoStuckLease`, `NoIdleConnection`, `HandOverSucceeds` and `QueueIsTheWaiting` are the
  promises, and none is inductive alone. That a hand-over finds a connection follows from
  the one just freed; that it may be given needs `LeasesFlagged` (a held connection is flagged).
- `NoIdleConnection` speaks of the instance the waiter got, `releaseLease` of the instance
  the manager has. `OneGeneration` says that they are one: init runs only while no call has
  got an instance, and after a close `state` is null or the instance that init was connecting.
- `QueueIsTheWaiting` makes the first waiter that is not settled the head of the queue
  (`NextWaiterIsHead`), so `dequeueWaiter` never skips and `LeasesInOrder` follows.

There is one lemma per action, over lemmas on queues without repetitions and on
`TryLease`. Consequences: `PoolTypes`, `LeasesAreSound`, `NoLeaseIsLost`, `WaitersHaveNothingToTake`,
`HandOverNeverFails`, `OneInstanceServes`, `LeasesAreFair`.

`ManagerIsALeaseQueue`: the manager implements `LeaseQueue`, step by step. `LeaseNow` is `Acquire`: a call that waits would have
the same instance (`OneGeneration`), where `NoIdleConnection` leaves nothing free; and there is room, since the
holders of connections of one instance have different slots of it (`HoldersHaveSlots`, an injection from `LeaseExclusive`) and
one slot is free. `Enqueue` is `Wait`: until the close every slot is flagged, so by `NoStuckLease` that injection is onto, and all
leases are out. `AcquireTimeout` is `GiveUp`; the three releases are `Return` or `HandOver`, a forgotten one only after the
close; calls, inits and the start of the leased function are nothing to the queue. `LeasesAreBounded` rests on the same injection.

**`QueueLemmas`.** Queues without repetitions as sequences: what joining, leaving at the head and leaving from
the middle do to the set of those who wait. Used by the two modules about the wait queue. `MinInSet` rests on the
well-foundedness of the naturals.

**`ImportDatasetProofs`.** `ImportInvariant` proves `ImportInv`. That a reader sees whole datasets (`ServesLatestPublished`) changes only at
the commit, so the invariant has to say what is being committed: `KeysInScope` keeps the staged keys within the
dataset, `RunIsOpen` says that the importer's run is the newest one and still `started`, and `TxSoFar` describes
the transaction's tables after each of its awaits, ending with exactly the staged rows in the scope and the
committed rows outside it (`Replaced`). `ImportTypes` and `ReadersSeeWholeDatasets` follow, and
`ImportPublishes`: the import implements `Publication`. There, `CommitPublishes` shows that the commit is `Publish`,
`CreateRun` is `Start`, `MarkFailed` outside a dead transaction is a failed run, and all other awaits, rollbacks and crashes stutter.
`DatasetsStayServed` and `SettledRunsStay` say what no step does: empty a dataset that has rows, or change a run that is over.

**`EtlRunProofs`.** First what an import makes of a file. `OutcomesMirrorTheFile`: for every configuration and every file, an import that publishes anything publishes one row for
each key with a usable cell, with the value of a cell that no other of its group outranks. The step that could fail is
that picking one reading per group leaves a key out: readings of one group have one key or one
rank (`Ranked`, shown for both formats), and a group has a largest rank (`LargestExists`, by the
well-foundedness of the naturals), so `EveryKeyIsKept`. `PublishingReplacesTheScope`: publishing leaves the rows in the scope
and all others as they were.

Then the run. `RunInvariant` proves `RunInv`: `RequestInv` counts the calls that failed, and gives `RetriesAreUsed`; `RestIsChosen`
says that what is left is the end of what was chosen, where nothing is twice, so that fetching the
current dataset does not touch one already passed, and `PassedAreFresh` is inductive with it (`ExitCodeIsTrue`).
`RowsMirrorTheFile` rests on these two theorems and on `ScopesDisjoint`: an import sets the rows of its own dataset
and leaves those of the others alone.

**`FetchDatasetProofs`.** `CacheInvariant` proves `CacheInv`. `MetaNotAhead`, the validator on disk
never names a version newer than the file, survives a crash between the two renames because the file
is renamed first; to carry it through a fetch, `Ordered` keeps
file <= response <= server and says that the metadata a request was made with is still on disk.
Then a 304, which means the validator is the server's version, squeezes the file between the two
(`NotModifiedIsSound`). `CacheTypes`, `CacheIsWhole`, `CacheIsSound` and `CacheNeverOlder` follow.

**`MigrationsProofs`.** `MigrationsInvariant` proves `MigrationsInv`. That exactly the recorded migrations have been executed
(`RecordIsSchema`) holds after a commit because the transaction differs from the committed tables by the
text and the record of one migration only (`TxAhead`). That a successful job is current
(`MigratedIsCurrent`) is where the loop ends up: below its position every version of the
release is recorded with its hash, above it the copy read before the loop still agrees with the
table (`LoopIsRight`), for which the job must be alone with the file. `MigrationsTypes`, `JobsBringTheSchema`, `MigrationsAreAtomic`,
`ReleasesMatchTheSchema`, `RecordsAreFinal` and `MigrationsInOrder` follow.

**`BlueGreenProofs`.** `CutoverInvariant` proves `CutoverInv`: `CutoverProgress` says what each
command finds done by the ones before it (at `verify` everything is at the target; at `undoLink`
the gateway is back if its reload worked), which no API crash, gateway restart or
earlier script can disturb. `CutoverTypes` and `CutoversAlign` follow.
That no step takes the traffic to an API that is down (`TrafficStaysUp`) needs to look ahead: `NoneIsDown` says that every color
that a command can still send the gateway to runs or has died since a cutover found it healthy: the one in `active.conf`, the one
in its backup, and the one a cutover has waited for (`GatewayIsUp`). With it, the fourth finding holds of every behaviour: until an API has died, no
refresh completes (`RefreshIsRefused`), because the backup opens the database of the color in `active.conf`.

**`ApiRequestsProofs`.** `RequestsInvariant` proves `RequestsInv`, for any rows that `SeparatorAssumption` and any queries that `AskAssumption` allow, and any
number of requests and connections.

- `AnswersFollowTheRows`. `RightReply` says what a request deserves without steps and caches; the code walks through steps, some from
  entries that other requests have stored. `CacheTrue` says that every entry is what the database would say, for names it has. The
  key of the categories joins both names with `::`, and both were validated before; `SeparatorAssumption`, that no two pairs of imported
  names make the same key, is what then keeps another entry from standing for it. It holds of the shipped datasets, whose names have no colon. `FollowsItsSteps` says
  that a request under way has passed all items and steps before the one it is at. So the step that refuses is the
  first that does not pass, which is the refusal that is deserved (`StepsDecide`, route by route),
  and at the end all items have passed.
- `CachesStayBounded` follows from `CacheTrue`.
- `LeasesAreNotKept`: `LeasesMatchSteps` says that the requests that hold a lease or wait for one are those at a step that goes to the
  database, that none does both, that there are never more leases than connections, and that one waits only when all are out. So
  while one waits, another has a lease and a statement to run (`SomeoneGoesOn`): the part of `EveryRequestAnswers` that is safety.
- `INSTANCE` gives `Pool` its own copies of the library's operators; `PoolOperators` (and `LeasesOperators` for the manager) says they are
  the same.

**Only model-checked**: the liveness properties (`NoStarvation`, `CallsSettle`, `EventuallyFresh`, `EventuallyEnriched`, `ServesAgain`,
`CutoverRepairs`, `EveryRequestAnswers`, `RunEnds`), since liveness and ENABLED are outside the prover's reach. Every invariant and action
property of a passing run is a theorem. What a command line is parsed to and what a header's names become are folds, which the provers cannot unfold:
the proofs rest there on assumptions that TLC evaluates (`ArgvsAssumption`, `FilesAssumption`). What the shipped manifest satisfies is evaluated by TLC, not proved.

## 7. What is not modelled

- In the modelled parts: what SQL and regular expressions do to a single text; `createDb`'s retries one by one;
  the length of a sleep; the native side of a query that outlives its lease; how the catalog is searched for a
  dataset's entry, and what the entry contains.
- The values, the order and the pages of what the repository's statements select; the schemas of responses and the OpenAPI
  descriptions; the texts and suggestions of errors; a close of the manager under requests.
- Two fetch processes on one cache directory, where nothing in the code keeps them apart.
- A release that changes the scope of a dataset: its dropped rows are never deleted, and no text says what should
  become of them. Runs that stay `started` after a crash, which nothing looks for.
- `etl:fetch` and `etl:import`, the halves of `etl:run`'s loop, and `etl:maint`, which compacts the file.
- What a migration's text does to the data; what `backup.sh` copies and retains, and `restore.sh`; two operators
  who run scripts at once.
- The signal handlers of `app/server.ts` (row 8 of the plan).
- Not planned: metrics, CORS, helmet and Swagger (third-party plugins), configuration and logging.
