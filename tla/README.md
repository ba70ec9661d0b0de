# A TLA+ verification of skycat

skycat keeps astronomical catalogs in PostgreSQL/PostGIS: it imports a release
of a catalog family into a partition of its own, makes one release per family
ACTIVE, and answers cone searches, crossmatches and lookups from it. This
directory models its concurrent core, what an import does with its source, what a
query selects, and who may do what in its database in TLA+, and checks them with TLC.
Every safety property of a passing run, and that the core implements an abstract
catalog, is also proved with TLAPS, for every value of the constants.

## 1. The system

| Component | Code | State it keeps | Operations |
|---|---|---|---|
| Release registry | `models/registry.py`, `registry/releases.py`, `registry/families.py`, migration `0001` | families, releases, ingestion runs, validation summaries; unique name per family, at most one ACTIVE release per family (partial unique index), runs that cascade with their release | get or create, resolve, activate, deactivate, sync family |
| Import runner | `ingestion/runner.py` | local variables of one attempt; staging, rejects, `_incoming` and partition tables | Phase A (stage and validate), B1 (detached build), B2 (swap), finalize, activate, clean up, record a failure |
| Maintenance | `ingestion/maintenance.py`, `cli/main.py` | local variables of one command | activate, deactivate, remove-release, validate, clean-staging |
| Catalog reader | `client.py` | one lazily created engine, a TTL cache of active releases, two locks | cone, crossmatch, lookup, active_release, invalidate, close |
| Query engine | `query/cone.py`, `query/crossmatch.py`, `spatial/` | none | resolve, re-check, select |
| Validation | `validation/` | none (marks staging rows) | staging checks, production checks, summarize |
| Loader, parsers | `ingestion/copy_loader.py`, `ingestion/parsers/` | counters of malformed lines | iterate rows, COPY |
| Discovery | `ingestion/discovery.py` | none (reads a tree) | scan, checksum |
| Provisioning | `database/`, `migrations/` | roles, schemas, grants, tables | init, migrate, reset |
| Configuration | `config.py`, `database/engine.py` | settings, from the environment | identity and timeout of a role, refusal of reserved databases |
| Health | `health.py` | none | report |
| Command line, deployment | `cli/main.py`, `infra/` | none | start one command, end with an exit code |

How they interact: the runner, the commands and the readers are separate
processes, often on separate hosts. They share the database and nothing else: no
lock, lease, queue or notification of the program orders them. What one of them
decides on is a row it loaded in an earlier transaction; what orders two of them
is PostgreSQL's row and table locks, the unique constraints and the foreign
keys. A reader learns of an activation when its cache entry runs out, when
somebody calls `invalidate`, or when a query finds its cached release changed.

What is hard here, and where a unit test hardly reaches:

- an import takes hours and is a chain of eight or more transactions; every
  decision it carries from one to the next (`was_active`, the release id, the
  loaded row, the staging table) can be out of date;
- any statement can fail, the recorder of failures can fail, the process can be
  killed, and what is committed stays;
- the swap takes ACCESS EXCLUSIVE on a parent that queries and the builds of
  other releases hold, with a lock timeout and bounded retries; a removal takes the
  same lock with no timeout, and everybody else then queues behind it;
- a commit expires the rows of its session: the next attribute read is a statement
  in a new transaction, which can fail when everything it is about is committed;
- removal, swap and finalize are each torn across transactions;
- the reader's cache and engine are shared by threads and touched outside their
  locks;
- a crossmatch streams its inputs, skips some, sorts in SQL and again in Python, and
  must still answer each input as a search of its own would;
- an exit code says in one number what a chain of transactions came to.

What makes each component correct:

- registry: one ACTIVE release per family; a built release has a table and rows;
  state changes along the documented graph;
- runner: an attempt that fails leaves the release as it was; the row describes
  the rows it serves; a release is ACTIVE only if its rows passed the critical
  checks, and only past the warnings gate; attempts end;
- maintenance: a removal takes nothing that is in use and leaves nothing behind;
- both together: to a query, the catalog changes in single steps and only as it was
  asked to, and a command that exits 0 has done what it was asked;
- reader: answers come from the active release, stale entries run out, no engine
  is forgotten undisposed;
- query engine: a search selects what the sphere says, a batch agrees with searches,
  every input comes back;
- configuration: a connection has one identity, and a reader's timeout ends no import;
- health: where it is green, queries have the rights they need;
- loader, parsers, validation: every line is counted once, what is served can be
  queried, passed means clean;
- discovery: a checksum says which bytes were imported;
- provisioning: a completed init leaves every family importable and queryable, and
  running it again takes nothing away.

`PROJECT.json` lists the hazards at their lines, with the properties aimed at each.

## 2. The modules

| Module | Models | Composes |
|---|---|---|
| `Registry` | the shared database: rows, runs, partitions, staging and replacement tables, locks, constraints, the effect of an ORM flush and of an activation | |
| `Maintenance` | the operator commands, one process per invocation | extends `Registry` |
| `ImportRelease` | `import_release()` and its recorder, one process per attempt | extends `Maintenance`, whose commands it meets in lock queues |
| `Lifecycle` | attempts and commands over one registry; fairness; the properties | extends `ImportRelease` |
| `ReleaseCatalog` | what the lifecycle promises to those who query it: releases served by name, one live per family, changed in single steps by the request in progress | |
| `LifecycleCatalog` | the refinement mapping | `Lifecycle`, instance of `ReleaseCatalog` |
| `CatalogProofs` | the proof of the refinement, step by step | `SerialProofs`, `LifecycleCatalog` |
| `LifecycleInvariant`, `LifecycleProofs` | the inductive invariant, and the proofs | `Lifecycle` |
| `SerialInvariant`, `SerialProofs` | what holds besides when processes do not overlap, and the proofs | `LifecycleInvariant`, `LifecycleProofs` |
| `ImportJob` | `skycat import` as its caller sees it: `report.activated`, causes of failure, exit codes | `Lifecycle` |
| `JobProofs` | its inductive invariant, and the proofs | `SerialProofs`, `ImportJob` |
| `CatalogReader` | `client.py` over the resolution of `query/cone.py`, several threads | extends `Registry` |
| `Serving` | readers next to the lifecycle | `Lifecycle`, `CatalogReader` |
| `ServingInvariant`, `ServingProofs` | the inductive invariant, and the proofs | `Serving`, `LifecycleProofs` |
| `Settings` | `config.py` and the engine's timeout, as operators on settings | |
| `QueryEngine` | `query/cone.py`, `query/crossmatch.py`, `spatial/`, the CSV of the crossmatch command: what a query of a resolved release selects | extends `Settings` |
| `QueryInvariant`, `QueryProofs` | the inductive invariant, and the proofs | `QueryEngine` |
| `Claims` | statements of the documentation that do not hold | `Lifecycle` |
| `SourceLines` | the parsers of `ingestion/parsers/`, as operators on lines | |
| `Validation` | the checks of `validation/`, as operators on staged rows | extends `SourceLines` |
| `Content` | one release from its files to its rows: `ingestion/discovery.py`, `copy_loader.py`, the data of `import_release()` and of `validate` | extends `Validation` |
| `ContentInvariant`, `ContentProofs` | the inductive invariant, and the proofs | `Content` |
| `Provisioning` | `init`, `migrate`, `reset`: `database/`, `migrations/`; `health` | |
| `ProvisioningProofs` | its inductive invariant, and the proofs | extends `Provisioning` |
| `MCLifecycle`, `MCJob`, `MCClaims`, `MCServing`, `MCContent`, `MCProvisioning`, `MCQuery` | instances for TLC | |

### State and code

`rows[i]` is the row of `catalog_release` with id `i`, reduced to the columns
that decide anything: name, state, source checksum, whether there is a
`production_table`, validation status. `runs[p]` is the `ingestion_run` of
attempt `p`; `partition[i]` the contents of the partition attached for id `i`;
`incoming[i]` those of its detached replacement; `staging[n]` and `rejects[n]`
the tables named after release `n`; `held` the families whose data table some
other transaction has locked.

`imp[p].pc` says which transaction of `import_release()` comes next, and the
other fields are the local variables that survive a transaction:

| pc | code (`runner.py`) |
|---|---|
| `sync`, `open`, `openRun` | the bookkeeping session, 458-556; `open` reads the release, decides skip, refusal and `was_active`; `openRun` commits the row and the run |
| `runId` | `run_id = run.id`, 557: the row is read again after its commit, and `run_id` is None until it is |
| `skipActivate`, `skipReport` | the activation of the idempotent skip, 502-503, and its event, which reads the release again, 506-515 |
| `stage`, `build`, `swap` | Phases A, B1, B2, 566-731 |
| `finalize`, `finalizeCommit` | the finalize session, 750-804: what it loads, what it flushes |
| `readBack`, `activate` | the gate and the activation after it, 805-824 |
| `cleanup` | 826-829 |
| `record`, `recordCommit` | the failure recorder, 309-387 |

A transaction that decides on registry columns it loaded earlier is two steps,
the load and the commit: under READ COMMITTED another process may commit in
between, and SQLAlchemy then writes exactly the columns whose value it changed
(`Flush`). A transaction that decides on the locks it takes (DDL, the build)
is one step. `tries` counts lock timeouts; `runId` says that `run_id` is not None,
which is what the recorder asks (363). Two fields and a field of `ops` are
history: `swapped` (the swap is committed and the finalize is not),
`unrecorded` (the recorder failed) and `dropped` (a removal dropped the
partition). The same convention gives `ops[o].pc` for the commands; a removal whose
DETACH has to wait is at `wait`.

`reads[t].pc` walks through a call of the reader: `engine`, `create`, `return`
are the three reads of `_engine` in the property; `cache`, `resolve`, `store`
are `active_release`; `validate` and `query` the two sessions of the query.
`engines` are those the call has read and works on; `disposed` and `past` are history:
the engines that `close` has disposed, and had disposed when the call began.
SQLAlchemy's `dispose` closes the idle connections of an engine and gives it a new
pool, so that whoever still holds it can go on.

`job[p]` is what the process of an attempt knows besides: whether its report says
activated, why it raised, its exit code. Every step of `ImportJob` is a step of
`Lifecycle`; `Account` only looks on.

`call` is the query asked and, for a crossmatch, `left`, `uploaded` and `skipped`: the
inputs not yet read, those in the temporary table, and `invalid_ids`, each by its
place in the request, since ids may repeat. The inputs are read in that order, the
least of `left` first. `answer` has the rows or the kind of error, `connection` the last one made by any role.

`Content` looks at the same attempt from the side of its data. `tree[f]` is what
the file `f` holds and its size and time; `job.found` what the scan took down,
`job.read` (history) what was parsed, `job.staging` the staging table, each row
with the place it was read and its `reject_reason`; `release` has the columns
that finalize writes, `partition` the rows that are served, none before the first
import. A line is a record of the facts a parser decides on: its
first token, whether it has the fields its format asks for, whether its position
is numeric, whether an optional field raises.

`Provisioning` keeps, for each schema and table, its owner and who was granted
what, and for each process the transaction it comes to next: `grants` (init's
first), `schemas` and `migrations` (Alembic's two), `handover` (init's second),
`verify`. `torn` is history: a reset ran under a command. The PostgreSQL rules it rests on (`GiveTo`, `NewTable`, `Acts`,
`Holds`) are external and stated where they are defined.

### Abstractions

- In `Lifecycle` a source tree is identified with its checksum and with the rows
  it loads, and validation is two constants per tree: its conclusions of Phase A
  and of the production checks. `Content` is where they come from, for one attempt
  at a time and with the swap and the finalize in one step.
- A release id is the attempt that inserted the row: ids are not reused, and an
  attempt inserts at most one row.
- In `Content` a position is a pair of integers (NaN above all, as PostgreSQL
  sorts it), the photometric columns are one fact of a row (plausible,
  implausible, absent), and the indexes of a partition are the parent's, so that
  the check for them passes. A file is read in one step.
- `Provisioning` gives each command the identity of the role table in
  `architecture.md`: init and reset are the superuser, migrations are
  `catalog_owner`, imports `catalog_ingest`, as in the compose file. With one
  credential for all of them there is nothing to check. The migrations of one
  command are one transaction, as Alembic runs them.
- In `QueryEngine` positions are quarter turns, on which sine and cosine are exact:
  RA 0 and 3 are neighbours, a pole has every RA, and separations tie. `Distance` is
  PostGIS's, from unit vectors at the longitude that `Lon` makes of RA; the properties
  compare it with the haversine of `spatial/cone.py`, from RA as stored. What SQL
  leaves open, the order of ties, is a choice. Two orders of input ids stand for the
  collation of the database and for code points. A negative radius and a magnitude
  band `geom` reach the driver and are not asked; `cone_search_plan` explains and
  selects nothing.
- In `ImportJob` an importer is one pod: the Job has `backoffLimit: 0` and
  `restartPolicy: Never`. Failures before the first connection leave no trace.
- Columns, events and reports that decide nothing are left out, as are the
  times of the back-off; `failure_detail` and validation summaries are written
  and never read back by the modelled code.
- An activation loads the release and the family's active release in one step.
- The lock of a data table is held or free, whoever reads it: Phase B1 holds ACCESS
  SHARE on the parent and is one of the holders that `Hold` stands for. The queue is
  modelled as far as somebody can stand in it without bound: a DETACH that waits
  with no lock timeout (`Queued`: of `remove-release`, or of Phase B2 when
  `lock_timeout` is configured as 0) holds up new builds, swaps, queries and other
  holders until it has its lock. In what order the queue is served is open.
- Faults: `DatabaseError` raises from any transaction of the try block,
  `RecorderError` from the recorder, `Crash` kills the process, `Interrupt` ends
  a command. What a statement inside a transaction did is rolled back, so the
  fault is taken at the transaction.
- Time is abstracted in the reader: a cached entry may expire at any moment.

## 3. What is checked

Passing runs:

- **overlap** — two attempts and one command, free interleaving, errors, kills,
  a lock taken and released at will. `OneActivePerFamily` rests on the unique
  index: without it the check fails. `BuiltHasTable`: no combination of recorder
  and finalize leaves a built state without a table. `BuiltIsServed`: the swap
  leaves no hole. `RunningMeansLive`: what `health` takes for a stuck import is
  one, killed, unrecorded, or failed before it had the id of its run.
- **serial** — the same programs one process at a time (`Exclusive`), two
  attempts and one command, every mode, clean, questionable and bad trees, all
  three faults. `LegalTransitions` is the documented state graph; `FamilyStaysActive`
  that no import costs a family its ACTIVE release; `RowDescribesPartition` that
  provenance is that of the rows served, but for an attempt that ended between
  the swap and the finalize; `ActiveIsValid` that rows behind an ACTIVE release
  passed the critical checks; `WarningsGate` that activation by an import passes
  the gate. `ImplementsCatalog` is the refinement: every behaviour, with its retries,
  errors, kills and leftovers, is one of `ReleaseCatalog`, in which a request changes
  what queries are answered from in single steps or not at all. `ExitZeroMeansActive`
  and `ExitZeroMeansServed` say what an exit code of 0 may be taken for, and
  `FailureIsEarned` that nothing an earlier attempt left behind makes a later one
  fail.
- **termination** — under fairness, two attempts and two commands contend for a
  data table that a reader has locked and need not release. An attempt ends, or it
  stands in Phase B1 for good, behind the DETACH of a removal that waits for that
  reader (`BehindDetach`): this is the one wait of an import with no bound, since
  `lock_timeout` is set in Phase B2 alone (`runner.py:221`). No faults: an error
  only ends an attempt sooner.
- **serving** — two threads, `close`, `invalidate`, expiry, an activation, a
  deactivation or a forced removal. `AnsweredFromActive`: however stale the cache
  is, an answer is from a release that was ACTIVE at some moment of the call.
  `OneEngine`: of the engines created, the one that `close` has not disposed is the
  one the reader would return, so that none is overwritten and forgotten.
  `NoDisposedEngine`: a call that begins after a `close` works on a new engine. It does
  not say that no disposed engine is used: a call that `close` overtakes goes on with
  the one it has read, and the connections it opens there are nobody's to dispose.
  `EventuallyCurrent`, under
  fairness and with nobody calling `invalidate`: every thread comes to query the
  active release.
- **query** — cone searches around every kind of centre and under every filter,
  lookups, crossmatches of up to three inputs that repeat ids, are out of range or no
  numbers, over tables with ties, NULLs and a pole; connections of every role under
  25 settings and a reserved database. `SearchIsReference` compares with the haversine;
  `BatchAgreesWithCone`, with radii of one and two quarter turns that leave more rows
  than an input may have at unequal distances, and `EveryInputAnswered` relate a batch to its inputs one by
  one; `BatchIsOrdered` is the order that the docstring promises, per id: which id
  comes first depends on whether an input was skipped, as the two sorts compare
  differently. `ConnectionsKeepTheirRole`: no identity is mixed of two, and the
  generic timeout stays with readers.
- **content** — every format over a file of up to two lines, each differing from a
  plain one in one way, with a second file for APASS; two attempts in both
  checksum modes, an upload or a deletion at any moment, `validate` at any moment.
  `Accounting` is `parsed = imported + rejected`; `NothingDropped` that a line
  with content is staged or counted, but for headings and the first line of a
  DR10 file; `ServedRowsValid` that positions are on the sphere, identifiers are
  there and OIDs unique; `PassedMeansClean` that the status which may activate
  unseen hides no rejected, implausible or missing row; `RevalidationAgrees` that
  `validate` accepts what an import has published.
- **provisioning** — two processes, two images (the second adds a family), imports,
  resets, kills between any two transactions. `InitRepairs`: an init that runs to
  its end makes every family importable and queryable, whatever was left before.
  `NothingTakenAway`: no step of init or migrate, run beside imports and queries,
  takes a right they need. `OwnerMigrates` and `PartitionsReadable` rest on the
  membership and on the default privileges: without either the check fails.
  `HealthyMeansQueryable`: where `health` is green every family of the image can be
  queried. After a reset between the transactions of an init it is not so: the
  tables that init goes on to create have no grants, the next init repairs the
  registry before the data, and `health` looks at the registry. `torn` excludes it.

`Exclusive` is a discipline of operation, not of the code: nothing enforces it. The
serial properties fail without it, and the violation runs say how.

Violation runs, each the smallest instance in which a statement of the
repository is not kept (`PROJECT.json` quotes the statement):

| Run | What happens |
|---|---|
| shared_staging | an attempt builds from staging rows of another that failed its critical checks |
| stale_source | a file replaced after it was hashed is imported under the old checksum |
| laundered | `validate` forgets staging warnings; the skip then activates without `--allow-warnings` |
| false_empty | a removal drops the partition under a query that has re-checked its release, or before the row it checks: `[]`, no error |
| exit_code | an import that finds no server exits 1, where the manifest and the table of exit codes say 2 |

`shared_staging` needs two processes at once, `stale_source` an import and a mirror,
`false_empty` a reader and a removal; `exit_code` is one command that
fails and `laundered` a sequence of complete commands.

Each shows one way in which a stale decision or a torn command shows. The same
weaknesses have other faces, which the models exhibit and no run of their own
checks: a run whose id could not be read back after its commit (`runner.py:557`)
stays running while its failure is recorded on the release, where the runbook
(`runbook.md:269`) sends the reader to the run first (the last case of
`RunningMeansLive`); a release activated while it is being replaced is READY when the replace
finalizes, and its family has no active release (`runner.py:776`); a removal cut short
after the drop leaves a READY release with no partition, which `activate` accepts
(`maintenance.py:123`; `GoLive` of `ReleaseCatalog` allows for it); a recorder that loaded the row first marks FAILED a release that another
attempt finalizes meanwhile (`runner.py:358`); an attempt killed between the swap
and the finalize leaves the provenance of the old rows over the new ones
(`runner.py:750`), which is the exception that `RowDescribesPartition` makes; a line with an optional field that `int()` raises on
(`vsx.py:77`, `base.py:73`) ends an import where `add-family.md` promises that it
is counted; `migrate` creates tables that `catalog_ingest` does not own, so that a
new family cannot be imported until init is run again (`cli/main.py:212`); `reset`
drops the grants on the schemas, which the table of the runbook calls untouched; a
deactivation during a forced replace is undone by its finalize
(`runner.py:776`); an unforced `remove-release` drops the partition of a release
activated after the check (`maintenance.py:94`); removing a release whose first
import ended after the swap leaves its partition attached, with no row to find
it by (`maintenance.py:103`); a slow thread stores the old release after an
`invalidate` (`client.py:140`, bounded by the TTL: see `EventuallyCurrent`); a `close`
between the two reads of `_engine` makes a query build an engine of its own,
without the default timeout (`client.py:111`); a `close` under a query leaves that query
to reopen the pool of the disposed engine (`client.py:257`).

### Bounds

`Lifecycle` and `Serving`: one family, since families share nothing but the `held` set and are never
compared; two releases, because activation relates two; two attempts and one
command, because every race found is between two processes, and the proofs
cover any number; termination has two commands, one of which may drop the table the
other waits for. Two or three lock attempts stand for three
(`MaxLockAttempts`): the second is a retry, the third a retry of a retry. Each
process is started once, so ids and runs are bounded without a cap. A reader
repeats calls without bound; `MaxCloses` bounds `close`, and with it the engines
it creates. Trees: one clean, a second clean one to tell replacements apart,
one with warnings, one with a critical failure. Symmetry is used for attempts
in safety runs only; they differ in nothing but their name. The serial run has about
600,000 states, serving 840,000.

`Content`: a line is judged alone, but for the header (first or not) and for
duplicates (two lines), so two lines and two files reach every outcome; three rows
are expected, so that one row is short and two are not; `MaxImports` two, because
an attempt meets what the one before left; `MaxUploads` one, because one change
between two steps is what tears them. `Provisioning`: two processes, because every
interference is between two; two images, the second with a new family; nothing else
is bounded. `QueryEngine`: every query is answered from one table and keeps nothing,
so the tables and the queries are the bounds; up to three rows of a release, more than
a limit admits and at different distances, and three inputs of two ids, reach every tie and every merge.

### Fairness

Weak fairness of each process that has started: the code runs until it returns, and a
step that waits for a lock is not enabled, so that fairness does not end the wait.
Phase B2 gives up on its own, since `lock_timeout` is above 0 in the termination run
(`LockTimeoutSet`; the default is 5000 ms) and the attempts are counted; with 0 it
would wait like a removal. Phase B1 and a removal wait for as long as it takes.
Nothing is assumed of those who hold locks, or of who starts what.
`EventuallyCurrent` assumes that a call in progress proceeds and that time passes.

## 4. What is proved

Eight modules prove every invariant and every action property that a passing run
checks, and the refinement. No theorem bounds a constant: families, names, trees,
attempts, commands, threads, files, tables and batches are as many as there are. The
assumptions are those the modules state and TLC evaluates, all of them types, finite
data and values kept apart:

| Assumption | What it says |
|---|---|
| `RegistryAssumption` | types; `None` is no other value |
| `SeedAssumption` | what is there at the start is the result of completed imports: built, one release per name, at most one ACTIVE per family, no critical failure |
| `ImportAssumption`, `MaintenanceAssumption`, `LifecycleAssumption` | types of requests, faults, `MaxLockAttempts` and lock holders |
| `JobAssumption` | a cause of failure and an exit code are not `None` |
| `CatalogAssumption` | `"gone"`, what a release whose partition was dropped serves, is no tree; a request is not `None` |
| `ReaderAssumption` | types; the kinds of error and the empty answer are no trees |
| `ContentAssumption` | a format has finitely many files, a file is a sequence of lines and a stamp |
| `QueryAssumption` | tables are finite and typed, inputs are a sequence, and both orders of ids tell any two apart |
| `ProvisioningAssumption`, `NoneAssumption` | revisions are positive, families come after the first; `None` is not the rights of an object |

Two hypotheses are disciplines of operation rather than types, and stand in the
theorems that need them: `Exclusive` (one process at a time) and, for `WarningsGate`,
`NoRevalidation` (nobody runs `validate`). The code keeps neither; the violation runs
show what becomes of the properties without them.

### The registry, its attempts and commands

`LifecycleProofs` proves, for every set of families, releases, trees, attempts,
commands, requests and faults, with or without `Exclusive`:

    Spec => []TypeOK
    Spec => []OneActivePerFamily
    Spec => []BuiltHasTable
    Spec => []BuiltIsServed
    Spec => []RunningMeansLive

None is inductive as it stands. `Inv` adds what a process may still rely on after
others have changed the registry:

- `Issued(i)`: an id was inserted and is not inserted again. A process that holds
  an id can find its row gone, but never another row in its place.
- `RowsOK`: a row with a `production_table` has a partition, or a removal is
  accountable for its absence (`Kept`). `production_table` is never reset, which
  is why what was loaded as built stays `Usable`.
- `RunOpen`: which run an attempt has open, whether it knows its id, and where an
  attempt can be whose run is running: before its finalize, killed, without a
  recorder, or failed without the id of its run.
- `AttemptOK`: that its partition is in place from
  the swap to the finalize, that what it loaded has the type its flush needs, and
  that the releases it is about to activate and supersede have tables.
- `CommandOK`: the same of a command.

Every step of one process is shown to be *steady* for the others: it takes no
issued id back, no table off a row, no partition away without a removal that
answers for it (`Steady`, `AttemptStable`, `CommandStable`). The frame lemmas
turn that into one obligation per action: what the process itself needs next.
`ImportPreserves` and `OperatorPreserves` collect the actions, `NextInv` and
`Invariance` close the induction.

### One process at a time

`SerialProofs` assumes `Exclusive` and proves

    Spec => []RowDescribesPartition
    Spec => []ActiveIsValid
    Spec => LegalTransitions
    Spec => FamilyStaysActive
    NoRevalidation: Spec => WarningsGate

`Inv` says what a process may still rely on; `SerialInv` says that what it loaded is
what there is. `OneAtATime` excludes the others, and `AttemptNow` and `CommandNow`
then carry each decision to the step that acts on it: `was_active` is right until
the finalize writes it back, the row that a flush compares with is the row of the
table, the release an activation supersedes is the active one, the staging table an
attempt builds from is its own and passed. `PartitionsAreChecked`,
`BuiltRowsPassed` and `RowsAreDescribed` are what is left when the process has ended,
in whatever way: the exception `UnaccountedSwap` is the attempt that ended
between the swap and the finalize. Without these an import that
skips (`checksum` unchanged) or an activation would have nothing to rest on.
`WarningsGate` needs that the recorded status is that of the rows served, which
`validate` overwrites: hence `NoRevalidation`, and the run `laundered`.

`CatalogProofs` assumes `Exclusive` and proves

    Spec => ImplementsCatalog

The mapping chooses a release by its name; `View` says what it comes to in a state
of `Inv` and `SerialInv`: the names served are those of the built rows, each with the
tree of its partition, the live release of a family is its active row, and the
request in progress is that of the one process at work. `ViewHolds` makes it
available before and after every step, so that each action has one lemma: it changes
nothing of the view (`Unseen`), or it is a step of the catalog. The swap publishes
the rows of a release that is built, and the finalize those of one that was not;
of the two, the other is not seen, and neither is a failure recorder. A removal is
two steps, since its drop and its delete are two transactions.

`JobProofs` proves `JobSpec => Spec`, so that all of the above holds of `ImportJob`,
and with `Exclusive`

    JobSpec => ExitZeroMeansActive
    JobSpec => ExitZeroMeansServed
    JobSpec => FailureIsEarned

`JobInv` relates what the report says to the transaction it follows:
what is noted before the swap is `was_active`, what is noted when the attempt
cleans up is true of the row, and an attempt in its recorder has a cause that it has
earned. An attempt that ends then has one lemma for an exit with 0 and one for an
exit with 1, by the action that ended it.

### The reader

`ServingProofs` proves, with any number of threads, attempts and commands, and
without `Exclusive`:

    ServingSpec => []ServingTypeOK
    ServingSpec => []OneEngine
    ServingSpec => []NoDisposedEngine
    ServingSpec => []AnsweredFromActive
    ServingSpec => Spec

A cached id is stale in every way: its release may be superseded, replaced or
removed. What remains true is `WasOf`: the id was issued for a release of
that family, and its row, if it is still there, is still one of it. `NamesKept` proves
that no step of the lifecycle breaks this, and it is all that a reader needs of the
lifecycle: the check that the query makes of its release then finds that one ACTIVE
now, and not another that has taken its id. `EnginesOK` counts: an engine is created
only when there is none, and only `close` takes it away and disposes it, so creations
exceed closes by one at most, no number is given to two engines, and the engine a
thread reads was never disposed, least of all before its call began. Only later can a
`close` dispose it under the call.

### The data of an import

`ContentProofs` proves, for any source and format:

    ContentSpec => []ContentTypeOK
    ContentSpec => []Accounting
    ContentSpec => []NothingDropped
    ContentSpec => []ServedRowsValid
    ContentSpec => PassedMeansClean
    ContentSpec => RevalidationAgrees

`ContentInv` relates the attempt to the files as it read them, which need not be the
files as they are: `StagingOK` says that the staging table has one row for each line
that parses and the counter one for each that is malformed, by place, so that
numbers of rows are cardinalities of sets of places (`Numbered`, `OneToOne`). `Judged`
is what Phase A has shown of a table about to be published; `Fits` what is left of it
in the partition, and with it why `validate`, which counts over the partition what
the staging checks counted over staging, cannot fail it.

### What a query selects

`QueryProofs` proves, for any tables, settings, queries and batches over the quarter
turns of the model:

    QuerySpec => []QueryTypeOK
    QuerySpec => []SearchIsReference
    QuerySpec => []BatchAgreesWithCone
    QuerySpec => []EveryInputAnswered
    QuerySpec => []BatchIsOrdered
    QuerySpec => []ConnectionsKeepTheirRole

`QueryInv` is short, since a query keeps nothing: `StreamOK` says that each input taken
is uploaded or, once, among the skipped, and not both. The rest is about the operators.
`SameDistance`: the distance of the unit vectors is the haversine of the stored
coordinates, at the seam and at the poles. `PrefixBest`: the first of a sorted
arrangement are the best of a set, whatever the order of ties. `MergedMoves` and
`MergedInOrder`: the second, stable sort only moves rows, and leaves each id's rows
together and nearest first for any two orders of ids. `BatchRows` finds for each row
of an answer the input it comes from; that the row says the truth of it (`Told`), that
no input is without (`Counted`) and that the rows are those of a search (`Agrees`)
follow.

### Roles and rights

`ProvisioningProofs` proves everything the run `provisioning` checks, for any number of
families, images and concurrent commands:

    ProvisioningSpec => []ProvisioningTypeOK
    ProvisioningSpec => []OwnerMigrates
    ProvisioningSpec => []PartitionsReadable
    ProvisioningSpec => []HealthyMeansQueryable
    ProvisioningSpec => NothingTakenAway
    ProvisioningSpec => InitRepairs

None of it holds of one transaction alone; `ProvisioningInv` says what earlier ones
left behind:

- `Owned`: only the staging schema and the data tables ever go to `catalog_ingest`,
  so its use of the data schema can only come from a grant.
- `Together`: what the bootstrap transaction grants, it grants at once. Where ingest
  may use the data schema, the default privileges are in place, and its partitions
  are readable.
- `Revised`: the revision says which tables there are, so no migration creates a
  table over one whose rights somebody relies on.
- `RegistryLast`: unless a reset ran under a command, the registry is not readable
  before the parents are. Health reads only the registry; this is why that is enough.
- `InitOK(p)`: an `init` past its first transaction and not wiped since finds
  everything that transaction did, past its migrations the tables of its image, and
  past its hand-over every family ready.

`RightsKept` is the frame: no step but a reset takes from an import or a query what
it needs, so what one `init` has achieved, others leave in place. It gives
`NothingTakenAway` and carries `InitOK` over the steps of other commands.

### What proving changed, and what is only model-checked

Four definitions could not be reasoned about as they stood, and each said less than
it seemed to. Guards of a CASE that overlap leave the choice open: the resolution of a
release and the refusals of a cone search are chains of `if`, and are now written as
such. A release before its first import has no rows, and `partition` says so. A
batch whose ids repeat cannot be told apart by its values: its inputs are now known by
their places, as the code's loop knows them. And an attempt's next file, or a batch's
next input, is a least element, which exists because numbers are well-founded
(`Least`).

Only model-checked: what holds under fairness (`ImportTerminates`,
`EventuallyCurrent`), since neither liveness under fairness nor ENABLED is in the
prover's reach; and the statements of `Claims`, which are false. No theorem needs
induction over data: parsing, checks and sorts are sets and arrangements, not
recursions.

## 5. Not modelled, and the plan

Modelled: every component with a state or a decision of its own (section 2). Proved:
every safety property that a run checks. What would be worth adding:

1. the safety half of termination: an attempt's lock timeouts are bounded, and every
   step of it leads on in the order of section 2 but for those retries, so that a
   finite variant decreases, unless it waits behind a removal; fairness then is all
   that `ImportTerminates` takes from TLC;
2. the serial properties under a weaker discipline than `Exclusive`: one process per
   family rather than one at all;
3. `ServingSpec` as a refinement of a catalog that answers at once.

Left out, and why: the commands that only read (`sizes`, `history`, `discover`,
`families`, `migrate-status`) and `cone_search_plan` decide nothing; `downgrade` and
`stamp` have no command; SQL text and query plans, PostGIS arithmetic beyond quarter
turns, log and report formats and URLs are data; families and their columns are
static; manifests and workflows (`infra/`, `.github/`) start the commands that are
modelled.

## 6. Running it

    tlasany Lifecycle.tla
    tlc -workers 2 -config Overlap.cfg MCLifecycle.tla
    tlc -workers 2 -config Serial.cfg MCJob.tla
    tlc -workers 2 -config Serving.cfg MCServing.tla
    tlc -workers 2 -config Query.cfg MCQuery.tla
    tlc -workers 2 -config Content.cfg MCContent.tla
    for m in Lifecycle Serial Catalog Job Serving Content Query Provisioning; do
        tlapm ${m}Proofs.tla
    done

The first run of `tlapm` on a module takes minutes; it then tries only what changed.
