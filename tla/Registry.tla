------------------------------ MODULE Registry ------------------------------
(***************************************************************************)
(* The database state that an import, an operator command and a query      *)
(* share: the release registry (schema catalog_registry), the partitions   *)
(* of the data tables and their detached replacements (catalog_data) and   *)
(* the staging tables (catalog_staging), together with the constraints     *)
(* PostgreSQL keeps on them and the effect of one ORM flush on a row.      *)
(*                                                                         *)
(* Abstractions.  A release id is the import attempt that inserted the     *)
(* row: ids come from a sequence and are never reused, and an attempt      *)
(* inserts at most one row; releases present from the start have ids of    *)
(* their own (SeedIds).  A source tree is identified with the checksum     *)
(* computed from it and with the rows it loads, so the contents of a       *)
(* staging table or of a partition are the tree they were loaded from.     *)
(* The production_table column is a Boolean: its value, when there is one, *)
(* is a function of the id.                                                *)
(***************************************************************************)
EXTENDS Integers, FiniteSets

CONSTANTS
    Families,         \* catalog families
    Names,            \* the releases the code defines, over all families
    FamilyOf,         \* the family of each of them
    Sources,          \* source trees that can be on disk
    StagingStatus,    \* what Phase A validation concludes of each tree
    ProductionStatus, \* what production validation concludes of its rows
    Importers,        \* import attempts
    SeedIds, Seed,    \* releases imported before the behaviour starts
    None              \* SQL NULL, Python None, a row or table that is absent

Ids == Importers \cup SeedIds

\* The states the code writes; CatalogReleaseState.STAGING is never assigned.
States == {"registered", "ready", "active", "superseded", "failed"}
Built == {"active", "ready", "superseded"}
Activatable == {"ready", "superseded"}

Statuses == {"passed", "passed_with_warnings", "failed"}

Row == [name: Names, state: States, checksum: Sources \cup {None},
        table: BOOLEAN, validation: Statuses \cup {"not_run"}]

Run == [release: Ids, status: {"running", "succeeded", "failed"}]

ASSUME RegistryAssumption ==
    /\ FamilyOf \in [Names -> Families]
    /\ StagingStatus \in [Sources -> Statuses]
    /\ ProductionStatus \in [Sources -> Statuses]
    /\ Importers \cap SeedIds = {}
    /\ None \notin Names \cup Sources \cup Ids \cup Statuses \cup Row \cup Run

ASSUME SeedAssumption ==
    /\ Seed \in [SeedIds -> [name: Names, state: Built, source: Sources]]
    /\ \A i, j \in SeedIds :
          /\ Seed[i].name = Seed[j].name => i = j
          /\ /\ Seed[i].state = "active"
             /\ Seed[j].state = "active"
             /\ FamilyOf[Seed[i].name] = FamilyOf[Seed[j].name]
             => i = j
    /\ \A i \in SeedIds : /\ StagingStatus[Seed[i].source] # "failed"
                          /\ ProductionStatus[Seed[i].source] # "failed"

VARIABLES
    families,   \* slugs with a catalog_family row
    rows,       \* catalog_release, by id
    runs,       \* ingestion_run, by the attempt that opened it
    partition,  \* contents of the partition attached for an id
    incoming,   \* contents of the detached <partition>_incoming table of an id
    staging,    \* contents of the <family>_<name>_stg table of a name
    rejects,    \* the tree whose rejects <family>_<name>_rejects retains
    held        \* families whose data table some other transaction has locked

registryVars == <<families, rows, runs, partition, incoming, staging, rejects, held>>

RegistryTypeOK ==
    /\ families \subseteq Families
    /\ rows \in [Ids -> Row \cup {None}]
    /\ runs \in [Importers -> Run \cup {None}]
    /\ partition \in [Ids -> Sources \cup {None}]
    /\ incoming \in [Ids -> Sources \cup {None}]
    /\ staging \in [Names -> Sources \cup {None}]
    /\ rejects \in [Names -> Sources \cup {None}]
    /\ held \subseteq Families

-----------------------------------------------------------------------------
(* Validation                                                              *)

\* summarize() over the concatenation of two lists of checks.
Summarize(a, b) ==
    IF "failed" \in {a, b} THEN "failed"
    ELSE IF "passed_with_warnings" \in {a, b} THEN "passed_with_warnings"
    ELSE "passed"

-----------------------------------------------------------------------------
(* Rows                                                                    *)

Exists(i) == rows[i] # None

IdsNamed(n) == {i \in Ids : Exists(i) /\ rows[i].name = n}

FamilyOfId(i) == FamilyOf[rows[i].name]

ActiveIds(f) == {i \in Ids : /\ Exists(i)
                             /\ FamilyOfId(i) = f
                             /\ rows[i].state = "active"}

\* The failure recorder and the idempotent skip both ask this of a row.
IsBuilt(row) == row.table /\ row.state \in Built

\* The partial unique index uq_active_release_per_family, over a table t.
UniqueActive(t) ==
    \A i, j \in Ids :
        /\ t[i] # None /\ t[j] # None
        /\ t[i].state = "active" /\ t[j].state = "active"
        /\ FamilyOf[t[i].name] = FamilyOf[t[j].name]
        => i = j

NewRow(n) == [name |-> n, state |-> "registered", checksum |-> None,
              table |-> FALSE, validation |-> "not_run"]

\* An ORM UPDATE sets the columns whose value differs from the one loaded,
\* whatever the row holds by the time the statement runs.
Column(stored, loaded, assigned) == IF assigned # loaded THEN assigned ELSE stored

Flush(row, loaded, assigned) ==
    [name       |-> row.name,
     state      |-> Column(row.state, loaded.state, assigned.state),
     checksum   |-> Column(row.checksum, loaded.checksum, assigned.checksum),
     table      |-> Column(row.table, loaded.table, assigned.table),
     validation |-> Column(row.validation, loaded.validation, assigned.validation)]

-----------------------------------------------------------------------------
(* Activation: one transaction, in a session that loaded the release and   *)
(* the family's active release (current, or None) when it started.         *)

WithActive(i, current) ==
    [j \in Ids |->
        CASE j = i -> [rows[j] EXCEPT !.state = "active"]
          [] j = current /\ j # i -> [rows[j] EXCEPT !.state = "superseded"]
          [] OTHER -> rows[j]]

\* Mutant of ActivationCommits: a database without the partial unique index.
NoIndex(i, current) == Exists(i) /\ (current # None => Exists(current))

\* Both UPDATEs find their row and the unique index admits the result;
\* otherwise StaleDataError or IntegrityError rolls the transaction back.
ActivationCommits(i, current) ==
    /\ Exists(i)
    /\ current # None => Exists(current)
    /\ UniqueActive(WithActive(i, current))

-----------------------------------------------------------------------------
(* Partitions                                                              *)

\* DETACH needs ACCESS EXCLUSIVE on the parent; ATTACH alone does not wait
\* for readers, so only a release that already has a partition can block.
Blocked(i, n) == partition[i] # None /\ FamilyOf[n] \in held

\* Somebody outside the model (a long query, the Phase B1 build of another
\* release) takes or releases a lock on the data table of f.
Hold(f) ==
    /\ f \notin held
    /\ held' = held \cup {f}
    /\ UNCHANGED <<families, rows, runs, partition, incoming, staging, rejects>>

Unhold(f) ==
    /\ f \in held
    /\ held' = held \ {f}
    /\ UNCHANGED <<families, rows, runs, partition, incoming, staging, rejects>>

RegistryInit ==
    /\ families = {FamilyOf[Seed[i].name] : i \in SeedIds}
    /\ rows = [i \in Ids |->
                 IF i \in SeedIds
                 THEN [name |-> Seed[i].name, state |-> Seed[i].state,
                       checksum |-> Seed[i].source, table |-> TRUE,
                       validation |-> Summarize(StagingStatus[Seed[i].source],
                                                ProductionStatus[Seed[i].source])]
                 ELSE None]
    /\ runs = [p \in Importers |-> None]
    /\ partition = [i \in Ids |-> IF i \in SeedIds THEN Seed[i].source ELSE None]
    /\ incoming = [i \in Ids |-> None]
    /\ staging = [n \in Names |-> None]
    /\ rejects = [n \in Names |-> None]
    /\ held = {}
=============================================================================
