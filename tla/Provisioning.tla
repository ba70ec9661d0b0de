---------------------------- MODULE Provisioning ----------------------------
(***************************************************************************)
(* Who owns what and who may do what in the catalog database: init,        *)
(* migrate and reset (database/init.py, roles.py, migrate.py and the       *)
(* migrations), run by several processes in any order, interrupted         *)
(* anywhere and run again, next to imports, which is what the roles are    *)
(* for.  Each process has the identity the role table gives its command:   *)
(* bootstrap for init and reset, catalog_owner for migrations,             *)
(* catalog_ingest for imports.                                             *)
(***************************************************************************)
EXTENDS Integers

CONSTANTS
    Families,   \* families with a partitioned parent table
    Heads,      \* the head revision of each image that is rolled out, 1..n
    CreatedBy,  \* the revision that creates a family's parent table
    Commands,   \* processes that run init, migrate and reset
    None

ProvisioningAssumption ==
    /\ Heads \subseteq Nat \ {0}
    /\ CreatedBy \in [Families -> Nat \ {0, 1}]
ASSUME ProvisioningAssumption

Roles == {"owner", "ingest", "reader"}
Schemas == {"registry", "data", "staging"}

\* Who owns an object, and who may use a schema and build in it, or read a table and
\* write to it.
SchemaRights == [owner : Roles, users : SUBSET Roles, creators : SUBSET Roles]
TableRights == [owner : Roles, readers : SUBSET Roles, writers : SUBSET Roles]

ASSUME NoneAssumption == None \notin SchemaRights \cup TableRights

\* The registry tables stand together; a family has its parent table and, once
\* imported, a partition.
Registry == [schema |-> "registry", kind |-> "tables", family |-> None]
Parent(f) == [schema |-> "data", kind |-> "parent", family |-> f]
Partition(f) == [schema |-> "data", kind |-> "partition", family |-> f]
Tables == {Registry} \cup {Parent(f) : f \in Families} \cup {Partition(f) : f \in Families}

VARIABLES
    postgis,  \* the extension is installed
    roles,    \* the roles that exist
    granted,  \* what catalog_owner was granted: to create schemas, to act for ingest
    schemas,  \* owner and grants of each schema
    defaults, \* <<schema, creator>>: default privileges for its tables are in place
    tables,   \* owner and grants of each table
    revision, \* the Alembic revision, 0 before any
    image,    \* the head revision of the image commands are started from
    cmds,     \* the commands
    torn      \* history: a reset ran under a command

provisioningVars ==
    <<postgis, roles, granted, schemas, defaults, tables, revision, image, cmds, torn>>

-----------------------------------------------------------------------------
(* Ownership and privileges in PostgreSQL                                  *)

Present(t) == tables[t] # None

\* Mutant of GiveTo: the grants stay as they are.
GiveToAlone(role, object) == [object EXCEPT !.owner = role]

\* ALTER ... OWNER TO: what was granted to the new owner becomes the owner's own,
\* and nothing is left to the old one.
GiveTo(role, object) ==
    IF object.owner = role
    THEN object
    ELSE [x \in DOMAIN object |-> IF x = "owner" THEN role ELSE object[x] \ {role}]

\* The privileges a new table in a schema starts with.
NewTable(schema, creator) ==
    [owner   |-> creator,
     readers |-> IF <<schema, creator>> \in defaults THEN {"ingest", "reader"} \ {creator} ELSE {},
     writers |-> IF <<schema, creator>> \in defaults THEN {"ingest"} \ {creator} ELSE {}]

\* catalog_owner acts for catalog_ingest once it is a member of it.
Acts(role) == {role} \cup (IF role = "owner" /\ "membership" \in granted THEN {"ingest"} ELSE {})

Holds(role, privilege, object) ==
    \/ object.owner \in Acts(role)
    \/ Acts(role) \cap object[privilege] # {}

Uses(role, s) == schemas[s] # None /\ Holds(role, "users", schemas[s])
Builds(role, s) == schemas[s] # None /\ Holds(role, "creators", schemas[s])
Reads(role, t) == Present(t) /\ Holds(role, "readers", tables[t])
Writes(role, t) == Present(t) /\ Holds(role, "writers", tables[t])

\* What an import of family f needs: its rows in the registry, staging tables, a
\* table beside the parent, and the parent itself, which only its owner can
\* attach a partition to.
Importable(f) ==
    /\ "ingest" \in roles
    /\ Uses("ingest", "registry") /\ Writes("ingest", Registry)
    /\ Uses("ingest", "staging") /\ Builds("ingest", "staging")
    /\ Uses("ingest", "data") /\ Builds("ingest", "data")
    /\ Present(Parent(f)) /\ tables[Parent(f)].owner = "ingest"

\* What a query of family f needs.
Queryable(f) ==
    /\ "reader" \in roles
    /\ Uses("reader", "registry") /\ Reads("reader", Registry)
    /\ Uses("reader", "data") /\ Reads("reader", Parent(f))

-----------------------------------------------------------------------------
(* Commands                                                                *)

Command == [kind : {"init", "migrate"},
            pc : {"grants", "schemas", "migrations", "handover", "verify", "done", "failed"},
            head : Heads,       \* the head revision of its image
            wiped : BOOLEAN]    \* history: a reset ran meanwhile

At(p, pc) == cmds[p] # None /\ cmds[p].pc = pc
Running(p) == cmds[p] # None /\ cmds[p].pc \notin {"done", "failed"}
Goto(p, pc) == cmds' = [cmds EXCEPT ![p].pc = pc]

ProvisioningInit ==
    /\ postgis = FALSE
    /\ roles = {}
    /\ granted = {}
    /\ schemas = [s \in Schemas |-> None]
    /\ defaults = {}
    /\ tables = [t \in Tables |-> None]
    /\ revision = 0
    /\ image \in {h \in Heads : \A g \in Heads : h <= g}
    /\ cmds = [p \in Commands |-> None]
    /\ torn = FALSE

\* init starts with the bootstrap transaction, migrate with the schemas.
Start(p, kind) ==
    /\ ~Running(p)
    /\ cmds' = [cmds EXCEPT ![p] = [kind |-> kind, head |-> image, wiped |-> FALSE,
                                    pc |-> IF kind = "init" THEN "grants" ELSE "schemas"]]
    /\ UNCHANGED <<postgis, roles, granted, schemas, defaults, tables, revision, image, torn>>

\* Mutant of GrantedSchema: ingest may build in the data schema alone.
GrantedSchemaDataOnly(s) ==
    LET owned == IF schemas[s] = None
                 THEN [owner |-> "owner", users |-> {}, creators |-> {}]
                 ELSE GiveTo("owner", schemas[s])
    IN [owner    |-> "owner",
        users    |-> owned.users \cup {"ingest"} \cup (IF s = "staging" THEN {} ELSE {"reader"}),
        creators |-> owned.creators \cup (IF s = "data" THEN {"ingest"} ELSE {})]

\* Schema creation, ownership and grants, as one transaction leaves them: the
\* owner role has all three, ingest uses them and builds in two, reader uses two.
GrantedSchema(s) ==
    LET owned == IF schemas[s] = None
                 THEN [owner |-> "owner", users |-> {}, creators |-> {}]
                 ELSE GiveTo("owner", schemas[s])
    IN [owner    |-> "owner",
        users    |-> owned.users \cup {"ingest"} \cup (IF s = "staging" THEN {} ELSE {"reader"}),
        creators |-> owned.creators \cup (IF s = "registry" THEN {} ELSE {"ingest"})]

\* Mutant of GrantDefaults: none for what ingest creates.
GrantDefaultsOfOwner == {<<"registry", "owner">>, <<"data", "owner">>}

\* Whose new tables are granted to whom by default: the owner's in two schemas,
\* the ingest role's among the data.
GrantDefaults == {<<"registry", "owner">>, <<"data", "owner">>, <<"data", "ingest">>}

\* Mutant of Bootstrap: the owner is not made a member of ingest.
BootstrapWithoutMembership(p) ==
    /\ At(p, "grants")
    /\ postgis' = TRUE
    /\ roles' = Roles
    /\ schemas' = [s \in Schemas |-> GrantedSchema(s)]
    /\ defaults' = defaults \cup GrantDefaults
    /\ granted' = {"database"}
    /\ Goto(p, "schemas")
    /\ UNCHANGED <<tables, revision, image, torn>>

\* PostGIS, roles, schemas, grants, default privileges and the membership, in
\* one transaction of the bootstrap identity.
Bootstrap(p) ==
    /\ At(p, "grants")
    /\ postgis' = TRUE
    /\ roles' = Roles
    /\ schemas' = [s \in Schemas |-> GrantedSchema(s)]
    /\ defaults' = defaults \cup GrantDefaults
    /\ granted' = {"database", "membership"}
    /\ Goto(p, "schemas")
    /\ UNCHANGED <<tables, revision, image, torn>>

\* catalog_owner can log in and may create schemas in the database.
OwnerConnects == "owner" \in roles /\ "database" \in granted

\* The Alembic environment ensures the schemas and commits, as catalog_owner.
EnsureSchemas(p) ==
    /\ At(p, "schemas")
    /\ OwnerConnects
    /\ schemas' = [s \in Schemas |->
                     IF schemas[s] = None
                     THEN [owner |-> "owner", users |-> {}, creators |-> {}]
                     ELSE schemas[s]]
    /\ Goto(p, "migrations")
    /\ UNCHANGED <<postgis, roles, granted, defaults, tables, revision, image, torn>>

\* The tables the revisions from the database's to the image's create.
Created(head) ==
    (IF revision = 0 THEN {Registry} ELSE {})
      \cup {Parent(f) : f \in {g \in Families : CreatedBy[g] \in (revision + 1)..head}}

\* An image older than the database does not know its revision; the migrations
\* build in the schemas; the first asserts PostGIS.
Upgradable(head) ==
    /\ OwnerConnects
    /\ \A s \in Schemas : schemas[s] # None
    /\ revision <= head
    /\ revision = 0 => postgis

\* All pending migrations, in one transaction of catalog_owner.
Upgrade(p) ==
    /\ At(p, "migrations")
    /\ Upgradable(cmds[p].head)
    /\ tables' = [t \in Tables |->
                    IF t \in Created(cmds[p].head) THEN NewTable(t.schema, "owner") ELSE tables[t]]
    /\ revision' = cmds[p].head
    /\ Goto(p, IF cmds[p].kind = "init" THEN "handover" ELSE "done")
    /\ UNCHANGED <<postgis, roles, granted, schemas, defaults, image, torn>>

\* Mutant of HandedOver: grants without the change of owner.
HandedOverUnowned(t) ==
    [tables[t] EXCEPT !.readers = @ \cup ({"ingest", "reader"} \ {tables[t].owner}),
                      !.writers = @ \cup ({"ingest"} \ {tables[t].owner})]

\* The data tables go to ingest, and what exists is granted.
HandedOver(t) ==
    LET object == IF t.schema = "data" THEN GiveTo("ingest", tables[t]) ELSE tables[t]
    IN [owner   |-> object.owner,
        readers |-> object.readers \cup ({"ingest", "reader"} \ {object.owner}),
        writers |-> object.writers \cup ({"ingest"} \ {object.owner})]

\* Data tables and the staging schema to catalog_ingest and the catch-all
\* grants, in a second transaction of the bootstrap identity.
HandOver(p) ==
    /\ At(p, "handover")
    /\ \A s \in Schemas : schemas[s] # None
    /\ tables' = [t \in Tables |-> IF Present(t) THEN HandedOver(t) ELSE None]
    /\ schemas' = [schemas EXCEPT !["staging"] = GiveTo("ingest", @)]
    /\ Goto(p, "verify")
    /\ UNCHANGED <<postgis, roles, granted, defaults, revision, image, torn>>

\* init looks for PostGIS and the three schemas before it reports.
Verified == postgis /\ \A s \in Schemas : schemas[s] # None

Verify(p) ==
    /\ At(p, "verify")
    /\ Goto(p, IF Verified THEN "done" ELSE "failed")
    /\ UNCHANGED <<postgis, roles, granted, schemas, defaults, tables, revision, image, torn>>

\* A statement that the server refuses ends the command, and its transaction
\* leaves nothing.
Refused(p) ==
    /\ \/ At(p, "schemas") /\ ~OwnerConnects
       \/ At(p, "migrations") /\ ~Upgradable(cmds[p].head)
       \/ At(p, "handover") /\ \E s \in Schemas : schemas[s] = None
    /\ Goto(p, "failed")
    /\ UNCHANGED <<postgis, roles, granted, schemas, defaults, tables, revision, image, torn>>

\* reset drops the schemas with everything in them and what is granted on them.
Reset ==
    /\ schemas' = [s \in Schemas |-> None]
    /\ tables' = [t \in Tables |-> None]
    /\ defaults' = {}
    /\ revision' = 0
    /\ cmds' = [p \in Commands |->
                  IF Running(p) THEN [cmds[p] EXCEPT !.wiped = TRUE] ELSE cmds[p]]
    /\ torn' = (torn \/ \E p \in Commands : Running(p))
    /\ UNCHANGED <<postgis, roles, granted, image>>

\* A killed command, a lost connection, two commands that meet in the system
\* catalogs: the transactions that are committed stay.
Interrupt(p) ==
    /\ Running(p)
    /\ cmds' = [cmds EXCEPT ![p] = None]
    /\ UNCHANGED <<postgis, roles, granted, schemas, defaults, tables, revision, image, torn>>

\* A newer image, whose migrations may create the tables of new families.
Roll ==
    /\ \E h \in Heads : h > image /\ (\A g \in Heads : g > image => h <= g) /\ image' = h
    /\ UNCHANGED <<postgis, roles, granted, schemas, defaults, tables, revision, cmds, torn>>

\* An import of f attaches a partition that catalog_ingest creates, in place of
\* any it had.
Import(f) ==
    /\ Importable(f)
    /\ tables' = [tables EXCEPT ![Partition(f)] = NewTable("data", "ingest")]
    /\ UNCHANGED <<postgis, roles, granted, schemas, defaults, revision, image, cmds, torn>>

\* Mutant of MigrationsCurrent: any revision will do.
Migrated == revision # 0

\* Health compares the revision with the head of the image it runs from.
MigrationsCurrent == revision = image

\* skycat health, as the reader: the extension, the schemas and the roles are
\* there, the registry can be read and the data schema looked into, and the
\* revision is the image's.  It opens no data table; a parent has its spatial
\* index from the migration that creates it, and what it says of releases and runs
\* is BuiltIsServed and RunningMeansLive of Lifecycle.
Healthy ==
    /\ postgis
    /\ \A s \in Schemas : schemas[s] # None
    /\ roles = Roles
    /\ Uses("reader", "registry") /\ Reads("reader", Registry)
    /\ Uses("reader", "data")
    /\ MigrationsCurrent

CommandStep(p) ==
    \/ Bootstrap(p) \/ EnsureSchemas(p) \/ Upgrade(p) \/ HandOver(p) \/ Verify(p)
    \/ Refused(p)

ProvisioningNext ==
    \/ \E p \in Commands : \/ \E kind \in {"init", "migrate"} : Start(p, kind)
                           \/ CommandStep(p)
                           \/ Interrupt(p)
    \/ \E f \in Families : Import(f)
    \/ Reset
    \/ Roll

ProvisioningSpec == ProvisioningInit /\ [][ProvisioningNext]_provisioningVars

-----------------------------------------------------------------------------
\* Every variable keeps its type, and nothing is granted to an object's owner.
ProvisioningTypeOK ==
    /\ postgis \in BOOLEAN
    /\ roles \subseteq Roles
    /\ granted \subseteq {"database", "membership"}
    /\ \A s \in Schemas : schemas[s] # None =>
           schemas[s] \in [owner : Roles, users : SUBSET (Roles \ {schemas[s].owner}),
                           creators : SUBSET (Roles \ {schemas[s].owner})]
    /\ defaults \subseteq GrantDefaults
    /\ \A t \in Tables : Present(t) =>
           tables[t] \in [owner : Roles, readers : SUBSET (Roles \ {tables[t].owner}),
                          writers : SUBSET (Roles \ {tables[t].owner})]
    /\ revision \in Heads \cup {0}
    /\ image \in Heads
    /\ \A p \in Commands : cmds[p] # None => cmds[p] \in Command
    /\ torn \in BOOLEAN

Ready(head) == \A f \in Families : CreatedBy[f] <= head => Importable(f) /\ Queryable(f)

\* init is the repair path (runbook): whatever earlier commands did and wherever
\* they were cut short, one that runs to its end, with no reset under it and an
\* image no older than the database, succeeds, and leaves every family of its
\* image importable and queryable.
InitRepairs ==
    [][\A p \in Commands :
          /\ Running(p) /\ cmds[p].kind = "init" /\ ~cmds[p].wiped /\ revision <= cmds[p].head
          /\ cmds'[p] # None /\ cmds'[p].pc \in {"done", "failed"}
          => cmds'[p].pc = "done" /\ Ready(cmds[p].head)']_provisioningVars

\* init is non-destructive: run again beside running imports and queries, and
\* cut short anywhere, no step of it takes from a role what an import or a query
\* needs, though it moves the staging schema to another owner and back.
NothingTakenAway ==
    [][schemas'["registry"] # None
          => \A f \in Families : /\ Importable(f) => Importable(f)'
                                 /\ Queryable(f) => Queryable(f)']_provisioningVars

\* catalog_owner can alter every table at any time, those handed to
\* catalog_ingest and the partitions it creates included.
OwnerMigrates == \A t \in Tables : Present(t) => tables[t].owner \in Acts("owner")

\* A partition is readable from the moment it is attached, with no grant of its
\* own.
PartitionsReadable ==
    \A f \in Families : Present(Partition(f)) => Reads("reader", Partition(f))

\* "Distinguishes the many ways the catalog store can be unhealthy" (health.py:3):
\* when health is green, queries of every family of the image have the rights they
\* need, though health itself reads the registry alone, and init and migrate may be
\* cut short anywhere.  Not so after a reset under a running command, whose tables
\* may have been created without default privileges.
HealthyMeansQueryable ==
    Healthy /\ ~torn => \A f \in Families : CreatedBy[f] <= image => Queryable(f)
=============================================================================
