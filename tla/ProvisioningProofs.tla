------------------------- MODULE ProvisioningProofs -------------------------
(***************************************************************************)
(* The safety of provisioning, for any number of processes, families and   *)
(* images, however init, migrate, reset and imports interleave and are cut *)
(* short.                                                                  *)
(***************************************************************************)
EXTENDS Provisioning, TLAPS

\* An object's rights, which leave its owner out.
SchemaOK(o) == o \in SchemaRights /\ o.owner \notin o.users /\ o.owner \notin o.creators
TableOK(o) == o \in TableRights /\ o.owner \notin o.readers /\ o.owner \notin o.writers

\* The type invariant, with the functions' domains.
Typed ==
    /\ postgis \in BOOLEAN /\ torn \in BOOLEAN
    /\ roles \subseteq Roles
    /\ granted \subseteq {"database", "membership"}
    /\ schemas \in [Schemas -> SchemaRights \cup {None}]
    /\ tables \in [Tables -> TableRights \cup {None}]
    /\ \A s \in Schemas : schemas[s] # None => SchemaOK(schemas[s])
    /\ \A t \in Tables : tables[t] # None => TableOK(tables[t])
    /\ revision \in Heads \cup {0}
    /\ image \in Heads
    /\ cmds \in [Commands -> Command \cup {None}]

\* Only the staging schema and the data tables ever go to catalog_ingest.
Owned ==
    /\ \A s \in {"registry", "data"} : schemas[s] # None => schemas[s].owner = "owner"
    /\ schemas["staging"] # None => schemas["staging"].owner \in {"owner", "ingest"}
    /\ Present(Registry) => tables[Registry].owner = "owner"
    /\ \A t \in Tables : Present(t) => tables[t].owner \in {"owner", "ingest"}

\* The revision says which tables there are.
Revised ==
    /\ Present(Registry) <=> revision # 0
    /\ \A f \in Families : Present(Parent(f)) <=> CreatedBy[f] <= revision

\* What the bootstrap transaction does, it does at once.
Together ==
    /\ defaults \in {{}, GrantDefaults}
    /\ schemas["data"] # None /\ "ingest" \in schemas["data"].users
          => defaults = GrantDefaults

\* What an init has behind it once its first transaction is committed, as long as
\* nobody resets the database.
Bootstrapped ==
    /\ postgis
    /\ roles = Roles
    /\ "database" \in granted
    /\ defaults = GrantDefaults
    /\ \A s \in Schemas : schemas[s] # None
    /\ {"ingest", "reader"} \subseteq schemas["registry"].users
    /\ {"ingest", "reader"} \subseteq schemas["data"].users
    /\ "ingest" \in schemas["data"].creators
    /\ Uses("ingest", "staging") /\ Builds("ingest", "staging")

\* Which commands are past which transaction, and what that guarantees.
InitOK(p) ==
    /\ cmds[p] # None /\ cmds[p].pc \in {"handover", "verify"} => cmds[p].kind = "init"
    /\ cmds[p] # None /\ cmds[p].wiped => torn
    /\ /\ cmds[p] # None
       /\ cmds[p].kind = "init"
       /\ cmds[p].pc \in {"schemas", "migrations", "handover", "verify"}
       => /\ "membership" \in granted
          /\ ~cmds[p].wiped =>
                /\ Bootstrapped
                /\ cmds[p].pc \in {"handover", "verify"} => cmds[p].head <= revision
                /\ cmds[p].pc = "verify" => Ready(cmds[p].head)

\* Unless a reset ran under a command, the registry is not readable before the
\* families that are there, and whatever is created from then on is readable.
RegistryLast ==
    ~torn /\ Present(Registry) /\ "reader" \in tables[Registry].readers
        => /\ defaults = GrantDefaults
           /\ \A f \in Families : Present(Parent(f)) => "reader" \in tables[Parent(f)].readers

ProvisioningInv ==
    /\ Typed
    /\ Owned
    /\ Revised
    /\ Together
    /\ RegistryLast
    /\ OwnerMigrates
    /\ PartitionsReadable
    /\ \A p \in Commands : InitOK(p)

-----------------------------------------------------------------------------
(* Objects                                                                 *)

\* ALTER ... OWNER TO, as the record it leaves.
LEMMA GivenSchema ==
    ASSUME NEW role \in Roles, NEW o \in SchemaRights,
           o.owner \notin o.users, o.owner \notin o.creators
    PROVE  GiveTo(role, o) =
              [owner |-> role, users |-> o.users \ {role}, creators |-> o.creators \ {role}]
<1>1. o = [owner |-> o.owner, users |-> o.users, creators |-> o.creators]
  BY DEF SchemaRights
<1>2. DOMAIN o = {"owner", "users", "creators"}
  BY <1>1
<1>3. CASE o.owner = role
  BY <1>1, <1>3 DEF GiveTo
<1>4. CASE o.owner # role
  BY <1>2, <1>4 DEF GiveTo
<1> QED
  BY <1>3, <1>4

\* The same of a table.
LEMMA GivenTable ==
    ASSUME NEW role \in Roles, NEW o \in TableRights,
           o.owner \notin o.readers, o.owner \notin o.writers
    PROVE  GiveTo(role, o) =
              [owner |-> role, readers |-> o.readers \ {role}, writers |-> o.writers \ {role}]
<1>1. o = [owner |-> o.owner, readers |-> o.readers, writers |-> o.writers]
  BY DEF TableRights
<1>2. DOMAIN o = {"owner", "readers", "writers"}
  BY <1>1
<1>3. CASE o.owner = role
  BY <1>1, <1>3 DEF GiveTo
<1>4. CASE o.owner # role
  BY <1>2, <1>4 DEF GiveTo
<1> QED
  BY <1>3, <1>4

\* What the bootstrap transaction makes of a schema.
LEMMA GrantedSchemaIs ==
    ASSUME Typed, NEW s \in Schemas
    PROVE  /\ SchemaOK(GrantedSchema(s))
           /\ GrantedSchema(s).owner = "owner"
           /\ "ingest" \in GrantedSchema(s).users
           /\ s # "staging" => "reader" \in GrantedSchema(s).users
           /\ s # "registry" => "ingest" \in GrantedSchema(s).creators
           /\ schemas[s] # None =>
                 /\ schemas[s].users \ {"owner"} \subseteq GrantedSchema(s).users
                 /\ schemas[s].creators \ {"owner"} \subseteq GrantedSchema(s).creators
<1> DEFINE owned == IF schemas[s] = None
                    THEN [owner |-> "owner", users |-> {}, creators |-> {}]
                    ELSE [owner |-> "owner", users |-> schemas[s].users \ {"owner"},
                          creators |-> schemas[s].creators \ {"owner"}]
<1> DEFINE U == owned.users \cup {"ingest"} \cup (IF s = "staging" THEN {} ELSE {"reader"})
           C == owned.creators \cup (IF s = "registry" THEN {} ELSE {"ingest"})
<1>1. GrantedSchema(s) = [owner |-> "owner", users |-> U, creators |-> C]
  BY GivenSchema DEF Typed, GrantedSchema, SchemaOK, Roles
<1>2. owned \in SchemaRights /\ "owner" \notin owned.users /\ "owner" \notin owned.creators
      /\ owned.owner = "owner"
  BY DEF Typed, SchemaOK, SchemaRights, Roles
<1>3. schemas[s] # None => /\ owned.users = schemas[s].users \ {"owner"}
                           /\ owned.creators = schemas[s].creators \ {"owner"}
  OBVIOUS
<1> HIDE DEF owned, U, C
<1> QED
  BY <1>1, <1>2, <1>3 DEF U, C, SchemaOK, SchemaRights, Roles

\* What the hand-over makes of a table: it takes nothing from ingest and reader.
LEMMA HandedOverIs ==
    ASSUME Typed, Owned, NEW t \in Tables, Present(t)
    PROVE  /\ TableOK(HandedOver(t))
           /\ HandedOver(t).owner = IF t.schema = "data" THEN "ingest" ELSE tables[t].owner
           /\ "reader" \in HandedOver(t).readers
           /\ HandedOver(t).owner = "ingest" \/ "ingest" \in HandedOver(t).writers
<1> DEFINE object == IF t.schema = "data"
                     THEN [owner |-> "ingest", readers |-> tables[t].readers \ {"ingest"},
                           writers |-> tables[t].writers \ {"ingest"}]
                     ELSE tables[t]
<1> DEFINE R == object.readers \cup ({"ingest", "reader"} \ {object.owner})
           W == object.writers \cup ({"ingest"} \ {object.owner})
<1>1. HandedOver(t) = [owner |-> object.owner, readers |-> R, writers |-> W]
  BY GivenTable DEF Typed, HandedOver, TableOK, Present, Roles
<1>2. TableOK(object) /\ object.owner \in {"owner", "ingest"}
  BY DEF Typed, TableOK, TableRights, Roles, Present, Owned
<1>3. object.owner = IF t.schema = "data" THEN "ingest" ELSE tables[t].owner
  OBVIOUS
<1> HIDE DEF object, R, W
<1> QED
  BY <1>1, <1>2, <1>3 DEF R, W, TableOK, TableRights, Roles

\* A new table, and who can read it under default privileges.
LEMMA NewTableIs ==
    ASSUME NEW schema, NEW creator \in {"owner", "ingest"}
    PROVE  /\ TableOK(NewTable(schema, creator))
           /\ NewTable(schema, creator).owner = creator
           /\ "reader" \in NewTable(schema, creator).readers <=> <<schema, creator>> \in defaults
BY DEF TableOK, TableRights, Roles, NewTable

\* Tables of different kinds or families are different tables.
LEMMA TablesDiffer ==
    /\ \A f \in Families :
          /\ Parent(f) \in Tables /\ Partition(f) \in Tables
          /\ Parent(f) # Registry /\ Partition(f) # Registry
          /\ Parent(f).schema = "data" /\ Partition(f).schema = "data"
    /\ \A f, g \in Families :
          /\ Parent(f) # Partition(g)
          /\ Parent(f) = Parent(g) => f = g
          /\ Partition(f) = Partition(g) => f = g
    /\ Registry \in Tables
    /\ Registry.schema = "registry"
BY DEF Parent, Partition, Registry, Tables

\* ingest and reader act for themselves alone.
LEMMA HoldsIs ==
    ASSUME NEW role \in {"ingest", "reader"}, NEW privilege, NEW o
    PROVE  Holds(role, privilege, o) <=> o.owner = role \/ role \in o[privilege]
BY DEF Holds, Acts

\* What Alembic's next step leaves of each table.
LEMMA UpgradedIs ==
    ASSUME NEW p \in Commands, Upgrade(p)
    PROVE  /\ tables'[Registry] = IF revision = 0 THEN NewTable("registry", "owner")
                                                  ELSE tables[Registry]
           /\ \A f \in Families :
                 /\ tables'[Parent(f)] =
                       IF CreatedBy[f] \in (revision + 1)..cmds[p].head
                       THEN NewTable("data", "owner") ELSE tables[Parent(f)]
                 /\ tables'[Partition(f)] = tables[Partition(f)]
<1>1. Registry \in Created(cmds[p].head) <=> revision = 0
  BY TablesDiffer DEF Created
<1>2. ASSUME NEW f \in Families
      PROVE  /\ Parent(f) \in Created(cmds[p].head) <=> CreatedBy[f] \in (revision + 1)..cmds[p].head
             /\ Partition(f) \notin Created(cmds[p].head)
  <2> DEFINE built == {g \in Families : CreatedBy[g] \in (revision + 1)..cmds[p].head}
  <2>1. built \subseteq Families /\ (f \in built <=> CreatedBy[f] \in (revision + 1)..cmds[p].head)
    OBVIOUS
  <2>2. Created(cmds[p].head) =
            (IF revision = 0 THEN {Registry} ELSE {}) \cup {Parent(g) : g \in built}
    BY Zenon DEF Created
  <2> HIDE DEF built
  <2>3. \A t : t \in Created(cmds[p].head)
                <=> (revision = 0 /\ t = Registry) \/ \E g \in built : t = Parent(g)
    BY <2>2
  <2>4. /\ Parent(f) # Registry /\ Partition(f) # Registry
        /\ \A g \in built : Partition(f) # Parent(g) /\ (Parent(f) = Parent(g) => f = g)
    BY <2>1 DEF Parent, Partition, Registry
  <2>5. Parent(f) \in Created(cmds[p].head) <=> f \in built
    BY <2>3, <2>4
  <2>6. Partition(f) \notin Created(cmds[p].head)
    BY <2>3, <2>4
  <2> QED
    BY <2>1, <2>5, <2>6
<1> QED
  BY <1>1, <1>2, TablesDiffer DEF Upgrade

\* A command moves on, and the others do not.
LEMMA GoneTo ==
    ASSUME Typed, NEW p \in Commands, cmds[p] # None, NEW pc, Goto(p, pc),
           pc \in {"grants", "schemas", "migrations", "handover", "verify", "done", "failed"}
    PROVE  /\ cmds' \in [Commands -> Command \cup {None}]
           /\ cmds[p] \in Command
           /\ cmds'[p].pc = pc
           /\ cmds'[p].kind = cmds[p].kind
           /\ cmds'[p].head = cmds[p].head
           /\ cmds'[p].wiped = cmds[p].wiped
           /\ \A q \in Commands \ {p} : cmds'[q] = cmds[q]
<1>1. cmds[p] \in Command
  BY DEF Typed
<1>2. cmds' = [cmds EXCEPT ![p] = [cmds[p] EXCEPT !.pc = pc]]
  BY DEF Goto
<1>3. [cmds[p] EXCEPT !.pc = pc] =
          [kind |-> cmds[p].kind, pc |-> pc, head |-> cmds[p].head, wiped |-> cmds[p].wiped]
  BY <1>1 DEF Command
<1> QED
  BY <1>1, <1>2, <1>3 DEF Typed, Command

\* The typed invariant says what ProvisioningTypeOK says.
LEMMA TypedIsTypeOK ==
    ASSUME Typed, Together
    PROVE  ProvisioningTypeOK
<1>1. \A s \in Schemas : schemas[s] # None =>
           schemas[s] \in [owner : Roles, users : SUBSET (Roles \ {schemas[s].owner}),
                           creators : SUBSET (Roles \ {schemas[s].owner})]
  BY DEF Typed, SchemaOK, SchemaRights
<1>2. \A t \in Tables : Present(t) =>
           tables[t] \in [owner : Roles, readers : SUBSET (Roles \ {tables[t].owner}),
                          writers : SUBSET (Roles \ {tables[t].owner})]
  BY DEF Typed, TableOK, TableRights, Present
<1> QED
  BY <1>1, <1>2 DEF Typed, Together, ProvisioningTypeOK

-----------------------------------------------------------------------------
(* What no step but a reset takes away                                     *)

\* The step takes no import and no query what it needs.
RightsKept ==
    \A f \in Families : /\ Importable(f) => Importable(f)'
                        /\ Queryable(f) => Queryable(f)'

\* Where roles, schemas and grants are as they were, and the registry and the
\* parent of f too, imports and queries of f can do what they could.
LEMMA SameRights ==
    ASSUME NEW f \in Families,
           roles \subseteq roles', schemas' = schemas,
           tables'[Registry] = tables[Registry],
           tables'[Parent(f)] = tables[Parent(f)]
    PROVE  /\ Importable(f) => Importable(f)'
           /\ Queryable(f) => Queryable(f)'
BY HoldsIs DEF Importable, Queryable, Uses, Builds, Reads, Writes, Present, Holds, Acts

\* The bootstrap transaction grants what it takes with the ownership.
LEMMA BootstrapKeeps ==
    ASSUME ProvisioningInv, NEW p \in Commands, Bootstrap(p), NEW f \in Families
    PROVE  /\ Importable(f) => Importable(f)'
           /\ Queryable(f) => Queryable(f)'
<1>1. \A s \in Schemas : schemas'[s] = GrantedSchema(s)
  BY DEF Bootstrap
<1>2. \A s \in Schemas : GrantedSchema(s) # None
  BY GrantedSchemaIs, NoneAssumption DEF ProvisioningInv, SchemaOK
<1>3. Uses("ingest", "registry")' /\ Uses("reader", "registry")'
  BY <1>1, <1>2, GrantedSchemaIs, HoldsIs DEF ProvisioningInv, Uses, Schemas, Holds, Acts
<1>4. Uses("ingest", "data")' /\ Uses("reader", "data")' /\ Builds("ingest", "data")'
  BY <1>1, <1>2, GrantedSchemaIs, HoldsIs DEF ProvisioningInv, Uses, Builds, Schemas, Holds, Acts
<1>5. Uses("ingest", "staging")' /\ Builds("ingest", "staging")'
  BY <1>1, <1>2, GrantedSchemaIs, HoldsIs DEF ProvisioningInv, Uses, Builds, Schemas, Holds, Acts
<1>6. roles' = Roles /\ tables' = tables
  BY DEF Bootstrap
<1> QED
  BY <1>3, <1>4, <1>5, <1>6
     DEF Importable, Queryable, Reads, Writes, Present, Holds, Acts, Roles

\* The schemas there are keep their rights.
LEMMA EnsureSchemasKeeps ==
    ASSUME ProvisioningInv, NEW p \in Commands, EnsureSchemas(p), NEW f \in Families
    PROVE  /\ Importable(f) => Importable(f)'
           /\ Queryable(f) => Queryable(f)'
<1>1. \A s \in Schemas : schemas[s] # None => schemas'[s] = schemas[s]
  BY DEF EnsureSchemas
<1>2. roles' = roles /\ tables' = tables
  BY DEF EnsureSchemas
<1> QED
  BY <1>1, <1>2
     DEF Importable, Queryable, Uses, Builds, Reads, Writes, Present, Holds, Acts, Schemas

\* The migrations create what is not there.
LEMMA UpgradeKeeps ==
    ASSUME ProvisioningInv, NEW p \in Commands, Upgrade(p), NEW f \in Families
    PROVE  /\ Importable(f) => Importable(f)'
           /\ Queryable(f) => Queryable(f)'
<1>1. Present(Registry) => tables'[Registry] = tables[Registry]
  BY UpgradedIs DEF ProvisioningInv, Revised
<1>2. revision \in Nat /\ CreatedBy[f] \in Nat
  BY ProvisioningAssumption DEF ProvisioningInv, Typed, ProvisioningAssumption
<1>3. Present(Parent(f)) => tables'[Parent(f)] = tables[Parent(f)]
  BY <1>2, UpgradedIs DEF ProvisioningInv, Revised
<1>4. roles' = roles /\ schemas' = schemas
  BY DEF Upgrade
<1>5. CASE Present(Registry) /\ Present(Parent(f))
  BY <1>1, <1>3, <1>4, <1>5, SameRights
<1>6. CASE ~(Present(Registry) /\ Present(Parent(f)))
  BY <1>6 DEF Importable, Queryable, Reads, Writes
<1> QED
  BY <1>5, <1>6

\* The second bootstrap transaction: the data tables go to ingest, and what ingest
\* and reader may do with the rest they may still do.
LEMMA HandOverKeeps ==
    ASSUME ProvisioningInv, NEW p \in Commands, HandOver(p), NEW f \in Families
    PROVE  /\ Importable(f) => Importable(f)'
           /\ Queryable(f) => Queryable(f)'
<1>1. /\ \A t \in Tables : Present(t) => tables'[t] = HandedOver(t) /\ tables'[t] # None
      /\ \A t \in {Registry, Parent(f)} : t \in Tables
  BY HandedOverIs, TablesDiffer, NoneAssumption DEF HandOver, ProvisioningInv, TableOK
<1>2. Present(Registry) => Reads("reader", Registry)' /\ Writes("ingest", Registry)'
  BY <1>1, HandedOverIs, TablesDiffer
     DEF ProvisioningInv, Reads, Writes, Present, Holds, Acts
<1>3. Present(Parent(f)) => /\ Reads("reader", Parent(f))'
                            /\ Present(Parent(f))' /\ tables'[Parent(f)].owner = "ingest"
  BY <1>1, HandedOverIs, TablesDiffer
     DEF ProvisioningInv, Reads, Present, Holds, Acts
<1>4. /\ \A s \in {"registry", "data"} : schemas'[s] = schemas[s]
      /\ schemas'["staging"] # None /\ schemas'["staging"].owner = "ingest"
      /\ roles' = roles
  BY GivenSchema, NoneAssumption DEF HandOver, Schemas, ProvisioningInv, Typed, SchemaOK, Roles, SchemaRights
<1> QED
  BY <1>2, <1>3, <1>4
     DEF Importable, Queryable, Uses, Builds, Reads, Writes, Holds, Acts

\* No step but a reset takes a role's rights away.
LEMMA Kept ==
    ASSUME ProvisioningInv, [ProvisioningNext]_provisioningVars, ~Reset, NEW f \in Families
    PROVE  /\ Importable(f) => Importable(f)'
           /\ Queryable(f) => Queryable(f)'
<1>1. ASSUME NEW p \in Commands, Bootstrap(p) \/ EnsureSchemas(p) \/ Upgrade(p) \/ HandOver(p)
      PROVE  /\ Importable(f) => Importable(f)'
             /\ Queryable(f) => Queryable(f)'
  BY <1>1, BootstrapKeeps, EnsureSchemasKeeps, UpgradeKeeps, HandOverKeeps
<1>2. ASSUME NEW p \in Commands, NEW kind, Start(p, kind) \/ Verify(p) \/ Refused(p) \/ Interrupt(p)
      PROVE  /\ Importable(f) => Importable(f)'
             /\ Queryable(f) => Queryable(f)'
  BY <1>2, SameRights DEF Start, Verify, Refused, Interrupt
<1>3. ASSUME NEW g \in Families, Import(g)
      PROVE  /\ Importable(f) => Importable(f)'
             /\ Queryable(f) => Queryable(f)'
  <2>1. Partition(g) # Registry /\ Partition(g) # Parent(f)
    BY DEF Partition, Parent, Registry
  <2>2. Registry \in Tables /\ Parent(f) \in Tables /\ tables \in [Tables -> TableRights \cup {None}]
    BY TablesDiffer DEF ProvisioningInv, Typed
  <2>3. tables'[Registry] = tables[Registry] /\ tables'[Parent(f)] = tables[Parent(f)]
    BY <1>3, <2>1, <2>2 DEF Import
  <2> QED
    BY <1>3, <2>3, SameRights DEF Import
<1>4. CASE Roll \/ UNCHANGED provisioningVars
  BY <1>4, SameRights DEF Roll, provisioningVars
<1> QED
  BY <1>1, <1>2, <1>3, <1>4 DEF ProvisioningNext, CommandStep

-----------------------------------------------------------------------------
(* The invariant                                                           *)

\* What the invariant says of the database alone.
DatabaseOK ==
    /\ Owned
    /\ Revised
    /\ Together
    /\ RegistryLast
    /\ OwnerMigrates
    /\ PartitionsReadable

\* A step that leaves the database alone.
LEMMA SameDatabase ==
    ASSUME DatabaseOK,
           UNCHANGED <<postgis, roles, granted, schemas, defaults, tables, revision, torn>>
    PROVE  /\ DatabaseOK'
           /\ Bootstrapped => Bootstrapped'
<1>1. (Owned /\ Revised /\ Together /\ RegistryLast)'
  BY DEF DatabaseOK, Owned, Revised, Together, RegistryLast, Present
<1>2. (OwnerMigrates /\ PartitionsReadable)'
  BY DEF DatabaseOK, OwnerMigrates, PartitionsReadable, Reads, Present, Holds, Acts
<1>3. Bootstrapped => Bootstrapped'
  BY DEF Bootstrapped, Uses, Builds, Holds, Acts
<1> QED
  BY <1>1, <1>2, <1>3 DEF DatabaseOK

\* A command that does not move keeps its guarantees where the database keeps its
\* own.
LEMMA OthersOK ==
    ASSUME ProvisioningInv, RightsKept,
           NEW q \in Commands, cmds'[q] = cmds[q],
           Bootstrapped => Bootstrapped',
           granted \subseteq granted', torn => torn',
           revision' \in Nat, revision <= revision'
    PROVE  InitOK(q)'
<1>1. revision \in Nat /\ cmds[q] \in Command \cup {None} /\ InitOK(q)
  BY ProvisioningAssumption DEF ProvisioningInv, Typed, ProvisioningAssumption
<1>2. cmds[q] # None => cmds[q].head \in Nat
  BY <1>1, ProvisioningAssumption DEF ProvisioningAssumption, Command
<1>3. ASSUME NEW head, Ready(head)
      PROVE  Ready(head)'
  BY <1>3 DEF Ready, RightsKept
<1> QED
  BY <1>1, <1>2, <1>3 DEF InitOK

\* A step that leaves the database alone and touches one command at most.
LEMMA CommandAlone ==
    ASSUME ProvisioningInv,
           UNCHANGED <<postgis, roles, granted, schemas, defaults, tables, revision, torn>>,
           image' \in Heads,
           cmds' \in [Commands -> Command \cup {None}],
           NEW p \in Commands,
           InitOK(p)',
           \A q \in Commands \ {p} : cmds'[q] = cmds[q]
    PROVE  ProvisioningInv'
<1>1. DatabaseOK' /\ (Bootstrapped => Bootstrapped')
  BY SameDatabase DEF ProvisioningInv, DatabaseOK
<1>2. Typed'
  BY DEF ProvisioningInv, Typed
<1>3. revision' \in Nat /\ revision <= revision'
  BY ProvisioningAssumption DEF ProvisioningInv, Typed, ProvisioningAssumption
<1>4. RightsKept
  BY SameRights DEF RightsKept
<1>5. \A q \in Commands \ {p} : InitOK(q)'
  BY <1>1, <1>3, <1>4, OthersOK
<1> QED
  BY <1>1, <1>2, <1>5 DEF ProvisioningInv, DatabaseOK

\* A command that starts relies on nothing yet.
LEMMA StartKeeps ==
    ASSUME ProvisioningInv, NEW p \in Commands, NEW kind \in {"init", "migrate"}, Start(p, kind)
    PROVE  ProvisioningInv'
<1> DEFINE begun == [kind |-> kind, head |-> image, wiped |-> FALSE,
                     pc |-> IF kind = "init" THEN "grants" ELSE "schemas"]
<1>1. begun \in Command
  BY DEF ProvisioningInv, Typed, Command
<1>2. /\ begun.pc \notin {"handover", "verify"}
      /\ ~begun.wiped
      /\ begun.kind = "init" => begun.pc = "grants"
  OBVIOUS
<1>3. cmds' = [cmds EXCEPT ![p] = begun]
  BY DEF Start
<1> HIDE DEF begun
<1>4. /\ cmds' \in [Commands -> Command \cup {None}]
      /\ cmds'[p] = begun
      /\ \A q \in Commands \ {p} : cmds'[q] = cmds[q]
  BY <1>1, <1>3 DEF ProvisioningInv, Typed
<1>5. InitOK(p)'
  BY <1>2, <1>4 DEF InitOK
<1> QED
  BY <1>4, <1>5, CommandAlone DEF Start, ProvisioningInv, Typed

\* A command that ends, in success or failure, relies on nothing any more.
LEMMA EndKeeps ==
    ASSUME ProvisioningInv, NEW p \in Commands, Verify(p) \/ Refused(p)
    PROVE  ProvisioningInv'
<1>1. PICK pc \in {"done", "failed"} : Goto(p, pc)
  BY DEF Verify, Refused
<1>2. cmds[p] # None
  BY DEF Verify, Refused, At
<1>3. /\ cmds' \in [Commands -> Command \cup {None}]
      /\ cmds'[p].pc = pc
      /\ cmds'[p].wiped = cmds[p].wiped
      /\ \A q \in Commands \ {p} : cmds'[q] = cmds[q]
  BY <1>1, <1>2, GoneTo DEF ProvisioningInv
<1>4. torn' = torn
  BY DEF Verify, Refused
<1>5. InitOK(p)'
  BY <1>2, <1>3, <1>4 DEF InitOK, ProvisioningInv
<1> QED
  BY <1>3, <1>5, CommandAlone DEF Verify, Refused, ProvisioningInv, Typed

\* A command that is killed leaves the database as its transactions left it.
LEMMA InterruptKeeps ==
    ASSUME ProvisioningInv, NEW p \in Commands, Interrupt(p)
    PROVE  ProvisioningInv'
<1>1. /\ cmds' \in [Commands -> Command \cup {None}]
      /\ cmds'[p] = None
      /\ \A q \in Commands \ {p} : cmds'[q] = cmds[q]
  BY DEF Interrupt, ProvisioningInv, Typed
<1>2. InitOK(p)'
  BY <1>1 DEF InitOK
<1> QED
  BY <1>1, <1>2, CommandAlone DEF Interrupt, ProvisioningInv, Typed

\* A newer image, or nothing at all.
LEMMA RollKeeps ==
    ASSUME ProvisioningInv, Roll \/ UNCHANGED provisioningVars
    PROVE  ProvisioningInv'
<1>1. UNCHANGED <<postgis, roles, granted, schemas, defaults, tables, revision, torn, cmds>>
  BY DEF Roll, provisioningVars
<1>2. DatabaseOK' /\ (Bootstrapped => Bootstrapped')
  BY <1>1, SameDatabase DEF ProvisioningInv, DatabaseOK
<1>3. image' \in Heads
  BY DEF Roll, provisioningVars, ProvisioningInv, Typed
<1>4. RightsKept
  BY <1>1, SameRights DEF RightsKept
<1>5. revision' \in Nat /\ revision <= revision'
  BY <1>1, ProvisioningAssumption DEF ProvisioningInv, Typed, ProvisioningAssumption
<1>6. \A q \in Commands : InitOK(q)'
  BY <1>1, <1>2, <1>4, <1>5, OthersOK
<1> QED
  BY <1>1, <1>2, <1>3, <1>6 DEF ProvisioningInv, DatabaseOK, Typed

\* The bootstrap transaction keeps the invariant, and does what Bootstrapped says.
LEMMA BootstrapInv ==
    ASSUME ProvisioningInv, NEW p \in Commands, Bootstrap(p)
    PROVE  ProvisioningInv'
<1>1. /\ \A s \in Schemas : schemas'[s] = GrantedSchema(s) /\ SchemaOK(schemas'[s])
      /\ schemas' \in [Schemas -> SchemaRights \cup {None}]
      /\ \A s \in Schemas : schemas'[s] # None
  BY GrantedSchemaIs, NoneAssumption DEF Bootstrap, ProvisioningInv, SchemaOK
<1>2. /\ postgis' = TRUE /\ roles' = Roles /\ granted' = {"database", "membership"}
      /\ defaults' = GrantDefaults
      /\ UNCHANGED <<tables, revision, image, torn>>
  BY DEF Bootstrap, ProvisioningInv, Together
<1>3. /\ cmds' \in [Commands -> Command \cup {None}]
      /\ cmds'[p].pc = "schemas"
      /\ cmds'[p].wiped = cmds[p].wiped
      /\ cmds[p] # None
      /\ \A q \in Commands \ {p} : cmds'[q] = cmds[q]
  BY GoneTo DEF ProvisioningInv, Bootstrap, At
<1>4. Typed'
  BY <1>1, <1>2, <1>3 DEF ProvisioningInv, Typed
<1>5. Owned'
  BY <1>1, <1>2, GrantedSchemaIs DEF ProvisioningInv, Owned, Present, Schemas
<1>6. Revised' /\ Together' /\ RegistryLast'
  BY <1>2 DEF ProvisioningInv, Revised, Together, RegistryLast, Present
<1>7. OwnerMigrates' /\ PartitionsReadable'
  BY <1>2 DEF ProvisioningInv, Owned, OwnerMigrates, PartitionsReadable, Reads, Present, Holds, Acts
<1>8. Bootstrapped'
  BY <1>1, <1>2, GrantedSchemaIs
     DEF ProvisioningInv, Bootstrapped, Uses, Builds, Holds, Acts, Schemas
<1>9. InitOK(p)'
  BY <1>2, <1>3, <1>8 DEF ProvisioningInv, InitOK
<1>10. \A q \in Commands \ {p} : InitOK(q)'
  <2>1. RightsKept
    BY BootstrapKeeps DEF RightsKept
  <2>2. revision' \in Nat /\ revision <= revision' /\ granted \subseteq granted'
    BY <1>2, ProvisioningAssumption DEF ProvisioningInv, Typed, ProvisioningAssumption
  <2> QED
    BY <1>2, <1>3, <1>8, <2>1, <2>2, OthersOK
<1> QED
  BY <1>4, <1>5, <1>6, <1>7, <1>9, <1>10 DEF ProvisioningInv

\* The Alembic environment creates what schemas are missing, for the owner.
LEMMA EnsureSchemasInv ==
    ASSUME ProvisioningInv, NEW p \in Commands, EnsureSchemas(p)
    PROVE  ProvisioningInv'
<1> DEFINE bare == [owner |-> "owner", users |-> {}, creators |-> {}]
<1>1. SchemaOK(bare) /\ bare.owner = "owner" /\ bare.users = {} /\ bare # None
  BY NoneAssumption DEF SchemaOK, SchemaRights, Roles
<1>2. schemas' = [s \in Schemas |-> IF schemas[s] = None THEN bare ELSE schemas[s]]
  BY DEF EnsureSchemas
<1> HIDE DEF bare
<1>3. /\ schemas' \in [Schemas -> SchemaRights \cup {None}]
      /\ \A s \in Schemas : /\ SchemaOK(schemas'[s])
                            /\ schemas'[s] # None
                            /\ schemas[s] # None => schemas'[s] = schemas[s]
                            /\ schemas[s] = None => schemas'[s] = bare
  BY <1>1, <1>2 DEF ProvisioningInv, Typed, SchemaOK
<1>4. UNCHANGED <<postgis, roles, granted, defaults, tables, revision, image, torn>>
  BY DEF EnsureSchemas
<1>5. /\ cmds' \in [Commands -> Command \cup {None}]
      /\ cmds'[p].pc = "migrations"
      /\ cmds'[p].wiped = cmds[p].wiped
      /\ cmds'[p].kind = cmds[p].kind
      /\ cmds[p] # None /\ cmds[p].pc = "schemas"
      /\ \A q \in Commands \ {p} : cmds'[q] = cmds[q]
  BY GoneTo DEF ProvisioningInv, EnsureSchemas, At
<1>6. Typed'
  BY <1>3, <1>4, <1>5 DEF ProvisioningInv, Typed
<1>7. Owned'
  BY <1>1, <1>3, <1>4 DEF ProvisioningInv, Owned, Present, Schemas
<1>8. Together'
  BY <1>1, <1>3, <1>4 DEF ProvisioningInv, Together, Schemas
<1>9. Revised' /\ RegistryLast'
  BY <1>4 DEF ProvisioningInv, Revised, RegistryLast, Present
<1>10. OwnerMigrates' /\ PartitionsReadable'
  BY <1>4 DEF ProvisioningInv, OwnerMigrates, PartitionsReadable, Reads, Present, Holds, Acts
<1>11. Bootstrapped => Bootstrapped'
  BY <1>3, <1>4 DEF Bootstrapped, Uses, Builds, Holds, Acts, Schemas
<1>12. InitOK(p)'
  BY <1>4, <1>5, <1>11 DEF ProvisioningInv, InitOK
<1>13. \A q \in Commands \ {p} : InitOK(q)'
  <2>1. RightsKept
    BY EnsureSchemasKeeps DEF RightsKept
  <2>2. revision' \in Nat /\ revision <= revision'
    BY <1>4, ProvisioningAssumption DEF ProvisioningInv, Typed, ProvisioningAssumption
  <2> QED
    BY <1>4, <1>5, <1>11, <2>1, <2>2, OthersOK
<1> QED
  BY <1>6, <1>7, <1>8, <1>9, <1>10, <1>12, <1>13 DEF ProvisioningInv

\* An import keeps the invariant: that it may build at all means that the membership
\* and the default privileges are there.
LEMMA ImportInv ==
    ASSUME ProvisioningInv, NEW f \in Families, Import(f)
    PROVE  ProvisioningInv'
<1> DEFINE t == Partition(f)
<1>1. /\ t \in Tables /\ t # Registry /\ \A g \in Families : t # Parent(g)
  BY DEF Partition, Parent, Registry, Tables
<1>2. UNCHANGED <<postgis, roles, granted, schemas, defaults, revision, image, cmds, torn>>
  BY DEF Import
<1>3. "ingest" \in schemas["data"].users /\ schemas["data"] # None
  BY HoldsIs DEF Import, Importable, Uses, ProvisioningInv, Owned
<1>4. defaults = GrantDefaults
  BY <1>3 DEF ProvisioningInv, Together
<1>5. /\ TableOK(tables'[t]) /\ tables'[t].owner = "ingest" /\ "reader" \in tables'[t].readers
      /\ tables' \in [Tables -> TableRights \cup {None}]
      /\ \A u \in Tables \ {t} : tables'[u] = tables[u]
  BY <1>1, <1>4, NewTableIs DEF Import, ProvisioningInv, Typed, TableOK, GrantDefaults
<1>6. "membership" \in granted
  BY TablesDiffer DEF Import, Importable, ProvisioningInv, OwnerMigrates, Acts
<1> HIDE DEF t
<1>7. Typed'
  BY <1>2, <1>5 DEF ProvisioningInv, Typed
<1>8. /\ tables'[Registry] = tables[Registry]
      /\ \A g \in Families : tables'[Parent(g)] = tables[Parent(g)]
  BY <1>1, <1>5, TablesDiffer
<1>9. Owned'
  BY <1>2, <1>5, <1>8 DEF ProvisioningInv, Owned, Present
<1>10. Revised' /\ Together' /\ RegistryLast'
  BY <1>2, <1>8 DEF ProvisioningInv, Revised, Together, RegistryLast, Present
<1>11. OwnerMigrates'
  BY <1>2, <1>5, <1>6 DEF ProvisioningInv, Owned, OwnerMigrates, Present, Acts
<1>12. PartitionsReadable'
  BY <1>2, <1>5, TablesDiffer DEF ProvisioningInv, PartitionsReadable, Reads, Present, Holds, Acts
<1>13. \A q \in Commands : InitOK(q)'
  <2>1. RightsKept
    BY <1>2, <1>8, SameRights DEF RightsKept
  <2>2. revision' \in Nat /\ revision <= revision'
    BY <1>2, ProvisioningAssumption DEF ProvisioningInv, Typed, ProvisioningAssumption
  <2>3. Bootstrapped => Bootstrapped'
    BY <1>2 DEF Bootstrapped, Uses, Builds, Holds, Acts
  <2> QED
    BY <1>2, <2>1, <2>2, <2>3, OthersOK
<1> QED
  BY <1>7, <1>9, <1>10, <1>11, <1>12, <1>13 DEF ProvisioningInv

\* The migrations keep the invariant: tables come with the revision, and are readable
\* at once where the registry is.
LEMMA UpgradeInv ==
    ASSUME ProvisioningInv, NEW p \in Commands, Upgrade(p)
    PROVE  ProvisioningInv'
<1> DEFINE head == cmds[p].head
<1>1. /\ cmds' \in [Commands -> Command \cup {None}]
      /\ cmds[p] # None /\ cmds[p] \in Command /\ cmds[p].pc = "migrations"
      /\ cmds'[p].pc = IF cmds[p].kind = "init" THEN "handover" ELSE "done"
      /\ cmds'[p].wiped = cmds[p].wiped
      /\ cmds'[p].kind = cmds[p].kind
      /\ cmds'[p].head = head
      /\ \A q \in Commands \ {p} : cmds'[q] = cmds[q]
  BY GoneTo DEF ProvisioningInv, Upgrade, At
<1>2. /\ head \in Heads /\ head \in Nat \ {0} /\ revision \in Nat /\ revision <= head
      /\ revision' = head
  BY <1>1, ProvisioningAssumption
     DEF Upgrade, Upgradable, ProvisioningInv, Typed, ProvisioningAssumption, Command
<1> HIDE DEF head
<1>3. UNCHANGED <<postgis, roles, granted, schemas, defaults, image, torn>>
  BY DEF Upgrade
<1>4. ASSUME NEW t \in Tables
      PROVE  \/ tables'[t] = tables[t]
             \/ TableOK(tables'[t]) /\ tables'[t].owner = "owner"
  BY NewTableIs DEF Upgrade
<1>5. tables' \in [Tables -> TableRights \cup {None}]
  BY NewTableIs DEF Upgrade, ProvisioningInv, Typed, TableOK
<1>6. /\ NewTable("registry", "owner") # None
      /\ NewTable("registry", "owner").owner = "owner"
      /\ "reader" \in NewTable("registry", "owner").readers <=> <<"registry", "owner">> \in defaults
      /\ NewTable("data", "owner") # None
      /\ "reader" \in NewTable("data", "owner").readers <=> <<"data", "owner">> \in defaults
  BY NewTableIs, NoneAssumption DEF TableOK
<1>7. \A f \in Families : CreatedBy[f] \in Nat /\ CreatedBy[f] > 1
  BY ProvisioningAssumption DEF ProvisioningAssumption
<1>8. tables'[Registry] = IF revision = 0 THEN NewTable("registry", "owner") ELSE tables[Registry]
  BY UpgradedIs
<1>9. \A f \in Families :
         /\ tables'[Parent(f)] = IF CreatedBy[f] \in (revision + 1)..head
                                 THEN NewTable("data", "owner") ELSE tables[Parent(f)]
         /\ tables'[Partition(f)] = tables[Partition(f)]
  BY UpgradedIs DEF head
<1>10. Typed'
  BY <1>1, <1>2, <1>3, <1>4, <1>5 DEF ProvisioningInv, Typed
<1>11. Owned'
  BY <1>3, <1>4, <1>6, <1>8 DEF ProvisioningInv, Owned, Present
<1>12. Revised'
  BY <1>2, <1>6, <1>7, <1>8, <1>9 DEF ProvisioningInv, Revised, Present
<1>13. Together'
  BY <1>3 DEF ProvisioningInv, Together
<1>14. RegistryLast'
  <2> SUFFICES ASSUME ~torn, "reader" \in tables'[Registry].readers
               PROVE  /\ defaults = GrantDefaults
                      /\ \A f \in Families : Present(Parent(f))' =>
                            "reader" \in tables'[Parent(f)].readers
    BY <1>3 DEF RegistryLast
  <2>1. defaults = GrantDefaults
    BY <1>6, <1>8 DEF ProvisioningInv, Revised, RegistryLast, Together
  <2>2. \A f \in Families : Present(Parent(f)) => "reader" \in tables[Parent(f)].readers
    BY <1>2, <1>7, <1>8 DEF ProvisioningInv, Revised, RegistryLast
  <2> QED
    BY <1>6, <1>9, <2>1, <2>2 DEF Present, GrantDefaults
<1>15. OwnerMigrates'
  BY <1>3, <1>4 DEF ProvisioningInv, OwnerMigrates, Present, Acts
<1>16. PartitionsReadable'
  BY <1>3, <1>9 DEF ProvisioningInv, PartitionsReadable, Reads, Present, Holds, Acts
<1>17. Bootstrapped => Bootstrapped'
  BY <1>3 DEF Bootstrapped, Uses, Builds, Holds, Acts
<1>18. InitOK(p)'
  <2>1. InitOK(p)
    BY DEF ProvisioningInv
  <2> QED
    BY <1>1, <1>2, <1>3, <1>17, <2>1 DEF InitOK
<1>19. \A q \in Commands \ {p} : InitOK(q)'
  <2>1. RightsKept
    BY UpgradeKeeps DEF RightsKept
  <2> QED
    BY <1>1, <1>2, <1>3, <1>17, <2>1, OthersOK
<1> QED
  BY <1>10, <1>11, <1>12, <1>13, <1>14, <1>15, <1>16, <1>18, <1>19 DEF ProvisioningInv

\* The hand-over keeps the invariant, and leaves the families of its image ready.
LEMMA HandOverInv ==
    ASSUME ProvisioningInv, NEW p \in Commands, HandOver(p)
    PROVE  ProvisioningInv'
<1>1. /\ cmds' \in [Commands -> Command \cup {None}]
      /\ cmds[p] # None /\ cmds[p] \in Command /\ cmds[p].pc = "handover"
      /\ cmds'[p].pc = "verify"
      /\ cmds'[p].wiped = cmds[p].wiped
      /\ cmds'[p].kind = cmds[p].kind
      /\ cmds'[p].head = cmds[p].head
      /\ \A q \in Commands \ {p} : cmds'[q] = cmds[q]
  BY GoneTo DEF ProvisioningInv, HandOver, At
<1>2. /\ "membership" \in granted
      /\ cmds[p].wiped => torn
      /\ ~cmds[p].wiped => Bootstrapped /\ cmds[p].head <= revision
  BY <1>1 DEF ProvisioningInv, InitOK
<1>3. UNCHANGED <<postgis, roles, granted, defaults, revision, image, torn>>
  BY DEF HandOver
<1>4. /\ \A s \in {"registry", "data"} : schemas'[s] = schemas[s]
      /\ \A s \in Schemas : schemas'[s] # None /\ SchemaOK(schemas'[s])
      /\ schemas' \in [Schemas -> SchemaRights \cup {None}]
      /\ schemas'["staging"].owner = "ingest"
  <2>1. SchemaOK(GiveTo("ingest", schemas["staging"]))
        /\ GiveTo("ingest", schemas["staging"]).owner = "ingest"
    BY GivenSchema DEF HandOver, Schemas, ProvisioningInv, Typed, SchemaOK, Roles, SchemaRights
  <2> QED
    BY <2>1, NoneAssumption DEF HandOver, Schemas, ProvisioningInv, Typed, SchemaOK
<1>5. ASSUME NEW t \in Tables
      PROVE  /\ Present(t)' <=> Present(t)
             /\ Present(t) =>
                   /\ tables'[t] = HandedOver(t)
                   /\ TableOK(tables'[t])
                   /\ tables'[t].owner = IF t.schema = "data" THEN "ingest" ELSE tables[t].owner
                   /\ "reader" \in tables'[t].readers
                   /\ tables'[t].owner = "ingest" \/ "ingest" \in tables'[t].writers
  BY HandedOverIs, NoneAssumption DEF HandOver, ProvisioningInv, Present, TableOK
<1>6. tables' \in [Tables -> TableRights \cup {None}]
  BY HandedOverIs DEF HandOver, ProvisioningInv, TableOK
<1>7. Typed'
  BY <1>1, <1>3, <1>4, <1>5, <1>6 DEF ProvisioningInv, Typed, Present
<1>8. Owned'
  BY <1>3, <1>4, <1>5, TablesDiffer DEF ProvisioningInv, Owned, Schemas
<1>9. Revised'
  BY <1>3, <1>5, TablesDiffer DEF ProvisioningInv, Revised
<1>10. Together'
  BY <1>3, <1>4 DEF ProvisioningInv, Together
<1>11. RegistryLast'
  BY <1>2, <1>3, <1>5, TablesDiffer DEF ProvisioningInv, RegistryLast, Bootstrapped
<1>12. OwnerMigrates'
  BY <1>2, <1>3, <1>5 DEF ProvisioningInv, OwnerMigrates, Acts
<1>13. PartitionsReadable'
  BY <1>5, TablesDiffer DEF PartitionsReadable, Reads, Holds, Acts
<1>14. RightsKept
  BY HandOverKeeps DEF RightsKept
<1>15. Bootstrapped => Bootstrapped'
  BY <1>3, <1>4 DEF Bootstrapped, Uses, Builds, Holds, Acts, Schemas
<1>16. ASSUME ~cmds[p].wiped
       PROVE  Ready(cmds[p].head)'
  <2>1. Bootstrapped' /\ Bootstrapped /\ Owned /\ Revised
    BY <1>2, <1>15, <1>16 DEF ProvisioningInv
  <2>2. /\ cmds[p].head \in Nat \ {0} /\ revision \in Nat /\ cmds[p].head <= revision
    <3>1. cmds[p].head \in Heads /\ revision \in Heads \cup {0}
      BY <1>1 DEF ProvisioningInv, Typed, Command
    <3>2. cmds[p].head <= revision
      BY <1>2, <1>16, Zenon
    <3>3. Heads \subseteq Nat \ {0}
      BY ProvisioningAssumption DEF ProvisioningAssumption
    <3>4. cmds[p].head \in Nat \ {0}
      BY <3>1, <3>3
    <3>5. revision \in Nat
      BY <3>1, <3>3
    <3> QED
      BY <3>2, <3>4, <3>5
  <2>3. /\ Reads("reader", Registry)' /\ Writes("ingest", Registry)'
    BY <1>5, <2>1, <2>2, TablesDiffer DEF Revised, Reads, Writes, Holds, Acts
  <2>4. ASSUME NEW f \in Families, CreatedBy[f] <= cmds[p].head
        PROVE  Importable(f)' /\ Queryable(f)'
    <3>1. Present(Parent(f))
      BY <2>1, <2>2, <2>4, ProvisioningAssumption DEF Revised, ProvisioningAssumption
    <3>2. /\ Present(Parent(f))' /\ tables'[Parent(f)].owner = "ingest"
          /\ Reads("reader", Parent(f))'
      BY <1>5, <3>1, TablesDiffer DEF Reads, Holds, Acts
    <3> QED
      BY <2>1, <2>3, <3>2
         DEF Importable, Queryable, Bootstrapped, Uses, Builds, Holds, Acts, Roles, Schemas
  <2> QED
    BY <1>1, <2>4 DEF Ready
<1>17. InitOK(p)'
  BY <1>1, <1>2, <1>3, <1>15, <1>16 DEF ProvisioningInv, InitOK
<1>18. \A q \in Commands \ {p} : InitOK(q)'
  <2>1. revision' \in Nat /\ revision <= revision'
    BY <1>3, ProvisioningAssumption DEF ProvisioningInv, Typed, ProvisioningAssumption
  <2> QED
    BY <1>1, <1>3, <1>14, <1>15, <2>1, OthersOK
<1> QED
  BY <1>7, <1>8, <1>9, <1>10, <1>11, <1>12, <1>13, <1>17, <1>18 DEF ProvisioningInv

\* A reset leaves nothing to be wrong about, and marks the commands under way.
LEMMA ResetInv ==
    ASSUME ProvisioningInv, Reset
    PROVE  ProvisioningInv'
<1>1. /\ schemas' = [s \in Schemas |-> None] /\ tables' = [t \in Tables |-> None]
      /\ defaults' = {} /\ revision' = 0
      /\ UNCHANGED <<postgis, roles, granted, image>>
  BY DEF Reset
<1>2. torn' \in BOOLEAN /\ (torn => torn') /\ ((\E p \in Commands : Running(p)) => torn')
  BY DEF Reset, ProvisioningInv, Typed
<1>3. ASSUME NEW p \in Commands, Running(p)
      PROVE  /\ cmds'[p] \in Command
             /\ cmds'[p].pc = cmds[p].pc /\ cmds'[p].kind = cmds[p].kind
             /\ cmds'[p].wiped = TRUE
  <2>1. cmds[p] \in Command
    BY <1>3 DEF ProvisioningInv, Typed, Running
  <2>2. cmds'[p] = [kind |-> cmds[p].kind, pc |-> cmds[p].pc, head |-> cmds[p].head, wiped |-> TRUE]
    BY <1>3, <2>1 DEF Reset, Command
  <2> QED
    BY <2>1, <2>2 DEF Command
<1>4. ASSUME NEW p \in Commands, ~Running(p)
      PROVE  cmds'[p] = cmds[p]
  BY <1>4 DEF Reset
<1>5. cmds' \in [Commands -> Command \cup {None}]
  <2>1. \A p \in Commands : cmds'[p] \in Command \cup {None}
    BY <1>3, <1>4 DEF ProvisioningInv, Typed
  <2>2. cmds' = [p \in Commands |-> cmds'[p]]
    BY Zenon DEF Reset
  <2> QED
    BY <2>1, <2>2
<1>6. Typed'
  BY <1>1, <1>2, <1>5 DEF ProvisioningInv, Typed
<1>7. Owned' /\ Together' /\ RegistryLast'
  BY <1>1, TablesDiffer DEF Owned, Together, RegistryLast, Present, Schemas
<1>8. Revised'
  BY <1>1, TablesDiffer, ProvisioningAssumption DEF Revised, Present, ProvisioningAssumption
<1>9. OwnerMigrates' /\ PartitionsReadable'
  BY <1>1, TablesDiffer DEF OwnerMigrates, PartitionsReadable, Present
<1>10. ASSUME NEW p \in Commands
       PROVE  InitOK(p)'
  <2>1. CASE Running(p)
    <3>1. cmds[p] # None /\ InitOK(p) /\ torn'
      BY <1>2, <2>1 DEF Running, ProvisioningInv
    <3> QED
      BY <1>1, <1>3, <2>1, <3>1 DEF InitOK
  <2>2. CASE ~Running(p)
    BY <1>2, <1>4, <2>2 DEF InitOK, Running, ProvisioningInv
  <2> QED
    BY <2>1, <2>2
<1> QED
  BY <1>6, <1>7, <1>8, <1>9, <1>10 DEF ProvisioningInv

\* A new database cluster satisfies the invariant.
LEMMA ProvisioningInvInit ==
    ProvisioningInit => ProvisioningInv
<1> SUFFICES ASSUME ProvisioningInit
             PROVE  ProvisioningInv
  OBVIOUS
<1>1. Typed
  BY DEF ProvisioningInit, Typed
<1>2. Owned /\ Together /\ RegistryLast
  BY TablesDiffer DEF ProvisioningInit, Owned, Together, RegistryLast, Present, Schemas
<1>3. Revised
  BY TablesDiffer, ProvisioningAssumption
     DEF ProvisioningInit, Revised, Present, ProvisioningAssumption
<1>4. OwnerMigrates /\ PartitionsReadable
  BY TablesDiffer DEF ProvisioningInit, OwnerMigrates, PartitionsReadable, Present
<1>5. \A p \in Commands : InitOK(p)
  BY DEF ProvisioningInit, InitOK
<1> QED
  BY <1>1, <1>2, <1>3, <1>4, <1>5 DEF ProvisioningInv

\* Every step of a command, an import, a reset or a rollout keeps it.
LEMMA ProvisioningInvNext ==
    ProvisioningInv /\ [ProvisioningNext]_provisioningVars => ProvisioningInv'
<1> SUFFICES ASSUME ProvisioningInv, [ProvisioningNext]_provisioningVars
             PROVE  ProvisioningInv'
  OBVIOUS
<1>1. ASSUME NEW p \in Commands, NEW kind \in {"init", "migrate"}, Start(p, kind)
      PROVE  ProvisioningInv'
  BY <1>1, StartKeeps
<1>2. ASSUME NEW p \in Commands, CommandStep(p)
      PROVE  ProvisioningInv'
  BY <1>2, BootstrapInv, EnsureSchemasInv, UpgradeInv, HandOverInv, EndKeeps DEF CommandStep
<1>3. ASSUME NEW p \in Commands, Interrupt(p)
      PROVE  ProvisioningInv'
  BY <1>3, InterruptKeeps
<1>4. ASSUME NEW f \in Families, Import(f)
      PROVE  ProvisioningInv'
  BY <1>4, ImportInv
<1>5. CASE Reset
  BY <1>5, ResetInv
<1>6. CASE Roll \/ UNCHANGED provisioningVars
  BY <1>6, RollKeeps
<1> QED
  BY <1>1, <1>2, <1>3, <1>4, <1>5, <1>6 DEF ProvisioningNext

\* The invariant, of every behaviour.
THEOREM ProvisioningInvariant == ProvisioningSpec => []ProvisioningInv
<1> QED
  BY ProvisioningInvInit, ProvisioningInvNext, PTL DEF ProvisioningSpec

-----------------------------------------------------------------------------
(* What it gives                                                           *)

\* Every variable keeps its type, and no object is granted to its owner.
THEOREM ProvisioningTypes == ProvisioningSpec => []ProvisioningTypeOK
<1>1. ProvisioningInv => ProvisioningTypeOK
  BY TypedIsTypeOK DEF ProvisioningInv
<1> QED
  BY <1>1, ProvisioningInvariant, PTL

\* catalog_owner can alter every table at any time: nothing goes to catalog_ingest
\* before the membership that init grants in its first transaction.
THEOREM OwnerAlwaysMigrates == ProvisioningSpec => []OwnerMigrates
<1>1. ProvisioningInv => OwnerMigrates
  BY DEF ProvisioningInv
<1> QED
  BY <1>1, ProvisioningInvariant, PTL

\* Partitions are readable from the moment they are attached: whatever lets
\* catalog_ingest build in the data schema came with the default privileges.
THEOREM PartitionsAlwaysReadable == ProvisioningSpec => []PartitionsReadable
<1>1. ProvisioningInv => PartitionsReadable
  BY DEF ProvisioningInv
<1> QED
  BY <1>1, ProvisioningInvariant, PTL

\* A green health check means that every family of the image can be queried: the
\* registry, which health reads, becomes readable last.
THEOREM GreenIsQueryable == ProvisioningSpec => []HealthyMeansQueryable
<1>1. ASSUME ProvisioningInv, Healthy, ~torn, NEW f \in Families, CreatedBy[f] <= image
      PROVE  Queryable(f)
  <2>1. Present(Registry) /\ Present(Parent(f))
    BY <1>1 DEF ProvisioningInv, Revised, Healthy, MigrationsCurrent, Reads
  <2>2. "reader" \in tables[Registry].readers
    BY <1>1, <2>1 DEF ProvisioningInv, Owned, Healthy, Reads, Holds, Acts
  <2>3. "reader" \in tables[Parent(f)].readers
    BY <1>1, <2>1, <2>2 DEF ProvisioningInv, RegistryLast
  <2> QED
    BY <1>1, <2>1, <2>3 DEF Healthy, Queryable, Reads, Holds, Acts, Roles
<1>2. ProvisioningInv => HealthyMeansQueryable
  BY <1>1 DEF HealthyMeansQueryable
<1> QED
  BY <1>2, ProvisioningInvariant, PTL

\* init takes no right away that an import or a query needs, at any step.
THEOREM InitTakesNothing == ProvisioningSpec => NothingTakenAway
<1>1. ASSUME ProvisioningInv, [ProvisioningNext]_provisioningVars, schemas'["registry"] # None
      PROVE  \A f \in Families : /\ Importable(f) => Importable(f)'
                                 /\ Queryable(f) => Queryable(f)'
  <2>1. ~Reset
    BY <1>1 DEF Reset, Schemas
  <2> QED
    BY <1>1, <2>1, Kept
<1> QED
  BY <1>1, ProvisioningInvariant, PTL DEF ProvisioningSpec, NothingTakenAway

\* init is the repair path: run to its end by an image no older than the database,
\* with no reset under it, it succeeds and leaves every family of the image
\* importable and queryable.
THEOREM InitAlwaysRepairs == ProvisioningSpec => InitRepairs
<1>1. ASSUME ProvisioningInv, [ProvisioningNext]_provisioningVars, NEW p \in Commands,
             Running(p), cmds[p].kind = "init", ~cmds[p].wiped, revision <= cmds[p].head,
             cmds'[p] # None, cmds'[p].pc \in {"done", "failed"}
      PROVE  cmds'[p].pc = "done" /\ Ready(cmds[p].head)'
  <2>1. /\ InitOK(p) /\ Typed /\ cmds[p] # None /\ cmds[p] \in Command
        /\ cmds[p].pc \notin {"done", "failed"}
    BY <1>1 DEF ProvisioningInv, Typed, Running
  <2>2. cmds'[p].pc # cmds[p].pc
    BY <1>1, <2>1
  <2>3. ~Reset
    BY <2>1, <2>2, <1>1 DEF Reset, Command
  <2>4. ASSUME NEW q \in Commands, q # p, NEW pc, Goto(q, pc)
        PROVE  FALSE
    BY <1>1, <2>2, <2>4 DEF Goto, ProvisioningInv, Typed
  <2>5. ASSUME NEW q \in Commands, q # p, CommandStep(q)
        PROVE  FALSE
    <3>1. \E pc : Goto(q, pc)
      BY <2>5 DEF CommandStep, Bootstrap, EnsureSchemas, Upgrade, HandOver, Verify, Refused
    <3> QED
      BY <2>4, <2>5, <3>1
  <2>6. ASSUME NEW q \in Commands, NEW kind, Start(q, kind) \/ Interrupt(q)
        PROVE  FALSE
    <3>1. cmds \in [Commands -> Command \cup {None}]
      BY <1>1 DEF ProvisioningInv, Typed
    <3>2. CASE q = p
      BY <1>1, <2>6, <3>1, <3>2 DEF Start, Interrupt
    <3>3. CASE q # p
      BY <2>2, <2>6, <3>1, <3>3 DEF Start, Interrupt
    <3> QED
      BY <3>2, <3>3
  <2>7. ~(Roll \/ UNCHANGED provisioningVars) /\ \A f \in Families : ~Import(f)
    BY <2>2 DEF provisioningVars, Import, Roll
  <2>8. CommandStep(p)
    BY <1>1, <2>3, <2>5, <2>6, <2>7, Zenon DEF ProvisioningNext
  <2>9. ASSUME NEW pc, Goto(p, pc)
        PROVE  cmds'[p].head = cmds[p].head /\ pc \in {"done", "failed"} /\ cmds'[p].pc = pc
    <3>1. cmds' = [cmds EXCEPT ![p] = [cmds[p] EXCEPT !.pc = pc]]
      BY <2>9 DEF Goto
    <3>2. [cmds[p] EXCEPT !.pc = pc] =
              [kind |-> cmds[p].kind, pc |-> pc, head |-> cmds[p].head, wiped |-> cmds[p].wiped]
      BY <2>1 DEF Command
    <3> QED
      BY <1>1, <3>1, <3>2 DEF ProvisioningInv, Typed
  <2>10. ~Bootstrap(p) /\ ~EnsureSchemas(p) /\ ~HandOver(p)
    BY <2>9 DEF Bootstrap, EnsureSchemas, HandOver
  <2>11. ~Upgrade(p)
    BY <1>1, <2>9 DEF Upgrade
  <2>12. ~Refused(p)
    <3>1. ASSUME Refused(p)
          PROVE  Bootstrapped
      BY <1>1, <2>1, <3>1 DEF Refused, At, InitOK
    <3> QED
      BY <1>1, <3>1 DEF Refused, Bootstrapped, OwnerConnects, Upgradable, Roles
  <2>13. Verify(p)
    BY <2>8, <2>10, <2>11, <2>12 DEF CommandStep
  <2>14. Bootstrapped /\ Ready(cmds[p].head)
    BY <1>1, <2>1, <2>13 DEF Verify, At, InitOK
  <2>15. cmds'[p].pc = "done"
    BY <2>9, <2>13, <2>14 DEF Verify, Verified, Bootstrapped
  <2>16. \A f \in Families : CreatedBy[f] <= cmds[p].head => Importable(f)' /\ Queryable(f)'
    BY <1>1, <2>3, <2>14, Kept DEF Ready
  <2>17. cmds'[p].head = cmds[p].head
    BY <2>9, <2>13 DEF Verify
  <2> QED
    BY <2>15, <2>16, <2>17 DEF Ready
<1>2. ProvisioningInv /\ [ProvisioningNext]_provisioningVars
        => \A p \in Commands :
             /\ Running(p) /\ cmds[p].kind = "init" /\ ~cmds[p].wiped /\ revision <= cmds[p].head
             /\ cmds'[p] # None /\ cmds'[p].pc \in {"done", "failed"}
             => cmds'[p].pc = "done" /\ Ready(cmds[p].head)'
  BY <1>1
<1> QED
  BY <1>2, ProvisioningInvariant, PTL DEF ProvisioningSpec, InitRepairs
=============================================================================
