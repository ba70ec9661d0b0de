-------------------------- MODULE LifecycleCatalog --------------------------
(***************************************************************************)
(* Lifecycle, with one process at a time, implements ReleaseCatalog.  The  *)
(* mapping looks at the release table and the partitions alone: a release  *)
(* is served when its row is in a built state, whatever staging tables,    *)
(* detached builds, runs and failure records lie around.                   *)
(***************************************************************************)
EXTENDS Lifecycle

\* The rows a query of the release n is answered from.
ServedRows(n) ==
    IF \E i \in IdsNamed(n) : rows[i].state \in Built
    THEN LET i == CHOOSE i \in IdsNamed(n) : rows[i].state \in Built IN
         IF partition[i] = None THEN "gone" ELSE partition[i]
    ELSE None

LiveRelease(f) ==
    IF ActiveIds(f) = {} THEN None ELSE rows[CHOOSE i \in ActiveIds(f) : TRUE].name

\* What an import and a command ask of the catalog.
ImportRequested(q) ==
    [kind |-> "import", name |-> q.name, src |-> q.src, force |-> q.mode = "force",
     activate |-> q.activate]

CommandRequested(q) ==
    [kind |-> q.kind, name |-> q.name, src |-> None, force |-> q.force,
     activate |-> q.kind = "activate"]

InProgress ==
    CASE \E p \in Importers : Live(p) ->
            ImportRequested(imp[CHOOSE p \in Importers : Live(p)].req)
      [] \E o \in Operators : Busy(o) ->
            CommandRequested(ops[CHOOSE o \in Operators : Busy(o)].req)
      [] OTHER -> None

Requested == {ImportRequested(q) : q \in ImportRequests}
               \cup {CommandRequested(q) : q \in OperatorRequests}

\* A dropped partition is no tree, and a request is not the absence of one.
ASSUME CatalogAssumption ==
    /\ "gone" \notin Sources \cup {None}
    /\ None \notin {ImportRequested(q) : q \in Request} \cup {CommandRequested(q) : q \in Command}

Catalog == INSTANCE ReleaseCatalog WITH
    Publishable <- {t \in Sources : StagingStatus[t] # "failed" /\ ProductionStatus[t] # "failed"},
    Requests <- Requested,
    served <- [n \in Names |-> ServedRows(n)],
    live <- [f \in Families |-> LiveRelease(f)],
    request <- InProgress

\* Run one at a time, imports and commands change what queries are answered
\* from as ReleaseCatalog says and in no other way: in single steps, for the
\* release that was asked for, from checked trees, with --force where the
\* release is live.  Retries, errors at any statement, kills and the leftovers
\* of both are no steps of it.
ImplementsCatalog == Catalog!CatalogSpec
=============================================================================
