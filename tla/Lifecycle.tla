------------------------------ MODULE Lifecycle ------------------------------
(***************************************************************************)
(* The release lifecycle: any number of import attempts and operator       *)
(* commands over one registry, with nothing between them but the database. *)
(* No lock, queue or lease in the code orders them, so the specification   *)
(* lets them interleave; Exclusive = TRUE adds the discipline of one       *)
(* process at a time, which the properties that need it name.              *)
(***************************************************************************)
EXTENDS ImportRelease

CONSTANTS
    Exclusive,   \* whether processes are run one after the other
    LockHolders  \* families whose data table others may lock

ASSUME LifecycleAssumption == Exclusive \in BOOLEAN /\ LockHolders \subseteq Families

vars == <<registryVars, imp, ops>>

Init == RegistryInit /\ ImportInit /\ MaintenanceInit

MayStart ==
    Exclusive => /\ \A p \in Importers : ~Live(p)
                 /\ \A o \in Operators : ~Busy(o)

Importer(p) == ImportStep(p) /\ UNCHANGED ops

Operator(o) == OperatorStep(o) /\ UNCHANGED imp

\* Whoever else wants a lock on the data table of f stands in the queue too.
LockHolder(f) == (~Queued(f) /\ Hold(f)) \/ Unhold(f)

\* Every attempt and every command is over: the system rests.
Rest ==
    /\ \A p \in Importers : Ended(p)
    /\ \A o \in Operators : ops[o].pc \in OperatorEnded
    /\ UNCHANGED vars

Next ==
    \/ \E p \in Importers :
          \/ MayStart /\ BeginImport(p) /\ UNCHANGED ops
          \/ Importer(p)
          \/ ImportFault(p) /\ UNCHANGED ops
    \/ \E o \in Operators :
          \/ MayStart /\ BeginOperation(o) /\ UNCHANGED imp
          \/ Operator(o)
          \/ Interrupt(o) /\ UNCHANGED imp
    \/ \E f \in LockHolders : LockHolder(f) /\ UNCHANGED <<imp, ops>>
    \/ Rest

Spec == Init /\ [][Next]_vars

\* A process that has started executes its next statement unless it waits for
\* a lock; nobody has to start one, and a lock holder need not ever let go.
Fairness ==
    /\ \A p \in Importers : WF_vars(Importer(p))
    /\ \A o \in Operators : WF_vars(Operator(o))

FairSpec == Spec /\ Fairness

-----------------------------------------------------------------------------
(* What holds however processes interleave, fail and are killed            *)

\* Every variable keeps its type.
TypeOK == RegistryTypeOK /\ ImportTypeOK /\ MaintenanceTypeOK

\* Two activations, or an activation and the finalize of a forced replace,
\* decide on rows they loaded earlier; still at most one release of a family
\* is ACTIVE, because the unique index rejects the later commit.
OneActivePerFamily == UniqueActive(rows)

\* A row in a state that queries, the skip and activation take for built has
\* a production_table, whatever recorders and finalizes raced on it.
BuiltHasTable ==
    \A i \in Ids : Exists(i) /\ rows[i].state \in Built => rows[i].table

\* A removal that dropped the partition of i and did not get to the row.
RemovalUnderWay(i) ==
    \E o \in Operators : ops[o].dropped /\ ops[o].rid = i

\* The swap leaves no hole: a built release has rows to serve at all times,
\* lock timeouts, failed and killed attempts included, unless a removal
\* dropped them.
BuiltIsServed ==
    \A i \in Ids :
        Exists(i) /\ rows[i].state \in Built /\ partition[i] = None
            => RemovalUnderWay(i)

\* A run shown as running belongs to an attempt that still runs, or to one of
\* three that no_stuck_imports of health is there for: it was killed, its
\* recorder failed, or it failed before it had read the id of its run.
RunningMeansLive ==
    \A p \in Importers :
        /\ runs[p] # None
        /\ runs[p].status = "running"
        => \/ Live(p) \/ At(p, "crashed") \/ imp[p].unrecorded
           \/ At(p, "failed") /\ ~imp[p].runId

-----------------------------------------------------------------------------
(* What holds when processes run one after the other                       *)

\* An attempt swapped the partition of i in and did not get to finalize.
UnaccountedSwap(i) ==
    \E p \in Importers : imp[p].swapped /\ imp[p].rid = i

\* The provenance of a built release is that of the rows it serves, except
\* after an attempt that ended between the swap and the finalize commit.
RowDescribesPartition ==
    \A i \in Ids :
        Exists(i) /\ rows[i].state \in Built /\ partition[i] # None
            => rows[i].checksum = partition[i] \/ UnaccountedSwap(i)

\* The documented state graph.  In particular an attempt that fails, at any
\* point, cannot take a release out of a built state, and only a finalize
\* makes one READY.
LegalMove(from, to) ==
    \/ from = to
    \/ to = "failed" /\ from = "registered"
    \/ to = "ready" /\ from \in {"registered", "failed", "ready", "superseded"}
    \/ to = "active" /\ from \in Activatable
    \/ to = "superseded" /\ from = "active"

LegalTransitions ==
    [][\A i \in Ids : rows[i] # None /\ rows[i]' # None
                        => LegalMove(rows[i].state, rows[i]'.state)]_vars

\* No import, however it ends, leaves a family without an ACTIVE release that
\* had one; only deactivate and a forced remove do.
FamilyStaysActive ==
    [][\A f \in Families :
          ActiveIds(f) # {} /\ ActiveIds(f)' = {}
            => \E o \in Operators : Asked(o, "commit", "deactivate")
                                    \/ (Asked(o, "delete", "remove") /\ ops[o].req.force)]_vars

\* The rows default queries are answered from passed every critical check.
ActiveIsValid ==
    \A i \in Ids :
        Exists(i) /\ rows[i].state = "active" /\ partition[i] # None
            => /\ StagingStatus[partition[i]] # "failed"
               /\ ProductionStatus[partition[i]] # "failed"

\* import --activate makes a release ACTIVE that was not only if its rows
\* raised no warning or --allow-warnings was given, after a skip as well.
WarningsGate ==
    [][\A p \in Importers, i \in Ids :
          /\ At(p, "skipActivate") \/ At(p, "activate")
          /\ imp'[p] # imp[p]
          /\ rows[i] # None /\ rows[i].state # "active" /\ rows[i]'.state = "active"
          /\ partition[i] # None
          => \/ imp[p].req.allow_warnings
             \/ UnaccountedSwap(i)
             \/ /\ StagingStatus[partition[i]] = "passed"
                /\ ProductionStatus[partition[i]] = "passed"]_vars

-----------------------------------------------------------------------------
(* What eventually happens                                                 *)

\* Phase B1 of p stands behind a DETACH that waits for a lock nobody releases.
BehindDetach(p) ==
    LET f == FamilyOf[imp[p].req.name] IN
    /\ At(p, "build")
    /\ Queued(f)
    /\ f \in held

\* With a lock_timeout, an attempt that starts ends, though a reader never lets
\* go of the lock and removals queue for it.  Only one thing can hold it up for
\* good: lock_timeout is set for Phase B2 alone, and Phase B1 waits behind the
\* DETACH of a removal for as long as that waits.
ImportTerminates ==
    \A p \in Importers :
        At(p, "sync") ~> (Ended(p) \/ []BehindDetach(p))
=============================================================================
