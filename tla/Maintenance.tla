----------------------------- MODULE Maintenance -----------------------------
(***************************************************************************)
(* The operator commands that change a release: activate and deactivate    *)
(* (skycat/cli/main.py over registry/releases.py), remove-release,         *)
(* validate and clean-staging (ingestion/maintenance.py).  One process per *)
(* invocation; transactions are steps as in ImportRelease.                 *)
(***************************************************************************)
EXTENDS Registry

CONSTANTS
    Operators,        \* command invocations
    OperatorRequests, \* what they may be asked
    OperatorFaults    \* whether they may be interrupted

Command == [kind: {"activate", "deactivate", "remove", "validate", "clean"},
            name: Names, force: BOOLEAN]

ASSUME MaintenanceAssumption ==
    /\ OperatorRequests \subseteq Command
    /\ OperatorFaults \in BOOLEAN
    /\ None \notin Command

VARIABLE ops  \* ops[o]: where invocation o is, and its local variables

OperatorEnded == {"done", "failed", "crashed"}

Invocation ==
    [pc: {"idle", "start", "commit", "drop", "wait", "delete", "check"} \cup OperatorEnded,
     req: Command \cup {None},
     rid: Ids \cup {None},         \* release_id
     current: Ids \cup {None},     \* the active release an activation found
     prod: BOOLEAN,                \* remove: a production_table was recorded
     status: Statuses \cup {None}, \* validate: what the checks concluded
     dropped: BOOLEAN]             \* history: remove has dropped the partition

maintenanceVars == <<registryVars, ops>>

MaintenanceTypeOK == ops \in [Operators -> Invocation]

NewInvocation == [pc |-> "idle", req |-> None, rid |-> None, current |-> None,
                  prod |-> FALSE, status |-> None, dropped |-> FALSE]

MaintenanceInit == ops = [o \in Operators |-> NewInvocation]

Asked(o, l, kind) == ops[o].pc = l /\ ops[o].req.kind = kind

Busy(o) == ops[o].pc \notin {"idle"} \cup OperatorEnded

\* The release id outlives an invocation only when its partition is dropped.
EndOperation(o, l) ==
    ops' = [ops EXCEPT ![o] = [NewInvocation EXCEPT
                !.pc = l, !.dropped = ops[o].dropped,
                !.rid = IF ops[o].dropped THEN ops[o].rid ELSE None]]

Named(o) == IdsNamed(ops[o].req.name)

BeginOperation(o) ==
    /\ ops[o].pc = "idle"
    /\ \E q \in OperatorRequests :
          ops' = [ops EXCEPT ![o].pc = "start", ![o].req = q]
    /\ UNCHANGED registryVars

-----------------------------------------------------------------------------
(* activate, deactivate                                                    *)

\* Mutant of Promotable: the state of the release is not looked at.
PromotableAlways(row) == TRUE

\* The guard of activate_release().
Promotable(row) == row.state \in Activatable

\* The release and the family's active release are loaded.  What the command
\* prints after its commit, from the row read once more, is left out.
Activate(o) ==
    LET active == ActiveIds(FamilyOf[ops[o].req.name]) IN
    /\ Asked(o, "start", "activate")
    /\ \E i \in Named(o) :
          /\ rows[i].state # "active"
          /\ Promotable(rows[i])
          /\ \E c \in IF active = {} THEN {None} ELSE active :
                ops' = [ops EXCEPT ![o].pc = "commit", ![o].rid = i,
                                   ![o].current = c]
    /\ UNCHANGED registryVars

\* Re-affirming the ACTIVE release is accepted and changes nothing; any
\* other state, or an unknown release, is refused.
ActivateNothing(o) ==
    /\ Asked(o, "start", "activate")
    /\ \A i \in Named(o) : rows[i].state = "active" \/ ~Promotable(rows[i])
    /\ EndOperation(o, IF \E i \in Named(o) : rows[i].state = "active"
                       THEN "done" ELSE "failed")
    /\ UNCHANGED registryVars

ActivateCommit(o) ==
    LET i == ops[o].rid  c == ops[o].current IN
    /\ Asked(o, "commit", "activate")
    /\ IF ActivationCommits(i, c)
       THEN rows' = WithActive(i, c) /\ EndOperation(o, "done")
       ELSE UNCHANGED rows /\ EndOperation(o, "failed")
    /\ UNCHANGED <<families, runs, partition, incoming, staging, rejects, held>>

Deactivate(o) ==
    /\ Asked(o, "start", "deactivate")
    /\ \E i \in Named(o) :
          IF rows[i].state = "active"
          THEN ops' = [ops EXCEPT ![o].pc = "commit", ![o].rid = i]
          ELSE EndOperation(o, "done")
    /\ UNCHANGED registryVars

DeactivateCommit(o) ==
    LET i == ops[o].rid IN
    /\ Asked(o, "commit", "deactivate")
    /\ IF Exists(i)
       THEN /\ rows' = [rows EXCEPT ![i].state = "superseded"]
            /\ EndOperation(o, "done")
       ELSE UNCHANGED rows /\ EndOperation(o, "failed")
    /\ UNCHANGED <<families, runs, partition, incoming, staging, rejects, held>>

-----------------------------------------------------------------------------
(* remove-release: check, drop the partition, delete the row               *)

\* Mutant of Refused: --force is not asked for.
RefusedNever(row, q) == FALSE

Refused(row, q) == row.state = "active" /\ ~q.force

Remove(o) ==
    /\ Asked(o, "start", "remove")
    /\ \E i \in Named(o) :
          IF Refused(rows[i], ops[o].req)
          THEN EndOperation(o, "failed")
          ELSE ops' = [ops EXCEPT ![o].pc = "drop", ![o].rid = i,
                                  ![o].prod = rows[i].table]
    /\ UNCHANGED registryVars

\* This transaction has no lock_timeout: its DETACH joins the queue for the
\* lock of the parent and stays in it as long as it takes.
AwaitLock(o) ==
    /\ Asked(o, "drop", "remove")
    /\ ops[o].prod
    /\ Blocked(ops[o].rid, ops[o].req.name)
    /\ ops' = [ops EXCEPT ![o].pc = "wait"]
    /\ UNCHANGED registryVars

\* Only a recorded production_table is dropped.
RemovePartition(o) ==
    LET i == ops[o].rid IN
    /\ Asked(o, "drop", "remove") \/ Asked(o, "wait", "remove")
    /\ ops[o].prod => ~Blocked(i, ops[o].req.name)
    /\ ops[o].pc = "wait" => partition[i] # None
    /\ partition' = IF ops[o].prod THEN [partition EXCEPT ![i] = None] ELSE partition
    /\ ops' = [ops EXCEPT ![o].pc = "delete", ![o].dropped = ops[o].prod]
    /\ UNCHANGED <<families, rows, runs, incoming, staging, rejects, held>>

\* Another removal has dropped the table that this one waited to detach.
DetachFails(o) ==
    /\ Asked(o, "wait", "remove")
    /\ FamilyOf[ops[o].req.name] \notin held
    /\ partition[ops[o].rid] = None
    /\ EndOperation(o, "failed")
    /\ UNCHANGED registryVars

\* The row goes, and the runs that refer to it with it.
RemoveRow(o) ==
    LET i == ops[o].rid IN
    /\ Asked(o, "delete", "remove")
    /\ rows' = [rows EXCEPT ![i] = None]
    /\ runs' = [p \in Importers |->
                  IF runs[p] # None /\ runs[p].release = i THEN None ELSE runs[p]]
    /\ EndOperation(o, "done")
    /\ UNCHANGED <<families, partition, incoming, staging, rejects, held>>

-----------------------------------------------------------------------------
(* validate, clean-staging                                                 *)

Validate(o) ==
    /\ Asked(o, "start", "validate")
    /\ \E i \in Named(o) :
          IF rows[i].table
          THEN ops' = [ops EXCEPT ![o].pc = "check", ![o].rid = i]
          ELSE EndOperation(o, "failed")
    /\ UNCHANGED registryVars

\* The production checks alone, over whatever the partition holds.
ValidatePartition(o) ==
    LET rows_of == partition[ops[o].rid] IN
    /\ Asked(o, "check", "validate")
    /\ IF rows_of = None
       THEN EndOperation(o, "failed")
       ELSE ops' = [ops EXCEPT ![o].pc = "commit",
                               ![o].status = ProductionStatus[rows_of]]
    /\ UNCHANGED registryVars

ValidateCommit(o) ==
    LET i == ops[o].rid IN
    /\ Asked(o, "commit", "validate")
    /\ IF Exists(i)
       THEN /\ rows' = [rows EXCEPT ![i].validation = ops[o].status]
            /\ EndOperation(o, "done")
       ELSE UNCHANGED rows /\ EndOperation(o, "failed")
    /\ UNCHANGED <<families, runs, partition, incoming, staging, rejects, held>>

CleanStaging(o) ==
    /\ Asked(o, "start", "clean")
    /\ staging' = [n \in Names |-> None]
    /\ rejects' = [n \in Names |-> None]
    /\ EndOperation(o, "done")
    /\ UNCHANGED <<families, rows, runs, partition, incoming, held>>

-----------------------------------------------------------------------------
\* resolve_release() finds nothing.
UnknownRelease(o) ==
    /\ ops[o].pc = "start"
    /\ ops[o].req.kind \in {"deactivate", "remove", "validate"}
    /\ Named(o) = {}
    /\ EndOperation(o, "failed")
    /\ UNCHANGED registryVars

\* A statement raises, or the process is killed: the transaction in
\* progress rolls back and the ones already committed stay.
Interrupt(o) ==
    /\ OperatorFaults
    /\ Busy(o)
    /\ EndOperation(o, "crashed")
    /\ UNCHANGED registryVars

OperatorStep(o) ==
    \/ Activate(o) \/ ActivateNothing(o) \/ ActivateCommit(o)
    \/ Deactivate(o) \/ DeactivateCommit(o)
    \/ Remove(o) \/ AwaitLock(o) \/ RemovePartition(o) \/ DetachFails(o) \/ RemoveRow(o)
    \/ Validate(o) \/ ValidatePartition(o) \/ ValidateCommit(o)
    \/ CleanStaging(o) \/ UnknownRelease(o)
=============================================================================
