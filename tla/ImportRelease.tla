---------------------------- MODULE ImportRelease ----------------------------
(***************************************************************************)
(* import_release() of skycat/ingestion/runner.py, one process per attempt.*)
(* Every transaction is a step of its own.  A transaction that decides on  *)
(* registry columns it loaded earlier is two steps, the load and the       *)
(* commit; DDL transactions, which hold their locks from the first         *)
(* statement, are one.  A step that raises goes to "record", the except    *)
(* branch that runs the failure recorder and re-raises.  An attempt meets  *)
(* the commands of Maintenance in the lock queue of a data table.          *)
(***************************************************************************)
EXTENDS Maintenance

CONSTANTS
    ImportRequests,  \* the arguments an operator may pass
    MaxLockAttempts, \* B2_LOCK_MAX_ATTEMPTS
    LockTimeoutSet,  \* whether the configured lock_timeout is above 0
    Faults           \* the faults a run of the model includes

\* force only matters with replace, so a request has one of three modes.
Request == [name: Names, src: Sources, mode: {"plain", "replace", "force"},
            activate: BOOLEAN, allow_warnings: BOOLEAN, keep_staging: BOOLEAN]

ASSUME ImportAssumption ==
    /\ ImportRequests \subseteq Request
    /\ MaxLockAttempts \in Nat \ {0}
    /\ LockTimeoutSet \in BOOLEAN
    /\ Faults \subseteq {"error", "crash", "recorder"}
    /\ None \notin Request

VARIABLE imp  \* imp[p]: where attempt p is, and its local variables

TryBlock == {"sync", "open", "skipActivate", "skipReport", "openRun", "runId",
             "stage", "build", "swap", "finalize", "finalizeCommit", "readBack",
             "activate", "cleanup"}
Recording == {"record", "recordCommit"}
ImportEnded == {"done", "failed", "crashed"}

Attempt ==
    [pc: {"idle"} \cup TryBlock \cup Recording \cup ImportEnded,
     req: Request \cup {None},       \* the arguments
     rid: Ids \cup {None},           \* release_id
     wasActive: BOOLEAN,             \* was_active
     runId: BOOLEAN,                 \* run_id is not None
     imported: Sources \cup {None},  \* the rows Phase B1 transformed
     tries: 0..(MaxLockAttempts - 1), \* lock timeouts of Phase B2 so far
     target: Ids \cup {None},        \* the release an open session has loaded
     loaded: Row \cup {None},        \* its columns, as loaded
     current: Ids \cup {None},       \* the active release an activation found
     swapped: BOOLEAN,               \* history: B2 committed, provenance not
     unrecorded: BOOLEAN]            \* history: the recorder itself failed

importVars == <<registryVars, imp>>

ImportTypeOK == imp \in [Importers -> Attempt]

NewAttempt ==
    [pc |-> "idle", req |-> None, rid |-> None, wasActive |-> FALSE,
     runId |-> FALSE, imported |-> None, tries |-> 0, target |-> None, loaded |-> None,
     current |-> None, swapped |-> FALSE, unrecorded |-> FALSE]

ImportInit == imp = [p \in Importers |-> NewAttempt]

At(p, l) == imp[p].pc = l
Goto(p, l) == imp' = [imp EXCEPT ![p].pc = l]

Live(p) == imp[p].pc \in TryBlock \cup Recording
Ended(p) == imp[p].pc \in ImportEnded

\* The except branch needs the names and the run, nothing else.  The release
\* id outlives an attempt only when its swap is not accounted for.
Raise(p) ==
    imp' = [imp EXCEPT ![p] = [NewAttempt EXCEPT
                !.pc = "record", !.req = imp[p].req, !.rid = imp[p].rid,
                !.runId = imp[p].runId, !.swapped = imp[p].swapped]]

Finish(p, l) ==
    imp' = [imp EXCEPT ![p] = [NewAttempt EXCEPT
                !.pc = l, !.swapped = imp[p].swapped, !.runId = imp[p].runId,
                !.rid = IF imp[p].swapped THEN imp[p].rid ELSE None]]

-----------------------------------------------------------------------------
(* Bookkeeping                                                             *)

\* Discovery and the checksum of the tree precede any connection; a tree
\* that is absent raises before the try block and leaves no trace.
BeginImport(p) ==
    /\ At(p, "idle")
    /\ \E q \in ImportRequests :
          imp' = [imp EXCEPT ![p].pc = "sync", ![p].req = q]
    /\ UNCHANGED registryVars

\* sync_family() in a transaction of its own.
SyncFamily(p) ==
    /\ At(p, "sync")
    /\ families' = families \cup {FamilyOf[imp[p].req.name]}
    /\ Goto(p, "open")
    /\ UNCHANGED <<rows, runs, partition, incoming, staging, rejects, held>>

\* Mutant of Unchanged: any completed import of the release will do.
UnchangedIfBuilt(row, q) == q.mode = "plain" /\ IsBuilt(row)

\* The idempotent skip: a completed, unchanged, non-replace re-import.
Unchanged(row, q) ==
    /\ q.mode = "plain"
    /\ row.checksum = q.src
    /\ IsBuilt(row)

\* An ACTIVE release is re-imported only with --replace --force.
MustForce(row, q) == row.state = "active" /\ q.mode # "force"

\* Mutant of Gate: warnings do not block.
GateIgnoringWarnings(status, q) == IF status = "failed" THEN "refuse" ELSE "activate"

\* What --activate does on a validation status.
Gate(status, q) ==
    CASE status = "failed" -> "refuse"
      [] status = "passed_with_warnings" /\ ~q.allow_warnings -> "hold"
      [] OTHER -> "activate"

\* Nothing is registered under the name: get_or_create_release() inserts.
OpenNewRelease(p) ==
    /\ At(p, "open")
    /\ IdsNamed(imp[p].req.name) = {}
    /\ imp' = [imp EXCEPT ![p].pc = "openRun", ![p].rid = p]
    /\ UNCHANGED registryVars

\* The skip returns, or on --activate consults the gate over the recorded
\* status and loads the active release an activation would supersede.
SkipUnchanged(p) ==
    LET q == imp[p].req  active == ActiveIds(FamilyOf[q.name]) IN
    /\ At(p, "open")
    /\ \E i \in IdsNamed(q.name) :
          LET gate == IF rows[i].state = "active" \/ ~q.activate THEN "hold"
                      ELSE Gate(rows[i].validation, q) IN
          /\ Unchanged(rows[i], q)
          /\ \/ gate = "hold" /\ Finish(p, "done")
             \/ gate = "refuse" /\ Raise(p)
             \/ /\ gate = "activate"
                /\ \E c \in IF active = {} THEN {None} ELSE active :
                      imp' = [imp EXCEPT ![p].pc = "skipActivate",
                                         ![p].target = i, ![p].current = c]
    /\ UNCHANGED registryVars

RefuseActive(p) ==
    LET q == imp[p].req IN
    /\ At(p, "open")
    /\ \E i \in IdsNamed(q.name) : ~Unchanged(rows[i], q) /\ MustForce(rows[i], q)
    /\ Raise(p)
    /\ UNCHANGED registryVars

\* was_active is decided here and not again.
OpenRelease(p) ==
    LET q == imp[p].req IN
    /\ At(p, "open")
    /\ \E i \in IdsNamed(q.name) :
          /\ ~Unchanged(rows[i], q)
          /\ ~MustForce(rows[i], q)
          /\ imp' = [imp EXCEPT ![p].pc = "openRun", ![p].rid = i,
                                ![p].wasActive = rows[i].state = "active"]
    /\ UNCHANGED registryVars

\* A new row collides with one registered meanwhile (unique constraint), or
\* the run refers to a release removed meanwhile (foreign key).
CannotOpenRun(p) ==
    IF imp[p].rid = p THEN IdsNamed(imp[p].req.name) # {} ELSE ~Exists(imp[p].rid)

\* Mutant of OpenRun: the provenance is written when the attempt starts.
OpenRunEagerly(p) ==
    LET i == imp[p].rid  q == imp[p].req IN
    /\ At(p, "openRun")
    /\ ~CannotOpenRun(p)
    /\ rows' = [rows EXCEPT ![i] = [(IF i = p THEN NewRow(q.name) ELSE rows[i])
                                      EXCEPT !.checksum = q.src]]
    /\ runs' = [runs EXCEPT ![p] = [release |-> i, status |-> "running"]]
    /\ Goto(p, "runId")
    /\ UNCHANGED <<families, partition, incoming, staging, rejects, held>>

\* The IngestionRun, and the release row if it is new, become visible.
\* Nothing else is written to the release row.
OpenRun(p) ==
    LET i == imp[p].rid  n == imp[p].req.name IN
    /\ At(p, "openRun")
    /\ ~CannotOpenRun(p)
    /\ rows' = IF i = p THEN [rows EXCEPT ![p] = NewRow(n)] ELSE rows
    /\ runs' = [runs EXCEPT ![p] = [release |-> i, status |-> "running"]]
    /\ Goto(p, "runId")
    /\ UNCHANGED <<families, partition, incoming, staging, rejects, held>>

\* The commit expires the row: run.id reads it again, in a transaction of its
\* own, and raises if it has gone with its release.  Until then the except
\* branch knows of no run.
ReadRunId(p) ==
    /\ At(p, "runId")
    /\ IF runs[p] # None
       THEN imp' = [imp EXCEPT ![p].pc = "stage", ![p].runId = TRUE]
       ELSE Raise(p)
    /\ UNCHANGED registryVars

OpenRunFails(p) ==
    /\ At(p, "openRun")
    /\ CannotOpenRun(p)
    /\ Raise(p)
    /\ UNCHANGED registryVars

-----------------------------------------------------------------------------
(* Phase A and Phase B1                                                    *)

\* Mutant of PhaseA: a critical staging check does not stop the attempt.
PhaseAUnchecked(p) ==
    LET q == imp[p].req IN
    /\ At(p, "stage")
    /\ staging' = [staging EXCEPT ![q.name] = q.src]
    /\ rejects' = [rejects EXCEPT ![q.name] = q.src]
    /\ Goto(p, "build")
    /\ UNCHANGED <<families, rows, runs, partition, incoming, held>>

\* Mutant of PhaseA: the staging table is created without dropping the one an
\* earlier attempt left.
PhaseAOnce(p) ==
    LET q == imp[p].req  fresh == staging[q.name] = None IN
    /\ At(p, "stage")
    /\ staging' = IF fresh THEN [staging EXCEPT ![q.name] = q.src] ELSE staging
    /\ rejects' = IF fresh THEN [rejects EXCEPT ![q.name] = q.src] ELSE rejects
    /\ IF ~fresh \/ StagingStatus[q.src] = "failed" THEN Raise(p) ELSE Goto(p, "build")
    /\ UNCHANGED <<families, rows, runs, partition, incoming, held>>

\* Load, validate and keep the rejects in one transaction.  The tables are
\* named after the release, not the attempt, and outlive a failed check.
PhaseA(p) ==
    LET q == imp[p].req IN
    /\ At(p, "stage")
    /\ staging' = [staging EXCEPT ![q.name] = q.src]
    /\ rejects' = [rejects EXCEPT ![q.name] = q.src]
    /\ IF StagingStatus[q.src] = "failed" THEN Raise(p) ELSE Goto(p, "build")
    /\ UNCHANGED <<families, rows, runs, partition, incoming, held>>

\* A DETACH waits for the lock on the data table of f with no lock_timeout:
\* the requests that come after it wait behind it.
Queued(f) ==
    \/ \E o \in Operators : ops[o].pc = "wait" /\ FamilyOf[ops[o].req.name] = f
    \/ /\ ~LockTimeoutSet
       /\ \E p \in Importers : /\ At(p, "swap")
                              /\ FamilyOf[imp[p].req.name] = f
                              /\ Blocked(imp[p].rid, imp[p].req.name)

\* The replacement is rebuilt from whatever the staging table holds by now.
\* CREATE TABLE LIKE asks for the lock of a reader, with no lock_timeout.
PhaseB1(p) ==
    LET i == imp[p].rid  rebuilt == staging[imp[p].req.name] IN
    /\ At(p, "build")
    /\ ~Queued(FamilyOf[imp[p].req.name])
    /\ rebuilt # None
    /\ ProductionStatus[rebuilt] # "failed"
    /\ incoming' = [incoming EXCEPT ![i] = rebuilt]
    /\ imp' = [imp EXCEPT ![p].pc = "swap", ![p].imported = rebuilt]
    /\ UNCHANGED <<families, rows, runs, partition, staging, rejects, held>>

\* No staging table, or a critical production check: the build rolls back,
\* and with it the drop of a build that an earlier attempt left behind.
PhaseB1Fails(p) ==
    LET rebuilt == staging[imp[p].req.name] IN
    /\ At(p, "build")
    /\ ~Queued(FamilyOf[imp[p].req.name])
    /\ rebuilt # None => ProductionStatus[rebuilt] = "failed"
    /\ Raise(p)
    /\ UNCHANGED registryVars

-----------------------------------------------------------------------------
(* Phase B2                                                                *)

\* The DETACH of the old partition cannot have its lock, or the ATTACH of a
\* first one has to stand behind somebody else's DETACH.
SwapWaits(p) ==
    LET i == imp[p].rid  n == imp[p].req.name IN
    \/ Blocked(i, n)
    \/ /\ incoming[i] # None
       /\ FamilyOf[n] \in held
       /\ Queued(FamilyOf[n])

\* Detach and drop the old partition, rename the replacement, attach it.
Swap(p) ==
    LET i == imp[p].rid IN
    /\ At(p, "swap")
    /\ ~SwapWaits(p)
    /\ incoming[i] # None
    /\ partition' = [partition EXCEPT ![i] = incoming[i]]
    /\ incoming' = [incoming EXCEPT ![i] = None]
    /\ imp' = [imp EXCEPT ![p].pc = "finalize", ![p].swapped = TRUE, ![p].tries = 0]
    /\ UNCHANGED <<families, rows, runs, staging, rejects, held>>

\* The replacement is gone: the rename fails and the drop rolls back.
SwapFails(p) ==
    LET i == imp[p].rid IN
    /\ At(p, "swap")
    /\ ~Blocked(i, imp[p].req.name)
    /\ incoming[i] = None
    /\ Raise(p)
    /\ UNCHANGED registryVars

\* Mutant of LockTimeout: the attempts are not counted.
LockTimeoutUncounted(p) ==
    /\ LockTimeoutSet
    /\ At(p, "swap")
    /\ SwapWaits(p)
    /\ imp' = [imp EXCEPT ![p].tries = (@ + 1) % MaxLockAttempts]
    /\ UNCHANGED registryVars

\* Mutant of LockTimeout: one attempt more than the bound.
LockTimeoutOnceMore(p) ==
    /\ LockTimeoutSet
    /\ At(p, "swap")
    /\ SwapWaits(p)
    /\ IF imp[p].tries < MaxLockAttempts
       THEN imp' = [imp EXCEPT ![p].tries = @ + 1]
       ELSE Raise(p)
    /\ UNCHANGED registryVars

\* Mutant of LockTimeout: the old partition is dropped before the swap.
LockTimeoutAfterDrop(p) ==
    /\ LockTimeoutSet
    /\ At(p, "swap")
    /\ SwapWaits(p)
    /\ partition' = [partition EXCEPT ![imp[p].rid] = None]
    /\ Raise(p)
    /\ UNCHANGED <<families, rows, runs, incoming, staging, rejects, held>>

\* lock_timeout, where one is set, expires: the transaction rolls back and is
\* tried again, a bounded number of times.
LockTimeout(p) ==
    /\ LockTimeoutSet
    /\ At(p, "swap")
    /\ SwapWaits(p)
    /\ IF imp[p].tries + 1 < MaxLockAttempts
       THEN imp' = [imp EXCEPT ![p].tries = @ + 1]
       ELSE Raise(p)
    /\ UNCHANGED registryVars

-----------------------------------------------------------------------------
(* Finalize, activate, clean up                                            *)

FinalStatus(p) == Summarize(StagingStatus[imp[p].req.src],
                            ProductionStatus[imp[p].imported])

\* Mutant of FinalState: a replaced release always lands READY.
AlwaysReady(p) == "ready"

FinalState(p) == IF imp[p].wasActive THEN "active" ELSE "ready"

\* The finalize session loads the release (require_row raises if it is gone).
Finalize(p) ==
    LET i == imp[p].rid IN
    /\ At(p, "finalize")
    /\ IF Exists(i)
       THEN imp' = [imp EXCEPT ![p].pc = "finalizeCommit", ![p].target = i,
                               ![p].loaded = rows[i]]
       ELSE Raise(p)
    /\ UNCHANGED registryVars

\* The release table after the flush of a finalize session.
Finalized(p) ==
    LET loaded == imp[p].loaded IN
    [rows EXCEPT ![imp[p].target] =
        Flush(@, loaded, [loaded EXCEPT !.state = FinalState(p),
                                        !.checksum = imp[p].req.src,
                                        !.table = TRUE,
                                        !.validation = FinalStatus(p)])]

\* The UPDATE finds no row, or the unique index refuses a second ACTIVE one.
CannotFinalize(p) == Exists(imp[p].target) => ~UniqueActive(Finalized(p))

\* Provenance, state, validation status and the run's success, in one commit.
FinalizeCommit(p) ==
    /\ At(p, "finalizeCommit")
    /\ ~CannotFinalize(p)
    /\ rows' = Finalized(p)
    /\ runs' = [runs EXCEPT ![p].status = "succeeded"]
    /\ imp' = [imp EXCEPT ![p].pc = "readBack", ![p].swapped = FALSE,
                          ![p].target = None, ![p].loaded = None]
    /\ UNCHANGED <<families, partition, incoming, staging, rejects, held>>

FinalizeCommitFails(p) ==
    /\ At(p, "finalizeCommit")
    /\ CannotFinalize(p)
    /\ Raise(p)
    /\ UNCHANGED registryVars

\* The release is reloaded; --activate consults the gate over the status of
\* this import, and an activation loads the active release it supersedes.
ReadBack(p) ==
    LET i == imp[p].rid
        active == ActiveIds(FamilyOf[imp[p].req.name])
        gate == IF imp[p].wasActive \/ ~imp[p].req.activate THEN "hold"
                ELSE Gate(FinalStatus(p), imp[p].req)
    IN
    /\ At(p, "readBack")
    /\ \/ /\ Exists(i)
          /\ gate = "hold" \/ (gate = "activate" /\ rows[i].state = "active")
          /\ Goto(p, "cleanup")
       \/ /\ Exists(i)
          /\ gate = "activate" /\ rows[i].state \in Activatable
          /\ \E c \in IF active = {} THEN {None} ELSE active :
                imp' = [imp EXCEPT ![p].pc = "activate", ![p].target = i,
                                   ![p].current = c]
       \/ /\ Exists(i) => \/ gate = "refuse"
                          \/ /\ gate = "activate"
                             /\ rows[i].state \notin Activatable \cup {"active"}
          /\ Raise(p)
    /\ UNCHANGED registryVars

\* activate_release() and the commit, from the skip or after a finalize.
ActivateImported(p) ==
    LET i == imp[p].target  c == imp[p].current IN
    /\ At(p, "skipActivate") \/ At(p, "activate")
    /\ ActivationCommits(i, c)
    /\ rows' = WithActive(i, c)
    /\ imp' = [imp EXCEPT ![p].pc = IF At(p, "skipActivate") THEN "skipReport" ELSE "cleanup",
                          ![p].current = None]
    /\ UNCHANGED <<families, runs, partition, incoming, staging, rejects, held>>

ActivateImportedFails(p) ==
    /\ At(p, "skipActivate") \/ At(p, "activate")
    /\ ~ActivationCommits(imp[p].target, imp[p].current)
    /\ Raise(p)
    /\ UNCHANGED registryVars

\* The event of the skip names the release: its row, expired by the commit of
\* the activation, is read again.
ReportSkip(p) ==
    /\ At(p, "skipReport")
    /\ IF Exists(imp[p].target) THEN Finish(p, "done") ELSE Raise(p)
    /\ UNCHANGED registryVars

\* The staging table goes, the rejects stay.
Cleanup(p) ==
    LET q == imp[p].req IN
    /\ At(p, "cleanup")
    /\ staging' = IF q.keep_staging THEN staging ELSE [staging EXCEPT ![q.name] = None]
    /\ Finish(p, "done")
    /\ UNCHANGED <<families, rows, runs, partition, incoming, rejects, held>>

-----------------------------------------------------------------------------
(* The failure recorder                                                    *)

\* Mutant of RecordedState: whatever stood behind the release, it failed.
AlwaysFailed(row) == "failed"

\* A release with a built partition is not FAILED because a later attempt is.
RecordedState(row) == IF IsBuilt(row) THEN row.state ELSE "failed"

\* The release is looked up by family and name, not by the attempt's id.
Record(p) ==
    LET named == IdsNamed(imp[p].req.name) IN
    /\ At(p, "record")
    /\ \E i \in IF named = {} THEN {None} ELSE named :
          imp' = [imp EXCEPT ![p].pc = "recordCommit", ![p].target = i,
                             ![p].loaded = IF i = None THEN None ELSE rows[i]]
    /\ UNCHANGED registryVars

\* Mutant of RunFailed: the run of a release that stays built is left alone.
RunFailedIfUnbuilt(p) ==
    IF /\ imp[p].runId /\ runs[p] # None /\ runs[p].status = "running"
       /\ imp[p].loaded # None /\ ~IsBuilt(imp[p].loaded)
    THEN [runs EXCEPT ![p].status = "failed"]
    ELSE runs

\* The run is looked for only if its id is known.
RunFailed(p) ==
    IF imp[p].runId /\ runs[p] # None /\ runs[p].status = "running"
    THEN [runs EXCEPT ![p].status = "failed"]
    ELSE runs

RecordCommit(p) ==
    LET i == imp[p].target  loaded == imp[p].loaded IN
    /\ At(p, "recordCommit")
    /\ i # None => Exists(i)
    /\ rows' = IF i = None THEN rows
               ELSE [rows EXCEPT ![i] =
                       Flush(@, loaded, [loaded EXCEPT !.state = RecordedState(loaded)])]
    /\ runs' = RunFailed(p)
    /\ Finish(p, "failed")
    /\ UNCHANGED <<families, partition, incoming, staging, rejects, held>>

\* The recorder swallows its own exception; nothing of it is committed.
Unrecorded(p) ==
    imp' = [imp EXCEPT ![p] = [NewAttempt EXCEPT
                !.pc = "failed", !.unrecorded = TRUE, !.swapped = imp[p].swapped,
                !.rid = IF imp[p].swapped THEN imp[p].rid ELSE None]]

\* The release was removed under the recorder: StaleDataError.
RecordCommitFails(p) ==
    /\ At(p, "recordCommit")
    /\ imp[p].target # None
    /\ ~Exists(imp[p].target)
    /\ Unrecorded(p)
    /\ UNCHANGED registryVars

-----------------------------------------------------------------------------
(* Faults: any statement may raise, the recorder's too; the process may be *)
(* killed between two commits.  An open transaction rolls back.            *)

DatabaseError(p) ==
    /\ "error" \in Faults
    /\ imp[p].pc \in TryBlock
    /\ Raise(p)
    /\ UNCHANGED registryVars

RecorderError(p) ==
    /\ "recorder" \in Faults
    /\ imp[p].pc \in Recording
    /\ Unrecorded(p)
    /\ UNCHANGED registryVars

Crash(p) ==
    /\ "crash" \in Faults
    /\ Live(p)
    /\ Finish(p, "crashed")
    /\ UNCHANGED registryVars

-----------------------------------------------------------------------------
ImportStep(p) ==
    \/ SyncFamily(p) \/ OpenNewRelease(p) \/ SkipUnchanged(p) \/ RefuseActive(p)
    \/ OpenRelease(p) \/ OpenRun(p) \/ OpenRunFails(p) \/ ReadRunId(p)
    \/ PhaseA(p) \/ PhaseB1(p) \/ PhaseB1Fails(p)
    \/ Swap(p) \/ SwapFails(p) \/ LockTimeout(p)
    \/ Finalize(p) \/ FinalizeCommit(p) \/ FinalizeCommitFails(p) \/ ReadBack(p)
    \/ ActivateImported(p) \/ ActivateImportedFails(p) \/ ReportSkip(p) \/ Cleanup(p)
    \/ Record(p) \/ RecordCommit(p) \/ RecordCommitFails(p)

ImportFault(p) == DatabaseError(p) \/ RecorderError(p) \/ Crash(p)
=============================================================================
