------------------------------ MODULE ImportJob ------------------------------
(***************************************************************************)
(* "skycat import" as a Kubernetes Job or a shell sees it: the import of   *)
(* Lifecycle, what its report says of the activation, and the exit code    *)
(* that the command makes of its outcome (import_cmd and _FriendlyGroup of *)
(* cli/main.py).  An importer is one pod: nothing restarts it.  Every step *)
(* is a step of Lifecycle; job only looks on.  A command that ends before  *)
(* it connects, because the source is not there (exit 1) or the database   *)
(* is a reserved one (exit 2), leaves no trace and is left out.            *)
(***************************************************************************)
EXTENDS Lifecycle

VARIABLE job  \* job[p]: what the process of attempt p knows besides imp[p]

jobVars == <<vars, job>>

\* Why an attempt raises.  A conflict is a registry or a table that is not as
\* the attempt left it; connect is an error of its first statement.
Causes == {"active", "gate", "critical", "conflict", "lock", "connect", "driver"}

\* 128 + SIGKILL.
Killed == 137

Job == [activated: BOOLEAN,           \* report.activated
        cause: Causes \cup {None},
        exit: {None, 0, 1, 2, Killed}]

\* None is neither a cause nor a code.
ASSUME JobAssumption == None \notin Causes /\ None \notin {0, 1, 2, Killed}

NewJob == [activated |-> FALSE, cause |-> None, exit |-> None]

JobInit == Init /\ job = [p \in Importers |-> NewJob]

-----------------------------------------------------------------------------
(* The report                                                              *)

IsActive(i) == Exists(i) /\ rows[i].state = "active"

\* The assignments to report.activated: the skip of a release that is ACTIVE,
\* a replace of one, and an activation that was committed or had nothing to do.
ReportsActive(p) ==
    \/ At(p, "open") /\ \E i \in IdsNamed(imp[p].req.name) : IsActive(i)
    \/ At(p, "readBack") /\ imp[p].wasActive
    \/ /\ At(p, "readBack")
       /\ imp[p].req.activate
       /\ Gate(FinalStatus(p), imp[p].req) = "activate"
       /\ imp'[p].pc = "cleanup"
    \/ At(p, "skipActivate") \/ At(p, "activate")

\* Which raise of the try block an attempt that now goes to its except branch
\* has come from, when no statement failed.
Raised(p) ==
    CASE At(p, "open") ->
            IF \E i \in IdsNamed(imp[p].req.name) : Unchanged(rows[i], imp[p].req)
            THEN "gate" ELSE "active"
      [] At(p, "stage") -> "critical"
      [] At(p, "build") -> IF staging[imp[p].req.name] = None THEN "conflict" ELSE "critical"
      [] At(p, "swap") /\ SwapWaits(p) -> "lock"
      [] At(p, "readBack") /\ Exists(imp[p].rid)
         /\ Gate(FinalStatus(p), imp[p].req) = "refuse" -> "gate"
      [] OTHER -> "conflict"

-----------------------------------------------------------------------------
(* The exit code                                                           *)

\* Mutant of ExitOf: a release that is left READY is a success.
ExitOfImport(p, activated) == 0

\* import_cmd after import_release() returned: --activate that did not.
ExitOf(p, activated) == IF imp[p].req.activate /\ ~activated THEN 1 ELSE 0

\* import_release() wraps whatever the try block raised in an IngestionError,
\* so that _FriendlyGroup sees nothing else.
ExitOfFailure == 1

Ending(p) == ~Ended(p) /\ imp'[p].pc \in ImportEnded

\* What a step of Lifecycle means to the job of p; fault says whether it is one.
Account(p, fault) ==
    LET reports == job[p].activated \/ (ReportsActive(p) /\ imp'[p].pc # "record") IN
    job' = [job EXCEPT ![p] =
        IF Ending(p)
        THEN [NewJob EXCEPT
                !.exit = CASE imp'[p].pc = "done" -> ExitOf(p, reports)
                           [] imp'[p].pc = "failed" -> ExitOfFailure
                           [] OTHER -> Killed]
        ELSE IF imp'[p].pc = "record" /\ imp[p].pc \in TryBlock
        THEN [@ EXCEPT !.activated = FALSE,
                       !.cause = CASE ~fault -> Raised(p)
                                   [] At(p, "sync") -> "connect"
                                   [] OTHER -> "driver"]
        ELSE [@ EXCEPT !.activated = reports]]

-----------------------------------------------------------------------------
JobNext ==
    \/ \E p \in Importers :
          \/ MayStart /\ BeginImport(p) /\ UNCHANGED <<ops, job>>
          \/ Importer(p) /\ Account(p, FALSE)
          \/ ImportFault(p) /\ UNCHANGED ops /\ Account(p, TRUE)
    \/ \E o \in Operators :
          \/ MayStart /\ BeginOperation(o) /\ UNCHANGED <<imp, job>>
          \/ Operator(o) /\ UNCHANGED job
          \/ Interrupt(o) /\ UNCHANGED <<imp, job>>
    \/ \E f \in LockHolders : LockHolder(f) /\ UNCHANGED <<imp, ops, job>>
    \/ Rest /\ UNCHANGED job

JobSpec == JobInit /\ [][JobNext]_jobVars

-----------------------------------------------------------------------------
(* What the exit code tells, one process at a time                         *)

Exits(p, code) == job[p].exit = None /\ job'[p].exit = code

\* The releases registered under a name when the step is over.
LeftNamed(n) == {i \in Ids : rows'[i] # None /\ rows'[i].name = n}

\* "An --activate that exits 0 did activate" (api-stability.md:59): whatever
\* path the attempt took, first import, skip, replace of the live release or
\* rollback to an older one, the release is ACTIVE when the command ends.
ExitZeroMeansActive ==
    [][\A p \in Importers :
          Exits(p, 0) /\ imp[p].req.activate
            => \E i \in LeftNamed(imp[p].req.name) : rows'[i].state = "active"]_jobVars

\* A command that exits 0 leaves the release with the rows of the tree it was
\* given, the skip included, except after an attempt cut short between swap
\* and finalize or a removal cut short between drop and delete.
ExitZeroMeansServed ==
    [][\A p \in Importers :
          Exits(p, 0)
            => \E i \in LeftNamed(imp[p].req.name) :
                  \/ partition'[i] = imp[p].req.src
                  \/ UnaccountedSwap(i)
                  \/ RemovalUnderWay(i)]_jobVars

Critical(t) == "failed" \in {StagingStatus[t], ProductionStatus[t]}

\* What killed and failed attempts leave behind, tables, builds, rows of every
\* state, never makes a later attempt fail: with nobody else at work, one that
\* meets no error and no lock fails for its own tree, or because the release
\* is ACTIVE and it was not forced.
FailureIsEarned ==
    [][\A p \in Importers :
          Exits(p, 1) /\ job[p].cause \notin {None, "driver", "connect", "lock"}
            => \/ job[p].cause = "critical" /\ Critical(imp[p].req.src)
               \/ job[p].cause = "active" /\ imp[p].req.mode # "force"]_jobVars

-----------------------------------------------------------------------------
(* What the exit code is said to tell                                      *)

\* "database connection/credential failures exit 2" (skycat-ingest.yaml:10;
\* the table of api-stability.md:60 says the same).  An attempt whose first
\* statement finds no server, or is refused, ends with 2.
ConnectionFailuresExit2 ==
    [][\A p \in Importers :
          Ending(p) /\ job[p].cause = "connect" => job'[p].exit \in {2, Killed}]_jobVars
=============================================================================
