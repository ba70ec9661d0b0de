------------------------- MODULE LifecycleInvariant -------------------------
(***************************************************************************)
(* The inductive invariant of Lifecycle, which LifecycleProofs proves and  *)
(* TLC checks first.  It says what the local variables of an attempt or a  *)
(* command still tell of a registry that others have changed since.        *)
(***************************************************************************)
EXTENDS Lifecycle

\* i has been inserted, and possibly removed again: it never will be again.
Issued(i) ==
    i \in Importers => imp[i].pc \notin {"idle", "sync", "open", "openRun"}

\* production_table is never reset, so what was built stays built.
Usable(i) == i \in Ids /\ Issued(i) /\ (Exists(i) => rows[i].table)

Kept(i) == partition[i] # None \/ RemovalUnderWay(i)

Opened == {"runId", "stage", "build", "swap", "finalize", "finalizeCommit", "readBack",
           "activate", "cleanup"}

Unopened == {"idle", "sync", "open", "openRun", "skipActivate", "skipReport"}

\* The run of an attempt outlives its release by no more than the cascade.
RunOpen(p) ==
    /\ imp[p].pc \in Unopened => runs[p] = None
    /\ imp[p].pc \in Unopened \cup {"runId"} => ~imp[p].runId
    /\ imp[p].pc \in Opened \ {"runId"} => imp[p].runId
    /\ imp[p].pc \in Opened =>
          /\ imp[p].rid \in Ids
          /\ Issued(imp[p].rid)
          /\ Exists(imp[p].rid) => runs[p] # None /\ runs[p].release = imp[p].rid
    /\ /\ runs[p] # None
       /\ runs[p].status = "running"
       => \/ imp[p].pc \in {"runId", "stage", "build", "swap", "finalize", "finalizeCommit"}
          \/ imp[p].pc \in Recording \cup {"crashed"}
          \/ imp[p].pc = "failed" /\ (imp[p].unrecorded \/ ~imp[p].runId)

\* What an attempt carries from one transaction to the next.
AttemptOK(p) ==
    /\ Live(p) => imp[p].req # None
    /\ RunOpen(p)
    /\ At(p, "openRun") =>
          imp[p].rid = p \/ (imp[p].rid \in Ids /\ Issued(imp[p].rid))
    /\ imp[p].pc \in {"swap", "finalize", "finalizeCommit"} => imp[p].imported # None
    /\ imp[p].pc \in {"finalize", "finalizeCommit"} => Kept(imp[p].rid)
    /\ At(p, "finalizeCommit") =>
          /\ imp[p].target = imp[p].rid
          /\ imp[p].loaded # None
          /\ imp[p].loaded.table => Usable(imp[p].rid)
    /\ At(p, "skipReport") => imp[p].target \in Ids
    /\ At(p, "activate") \/ At(p, "skipActivate") =>
          /\ Usable(imp[p].target)
          /\ imp[p].current # None => Usable(imp[p].current)
    /\ At(p, "recordCommit") /\ imp[p].target # None => imp[p].loaded # None

\* What an operator command carries.
CommandOK(o) ==
    /\ Busy(o) => ops[o].req # None
    /\ ops[o].dropped => ops[o].pc \in {"delete"} \cup OperatorEnded
    /\ ops[o].pc \in {"drop", "wait", "delete", "check"} => ops[o].rid \in Ids
    /\ Asked(o, "commit", "activate") \/ Asked(o, "commit", "deactivate")
          => Usable(ops[o].rid)
    /\ Asked(o, "commit", "activate") /\ ops[o].current # None => Usable(ops[o].current)
    /\ Asked(o, "commit", "validate") => ops[o].rid \in Ids /\ ops[o].status # None

RowsOK ==
    \A i \in Ids : Exists(i) =>
        /\ Issued(i)
        /\ rows[i].state \in Built => rows[i].table
        /\ rows[i].table => Kept(i)

Inv ==
    /\ TypeOK
    /\ OneActivePerFamily
    /\ RowsOK
    /\ \A p \in Importers : AttemptOK(p)
    /\ \A o \in Operators : CommandOK(o)
=============================================================================
