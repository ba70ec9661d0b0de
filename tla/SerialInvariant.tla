--------------------------- MODULE SerialInvariant ---------------------------
(***************************************************************************)
(* The inductive invariant of Lifecycle with one process at a time, which  *)
(* SerialProofs proves and TLC checks first.  Where LifecycleInvariant     *)
(* says what a process may still rely on, this says that what it loaded is *)
(* what there is: nobody has changed the registry since.                   *)
(***************************************************************************)
EXTENDS LifecycleInvariant

\* Nobody starts while somebody is at work.
OneAtATime ==
    /\ \A p, q \in Importers : Live(p) /\ Live(q) => p = q
    /\ \A o, u \in Operators : Busy(o) /\ Busy(u) => o = u
    /\ \A p \in Importers, o \in Operators : ~(Live(p) /\ Busy(o))

\* A tree that passes every critical check.
Checked(t) == StagingStatus[t] # "failed" /\ ProductionStatus[t] # "failed"

\* The unique constraint of catalog_release.
NamesAreUnique ==
    \A i, j \in Ids : Exists(i) /\ Exists(j) /\ rows[i].name = rows[j].name => i = j

PartitionsAreChecked == \A i \in Ids : partition[i] # None => Checked(partition[i])

\* No check that was run over a built release has failed.
BuiltRowsPassed ==
    \A i \in Ids : Exists(i) /\ rows[i].state \in Built => rows[i].validation # "failed"

\* Where nobody asks for `validate`.
NoRevalidation == \A q \in OperatorRequests : q.kind # "validate"

\* The recorded status is that of the rows served, but for what `validate`
\* makes of it.
RowsAreDescribed ==
    /\ RowDescribesPartition
    /\ NoRevalidation =>
          \A i \in Ids :
              Exists(i) /\ rows[i].state \in Built /\ partition[i] # None
                  => \/ rows[i].validation = Summarize(StagingStatus[partition[i]],
                                                       ProductionStatus[partition[i]])
                     \/ UnaccountedSwap(i)

\* The release of id i that a request for name n found is still there, in a
\* state of the set s.
Found(i, n, s) == i \in Ids /\ Exists(i) /\ rows[i].name = n /\ rows[i].state \in s

\* The active release an activation loaded is still the active one.
Supersedes(c, n) ==
    IF c = None THEN ActiveIds(FamilyOf[n]) = {} ELSE c \in ActiveIds(FamilyOf[n])

\* was_active is still right, and an ACTIVE release is replaced by force.
OwnRelease(p) ==
    LET i == imp[p].rid  q == imp[p].req IN
    /\ Found(i, q.name, States)
    /\ imp[p].wasActive <=> rows[i].state = "active"
    /\ rows[i].state = "active" => q.mode = "force"

\* What attempt p has published and accounted for.
Published(p) ==
    LET i == imp[p].rid  q == imp[p].req IN
    /\ Found(i, q.name, {"active", "ready"})
    /\ imp[p].imported = q.src
    /\ partition[i] = q.src

\* What attempt p loaded or did is what the registry says.
AttemptNow(p) ==
    LET i == imp[p].rid  q == imp[p].req  t == imp[p].target IN
    /\ imp[p].swapped => imp[p].pc \in {"finalize", "finalizeCommit"} \cup Recording \cup ImportEnded
    /\ imp[p].pc \in {"idle", "sync", "open"} => ~imp[p].wasActive
    /\ At(p, "openRun") =>
          IF i = p THEN IdsNamed(q.name) = {} /\ ~imp[p].wasActive ELSE OwnRelease(p)
    /\ imp[p].pc \in {"runId", "stage", "build", "swap", "finalize", "finalizeCommit"}
          => OwnRelease(p)
    /\ At(p, "build") => staging[q.name] = q.src /\ StagingStatus[q.src] # "failed"
    /\ imp[p].pc \in {"swap", "finalize", "finalizeCommit"} =>
          imp[p].imported = q.src /\ Checked(q.src)
    /\ At(p, "swap") => incoming[i] = q.src
    /\ imp[p].pc \in {"finalize", "finalizeCommit"} => partition[i] = q.src
    /\ At(p, "finalizeCommit") => imp[p].loaded = rows[i]
    /\ At(p, "readBack") => Published(p) /\ (imp[p].wasActive <=> rows[i].state = "active")
    /\ At(p, "activate") =>
          /\ t = i /\ Published(p) /\ rows[i].state = "ready"
          /\ q.activate /\ Gate(FinalStatus(p), q) = "activate"
    /\ At(p, "skipActivate") =>
          /\ Found(t, q.name, Activatable)
          /\ q.activate /\ Gate(rows[t].validation, q) = "activate"
          /\ rows[t].checksum = q.src
    /\ At(p, "skipReport") => Found(t, q.name, {"active"}) /\ rows[t].checksum = q.src
    /\ At(p, "activate") \/ At(p, "skipActivate") => Supersedes(imp[p].current, q.name)
    /\ At(p, "cleanup") => Published(p)
    /\ At(p, "recordCommit") /\ t # None => Found(t, q.name, States) /\ imp[p].loaded = rows[t]

\* What command o loaded or did is what the registry says.
CommandNow(o) ==
    LET i == ops[o].rid  q == ops[o].req IN
    /\ Busy(o) => q \in OperatorRequests
    /\ Asked(o, "commit", "activate") =>
          Found(i, q.name, Activatable) /\ Supersedes(ops[o].current, q.name)
    /\ Asked(o, "commit", "deactivate") => Found(i, q.name, {"active"})
    /\ Asked(o, "commit", "validate") => ops[o].status # "failed"
    /\ ops[o].pc \in {"drop", "wait", "delete"} =>
          /\ Found(i, q.name, States)
          /\ rows[i].state = "active" => q.force
          /\ ops[o].prod <=> rows[i].table
    /\ Asked(o, "delete", "remove") /\ ops[o].prod => partition[i] = None
    /\ ops[o].pc = "wait" => partition[i] # None
    /\ ops[o].pc \in {"commit", "drop", "wait", "delete", "check"} => Found(i, q.name, States)
    /\ ops[o].pc \in {"drop", "wait", "delete"} => q.kind = "remove"
    /\ ops[o].pc = "check" => q.kind = "validate"
    /\ ops[o].pc = "commit" => q.kind \in {"activate", "deactivate", "validate"}

SerialInv ==
    /\ OneAtATime
    /\ NamesAreUnique
    /\ PartitionsAreChecked
    /\ BuiltRowsPassed
    /\ RowsAreDescribed
    /\ \A p \in Importers : AttemptNow(p)
    /\ \A o \in Operators : CommandNow(o)
=============================================================================
